--------------------------- MODULE XpiderSocketProofs ---------------------------
(***************************************************************************)
(* The older program's links to the robots: the threads, and the frames    *)
(* on the stream.                                                          *)
(*                                                                         *)
(* First, the threads implement LossyFifo, one for each robot, for any     *)
(* number of robots and messages and all values of the timers.  The        *)
(* argument is that of XpiderSocketThreadProofs, with tx_queue_ in the     *)
(* place of the events and one difference: between the loop that writes    *)
(* the queue and the clear() behind it, what is in the write buffer is     *)
(* still in the queue.  Nothing of it is written twice, since the thread   *)
(* does nothing else in between; what was appended meanwhile is lost.      *)
(*                                                                         *)
(* Second, of RobotLink, for any messages, any cut of the stream into      *)
(* reads and any contents of the uninitialised receiver: frames are handed *)
(* over at most once and in order, and those that arrive whole are.        *)
(*                                                                         *)
(* Third, what the reader then knows: of each field what the last message  *)
(* that carries it said.  The offsets at which either version of           *)
(* GetMessage looks for the fields are the sums of the widths before them. *)
(***************************************************************************)
EXTENDS XpiderSocket, RobotLink, SequenceTheorems, NaturalsInduction,
        WellFoundedInduction, TLAPS

Ascending(s) == \A i, j \in 1..Len(s) : i < j /\ s[j] > 0 => s[i] < s[j]
Precedes(s, t) == \A i \in 1..Len(s), j \in 1..Len(t) : t[j] > 0 => s[i] < t[j]
UpTo(s, n) == \A i \in 1..Len(s) : s[i] <= n

\* Where a thread may be.
Where == {"starting", "top", "retrying", "waiting", "clearing", "leaving", "gone"}

Typed ==
  /\ thread \in [Robot -> Where]
  /\ tx_queue_ \in [Robot -> Seq(Nat)] /\ wbuf \in [Robot -> Seq(Nat)]
  /\ received \in [Robot -> Seq(Nat)] /\ appended \in [Robot -> Nat]
  /\ \A r \in Robot : appended[r] \in 0..MaxAppended[r]

\* Where robot r's messages are, as sequences.
Stages(queue, buffer, read, n) ==
  /\ Ascending(queue) /\ Ascending(buffer) /\ Ascending(read)
  /\ Precedes(read, queue) /\ Precedes(read, buffer)
  /\ UpTo(queue, n) /\ UpTo(buffer, n) /\ UpTo(read, n)

InOrder(r) ==
  /\ Stages(tx_queue_[r], wbuf[r], received[r], appended[r])
  /\ thread[r] # "clearing" => Precedes(wbuf[r], tx_queue_[r])

Inv == Typed /\ \A r \in Robot : InOrder(r)

-----------------------------------------------------------------------------
(* What the queues keep when something is taken out of them or put in.     *)

\* An item that may stand before those of t, and one that may stand behind those of s.
Older(x, t) == \A j \in 1..Len(t) : t[j] > 0 => x < t[j]
Younger(x, s) == x > 0 => \A i \in 1..Len(s) : s[i] < x

\* What is left of a queue keeps its place among the others.
LEMMA TailKeepsOrder ==
  ASSUME NEW s \in Seq(Nat), s # <<>>
  PROVE  /\ Tail(s) \in Seq(Nat)
         /\ Ascending(s) => Ascending(Tail(s))
         /\ \A t \in Seq(Nat) : Precedes(s, t) => Precedes(Tail(s), t)
         /\ \A t \in Seq(Nat) : Precedes(t, s) => Precedes(t, Tail(s))
         /\ \A n \in Int : UpTo(s, n) => UpTo(Tail(s), n)
  <1>1. /\ Tail(s) \in Seq(Nat) /\ Len(Tail(s)) = Len(s) - 1
        /\ \A i \in 1..Len(Tail(s)) : Tail(s)[i] = s[i + 1] /\ i + 1 \in 1..Len(s)
    OBVIOUS
  <1> QED
    BY <1>1 DEF Ascending, Precedes, UpTo

\* What is at the head of a queue is younger than all that precedes the queue, and
\* older than what comes behind it.
LEMMA HeadIsBetween ==
  ASSUME NEW s \in Seq(Nat), s # <<>>
  PROVE  /\ Head(s) \in Nat
         /\ \A t \in Seq(Nat) : Precedes(t, s) => Younger(Head(s), t)
         /\ \A t \in Seq(Nat) : Precedes(s, t) => Older(Head(s), t)
         /\ Ascending(s) => Older(Head(s), Tail(s))
         /\ \A n \in Int : UpTo(s, n) => Head(s) <= n
  <1>1. /\ 1 \in 1..Len(s) /\ Head(s) = s[1] /\ Len(Tail(s)) = Len(s) - 1
        /\ \A i \in 1..Len(Tail(s)) : Tail(s)[i] = s[i + 1] /\ i + 1 \in 1..Len(s) /\ 1 < i + 1
    OBVIOUS
  <1> QED
    BY <1>1 DEF Ascending, Precedes, UpTo, Older, Younger

\* An item may be appended to a queue if it is younger than what is in it and before
\* it and older than what is behind.
LEMMA AppendKeepsOrder ==
  ASSUME NEW s \in Seq(Nat), NEW x \in Nat
  PROVE  /\ Append(s, x) \in Seq(Nat)
         /\ Ascending(s) /\ Younger(x, s) => Ascending(Append(s, x))
         /\ \A t \in Seq(Nat) : Precedes(t, s) /\ Younger(x, t) => Precedes(t, Append(s, x))
         /\ \A t \in Seq(Nat) : Precedes(s, t) /\ Older(x, t) => Precedes(Append(s, x), t)
         /\ \A n \in Int : UpTo(s, n) /\ x <= n => UpTo(Append(s, x), n)
  <1>1. /\ Append(s, x) \in Seq(Nat) /\ Len(Append(s, x)) = Len(s) + 1
        /\ \A i \in 1..(Len(s) + 1) : Append(s, x)[i] = IF i = Len(s) + 1 THEN x ELSE s[i]
        /\ \A i \in 1..(Len(s) + 1) : i = Len(s) + 1 \/ i \in 1..Len(s)
        /\ \A i \in 1..Len(s) : ~(Len(s) + 1 < i)
    OBVIOUS
  <1> QED
    BY <1>1 DEF Ascending, Precedes, UpTo, Older, Younger

\* What is no message may stand anywhere.
LEMMA NoMessageAnywhere ==
  ASSUME NEW x \in Nat, x <= 0
  PROVE  \A s \in Seq(Nat) : Younger(x, s) /\ Older(x, s)
  BY DEF Younger, Older

\* Neither may an empty queue disturb any.
LEMMA EmptyInOrder ==
  /\ <<>> \in Seq(Nat) /\ Ascending(<<>>)
  /\ \A s : Precedes(<<>>, s) /\ Precedes(s, <<>>)
  /\ \A n : UpTo(<<>>, n)
  BY DEF Ascending, Precedes, UpTo

\* One queue behind another.
LEMMA ConcatKeepsOrder ==
  ASSUME NEW s \in Seq(Nat), NEW t \in Seq(Nat)
  PROVE  /\ s \o t \in Seq(Nat)
         /\ Ascending(s) /\ Ascending(t) /\ Precedes(s, t) => Ascending(s \o t)
         /\ \A u \in Seq(Nat) : Precedes(u, s) /\ Precedes(u, t) => Precedes(u, s \o t)
         /\ \A n \in Int : UpTo(s, n) /\ UpTo(t, n) => UpTo(s \o t, n)
  <1>1. /\ s \o t \in Seq(Nat) /\ Len(s \o t) = Len(s) + Len(t)
        /\ \A i \in 1..(Len(s) + Len(t)) :
             (s \o t)[i] = IF i \in 1..Len(s) THEN s[i] ELSE t[i - Len(s)]
        /\ \A i \in 1..(Len(s) + Len(t)) : i \in 1..Len(s) \/ i - Len(s) \in 1..Len(t)
        /\ \A i, j \in 1..(Len(s) + Len(t)) :
             i < j => (j \in 1..Len(s) => i \in 1..Len(s)) /\ i - Len(s) < j - Len(s)
    OBVIOUS
  <1>2. ASSUME Ascending(s), Ascending(t), Precedes(s, t) PROVE Ascending(s \o t)
    <2> DEFINE st == s \o t
    <2>1. SUFFICES ASSUME NEW i \in 1..Len(st), NEW j \in 1..Len(st), i < j, st[j] > 0
                   PROVE  st[i] < st[j]
      BY DEF Ascending
    <2>2. /\ Len(s) \in Nat /\ Len(t) \in Nat /\ Len(st) = Len(s) + Len(t)
          /\ st[i] = (IF i \in 1..Len(s) THEN s[i] ELSE t[i - Len(s)])
          /\ st[j] = (IF j \in 1..Len(s) THEN s[j] ELSE t[j - Len(s)])
      BY <1>1
    <2> HIDE DEF st
    <2>3. CASE j \in 1..Len(s)
      BY <1>2, <2>1, <2>2, <2>3 DEF Ascending
    <2>4. CASE i \in 1..Len(s) /\ j \notin 1..Len(s)
      <3>1. j - Len(s) \in 1..Len(t)
        BY <2>2, <2>4
      <3> QED
        BY <1>2, <2>1, <2>2, <2>4, <3>1 DEF Precedes
    <2>5. CASE i \notin 1..Len(s) /\ j \notin 1..Len(s)
      <3>1. i - Len(s) \in 1..Len(t) /\ j - Len(s) \in 1..Len(t) /\ i - Len(s) < j - Len(s)
        BY <2>1, <2>2, <2>5
      <3> QED
        BY <1>2, <2>1, <2>2, <2>5, <3>1 DEF Ascending
    <2> QED
      BY <2>3, <2>4, <2>5
  <1>3. ASSUME NEW u \in Seq(Nat), Precedes(u, s), Precedes(u, t) PROVE Precedes(u, s \o t)
    BY <1>1, <1>3 DEF Precedes
  <1>4. ASSUME NEW n \in Int, UpTo(s, n), UpTo(t, n) PROVE UpTo(s \o t, n)
    BY <1>1, <1>4 DEF UpTo
  <1> QED
    BY <1>1, <1>2, <1>3, <1>4

-----------------------------------------------------------------------------

LEMMA InitInv == Init => Inv
  <1> SUFFICES ASSUME Init PROVE Inv
    OBVIOUS
  <1>1. /\ thread = [r \in Robot |-> "starting"] /\ tx_queue_ = [r \in Robot |-> <<>>]
        /\ wbuf = [r \in Robot |-> <<>>] /\ received = [r \in Robot |-> <<>>]
        /\ appended = [r \in Robot |-> 0] /\ "starting" \in Where
    BY DEF Init, Where
  <1>2. \A r \in Robot : MaxAppended[r] \in Nat
    BY SocketAssumption DEF Robot
  <1>3. Typed
    BY <1>1, <1>2 DEF Typed
  <1>4. \A r \in Robot : InOrder(r)
    BY <1>1, EmptyInOrder DEF InOrder, Stages
  <1> QED
    BY <1>3, <1>4 DEF Inv

\* Robot r's thread, queue, buffer and robot after a step, nothing else having moved.
Local(r, where, queue, buffer, read, n) ==
  /\ thread' = [thread EXCEPT ![r] = where]
  /\ tx_queue_' = [tx_queue_ EXCEPT ![r] = queue]
  /\ wbuf' = [wbuf EXCEPT ![r] = buffer]
  /\ received' = [received EXCEPT ![r] = read]
  /\ appended' = [appended EXCEPT ![r] = n]

\* What is left alone is put back as it was.
LEMMA Unmoved ==
  ASSUME Inv, NEW r \in Robot
  PROVE  /\ thread = [thread EXCEPT ![r] = thread[r]]
         /\ tx_queue_ = [tx_queue_ EXCEPT ![r] = tx_queue_[r]]
         /\ wbuf = [wbuf EXCEPT ![r] = wbuf[r]]
         /\ received = [received EXCEPT ![r] = received[r]]
         /\ appended = [appended EXCEPT ![r] = appended[r]]
         /\ tx_queue_[r] \in Seq(Nat) /\ wbuf[r] \in Seq(Nat) /\ received[r] \in Seq(Nat)
         /\ appended[r] \in 0..MaxAppended[r] /\ appended[r] \in Nat
         /\ InOrder(r)
  BY DEF Inv, Typed

LEMMA LocalKeepsInv ==
  ASSUME Inv, NEW r \in Robot,
         NEW where \in Where,
         NEW queue \in Seq(Nat), NEW buffer \in Seq(Nat), NEW read \in Seq(Nat),
         NEW n \in 0..MaxAppended[r], n \in Nat, Local(r, where, queue, buffer, read, n),
         Stages(queue, buffer, read, n),
         where # "clearing" => Precedes(buffer, queue)
  PROVE  Inv'
  <1>1. Typed'
    BY DEF Inv, Typed, Local
  <1>2. \A q \in Robot : InOrder(q)'
    <2> SUFFICES ASSUME NEW q \in Robot PROVE InOrder(q)'
        OBVIOUS
    <2>1. CASE q = r
      <3>1. /\ thread'[q] = where /\ tx_queue_'[q] = queue /\ wbuf'[q] = buffer
            /\ received'[q] = read /\ appended'[q] = n
        BY <2>1 DEF Inv, Typed, Local
      <3> QED
        BY <3>1 DEF InOrder
    <2>2. CASE q # r
      <3>1. /\ thread'[q] = thread[q] /\ tx_queue_'[q] = tx_queue_[q] /\ wbuf'[q] = wbuf[q]
            /\ received'[q] = received[q] /\ appended'[q] = appended[q]
        BY <2>2 DEF Inv, Typed, Local
      <3> QED
        BY <3>1 DEF Inv, InOrder
    <2> QED
      BY <2>1, <2>2
  <1> QED
    BY <1>1, <1>2 DEF Inv

\* What the abstract link of robot q sees of a step.
Sees(q) == [Fifo(q)!Next]_<<appended[q], received[q]>>

LEMMA LocalIsSilent ==
  ASSUME Inv, NEW r \in Robot, NEW where, NEW queue, NEW buffer, NEW read, NEW n,
         Local(r, where, queue, buffer, read, n),
         read = received[r], n = appended[r]
  PROVE  \A q \in Robot : Sees(q)
  BY DEF Inv, Typed, Local, Sees

-----------------------------------------------------------------------------
(* The thread of a robot.                                                  *)

\* Where a thread is after a turn.
LEMMA NextTurn == \A r, c : AfterTurn(r, c) \in {"top", "waiting", "leaving"}
  BY DEF AfterTurn

LEMMA MoveThread ==
  ASSUME Inv, NEW r \in Robot, thread[r] # "clearing",
         NEW where \in {"top", "retrying", "waiting", "leaving"}, thread' = [thread EXCEPT ![r] = where],
         UNCHANGED <<tx_queue_, wbuf, received, appended>>
  PROVE  Inv' /\ \A q \in Robot : Sees(q)
  <1>1. Local(r, where, tx_queue_[r], wbuf[r], received[r], appended[r])
    BY Unmoved DEF Local
  <1>2. /\ Stages(tx_queue_[r], wbuf[r], received[r], appended[r])
        /\ Precedes(wbuf[r], tx_queue_[r]) /\ where \in Where
    BY Unmoved DEF InOrder, Where
  <1>3. Inv'
    BY <1>1, <1>2, Unmoved, LocalKeepsInv
  <1> QED
    BY <1>1, <1>3, LocalIsSilent

LEMMA EnterKeepsInv ==
  ASSUME Inv, NEW r \in Robot, Enter(r)
  PROVE  Inv' /\ \A q \in Robot : Sees(q)
  <1>1. Local(r, "top", <<>>, wbuf[r], received[r], appended[r])
    BY Unmoved DEF Local, Enter, socketVars
  <1>2. Stages(<<>>, wbuf[r], received[r], appended[r]) /\ Precedes(wbuf[r], <<>>)
    BY Unmoved, EmptyInOrder DEF InOrder, Stages
  <1>3. Inv'
    BY <1>1, <1>2, Unmoved, EmptyInOrder, LocalKeepsInv DEF Where
  <1> QED
    BY <1>1, <1>3, LocalIsSilent

LEMMA SendQueueKeepsInv ==
  ASSUME Inv, NEW r \in Robot, SendQueue(r)
  PROVE  Inv' /\ \A q \in Robot : Sees(q)
  <1> DEFINE buffer == IF state[r] = "Connected" THEN wbuf[r] \o tx_queue_[r] ELSE wbuf[r]
  <1>1. Local(r, "clearing", tx_queue_[r], buffer, received[r], appended[r])
    BY Unmoved DEF Local, SendQueue, queueVars
  <1>2. Precedes(wbuf[r], tx_queue_[r])
    BY Unmoved DEF InOrder, SendQueue
  <1>3. buffer \in Seq(Nat) /\ Stages(tx_queue_[r], buffer, received[r], appended[r])
    BY <1>2, Unmoved, ConcatKeepsOrder DEF InOrder, Stages
  <1>4. Inv'
    <2> HIDE DEF buffer
    <2> QED
      BY <1>1, <1>3, Unmoved, LocalKeepsInv DEF Where
  <1> QED
    BY <1>1, <1>4, LocalIsSilent

\* The write buffer with or without one more heartbeat; the queue as it was, while
\* that precedes nothing that is in the buffer, or cleared.
LEMMA BeatKeepsInv ==
  ASSUME Inv, NEW r \in Robot, Beat(r), NEW queue \in Seq(Nat),
         queue = <<>> \/ (queue = tx_queue_[r] /\ thread[r] # "clearing"),
         NEW where \in {"top", "waiting", "leaving"},
         thread' = [thread EXCEPT ![r] = where],
         tx_queue_' = [tx_queue_ EXCEPT ![r] = queue],
         UNCHANGED <<received, appended>>
  PROVE  Inv' /\ \A q \in Robot : Sees(q)
  <1>1. PICK buffer : /\ buffer = wbuf[r] \/ buffer = Append(wbuf[r], HeartBeat)
                      /\ wbuf' = [wbuf EXCEPT ![r] = buffer]
    <2>1. CASE UNCHANGED wbuf
      BY <2>1, Unmoved
    <2>2. CASE ~UNCHANGED wbuf
      BY <2>2 DEF Beat
    <2> QED
      BY <2>1, <2>2
  <1>2. Local(r, where, queue, buffer, received[r], appended[r])
    BY <1>1, Unmoved DEF Local
  <1>3. /\ Ascending(queue) /\ Precedes(received[r], queue) /\ UpTo(queue, appended[r])
        /\ Precedes(wbuf[r], queue)
    BY Unmoved, EmptyInOrder DEF InOrder, Stages
  <1>4. HeartBeat \in Nat /\ HeartBeat <= 0 /\ HeartBeat <= appended[r] /\ appended[r] \in Int
    BY Unmoved DEF HeartBeat
  <1>5. /\ buffer \in Seq(Nat) /\ Precedes(buffer, queue)
        /\ Stages(queue, buffer, received[r], appended[r])
    <2>1. CASE buffer = wbuf[r]
      BY <1>3, <2>1, Unmoved DEF InOrder, Stages
    <2>2. CASE buffer = Append(wbuf[r], HeartBeat)
      BY <1>3, <1>4, <2>2, Unmoved, AppendKeepsOrder, NoMessageAnywhere DEF InOrder, Stages
    <2> QED
      BY <1>1, <2>1, <2>2
  <1>6. where \in Where
    BY DEF Where
  <1>7. Inv'
    BY <1>2, <1>5, <1>6, Unmoved, LocalKeepsInv
  <1> QED
    BY <1>2, <1>7, LocalIsSilent

\* The buffer goes with the connection, the queue with the thread.
LEMMA DropKeepsInv ==
  ASSUME Inv, NEW r \in Robot, Leave(r) \/ Disconnected(r)
  PROVE  Inv' /\ \A q \in Robot : Sees(q)
  <1>1. CASE Leave(r)
    <2>1. Local(r, "gone", <<>>, <<>>, received[r], appended[r])
      BY <1>1, Unmoved DEF Local, Leave
    <2>2. Stages(<<>>, <<>>, received[r], appended[r]) /\ Precedes(<<>>, <<>>)
      BY Unmoved, EmptyInOrder DEF InOrder, Stages
    <2>3. Inv'
      BY <2>1, <2>2, Unmoved, EmptyInOrder, LocalKeepsInv DEF Where
    <2> QED
      BY <2>1, <2>3, LocalIsSilent
  <1>2. CASE Disconnected(r)
    <2>1. Local(r, thread[r], tx_queue_[r], <<>>, received[r], appended[r])
      BY <1>2, Unmoved DEF Local, Disconnected, queueVars
    <2>2. /\ Stages(tx_queue_[r], <<>>, received[r], appended[r])
          /\ Precedes(<<>>, tx_queue_[r])
      BY Unmoved, EmptyInOrder DEF InOrder, Stages
    <2>3. thread[r] \in Where
      BY DEF Inv, Typed
    <2>4. Inv'
      BY <2>1, <2>2, <2>3, Unmoved, EmptyInOrder, LocalKeepsInv
    <2> QED
      BY <2>1, <2>4, LocalIsSilent
  <1> QED
    BY <1>1, <1>2

\* A thread that waits in its socket is not clearing, so that what it flushes is not
\* in the queue any more.
LEMMA FlushKeepsInv ==
  ASSUME Inv, NEW r \in Robot, Flush(r)
  PROVE  Inv' /\ \A q \in Robot : Sees(q)
  <1> DEFINE read == IF Head(wbuf[r]) = HeartBeat THEN received[r]
                                                  ELSE Append(received[r], Head(wbuf[r]))
  <1>1. Local(r, thread[r], tx_queue_[r], Tail(wbuf[r]), read, appended[r])
    BY Unmoved DEF Local, Flush, queueVars
  <1>2. wbuf[r] # <<>> /\ thread[r] # "clearing" /\ thread[r] \in Where
    BY DEF Flush, Inv, Typed
  <1>3. /\ Tail(wbuf[r]) \in Seq(Nat) /\ Ascending(Tail(wbuf[r]))
        /\ UpTo(Tail(wbuf[r]), appended[r]) /\ Precedes(Tail(wbuf[r]), tx_queue_[r])
        /\ Precedes(received[r], Tail(wbuf[r]))
    BY <1>2, Unmoved, TailKeepsOrder DEF InOrder, Stages
  <1>4. /\ Head(wbuf[r]) \in Nat /\ Head(wbuf[r]) <= appended[r]
        /\ Younger(Head(wbuf[r]), received[r])
        /\ Older(Head(wbuf[r]), Tail(wbuf[r])) /\ Older(Head(wbuf[r]), tx_queue_[r])
    BY <1>2, Unmoved, HeadIsBetween DEF InOrder, Stages
  <1>5. read \in Seq(Nat) /\ Stages(tx_queue_[r], Tail(wbuf[r]), read, appended[r])
    <2>1. CASE Head(wbuf[r]) = HeartBeat
      BY <1>3, <2>1, Unmoved DEF InOrder, Stages
    <2>2. CASE Head(wbuf[r]) # HeartBeat
      <3>1. read = Append(received[r], Head(wbuf[r]))
        BY <2>2
      <3> HIDE DEF read
      <3>2. /\ read \in Seq(Nat)
            /\ Ascending(received[r]) /\ Younger(Head(wbuf[r]), received[r]) => Ascending(read)
            /\ \A t \in Seq(Nat) :
                 Precedes(received[r], t) /\ Older(Head(wbuf[r]), t) => Precedes(read, t)
            /\ \A n \in Int :
                 UpTo(received[r], n) /\ Head(wbuf[r]) <= n => UpTo(read, n)
        BY <1>4, <3>1, Unmoved, AppendKeepsOrder
      <3>3. Stages(tx_queue_[r], wbuf[r], received[r], appended[r]) /\ appended[r] \in Int
        BY Unmoved DEF InOrder
      <3>4. Precedes(read, tx_queue_[r]) /\ Precedes(read, Tail(wbuf[r]))
        BY <1>3, <1>4, <3>2, <3>3, Unmoved DEF Stages
      <3>5. Ascending(read) /\ UpTo(read, appended[r])
        BY <1>4, <3>2, <3>3 DEF Stages
      <3> QED
        BY <1>3, <3>2, <3>3, <3>4, <3>5 DEF Stages
    <2> QED
      BY <2>1, <2>2
  <1>6. Inv'
    <2> HIDE DEF read
    <2> QED
      BY <1>1, <1>2, <1>3, <1>5, Unmoved, LocalKeepsInv
  <1>7. ASSUME NEW q \in Robot PROVE Sees(q)
    <2>1. CASE q # r \/ Head(wbuf[r]) = HeartBeat
      BY <1>1, <2>1 DEF Inv, Typed, Local, Sees
    <2>2. CASE q = r /\ Head(wbuf[r]) # HeartBeat
      <3>1. /\ received'[r] = Append(received[r], Head(wbuf[r])) /\ appended'[r] = appended[r]
        BY <1>1, <2>2 DEF Inv, Typed, Local
      <3>2. /\ Head(wbuf[r]) > 0 /\ Head(wbuf[r]) \in 1..MaxAppended[r]
            /\ Head(wbuf[r]) \in 1..appended[r]
            /\ \A k \in DOMAIN received[r] : received[r][k] < Head(wbuf[r])
        <4>1. Head(wbuf[r]) > 0 /\ Head(wbuf[r]) <= appended[r]
          BY <1>4, <2>2 DEF HeartBeat
        <4>2. MaxAppended[r] \in Nat /\ appended[r] \in Nat /\ appended[r] <= MaxAppended[r]
          BY Unmoved, SocketAssumption DEF Robot
        <4>3. DOMAIN received[r] = 1..Len(received[r])
          BY Unmoved
        <4>4. \A k \in 1..Len(received[r]) : received[r][k] < Head(wbuf[r])
          BY <1>4, <4>1 DEF Younger
        <4> QED
          BY <1>4, <4>1, <4>2, <4>3, <4>4
      <3>3. Fifo(r)!Deliver(Head(wbuf[r]))
        BY <3>1, <3>2 DEF Fifo!Deliver
      <3> QED
        BY <2>2, <3>2, <3>3 DEF Sees, Fifo!Next
    <2> QED
      BY <2>1, <2>2
  <1> QED
    BY <1>6, <1>7

-----------------------------------------------------------------------------
(* The planner's thread, and what moves no message.                        *)

LEMMA AppendTxMessageKeepsInv ==
  ASSUME Inv, NEW r \in Robot, AppendTxMessage(r)
  PROVE  Inv' /\ \A q \in Robot : Sees(q)
  <1>1. /\ appended[r] + 1 \in 0..MaxAppended[r] /\ appended[r] + 1 \in Nat
        /\ MaxAppended[r] \in Nat /\ appended[r] \in Nat
    BY Unmoved, SocketAssumption DEF AppendTxMessage, Robot
  <1>2. Local(r, thread[r], Append(tx_queue_[r], appended[r] + 1), wbuf[r], received[r],
              appended[r] + 1)
    BY Unmoved DEF Local, AppendTxMessage, socketVars
  <1>3. \A s \in Seq(Nat) : UpTo(s, appended[r]) => /\ UpTo(s, appended[r] + 1)
                                                    /\ Younger(appended[r] + 1, s)
    BY <1>1 DEF UpTo, Younger
  <1>4. /\ Append(tx_queue_[r], appended[r] + 1) \in Seq(Nat)
        /\ Stages(Append(tx_queue_[r], appended[r] + 1), wbuf[r], received[r], appended[r] + 1)
        /\ thread[r] # "clearing" => Precedes(wbuf[r], Append(tx_queue_[r], appended[r] + 1))
    BY <1>1, <1>3, Unmoved, AppendKeepsOrder DEF InOrder, Stages
  <1>5. thread[r] \in Where
    BY DEF Inv, Typed
  <1>6. Inv'
    BY <1>1, <1>2, <1>4, <1>5, Unmoved, LocalKeepsInv
  <1>7. ASSUME NEW q \in Robot PROVE Sees(q)
    <2>1. CASE q = r
      <3>1. Fifo(r)!Send
        BY <1>1, <1>2 DEF Fifo!Send, AppendTxMessage, Local, Inv, Typed
      <3> QED
        BY <2>1, <3>1 DEF Sees, Fifo!Next
    <2>2. CASE q # r
      BY <1>2, <2>2 DEF Inv, Typed, Local, Sees
    <2> QED
      BY <2>1, <2>2
  <1> QED
    BY <1>6, <1>7

LEMMA QuietKeepsInv ==
  ASSUME Inv, UNCHANGED <<thread, tx_queue_, wbuf, received, appended>>
  PROVE  Inv' /\ \A q \in Robot : Sees(q)
  BY DEF Inv, Typed, InOrder, Sees

LEMMA StepImplements ==
  ASSUME Inv, [Next]_vars
  PROVE  Inv' /\ \A q \in Robot : [Fifo(q)!Next]_<<appended[q], received[q]>>
  <1> SUFFICES Inv' /\ \A q \in Robot : Sees(q)
      BY DEF Sees
  <1>1. CASE Tick \/ StopConnection \/ UNCHANGED vars
    <2>1. UNCHANGED <<thread, tx_queue_, wbuf, received, appended>>
      BY <1>1 DEF Tick, StopConnection, vars, socketVars, queueVars
    <2> QED
      BY <2>1, QuietKeepsInv
  <1>2. ASSUME NEW r \in Robot, Run(r) \/ Network(r) \/ AppendTxMessage(r) \/ Lose(r) \/ Return(r)
        PROVE  Inv' /\ \A q \in Robot : Sees(q)
    <2>1. CASE Enter(r)
      BY <2>1, EnterKeepsInv
    <2>2. CASE ConnectionRetry(r) \/ EndRetry(r) \/ DisconnectFromHost(r)
      <3>1. /\ thread[r] # "clearing" /\ UNCHANGED <<tx_queue_, wbuf, received, appended>>
            /\ \E where \in {"top", "retrying", "waiting", "leaving"} :
                 thread' = [thread EXCEPT ![r] = where]
        <4>1. CASE ConnectionRetry(r)
          BY <4>1 DEF ConnectionRetry, Looping, queueVars
        <4>2. CASE EndRetry(r)
          <5>1. PICK c : c = state'[r]
            OBVIOUS
          <5>2. thread' = [thread EXCEPT ![r] = AfterTurn(r, c)]
            BY <4>2, <5>1 DEF EndRetry
          <5> QED
            BY <4>2, <5>2, NextTurn DEF EndRetry, queueVars
        <4>3. CASE DisconnectFromHost(r)
          BY <4>3 DEF DisconnectFromHost, socketVars, queueVars
        <4> QED
          BY <2>2, <4>1, <4>2, <4>3
      <3> QED
        BY <3>1, MoveThread
    <2>3. CASE SendQueue(r)
      BY <2>3, SendQueueKeepsInv
    <2>4. CASE ClearQueue(r)
      BY <2>4, EmptyInOrder, NextTurn, BeatKeepsInv DEF ClearQueue
    <2>5. CASE ConnectionTxHeartBeat(r)
      <3>1. /\ thread[r] = "waiting" /\ Beat(r) /\ UNCHANGED <<tx_queue_, received, appended>>
            /\ thread' = [thread EXCEPT ![r] = AfterTurn(r, state[r])]
        BY <2>5 DEF ConnectionTxHeartBeat, queueVars
      <3>2. PICK where \in {"top", "waiting", "leaving"} : where = AfterTurn(r, state[r])
        BY NextTurn
      <3>3. PICK queue \in Seq(Nat) : queue = tx_queue_[r]
        BY Unmoved
      <3>4. tx_queue_' = [tx_queue_ EXCEPT ![r] = queue]
        BY <3>1, <3>3, Unmoved
      <3> QED
        BY <3>1, <3>2, <3>3, <3>4, BeatKeepsInv
    <2>6. CASE Leave(r) \/ Disconnected(r)
      BY <2>6, DropKeepsInv
    <2>7. CASE Flush(r)
      BY <2>7, FlushKeepsInv
    <2>8. CASE AppendTxMessage(r)
      BY <2>8, AppendTxMessageKeepsInv
    <2>9. CASE Lose(r) \/ Return(r)
      BY <2>9, QuietKeepsInv DEF Lose, Return, socketVars, queueVars
    <2> QED
      BY <1>2, <2>1, <2>2, <2>3, <2>4, <2>5, <2>6, <2>7, <2>8, <2>9 DEF Run, Network
  <1> QED
    BY <1>1, <1>2 DEF Next

\* To each robot its thread is a channel that may lose messages and no more, whoever
\* appends while the queue is walked and cleared, and however often the connection
\* is lost.
THEOREM RobotThreadsAreLossyFifos == Spec => ImplementsLossyFifo
  <1>1. Init => \A r \in Robot : Fifo(r)!Init
    BY DEF Init, Fifo!Init
  <1>2. Spec => [][\A r \in Robot : [Fifo(r)!Next]_<<appended[r], received[r]>>]_vars
    <2>1. Inv /\ [Next]_vars => Inv' /\ [\A r \in Robot : [Fifo(r)!Next]_<<appended[r], received[r]>>]_vars
      BY StepImplements
    <2> QED
      BY InitInv, <2>1, PTL DEF Spec
  <1> QED
    BY <1>1, <1>2, PTL DEF Spec, ImplementsLossyFifo

-----------------------------------------------------------------------------
(* Functions made step by step.                                           *)

\* The least element of a set of natural numbers.
LEMMA LeastOfNats ==
  ASSUME NEW S \in SUBSET Nat, S # {}
  PROVE  \E x \in S : \A y \in S : x <= y
  <1>1. PICK x \in S : \A y \in S : ~(<<y, x>> \in OpToRel(<, Nat))
    BY NatLessThanWellFounded, WFMin
  <1>2. ASSUME NEW y \in S, y < x PROVE FALSE
    <2>1. <<y, x>> \in Nat \X Nat
      OBVIOUS
    <2>2. <<y, x>> \in OpToRel(<, Nat)
      BY <1>2, <2>1 DEF OpToRel
    <2> QED
      BY <1>1, <1>2, <2>2
  <1> QED
    BY <1>2


\* A function made step by step, from values of one set to values of the next.
Steps(w, n, s, F) == w[0] = s /\ \A i \in 1..n : w[i] = F[i][w[i - 1]]

LEMMA StepsExist ==
  ASSUME NEW n \in Nat, NEW Good, NEW F, NEW s \in Good[0],
         \A i \in 1..n : \A x \in Good[i - 1] : F[i][x] \in Good[i]
  PROVE  \E w : /\ w = [i \in 0..n |-> w[i]] /\ Steps(w, n, s, F)
                /\ \A i \in 0..n : w[i] \in Good[i]
  <1> DEFINE Made(m, w) == /\ w = [i \in 0..m |-> w[i]] /\ Steps(w, m, s, F)
                           /\ \A i \in 0..m : w[i] \in Good[i]
             Bad == {m \in 0..n : ~\E w : Made(m, w)}
  <1>1. ASSUME Bad # {} PROVE FALSE
    <2>1. Bad \in SUBSET Nat
      OBVIOUS
    <2> HIDE DEF Bad
    <2>2. PICK m \in Bad : \A k \in Bad : m <= k
      BY <1>1, <2>1, LeastOfNats
    <2> USE DEF Bad
    <2>3. CASE m = 0
      <3> DEFINE w == [i \in 0..0 |-> s]
      <3>1. Made(0, w)
        BY DEF Steps
      <3> QED
        BY <2>2, <2>3, <3>1
    <2>4. CASE m # 0
      <3>1. m - 1 \in 0..n /\ m \in 1..n /\ m - 1 \notin Bad /\ m \in Nat
        BY <2>2, <2>4
      <3>2. PICK w : Made(m - 1, w)
        BY <3>1
      <3> DEFINE v == [i \in 0..m |-> IF i = m THEN F[m][w[m - 1]] ELSE w[i]]
      <3>3. w[m - 1] \in Good[m - 1] /\ F[m][w[m - 1]] \in Good[m]
        BY <3>1, <3>2
      <3>4. \A i \in 0..m : v[i] \in Good[i]
        <4> TAKE i \in 0..m
        <4>1. CASE i = m
          BY <3>3, <4>1
        <4>2. CASE i # m
          <5>1. i \in 0..(m - 1)
            BY <3>1, <4>2
          <5> QED
            BY <3>2, <4>2, <5>1
        <4> QED
          BY <4>1, <4>2
      <3>5. Steps(v, m, s, F)
        <4>1. v[0] = s
          BY <2>4, <3>1, <3>2 DEF Steps
        <4>2. ASSUME NEW i \in 1..m PROVE v[i] = F[i][v[i - 1]]
          <5>1. v[i - 1] = w[i - 1]
            BY <3>1
          <5>2. CASE i = m
            BY <5>1, <5>2
          <5>3. CASE i # m
            <6>1. i \in 1..(m - 1)
              BY <3>1, <5>3
            <6>2. w[i] = F[i][w[i - 1]]
              BY <3>2, <6>1 DEF Steps
            <6>3. v[i] = w[i]
              BY <5>3
            <6> QED
              BY <5>1, <6>2, <6>3, Zenon
          <5> QED
            BY <5>2, <5>3
        <4> QED
          BY <4>1, <4>2 DEF Steps
      <3>6. v = [i \in 0..m |-> v[i]]
        OBVIOUS
      <3> HIDE DEF v
      <3>7. Made(m, v)
        BY <3>4, <3>5, <3>6
      <3> QED
        BY <2>2, <3>7
    <2> QED
      BY <2>3, <2>4
  <1> QED
    BY <1>1

\* What every step of a recursive function keeps, its last value has.
LEMMA StepsKeep ==
  ASSUME NEW n \in Nat, NEW Good, NEW w, w[0] \in Good[0],
         \A i \in 1..n : w[i - 1] \in Good[i - 1] => w[i] \in Good[i]
  PROVE  w[n] \in Good[n]
  <1> DEFINE Bad == {m \in 0..n : w[m] \notin Good[m]}
  <1>1. ASSUME Bad # {} PROVE FALSE
    <2>1. Bad \in SUBSET Nat
      OBVIOUS
    <2> HIDE DEF Bad
    <2>2. PICK m \in Bad : \A k \in Bad : m <= k
      BY <1>1, <2>1, LeastOfNats
    <2> USE DEF Bad
    <2>3. m \in 1..n /\ m - 1 \notin Bad
      BY <2>2
    <2>4. w[m - 1] \in Good[m - 1]
      BY <2>3
    <2> QED
      BY <2>2, <2>3, <2>4
  <1> QED
    BY <1>1


-----------------------------------------------------------------------------
(* The receiver of RobotLink.                                              *)

Octet == [byte : Int, msg : Nat]
Receivers == [buffer : Seq(Octet), escape : BOOLEAN, frames : Seq(Seq(Octet))]

\* The frame a boundary makes of what was collected.
Collected(r) == SubSeq(r.buffer, 1, Len(r.buffer) - 2)

LEMMA MsgsOfAppend ==
  ASSUME NEW s \in Seq(Octet), NEW e \in Octet
  PROVE  MsgsOf(Append(s, e)) \subseteq MsgsOf(s) \cup {e.msg}
  <1> SUFFICES ASSUME NEW k \in DOMAIN Append(s, e)
               PROVE  Append(s, e)[k].msg \in MsgsOf(s) \cup {e.msg}
    BY DEF MsgsOf
  <1>1. k \in 1..(Len(s) + 1) /\ Len(s) \in Nat
    OBVIOUS
  <1>2. CASE k = Len(s) + 1
    BY <1>1, <1>2
  <1>3. CASE k # Len(s) + 1
    <2>1. k \in 1..Len(s) /\ k \in DOMAIN s
      BY <1>1, <1>3
    <2>2. Append(s, e)[k] = s[k]
      BY <1>1, <2>1
    <2> QED
      BY <2>1, <2>2 DEF MsgsOf
  <1> QED
    BY <1>2, <1>3

\* One octet: a boundary empties the buffer, and may have made a frame of it; any
\* other octet ends no frame.
LEMMA OneOctet ==
  ASSUME NEW r \in Receivers, NEW e \in Octet
  PROVE  /\ Receive(r, e) \in Receivers
         /\ e.byte = FRAME_BOUNDARY_OCTET =>
              /\ Receive(r, e).buffer = <<>>
              /\ \/ Receive(r, e).frames = r.frames
                 \/ Receive(r, e).frames = Append(r.frames, Collected(r))
         /\ e.byte # FRAME_BOUNDARY_OCTET =>
              /\ Receive(r, e).frames = r.frames
              /\ MsgsOf(Receive(r, e).buffer) \subseteq MsgsOf(r.buffer) \cup {e.msg}
  <1>1. r.buffer \in Seq(Octet) /\ r.escape \in BOOLEAN /\ r.frames \in Seq(Seq(Octet))
    BY DEF Receivers
  <1>2. CASE e.byte = FRAME_BOUNDARY_OCTET
    <2>1. Receive(r, e) = Boundary(r, e)
      BY <1>2 DEF Receive
    <2>2. CASE EndsFrame(r, e)
      <3>1. Collected(r) \in Seq(Octet)
        <4>1. Len(r.buffer) \in Nat /\ Len(r.buffer) >= 4
          BY <1>1, <2>2 DEF EndsFrame
        <4>2. \A k \in 1..(Len(r.buffer) - 2) : r.buffer[k] \in Octet
          BY <1>1, <4>1
        <4> QED
          BY <1>1, <4>1, <4>2 DEF Collected
      <3>2. Append(r.frames, Collected(r)) \in Seq(Seq(Octet))
        BY <1>1, <3>1
      <3>3. Boundary(r, e) = [buffer |-> <<>>, escape |-> FALSE,
                              frames |-> Append(r.frames, Collected(r))]
        BY <2>2 DEF Boundary, Collected
      <3> HIDE DEF Receivers
      <3>4. Boundary(r, e) \in Receivers
        <4>1. <<>> \in Seq(Octet)
          OBVIOUS
        <4> QED
          BY <3>2, <3>3, <4>1 DEF Receivers
      <3> QED
        BY <1>2, <2>1, <3>3, <3>4
    <2>3. CASE ~EndsFrame(r, e)
      <3>1. Boundary(r, e) = [buffer |-> <<>>, escape |-> FALSE, frames |-> r.frames]
        BY <2>3 DEF Boundary
      <3>2. Boundary(r, e) \in Receivers
        BY <1>1, <3>1 DEF Receivers
      <3> QED
        BY <1>2, <2>1, <3>1, <3>2
    <2> QED
      BY <2>2, <2>3
  <1>3. CASE e.byte # FRAME_BOUNDARY_OCTET
    <2>1. CASE e.byte = CONTROL_ESCAPE_OCTET /\ ~r.escape
      <3>1. Receive(r, e) = [r EXCEPT !.escape = TRUE]
        BY <1>3, <2>1 DEF Receive
      <3>2. /\ Receive(r, e) \in Receivers
            /\ Receive(r, e).frames = r.frames /\ Receive(r, e).buffer = r.buffer
        BY <3>1 DEF Receivers
      <3> QED
        BY <1>3, <3>2
    <2>2. CASE ~(e.byte = CONTROL_ESCAPE_OCTET /\ ~r.escape)
      <3> DEFINE o == IF r.escape THEN [e EXCEPT !.byte = Invert(@)] ELSE e
                 grown == Append(r.buffer, o)
                 buffer == IF Len(grown) >= MaxFrame THEN <<>> ELSE grown
      <3>1. o \in Octet /\ o.msg = e.msg
        <4>1. e.byte \in Int
          BY DEF Octet
        <4>2. Invert(e.byte) \in Int
          BY <4>1 DEF Invert
        <4> QED
          BY <4>2 DEF Octet
      <3>2. Receive(r, e) = [r EXCEPT !.escape = FALSE, !.buffer = buffer]
        BY <1>3, <2>2 DEF Receive, Data
      <3> HIDE DEF o
      <3>3. grown \in Seq(Octet) /\ MsgsOf(grown) \subseteq MsgsOf(r.buffer) \cup {e.msg}
        BY <1>1, <3>1, MsgsOfAppend
      <3> HIDE DEF grown
      <3>4. buffer \in Seq(Octet) /\ MsgsOf(buffer) \subseteq MsgsOf(r.buffer) \cup {e.msg}
        <4>1. MsgsOf(<<>>) = {} /\ <<>> \in Seq(Octet)
          BY DEF MsgsOf
        <4> QED
          BY <3>3, <4>1
      <3> HIDE DEF buffer
      <3>5. /\ Receive(r, e) \in Receivers
            /\ Receive(r, e).frames = r.frames /\ Receive(r, e).buffer = buffer
        BY <3>2, <3>4 DEF Receivers
      <3> QED
        BY <1>3, <3>4, <3>5
    <2> QED
      BY <2>1, <2>2
  <1> QED
    BY <1>2, <1>3

\* What every octet keeps, the octets of a read keep.
LEMMA ReceiverKeeps ==
  ASSUME NEW octets \in Seq(Octet), NEW Good, NEW r, [r EXCEPT !.frames = <<>>] \in Good[0],
         \A i \in 1..Len(octets) : \A x \in Good[i - 1] : Receive(x, octets[i]) \in Good[i]
  PROVE  charReceiver(r, octets) \in Good[Len(octets)]
  <1> DEFINE n == Len(octets)
             s == [r EXCEPT !.frames = <<>>]
             All == UNION {Good[i] : i \in 0..n}
             F == [i \in 1..n |-> [x \in All |-> Receive(x, octets[i])]]
             Called(f) == [i \in 0..n |-> IF i = 0 THEN s ELSE Receive(f[i - 1], octets[i])]
             w == CHOOSE f : f = Called(f)
  <1>1. n \in Nat /\ \A i \in 1..n : i - 1 \in 0..n /\ i \in 0..n
    OBVIOUS
  <1>2. charReceiver(r, octets) = w[n]
    BY DEF charReceiver
  <1> HIDE DEF n, w, s
  <1>3. ASSUME NEW i \in 1..n, NEW x \in Good[i - 1]
        PROVE  F[i][x] = Receive(x, octets[i]) /\ Receive(x, octets[i]) \in Good[i]
    <2>1. x \in All
      BY <1>1
    <2>2. Receive(x, octets[i]) \in Good[i]
      BY DEF n
    <2> HIDE DEF All
    <2> QED
      BY <2>1, <2>2
  <1>4. s \in Good[0]
    BY DEF s
  <1>5. \E f : f = Called(f)
    <2> HIDE DEF F
    <2>1. \A i \in 1..n : \A x \in Good[i - 1] : F[i][x] \in Good[i]
      BY <1>3
    <2>2. PICK f : /\ f = [i \in 0..n |-> f[i]] /\ Steps(f, n, s, F)
                   /\ \A i \in 0..n : f[i] \in Good[i]
      BY <1>1, <1>4, <2>1, StepsExist, Zenon
    <2>3. \A i \in 1..n : f[i] = Receive(f[i - 1], octets[i])
      BY <1>1, <1>3, <2>2 DEF Steps
    <2>4. ASSUME NEW i \in 0..n PROVE f[i] = IF i = 0 THEN s ELSE Receive(f[i - 1], octets[i])
      <3>1. CASE i = 0
        BY <2>2, <3>1 DEF Steps
      <3>2. CASE i # 0
        BY <1>1, <2>3, <3>2
      <3> QED
        BY <3>1, <3>2
    <2>5. f = Called(f)
      BY <2>2, <2>4
    <2> QED
      BY <2>5
  <1>6. w = Called(w)
    BY <1>5, Zenon DEF w
  <1>7. w[0] = s /\ \A i \in 1..n : w[i] = Receive(w[i - 1], octets[i])
    <2>1. 0 \in 0..n
      BY <1>1
    <2>2. w[0] = s
      BY <1>6, <2>1
    <2>3. ASSUME NEW i \in 1..n PROVE w[i] = Receive(w[i - 1], octets[i])
      <3>1. i \in 0..n /\ i # 0
        BY <1>1
      <3> QED
        BY <1>6, <3>1
    <2> QED
      BY <2>2, <2>3
  <1>8. w[0] \in Good[0] /\ \A i \in 1..n : w[i - 1] \in Good[i - 1] => w[i] \in Good[i]
    BY <1>3, <1>4, <1>7
  <1>9. w[n] \in Good[n]
    BY <1>1, <1>8, StepsKeep, Zenon
  <1> QED
    BY <1>2, <1>9 DEF n

-----------------------------------------------------------------------------
(* The order of the frames.                                                *)

Whole(frame, k) == k # 0 /\ MsgsOf(frame) = {k}
Before(w, p) == {w[q].msg : q \in 1..p}
Behind(w, p) == {w[q].msg : q \in (p + 1)..Len(w)}

\* A boundary on the wire parts the messages: what was collected or comes before it
\* is of older ones than what comes behind.
Parted(buffer, w) ==
  \A j \in 1..Len(w) : w[j].byte = FRAME_BOUNDARY_OCTET =>
    \A x \in MsgsOf(buffer) \cup Before(w, j - 1), y \in Behind(w, j) :
      x # 0 /\ y # 0 => x < y

\* The frames made of B and of the octets of w up to the p-th.
FramesInOrder(r, B, w, p) ==
  /\ MsgsOf(r.buffer) \subseteq MsgsOf(B) \cup Before(w, p)
  /\ \A a \in DOMAIN r.frames, k \in Nat : Whole(r.frames[a], k) =>
       /\ k \in MsgsOf(B) \cup MsgsOf(w)
       /\ \A x \in MsgsOf(r.buffer) \cup Behind(w, p) : x # 0 => k < x
  /\ \A a, b \in DOMAIN r.frames, k, l \in Nat :
       a < b /\ Whole(r.frames[a], k) /\ Whole(r.frames[b], l) => k < l

LEMMA OctetKeepsOrder ==
  ASSUME NEW w \in Seq(Octet), NEW B \in Seq(Octet), Parted(B, w), NEW r \in Receivers,
         NEW p \in Nat, p + 1 \in 1..Len(w), FramesInOrder(r, B, w, p)
  PROVE  FramesInOrder(Receive(r, w[p + 1]), B, w, p + 1)
  <1> DEFINE e == w[p + 1]
             new == Receive(r, e)
             f == Collected(r)
  <1>1. /\ e \in Octet /\ Len(w) \in Nat /\ p + 1 \in DOMAIN w
        /\ r.buffer \in Seq(Octet) /\ r.frames \in Seq(Seq(Octet))
    BY DEF Receivers
  <1>2. /\ new \in Receivers
        /\ e.byte = FRAME_BOUNDARY_OCTET =>
             /\ new.buffer = <<>>
             /\ new.frames = r.frames \/ new.frames = Append(r.frames, f)
        /\ e.byte # FRAME_BOUNDARY_OCTET =>
             /\ new.frames = r.frames
             /\ MsgsOf(new.buffer) \subseteq MsgsOf(r.buffer) \cup {e.msg}
    BY <1>1, OneOctet
  <1> SUFFICES FramesInOrder(new, B, w, p + 1)
    OBVIOUS
  <1> HIDE DEF new
  <1>3. /\ Before(w, p + 1) = Before(w, p) \cup {e.msg} /\ e.msg \in MsgsOf(w)
        /\ Behind(w, p) = Behind(w, p + 1) \cup {e.msg}
        /\ Before(w, p) \subseteq MsgsOf(w)
    <2>1. 1..(p + 1) = (1..p) \cup {p + 1} /\ 1..p \subseteq DOMAIN w
      BY <1>1
    <2>2. (p + 1)..Len(w) = ((p + 2)..Len(w)) \cup {p + 1} /\ (p + 1) + 1 = p + 2
      BY <1>1
    <2>3. Before(w, p + 1) = Before(w, p) \cup {e.msg}
      BY <2>1, Zenon DEF Before
    <2>4. Behind(w, p) = Behind(w, p + 1) \cup {e.msg}
      BY <2>2 DEF Behind
    <2>5. e.msg \in MsgsOf(w) /\ Before(w, p) \subseteq MsgsOf(w)
      BY <1>1, <2>1 DEF Before, MsgsOf
    <2> QED
      BY <2>3, <2>4, <2>5
  <1>4. MsgsOf(<<>>) = {}
    BY DEF MsgsOf
  <1>5. CASE new.frames = r.frames /\ MsgsOf(new.buffer) \subseteq MsgsOf(r.buffer) \cup {e.msg}
    <2>1. MsgsOf(new.buffer) \subseteq MsgsOf(B) \cup Before(w, p + 1)
      BY <1>3, <1>5 DEF FramesInOrder
    <2>2. MsgsOf(new.buffer) \cup Behind(w, p + 1) \subseteq MsgsOf(r.buffer) \cup Behind(w, p)
      BY <1>3, <1>5
    <2>3. ASSUME NEW a \in DOMAIN new.frames, NEW k \in Nat, Whole(new.frames[a], k)
          PROVE  /\ k \in MsgsOf(B) \cup MsgsOf(w)
                 /\ \A x \in MsgsOf(new.buffer) \cup Behind(w, p + 1) : x # 0 => k < x
      BY <1>5, <2>2, <2>3 DEF FramesInOrder
    <2>4. ASSUME NEW a \in DOMAIN new.frames, NEW b \in DOMAIN new.frames, NEW k \in Nat,
                 NEW l \in Nat, a < b, Whole(new.frames[a], k), Whole(new.frames[b], l)
          PROVE  k < l
      BY <1>5, <2>4 DEF FramesInOrder
    <2> HIDE DEF e
    <2> QED
      BY <2>1, <2>3, <2>4 DEF FramesInOrder
  <1>7. CASE e.byte = FRAME_BOUNDARY_OCTET /\ new.frames = Append(r.frames, f)
    <2>1. MsgsOf(f) \subseteq MsgsOf(r.buffer)
      <3>1. \A k \in DOMAIN f : k \in DOMAIN r.buffer /\ f[k] = r.buffer[k]
        BY <1>1 DEF Collected
      <3> QED
        BY <3>1 DEF MsgsOf
    <2> HIDE DEF f
    <2>2. \A k \in Nat : Whole(f, k) =>
            /\ k \in MsgsOf(r.buffer) /\ k \in MsgsOf(B) \cup Before(w, p)
            /\ \A x \in Behind(w, p + 1) : x # 0 => k < x
      <3> SUFFICES ASSUME NEW k \in Nat, Whole(f, k)
                   PROVE  /\ k \in MsgsOf(r.buffer) /\ k \in MsgsOf(B) \cup Before(w, p)
                          /\ \A x \in Behind(w, p + 1) : x # 0 => k < x
        OBVIOUS
      <3>1. k \in MsgsOf(r.buffer) /\ k # 0
        BY <2>1 DEF Whole
      <3>2. k \in MsgsOf(B) \cup Before(w, p)
        BY <3>1 DEF FramesInOrder
      <3>3. (p + 1) - 1 = p
        OBVIOUS
      <3>4. \A x \in Behind(w, p + 1) : x # 0 => k < x
        BY <1>7, <3>1, <3>2, <3>3 DEF Parted
      <3> QED
        BY <3>1, <3>2, <3>4
    <2>3. \A a \in DOMAIN new.frames :
            \/ a \in DOMAIN r.frames /\ new.frames[a] = r.frames[a]
            \/ a = Len(r.frames) + 1 /\ new.frames[a] = f
      BY <1>1, <1>7
    <2>4. DOMAIN r.frames = 1..Len(r.frames) /\ Len(r.frames) \in Nat
      BY <1>1
    <2>5. MsgsOf(new.buffer) = {}
      BY <1>2, <1>4, <1>7
    <2>6. ASSUME NEW a \in DOMAIN new.frames, NEW k \in Nat, Whole(new.frames[a], k)
          PROVE  /\ k \in MsgsOf(B) \cup MsgsOf(w)
                 /\ \A x \in MsgsOf(new.buffer) \cup Behind(w, p + 1) : x # 0 => k < x
      <3>1. CASE a \in DOMAIN r.frames /\ new.frames[a] = r.frames[a]
        BY <1>3, <2>5, <2>6, <3>1 DEF FramesInOrder
      <3>2. CASE a = Len(r.frames) + 1 /\ new.frames[a] = f
        BY <1>3, <2>2, <2>5, <2>6, <3>2
      <3> QED
        BY <2>3, <3>1, <3>2
    <2>7. ASSUME NEW a \in DOMAIN new.frames, NEW b \in DOMAIN new.frames, NEW k \in Nat,
                 NEW l \in Nat, a < b, Whole(new.frames[a], k), Whole(new.frames[b], l)
          PROVE  k < l
      <3>1. a \in DOMAIN r.frames /\ new.frames[a] = r.frames[a]
        <4>1. b \in DOMAIN r.frames \/ b = Len(r.frames) + 1
          BY <2>3
        <4>2. a # Len(r.frames) + 1
          BY <2>4, <2>7, <4>1
        <4> QED
          BY <2>3, <4>2
      <3>2. CASE b \in DOMAIN r.frames /\ new.frames[b] = r.frames[b]
        BY <2>7, <3>1, <3>2 DEF FramesInOrder
      <3>3. CASE b = Len(r.frames) + 1 /\ new.frames[b] = f
        <4>1. l \in MsgsOf(r.buffer) /\ l # 0
          BY <2>2, <2>7, <3>3 DEF Whole
        <4> QED
          BY <2>7, <3>1, <4>1 DEF FramesInOrder
      <3> QED
        BY <2>3, <3>2, <3>3
    <2>8. MsgsOf(new.buffer) \subseteq MsgsOf(B) \cup Before(w, p + 1)
      BY <2>5
    <2> QED
      BY <2>6, <2>7, <2>8 DEF FramesInOrder
  <1> QED
    BY <1>2, <1>4, <1>5, <1>7

\* A read of the octets of w from lo + 1 to n.
LEMMA ReadKeepsOrder ==
  ASSUME NEW w \in Seq(Octet), NEW r \in Receivers, Parted(r.buffer, w),
         NEW lo \in Nat, NEW n \in 1..Len(w)
  PROVE  /\ charReceiver(r, SubSeq(w, lo + 1, n)) \in Receivers
         /\ FramesInOrder(charReceiver(r, SubSeq(w, lo + 1, n)), r.buffer, w, n)
  <1> DEFINE octets == SubSeq(w, lo + 1, n)
             m == IF lo <= n THEN n - lo ELSE 0
             first == [r EXCEPT !.frames = <<>>]
             B == r.buffer
             At(i) == IF lo <= n THEN lo + i ELSE n
             Good == [i \in 0..m |-> {x \in Receivers : FramesInOrder(x, B, w, At(i))}]
  <1>1. /\ Len(w) \in Nat /\ n \in Nat /\ n <= Len(w) /\ m \in Nat
        /\ \A i \in 1..m : lo + i \in 1..Len(w) /\ At(i) = lo + i /\ At(i - 1) = lo + i - 1
        /\ At(m) = n
    OBVIOUS
  <1>2. octets \in Seq(Octet) /\ Len(octets) = m /\ \A i \in 1..m : octets[i] = w[lo + i]
    <2>1. \A i \in (lo + 1)..n : w[i] \in Octet
      BY <1>1
    <2> QED
      BY <1>1, <2>1
  <1>3. first \in Receivers /\ first.buffer = B /\ first.frames = <<>> /\ B \in Seq(Octet)
    <2>1. <<>> \in Seq(Seq(Octet))
      OBVIOUS
    <2> QED
      BY <2>1, Zenon DEF Receivers
  <1>4. FramesInOrder(first, B, w, At(0))
    BY <1>3 DEF FramesInOrder
  <1> HIDE DEF octets, m, first, B, At
  <1>5. first \in Good[0]
    BY <1>1, <1>3, <1>4
  <1>6. ASSUME NEW i \in 1..Len(octets), NEW x \in Good[i - 1]
        PROVE  Receive(x, octets[i]) \in Good[i]
    <2> DEFINE p == lo + i - 1
    <2>1. i \in 1..m /\ i - 1 \in 0..m /\ i \in 0..m /\ p \in Nat /\ p + 1 = lo + i
      BY <1>1, <1>2
    <2>2. x \in Receivers /\ FramesInOrder(x, B, w, p) /\ At(i) = p + 1 /\ octets[i] = w[p + 1]
      BY <1>1, <1>2, <2>1
    <2>3. p + 1 \in 1..Len(w) /\ Parted(B, w)
      BY <1>1, <2>1 DEF B
    <2> HIDE DEF p
    <2>4. FramesInOrder(Receive(x, w[p + 1]), B, w, p + 1)
      BY <1>3, <2>1, <2>2, <2>3, OctetKeepsOrder
    <2>5. Receive(x, w[p + 1]) \in Receivers
      <3>1. w[p + 1] \in Octet
        BY <2>3
      <3> QED
        BY <2>2, <3>1, OneOctet
    <2> QED
      BY <2>1, <2>2, <2>4, <2>5
  <1>7. charReceiver(r, octets) \in Good[Len(octets)]
    <2> HIDE DEF Good
    <2> QED
      BY <1>2, <1>5, <1>6, ReceiverKeeps DEF first
  <1> QED
    BY <1>1, <1>2, <1>7 DEF B, octets

-----------------------------------------------------------------------------
(* The frames on the wire.                                                 *)

\* FlattenSeq puts one sequence behind the other.
Joins(s, pre) ==
  /\ pre = [i \in 0..Len(s) |-> pre[i]] /\ pre[0] = <<>>
  /\ \A i \in 1..Len(s) : pre[i] = pre[i - 1] \o s[i]
  /\ FlattenSeq(s) = pre[Len(s)]

LEMMA Flattened ==
  ASSUME NEW S, NEW s \in Seq(Seq(S))
  PROVE  \E pre : Joins(s, pre) /\ \A i \in 0..Len(s) : pre[i] \in Seq(S)
  <1> DEFINE n == Len(s)
             Good == [i \in 0..n |-> Seq(S)]
             F == [i \in 1..n |-> [x \in Seq(S) |-> x \o s[i]]]
             Called(f) == [i \in 1..n |-> IF i = 1 THEN s[i] ELSE f[i - 1] \o s[i]]
             w == CHOOSE f : f = Called(f)
  <1>1. n \in Nat /\ <<>> \in Seq(S) /\ \A i \in 1..n : i \in 0..n /\ i - 1 \in 0..n /\ s[i] \in Seq(S)
    OBVIOUS
  <1>2. FlattenSeq(s) = IF n = 0 THEN s ELSE w[n]
    BY DEF FlattenSeq
  <1> HIDE DEF n, w
  <1>3. ASSUME NEW i \in 1..n, NEW x \in Good[i - 1]
        PROVE  F[i][x] = x \o s[i] /\ F[i][x] \in Good[i]
    <2>1. i - 1 \in 0..n /\ i \in 0..n /\ s[i] \in Seq(S)
      BY <1>1
    <2>2. x \in Seq(S)
      BY <2>1
    <2>3. x \o s[i] \in Seq(S)
      BY <2>1, <2>2
    <2> QED
      BY <2>1, <2>2, <2>3
  <1>4. PICK f : /\ f = [i \in 0..n |-> f[i]] /\ Steps(f, n, <<>>, F)
                 /\ \A i \in 0..n : f[i] \in Good[i]
    <2>1. 0 \in 0..n /\ <<>> \in Good[0]
      BY <1>1
    <2> HIDE DEF Good, F
    <2>2. \A i \in 1..n : \A x \in Good[i - 1] : F[i][x] \in Good[i]
      BY <1>3
    <2> QED
      BY <1>1, <2>1, <2>2, StepsExist, Zenon
  <1>5. /\ f[0] = <<>> /\ \A i \in 0..n : f[i] \in Seq(S)
        /\ \A i \in 1..n : f[i] = f[i - 1] \o s[i]
    <2>1. f[0] = <<>> /\ \A i \in 1..n : f[i] = F[i][f[i - 1]]
      BY <1>4 DEF Steps
    <2>2. \A i \in 0..n : f[i] \in Seq(S)
      BY <1>4
    <2> HIDE DEF F
    <2>3. \A i \in 1..n : f[i] = f[i - 1] \o s[i]
      BY <1>1, <1>3, <1>4, <2>1
    <2> QED
      BY <2>1, <2>2, <2>3
  <1> HIDE DEF Good, F
  <1>6. n # 0 => w[n] = f[n]
    <2> SUFFICES ASSUME n # 0 PROVE w[n] = f[n]
      OBVIOUS
    <2> DEFINE g == [i \in 1..n |-> f[i]]
    <2>1. ASSUME NEW i \in 1..n PROVE g[i] = IF i = 1 THEN s[i] ELSE g[i - 1] \o s[i]
      <3>1. CASE i = 1
        <4>1. s[1] \in Seq(S) /\ 1 \in 1..n /\ f[1 - 1] = <<>>
          BY <1>1, <1>5, <3>1
        <4>2. f[1] = f[1 - 1] \o s[1]
          BY <1>5, <4>1
        <4>3. <<>> \o s[1] = s[1]
          BY <4>1
        <4>4. g[1] = s[1]
          BY <4>1, <4>2, <4>3
        <4> QED
          BY <3>1, <4>4
      <3>2. CASE i # 1
        <4>1. i - 1 \in 1..n
          BY <1>1, <3>2
        <4> QED
          BY <1>5, <3>2, <4>1
      <3> QED
        BY <3>1, <3>2
    <2>2. g = Called(g)
      BY <2>1
    <2>3. w = Called(w)
      BY <2>2, Zenon DEF w
    <2>4. \A i \in 1..n : w[i] = IF i = 1 THEN s[i] ELSE w[i - 1] \o s[i]
      BY <2>3
    <2> DEFINE Same == [i \in 0..n |-> IF i = 0 THEN {w[0]} ELSE {f[i]}]
    <2>5. w[0] \in Same[0]
      BY <1>1
    <2>6. ASSUME NEW i \in 1..n, w[i - 1] \in Same[i - 1] PROVE w[i] \in Same[i]
      <3>1. CASE i = 1
        BY <1>1, <2>1, <2>4, <3>1
      <3>2. CASE i # 1
        <4>1. i - 1 \in 0..n /\ i - 1 # 0 /\ i \in 0..n /\ i # 0
          BY <1>1, <3>2
        <4>2. w[i - 1] = f[i - 1]
          BY <2>6, <4>1
        <4>3. w[i] = f[i]
          BY <1>5, <2>4, <3>2, <4>2
        <4> QED
          BY <4>1, <4>3
      <3> QED
        BY <3>1, <3>2
    <2>7. w[n] \in Same[n]
      <3> HIDE DEF Same
      <3> QED
        BY <1>1, <2>5, <2>6, StepsKeep, Zenon
    <2> QED
      BY <1>1, <2>7
  <1>7. FlattenSeq(s) = f[n]
    <2>1. n = 0 => s = <<>>
      BY DEF n
    <2> QED
      BY <1>2, <1>5, <1>6, <2>1
  <1>8. Joins(s, f)
    BY <1>4, <1>5, <1>7 DEF Joins, n
  <1> QED
    BY <1>5, <1>8 DEF n

\* Between its two boundaries a frame has none.
LEMMA FrameOctets ==
  ASSUME NEW m \in Messages, NEW k \in Nat
  PROVE  LET frame == Octets(frameDecode(Payload(m)), k)
         IN  /\ frame \in Seq(Octet) /\ Len(frame) >= 2
             /\ Len(frame) = Len(frameDecode(Payload(m)))
             /\ \A j \in 1..Len(frame) :
                  /\ frame[j].msg = k
                  /\ frame[j].byte = FRAME_BOUNDARY_OCTET => j = 1 \/ j = Len(frame)
  <1> DEFINE body == Payload(m) \o Fcs(Payload(m))
             Inner == Int \ {FRAME_BOUNDARY_OCTET}
             escaped == [i \in DOMAIN body |-> Escaped(body[i])]
             inner == FlattenSeq(escaped)
             bytes == frameDecode(Payload(m))
             frame == Octets(bytes, k)
  <1>1. body \in Seq(0..255)
    BY BytesAssumption
  <1>2. ASSUME NEW b \in 0..255 PROVE Escaped(b) \in Seq(Inner)
    <2>1. Invert(b) \in Int
      BY DEF Invert
    <2>2. CASE b \in Special
      <3>1. Invert(b) # FRAME_BOUNDARY_OCTET
        <4>1. Invert(b) \notin Special
          BY <2>2, RobotLinkAssumption
        <4> QED
          BY <4>1 DEF Special
      <3>2. Invert(b) \in Inner /\ CONTROL_ESCAPE_OCTET \in Inner
        BY <2>1, <3>1 DEF FRAME_BOUNDARY_OCTET, CONTROL_ESCAPE_OCTET
      <3> HIDE DEF Inner
      <3> QED
        BY <2>2, <3>2 DEF Escaped
    <2>3. CASE b \notin Special
      <3>1. b \in Inner
        BY <2>3 DEF Special
      <3> HIDE DEF Inner
      <3> QED
        BY <2>3, <3>1 DEF Escaped
    <2> QED
      BY <2>2, <2>3
  <1>3. bytes = <<FRAME_BOUNDARY_OCTET>> \o inner \o <<FRAME_BOUNDARY_OCTET>>
    BY DEF frameDecode
  <1> HIDE DEF body, bytes
  <1>4. escaped \in Seq(Seq(Inner))
    <2> HIDE DEF Inner, escaped
    <2>1. DOMAIN body = 1..Len(body) /\ Len(body) \in Nat /\ \A i \in 1..Len(body) : body[i] \in 0..255
      BY <1>1, ElementOfSeq, LenProperties, ZenonT(40)
    <2> USE DEF escaped
    <2>2. \A i \in 1..Len(body) : Escaped(body[i]) \in Seq(Inner)
      BY <1>2, <2>1
    <2>3. escaped = [i \in 1..Len(body) |-> Escaped(body[i])]
      BY <2>1
    <2> QED
      BY <2>1, <2>2, <2>3
  <1>5. inner \in Seq(Inner)
    <2>1. PICK pre : Joins(escaped, pre) /\ \A i \in 0..Len(escaped) : pre[i] \in Seq(Inner)
      BY <1>4, Flattened, Zenon
    <2>2. Len(escaped) \in 0..Len(escaped)
      BY <1>4
    <2> HIDE DEF Inner, escaped
    <2> QED
      BY <2>1, <2>2 DEF Joins
  <1> HIDE DEF inner
  <1>6. /\ bytes \in Seq(Int) /\ Len(bytes) = Len(inner) + 2 /\ Len(inner) \in Nat
        /\ \A j \in 1..Len(bytes) : bytes[j] = FRAME_BOUNDARY_OCTET => j = 1 \/ j = Len(bytes)
    <2>1. FRAME_BOUNDARY_OCTET \in Int
      BY DEF FRAME_BOUNDARY_OCTET
    <2> HIDE DEF bytes
    <2> QED
      BY <1>3, <1>5, <2>1
  <1>7. /\ DOMAIN bytes = 1..Len(bytes)
        /\ \A j \in 1..Len(bytes) : bytes[j] \in Int
    BY <1>6
  <1>8. /\ frame = [j \in 1..Len(bytes) |-> [byte |-> bytes[j], msg |-> k]]
    BY <1>7 DEF Octets
  <1>9. frame \in Seq(Octet) /\ Len(frame) = Len(bytes)
    <2>1. \A j \in 1..Len(bytes) : [byte |-> bytes[j], msg |-> k] \in Octet
      BY <1>7 DEF Octet
    <2>2. Len(bytes) \in Nat
      BY <1>6
    <2> QED
      BY <1>8, <2>1, <2>2
  <1> QED
    BY <1>6, <1>8, <1>9 DEF bytes

\* A message behind what is on its way keeps the messages apart.
LEMMA SendParts ==
  ASSUME NEW B \in Seq(Octet), NEW w \in Seq(Octet), NEW h \in Seq(Octet), NEW f \in Seq(Octet),
         NEW k \in Nat, Parted(B, w), \A x \in MsgsOf(B) \cup MsgsOf(w) : x < k,
         \A j \in 1..Len(h) : h[j].msg = 0 /\ h[j].byte # FRAME_BOUNDARY_OCTET,
         \A j \in 1..Len(f) : /\ f[j].msg = k
                              /\ f[j].byte = FRAME_BOUNDARY_OCTET => j = 1 \/ j = Len(f)
  PROVE  LET v == w \o h \o f
         IN  /\ v \in Seq(Octet) /\ Parted(B, v)
             /\ MsgsOf(v) \subseteq MsgsOf(w) \cup {0, k}
  <1> DEFINE v == w \o h \o f
             L == Len(w)
             M == Len(w) + Len(h)
  <1>1. /\ v \in Seq(Octet) /\ L \in Nat /\ M \in Nat /\ L <= M
        /\ Len(v) = M + Len(f) /\ Len(f) \in Nat
        /\ \A j \in 1..L : v[j] = w[j]
        /\ \A j \in (L + 1)..M : v[j] = h[j - L] /\ j - L \in 1..Len(h)
        /\ \A j \in (M + 1)..Len(v) : v[j] = f[j - M] /\ j - M \in 1..Len(f)
    OBVIOUS
  <1> HIDE DEF v
  <1>7. \A j \in (L + 1)..M : v[j].msg = 0 /\ v[j].byte # FRAME_BOUNDARY_OCTET
    <2> HIDE DEF L, M
    <2> QED
      BY <1>1, Zenon
  <1>8. \A j \in (M + 1)..Len(v) :
          /\ v[j].msg = k
          /\ v[j].byte = FRAME_BOUNDARY_OCTET => j = M + 1 \/ j = Len(v)
    <2> HIDE DEF L, M
    <2> TAKE j \in (M + 1)..Len(v)
    <2>1. v[j] = f[j - M] /\ j - M \in 1..Len(f)
      BY <1>1
    <2>2. v[j].msg = k /\ (v[j].byte = FRAME_BOUNDARY_OCTET => j - M = 1 \/ j - M = Len(f))
      BY <2>1, Zenon
    <2> QED
      BY <1>1, <2>2
  <1>9. 1..L = DOMAIN w /\ Len(w) = L /\ DOMAIN v = 1..Len(v) /\ Len(v) \in Nat
    BY <1>1
  <1> HIDE DEF L, M
  <1>2. \A j \in (L + 1)..Len(v) : v[j].msg \in {0, k} /\ (j <= M => v[j].msg = 0)
    <2> TAKE j \in (L + 1)..Len(v)
    <2>1. CASE j <= M
      <3>1. j \in (L + 1)..M
        BY <1>1, <2>1
      <3> QED
        BY <1>7, <3>1, Zenon
    <2>2. CASE ~(j <= M)
      <3>1. j \in (M + 1)..Len(v)
        BY <1>1, <1>9, <2>2
      <3> QED
        BY <1>8, <2>2, <3>1, Zenon
    <2> QED
      BY <2>1, <2>2
  <1>3. \A j \in (L + 1)..Len(v) :
          v[j].byte = FRAME_BOUNDARY_OCTET => j = M + 1 \/ j = Len(v)
    <2> TAKE j \in (L + 1)..Len(v)
    <2>1. CASE j <= M
      <3>1. j \in (L + 1)..M
        BY <1>1, <2>1
      <3> QED
        BY <1>7, <3>1, Zenon
    <2>2. CASE ~(j <= M)
      <3>1. j \in (M + 1)..Len(v)
        BY <1>1, <1>9, <2>2
      <3> QED
        BY <1>8, <3>1, Zenon
    <2> QED
      BY <2>1, <2>2
  <1>4. MsgsOf(v) \subseteq MsgsOf(w) \cup {0, k}
    <2> SUFFICES ASSUME NEW j \in DOMAIN v PROVE v[j].msg \in MsgsOf(w) \cup {0, k}
      BY DEF MsgsOf
    <2>1. j \in 1..Len(v) /\ 1..L = DOMAIN w
      BY <1>9
    <2>2. CASE j <= L
      <3>1. j \in DOMAIN w /\ v[j] = w[j]
        BY <1>1, <2>1, <2>2
      <3> QED
        BY <3>1, Zenon DEF MsgsOf
    <2>3. CASE j > L
      BY <1>1, <1>2, <2>1, <2>3
    <2> QED
      BY <1>1, <2>1, <2>2, <2>3
  <1>5. ASSUME NEW j \in 1..Len(v), v[j].byte = FRAME_BOUNDARY_OCTET,
               NEW x \in MsgsOf(B) \cup Before(v, j - 1), NEW y \in Behind(v, j), x # 0, y # 0
        PROVE  x < y
    <2>1. PICK b \in (j + 1)..Len(v) : y = v[b].msg
      BY DEF Behind
    <2>2. x \in MsgsOf(B) \/ \E a \in 1..(j - 1) : x = v[a].msg
      BY DEF Before
    <2>3. CASE j <= L
      <3>1. x \in MsgsOf(B) \cup Before(w, j - 1)
        <4>1. j \in Nat /\ \A a \in 1..(j - 1) : a \in 1..L
          BY <1>1, <2>3
        <4>2. \A a \in 1..(j - 1) : v[a] = w[a]
          BY <1>1, <4>1, Zenon
        <4>3. CASE x \in MsgsOf(B)
          BY <4>3, Zenon
        <4>4. CASE \E a \in 1..(j - 1) : x = v[a].msg
          <5>1. PICK a \in 1..(j - 1) : x = v[a].msg
            BY <4>4
          <5>2. x = w[a].msg
            BY <4>2, <5>1, Zenon
          <5>3. x \in Before(w, j - 1)
            BY <5>2, Zenon DEF Before
          <5> QED
            BY <5>3, Zenon
        <4> QED
          BY <2>2, <4>3, <4>4, Zenon
      <3>2. CASE b <= L
        <4>1. y \in Behind(w, j)
          <5>1. b \in (j + 1)..Len(w) /\ v[b] = w[b]
            BY <1>1, <1>9, <2>1, <3>2
          <5> QED
            BY <2>1, <5>1, Zenon DEF Behind
        <4>2. w[j].byte = FRAME_BOUNDARY_OCTET /\ j \in 1..Len(w)
          BY <1>1, <1>5, <1>9, <2>3
        <4> QED
          BY <1>5, <3>1, <4>1, <4>2 DEF Parted
      <3>3. CASE b > L
        <4>1. y = k
          BY <1>1, <1>2, <1>5, <2>1, <3>3
        <4>2. Before(w, j - 1) \subseteq MsgsOf(w)
          <5>1. 1..(j - 1) \subseteq DOMAIN w
            BY <1>1, <1>9, <2>3
          <5> QED
            BY <5>1, Zenon DEF Before, MsgsOf
        <4> QED
          BY <3>1, <4>1, <4>2
      <3> QED
        BY <1>1, <3>2, <3>3
    <2>4. CASE j > L
      <3>1. j = M + 1
        <4>1. j # Len(v) /\ j \in (L + 1)..Len(v)
          BY <1>1, <1>9, <2>1, <2>4
        <4> QED
          BY <1>3, <1>5, <4>1, Zenon
      <3>2. y = k
        BY <1>1, <1>2, <1>5, <2>1, <3>1
      <3>3. x \in MsgsOf(B) \cup MsgsOf(w)
        <4>1. CASE x \in MsgsOf(B)
          BY <4>1
        <4>2. CASE \E a \in 1..(j - 1) : x = v[a].msg
          <5>0. j - 1 = M
            BY <1>1, <3>1
          <5>1. PICK a \in 1..M : x = v[a].msg
            BY <4>2, <5>0, Zenon
          <5>2. a <= L
            BY <1>1, <1>2, <1>5, <5>1
          <5> QED
            <6>1. a \in DOMAIN w /\ v[a] = w[a]
              BY <1>1, <1>9, <5>1, <5>2
            <6> QED
              BY <5>1, <6>1, Zenon DEF MsgsOf
        <4> QED
          BY <2>2, <4>1, <4>2
      <3> QED
        BY <3>2, <3>3
    <2> QED
      BY <1>1, <2>3, <2>4
  <1>6. Parted(B, v)
    BY <1>5 DEF Parted
  <1> QED
    BY <1>1, <1>4, <1>6 DEF v

\* A frame has a number only as a message that was sent, whole.
LEMMA NumberIsWhole ==
  ASSUME NEW frame, sent \in Seq(Messages)
  PROVE  /\ Number(frame) \in 0..Len(sent)
         /\ Number(frame) # 0 => Whole(frame, Number(frame))
  <1> DEFINE whole == {k \in 1..Len(sent) : MsgsOf(frame) = {k} /\ Values(frame) = Payload(sent[k])}
  <1>1. Number(frame) = IF whole = {} THEN 0 ELSE CHOOSE k \in whole : TRUE
    BY DEF Number
  <1>2. Len(sent) \in Nat /\ \A k \in whole : k \in 1..Len(sent) /\ MsgsOf(frame) = {k}
    OBVIOUS
  <1> HIDE DEF whole
  <1>3. CASE whole = {}
    BY <1>1, <1>2, <1>3
  <1>4. CASE whole # {}
    <2>1. Number(frame) \in whole
      BY <1>1, <1>4
    <2> QED
      BY <1>2, <2>1 DEF Whole
  <1> QED
    BY <1>3, <1>4

-----------------------------------------------------------------------------
(* The order of the messages.                                              *)

\* The messages on their way or half received.
Underway == MsgsOf(rx.buffer) \cup MsgsOf(wire)

LinkHolds ==
  /\ rx \in Receivers /\ wire \in Seq(Octet)
  /\ delivered \in Seq(Nat) /\ sent \in Seq(Messages)
  /\ reader \in {e[1] : e \in Ends}
NoneUnsent ==
  /\ \A x \in Underway : x <= Len(sent)
  /\ \A i \in DOMAIN delivered : delivered[i] <= Len(sent)
DeliveredFirst ==
  \A i \in DOMAIN delivered, x \in Underway : delivered[i] # 0 /\ x # 0 => delivered[i] < x
LinkInv == LinkHolds /\ NoneUnsent /\ Parted(rx.buffer, wire) /\ DeliveredFirst /\ OnceInOrder

\* Octets of bytes.
LEMMA OctetsOfBytes ==
  ASSUME NEW bytes \in Seq(0..255), NEW k \in Nat
  PROVE  /\ Octets(bytes, k) \in Seq(Octet) /\ Len(Octets(bytes, k)) = Len(bytes)
         /\ \A j \in 1..Len(bytes) : Octets(bytes, k)[j] = [byte |-> bytes[j], msg |-> k]
         /\ MsgsOf(Octets(bytes, k)) \subseteq {k}
  <1>1. DOMAIN bytes = 1..Len(bytes) /\ Len(bytes) \in Nat /\ \A j \in 1..Len(bytes) : bytes[j] \in 0..255
    BY ElementOfSeq, LenProperties, ZenonT(40)
  <1>2. Octets(bytes, k) = [j \in 1..Len(bytes) |-> [byte |-> bytes[j], msg |-> k]]
    BY <1>1, Zenon DEF Octets
  <1>3. \A j \in 1..Len(bytes) : [byte |-> bytes[j], msg |-> k] \in Octet
    <2> TAKE j \in 1..Len(bytes)
    <2>1. bytes[j] \in 0..255
      BY <1>1
    <2>2. \A z \in 0..255 : z \in Int
      OBVIOUS
    <2>3. bytes[j] \in Int
      BY <2>1, <2>2, Zenon
    <2> QED
      BY <2>3, Zenon DEF Octet
  <1>4. Octets(bytes, k) \in Seq(Octet) /\ Len(Octets(bytes, k)) = Len(bytes)
    BY <1>1, <1>2, <1>3
  <1>5. MsgsOf(Octets(bytes, k)) \subseteq {k}
    BY <1>2 DEF MsgsOf
  <1> QED
    BY <1>2, <1>4, <1>5

LEMMA LinkInvInit == LinkInit => LinkInv
  <1> SUFFICES ASSUME LinkInit PROVE LinkInv
    OBVIOUS
  <1>1. wire = <<>> /\ delivered = <<>> /\ sent = <<>>
    BY DEF LinkInit
  <1>2. rx \in Receivers /\ MsgsOf(rx.buffer) \subseteq {0}
    <2>1. PICK j \in Junk, e \in BOOLEAN :
            rx = [buffer |-> Octets(j, 0), escape |-> e, frames |-> <<>>]
      BY DEF LinkInit
    <2>2. j \in Seq(0..255)
      BY RobotLinkAssumption
    <2>3. Octets(j, 0) \in Seq(Octet) /\ MsgsOf(Octets(j, 0)) \subseteq {0}
      BY <2>2, OctetsOfBytes
    <2>4. <<>> \in Seq(Seq(Octet))
      OBVIOUS
    <2> QED
      BY <2>1, <2>3, <2>4 DEF Receivers
  <1>3. reader \in {e[1] : e \in Ends}
    BY DEF LinkInit
  <1>4. MsgsOf(<<>>) = {} /\ Len(<<>>) = 0 /\ DOMAIN <<>> = {} /\ <<>> \in Seq(Nat)
        /\ <<>> \in Seq(Octet) /\ <<>> \in Seq(Messages)
    BY DEF MsgsOf
  <1>5. LinkHolds
    BY <1>1, <1>2, <1>3, <1>4 DEF LinkHolds
  <1>6. NoneUnsent
    BY <1>1, <1>2, <1>4 DEF NoneUnsent, Underway
  <1>7. Parted(rx.buffer, wire)
    BY <1>1 DEF Parted
  <1>8. DeliveredFirst /\ OnceInOrder
    BY <1>1, <1>4 DEF DeliveredFirst, OnceInOrder
  <1> QED
    BY <1>5, <1>6, <1>7, <1>8 DEF LinkInv

\* A new message is younger than all that are on their way.
LEMMA SendKeeps ==
  ASSUME LinkInv, NEW m \in Messages, Send(m)
  PROVE  LinkInv'
  <1> DEFINE k == Len(sent) + 1
             h == Octets(XPIDER_MESSAGE_HEAD, 0)
             f == Octets(frameDecode(Payload(m)), k)
             v == wire \o h \o f
  <1>1. /\ rx \in Receivers /\ rx.buffer \in Seq(Octet) /\ wire \in Seq(Octet)
        /\ delivered \in Seq(Nat) /\ sent \in Seq(Messages) /\ Len(sent) \in Nat /\ k \in Nat
    BY DEF LinkInv, LinkHolds, Receivers
  <1>2. sent' = Append(sent, m) /\ wire' = v /\ UNCHANGED <<rx, delivered, reader>>
    BY DEF Send, readVars, ends
  <1>3. h \in Seq(Octet) /\ \A j \in 1..Len(h) : h[j].msg = 0 /\ h[j].byte # FRAME_BOUNDARY_OCTET
    <2>1. /\ XPIDER_MESSAGE_HEAD \in Seq(0..255) /\ Len(XPIDER_MESSAGE_HEAD) = 2
          /\ \A j \in 1..2 : XPIDER_MESSAGE_HEAD[j] # FRAME_BOUNDARY_OCTET
      BY DEF XPIDER_MESSAGE_HEAD, FRAME_BOUNDARY_OCTET
    <2> HIDE DEF h
    <2>2. /\ h \in Seq(Octet) /\ Len(h) = 2
          /\ \A j \in 1..2 : h[j] = [byte |-> XPIDER_MESSAGE_HEAD[j], msg |-> 0]
      BY <2>1, OctetsOfBytes DEF h
    <2> QED
      BY <2>1, <2>2
  <1>4. f \in Seq(Octet) /\ \A j \in 1..Len(f) :
          f[j].msg = k /\ (f[j].byte = FRAME_BOUNDARY_OCTET => j = 1 \/ j = Len(f))
    BY <1>1, FrameOctets
  <1>5. /\ Parted(rx.buffer, wire)
        /\ \A x \in MsgsOf(rx.buffer) \cup MsgsOf(wire) : x \in Int /\ x < k
    <2>1. \A x \in MsgsOf(rx.buffer) \cup MsgsOf(wire) : x \in Int
      <3>1. ASSUME NEW s \in Seq(Octet), NEW j \in DOMAIN s PROVE s[j].msg \in Nat
        <4>1. s[j] \in Octet
          OBVIOUS
        <4> QED
          BY <4>1 DEF Octet
      <3> QED
        BY <1>1, <3>1 DEF MsgsOf
    <2> QED
      BY <1>1, <2>1 DEF LinkInv, NoneUnsent, Underway
  <1> HIDE DEF h, f, k
  <1>6. v \in Seq(Octet) /\ Parted(rx.buffer, v) /\ MsgsOf(v) \subseteq MsgsOf(wire) \cup {0, k}
    BY <1>1, <1>3, <1>4, <1>5, SendParts
  <1> HIDE DEF v
  <1>7. sent' \in Seq(Messages) /\ Len(sent') = k
    BY <1>1, <1>2 DEF k
  <1>8. Underway' \subseteq Underway \cup {0, k}
    BY <1>2, <1>6 DEF Underway
  <1>9. \A i \in DOMAIN delivered : delivered[i] \in Nat /\ delivered[i] <= Len(sent)
    BY <1>1 DEF LinkInv, NoneUnsent
  <1>10. LinkHolds'
    BY <1>1, <1>2, <1>6, <1>7 DEF LinkHolds, LinkInv
  <1>11. NoneUnsent'
    <2>1. \A x \in Underway : x \in Int /\ x < k
      BY <1>5 DEF Underway
    <2>2. \A x \in Underway' : x <= k
      BY <1>1, <1>8, <2>1
    <2>3. \A i \in DOMAIN delivered : delivered[i] <= k
      BY <1>1, <1>9 DEF k
    <2> QED
      BY <1>2, <1>7, <2>2, <2>3 DEF NoneUnsent
  <1>12. DeliveredFirst'
    <2>1. \A i \in DOMAIN delivered : delivered[i] < k
      BY <1>1, <1>9 DEF k
    <2> QED
      BY <1>2, <1>8, <2>1 DEF LinkInv, DeliveredFirst
  <1>13. Parted(rx.buffer, wire)'
    BY <1>2, <1>6
  <1>14. OnceInOrder'
    BY <1>2 DEF LinkInv, OnceInOrder
  <1> QED
    BY <1>10, <1>11, <1>12, <1>13, <1>14 DEF LinkInv

\* A connection that opens carries no message, and one that is lost takes what it carried.
LEMMA ConnectionKeeps ==
  ASSUME LinkInv, onConnected \/ onDisconnected
  PROVE  LinkInv'
  <1>1. UNCHANGED <<rx, delivered, sent, reader>>
    BY DEF onConnected, onDisconnected, readVars, ends
  <1>2. wire' \in Seq(Octet) /\ MsgsOf(wire') \subseteq {0} /\ Parted(rx.buffer, wire')
    <2>1. CASE onConnected
      <3>1. Text \in Seq(0..255)
        BY DEF Text
      <3>2. wire' = Octets(Text, 0)
        BY <2>1 DEF onConnected
      <3>3. wire' \in Seq(Octet) /\ MsgsOf(wire') \subseteq {0}
        BY <3>1, <3>2, OctetsOfBytes
      <3>4. \A j \in 1..Len(wire') : Behind(wire', j) \subseteq MsgsOf(wire')
        BY <3>3 DEF Behind, MsgsOf
      <3>5. Parted(rx.buffer, wire')
        BY <3>3, <3>4 DEF Parted
      <3> QED
        BY <3>3, <3>5
    <2>2. CASE onDisconnected
      BY <2>2 DEF onDisconnected, MsgsOf, Parted
    <2> QED
      BY <2>1, <2>2
  <1>3. Underway' \subseteq Underway \cup {0}
    BY <1>1, <1>2 DEF Underway
  <1>4. LinkHolds'
    BY <1>1, <1>2 DEF LinkInv, LinkHolds
  <1>5. NoneUnsent'
    <2>1. sent \in Seq(Messages)
      BY DEF LinkInv, LinkHolds
    <2>2. 0 <= Len(sent)
      BY <2>1
    <2> QED
      BY <1>1, <1>3, <2>2 DEF LinkInv, NoneUnsent
  <1>6. DeliveredFirst' /\ OnceInOrder'
    BY <1>1, <1>3 DEF LinkInv, DeliveredFirst, OnceInOrder
  <1>7. Parted(rx.buffer, wire)'
    BY <1>1, <1>2
  <1> QED
    BY <1>4, <1>5, <1>6, <1>7 DEF LinkInv

\* Reading hands over what was collected before what is still on its way.
LEMMA ReadKeeps ==
  ASSUME LinkInv, NEW n, onReadyRead(n)
  PROVE  LinkInv'
  <1> DEFINE new == charReceiver(rx, SubSeq(wire, strip + 1, n))
             given == [a \in DOMAIN new.frames |-> Number(new.frames[a])]
             rest == SubSeq(wire, n + 1, Len(wire))
             D == Len(delivered)
  <1>1. /\ rx \in Receivers /\ rx.buffer \in Seq(Octet) /\ wire \in Seq(Octet) /\ Len(wire) \in Nat
        /\ delivered \in Seq(Nat) /\ sent \in Seq(Messages) /\ Len(sent) \in Nat /\ D \in Nat
        /\ n \in 1..Len(wire) /\ n \in Nat /\ strip \in Nat /\ Parted(rx.buffer, wire)
    <2>1. n \in 1..Len(wire)
      BY DEF onReadyRead
    <2>2. strip \in Nat
      BY DEF strip
    <2>3. /\ rx \in Receivers /\ wire \in Seq(Octet) /\ delivered \in Seq(Nat)
          /\ sent \in Seq(Messages) /\ Parted(rx.buffer, wire)
      BY DEF LinkInv, LinkHolds
    <2>4. rx.buffer \in Seq(Octet)
      BY <2>3 DEF Receivers
    <2> QED
      BY <2>1, <2>2, <2>3, <2>4, LenProperties
  <1>2. /\ rx' = new /\ wire' = rest /\ delivered' = delivered \o given
        /\ UNCHANGED <<sent, reader>>
    BY DEF onReadyRead, ends
  <1>3. new \in Receivers /\ FramesInOrder(new, rx.buffer, wire, n)
    BY <1>1, ReadKeepsOrder
  <1> HIDE DEF new
  <1>4. new.frames \in Seq(Seq(Octet)) /\ new.buffer \in Seq(Octet)
    BY <1>3 DEF Receivers
  <1>5. /\ given \in Seq(Nat) /\ Len(given) = Len(new.frames) /\ Len(given) \in Nat
        /\ \A a \in 1..Len(given) :
             /\ given[a] \in 0..Len(sent)
             /\ given[a] # 0 => a \in DOMAIN new.frames /\ Whole(new.frames[a], given[a])
    <2>1. DOMAIN new.frames = 1..Len(new.frames) /\ Len(new.frames) \in Nat
      BY <1>4
    <2>2. \A a \in 1..Len(new.frames) :
            /\ Number(new.frames[a]) \in 0..Len(sent)
            /\ Number(new.frames[a]) # 0 => Whole(new.frames[a], Number(new.frames[a]))
      BY <1>1, NumberIsWhole, Zenon
    <2>3. given = [a \in 1..Len(new.frames) |-> Number(new.frames[a])]
      BY <2>1
    <2>4. \A a \in 1..Len(new.frames) : Number(new.frames[a]) \in Nat
      BY <1>1, <2>2
    <2> QED
      BY <2>1, <2>2, <2>3, <2>4
  <1> HIDE DEF given, rest, D
  <1>6. /\ delivered' \in Seq(Nat) /\ DOMAIN delivered' = 1..(D + Len(given))
        /\ \A i \in 1..D : delivered'[i] = delivered[i] /\ i \in DOMAIN delivered
        /\ \A i \in (D + 1)..(D + Len(given)) :
             delivered'[i] = given[i - D] /\ i - D \in 1..Len(given)
    <2>1. delivered \o given \in Seq(Nat) /\ Len(delivered \o given) = D + Len(given)
      BY <1>1, <1>5, ConcatProperties, Zenon DEF D
    <2>2. \A i \in 1..D : delivered'[i] = delivered[i] /\ i \in DOMAIN delivered
      BY <1>1, <1>2, <1>5 DEF D
    <2>3. ASSUME NEW i \in (D + 1)..(D + Len(given))
          PROVE  delivered'[i] = given[i - D] /\ i - D \in 1..Len(given)
      <3>1. i - D \in 1..Len(given)
        BY <1>1, <1>5
      <3>2. (delivered \o given)[i] = given[i - Len(delivered)]
        BY <1>1, <1>5, <3>1 DEF D
      <3> QED
        BY <1>2, <3>1, <3>2 DEF D
    <2>4. DOMAIN delivered' = 1..(D + Len(given))
      BY <1>2, <2>1, LenProperties, Zenon
    <2> QED
      BY <1>2, <2>1, <2>2, <2>3, <2>4, Zenon
  <1>7. rest \in Seq(Octet) /\ Len(rest) = Len(wire) - n /\ \A j \in 1..Len(rest) : rest[j] = wire[n + j]
    <2>1. \A j \in (n + 1)..Len(wire) : wire[j] \in Octet
      BY <1>1
    <2>2. rest = [j \in 1..(Len(wire) - n) |-> wire[n + j]]
      BY <1>1 DEF rest
    <2>3. /\ Len(wire) - n \in Nat
          /\ \A j \in 1..(Len(wire) - n) : n + j \in (n + 1)..Len(wire)
      BY <1>1
    <2>4. \A j \in 1..(Len(wire) - n) : wire[n + j] \in Octet
      BY <2>1, <2>3, Zenon
    <2>5. rest \in Seq(Octet) /\ Len(rest) = Len(wire) - n
      BY <2>2, <2>3, <2>4
    <2> QED
      BY <2>2, <2>5, Zenon
  <1>8. MsgsOf(rest) \subseteq Behind(wire, n) /\ Behind(wire, n) \subseteq MsgsOf(wire)
    <2>1. DOMAIN rest = 1..Len(rest) /\ \A j \in 1..Len(rest) : n + j \in (n + 1)..Len(wire)
      BY <1>1, <1>7
    <2>2. (n + 1)..Len(wire) \subseteq DOMAIN wire
      BY <1>1
    <2> QED
      BY <1>7, <2>1, <2>2, Zenon DEF MsgsOf, Behind
  <1>9. Before(wire, n) \subseteq MsgsOf(wire)
    <2>1. 1..n \subseteq DOMAIN wire
      BY <1>1
    <2> QED
      BY <2>1, Zenon DEF Before, MsgsOf
  <1>10. MsgsOf(new.buffer) \subseteq MsgsOf(rx.buffer) \cup Before(wire, n)
    BY <1>3 DEF FramesInOrder
  <1>11. Underway' \subseteq Underway /\ Underway' \subseteq MsgsOf(new.buffer) \cup Behind(wire, n)
    BY <1>2, <1>8, <1>9, <1>10 DEF Underway
  <1>12. ASSUME NEW a \in 1..Len(given), given[a] # 0
         PROVE  given[a] \in Underway /\ \A x \in Underway' : x # 0 => given[a] < x
    <2>1. given[a] \in Nat /\ a \in DOMAIN new.frames /\ Whole(new.frames[a], given[a])
      BY <1>1, <1>5, <1>12
    <2> QED
      BY <1>3, <1>11, <2>1 DEF FramesInOrder, Underway
  <1>13. LinkHolds'
    BY <1>1, <1>2, <1>3, <1>6, <1>7 DEF LinkInv, LinkHolds
  <1>14. NoneUnsent'
    <2>1. ASSUME NEW i \in DOMAIN delivered' PROVE delivered'[i] <= Len(sent)
      <3>1. CASE i <= D
        BY <1>1, <1>6, <3>1 DEF LinkInv, NoneUnsent
      <3>2. CASE ~(i <= D)
        <4>0. i \in (D + 1)..(D + Len(given))
          BY <1>1, <1>5, <1>6, <3>2
        <4>1. delivered'[i] = given[i - D] /\ i - D \in 1..Len(given)
          BY <1>6, <4>0, Zenon
        <4>2. given[i - D] \in 0..Len(sent)
          BY <1>5, <4>1
        <4> QED
          BY <1>1, <4>1, <4>2
      <3> QED
        BY <3>1, <3>2
    <2> QED
      BY <1>2, <1>11, <2>1 DEF LinkInv, NoneUnsent
  <1>15. DeliveredFirst'
    <2> SUFFICES ASSUME NEW i \in DOMAIN delivered', NEW x \in Underway', delivered'[i] # 0, x # 0
                 PROVE  delivered'[i] < x
      BY DEF DeliveredFirst
    <2>1. CASE i <= D
      BY <1>1, <1>6, <1>11, <2>1 DEF LinkInv, DeliveredFirst
    <2>2. CASE ~(i <= D)
      <3>0. i \in (D + 1)..(D + Len(given))
        BY <1>1, <1>5, <1>6, <2>2
      <3>1. delivered'[i] = given[i - D] /\ i - D \in 1..Len(given)
        BY <1>6, <3>0, Zenon
      <3> QED
        BY <1>12, <3>1
    <2> QED
      BY <2>1, <2>2
  <1>16. OnceInOrder'
    <2> SUFFICES ASSUME NEW i \in DOMAIN delivered', NEW k \in DOMAIN delivered',
                        i < k, delivered'[i] # 0, delivered'[k] # 0
                 PROVE  delivered'[i] < delivered'[k]
      BY DEF OnceInOrder
    <2>1. CASE k <= D
      <3>1. i <= D /\ i \in 1..D /\ k \in 1..D
        BY <1>1, <1>5, <1>6, <2>1
      <3> QED
        BY <1>6, <3>1 DEF LinkInv, OnceInOrder
    <2>2. CASE ~(k <= D)
      <3>0. k \in (D + 1)..(D + Len(given))
        BY <1>1, <1>5, <1>6, <2>2
      <3>1. delivered'[k] = given[k - D] /\ k - D \in 1..Len(given)
        BY <1>6, <3>0, Zenon
      <3>2. given[k - D] \in Underway
        BY <1>12, <3>1
      <3>3. CASE i <= D
        <4>1. delivered'[i] = delivered[i] /\ i \in DOMAIN delivered
          BY <1>1, <1>5, <1>6, <3>3
        <4> QED
          BY <3>1, <3>2, <4>1 DEF LinkInv, DeliveredFirst
      <3>4. CASE ~(i <= D)
        <4>0. i \in (D + 1)..(D + Len(given)) /\ i - D < k - D
          <5>1. i \in 1..(D + Len(given)) /\ D \in Nat /\ Len(given) \in Nat
            BY <1>1, <1>5, <1>6
          <5> QED
            BY <2>2, <3>0, <3>4, <5>1
        <4>1. delivered'[i] = given[i - D] /\ i - D \in 1..Len(given) /\ i - D < k - D
          BY <1>6, <4>0, Zenon
        <4>2. /\ given[i - D] \in Nat /\ i - D \in DOMAIN new.frames
              /\ Whole(new.frames[i - D], given[i - D])
          BY <1>1, <1>5, <4>1
        <4>3. /\ given[k - D] \in Nat /\ k - D \in DOMAIN new.frames
              /\ Whole(new.frames[k - D], given[k - D])
          BY <1>1, <1>5, <3>1
        <4>4. given[i - D] < given[k - D]
          BY <1>3, <4>1, <4>2, <4>3 DEF FramesInOrder
        <4> QED
          BY <3>1, <4>1, <4>4
      <3> QED
        BY <3>3, <3>4
    <2> QED
      BY <2>1, <2>2
  <1>17. Parted(rx.buffer, wire)'
    <2> SUFFICES ASSUME NEW j \in 1..Len(rest), rest[j].byte = FRAME_BOUNDARY_OCTET,
                        NEW x \in MsgsOf(new.buffer) \cup Before(rest, j - 1),
                        NEW y \in Behind(rest, j), x # 0, y # 0
                 PROVE  x < y
      BY <1>2, Zenon DEF Parted
    <2>1. n + j \in 1..Len(wire) /\ wire[n + j].byte = FRAME_BOUNDARY_OCTET
      BY <1>1, <1>7
    <2>2. y \in Behind(wire, n + j)
      <3>1. PICK b \in (j + 1)..Len(rest) : y = rest[b].msg
        BY DEF Behind
      <3>2. rest[b] = wire[n + b] /\ n + b \in ((n + j) + 1)..Len(wire)
        BY <1>1, <1>7
      <3> QED
        BY <3>1, <3>2, Zenon DEF Behind
    <2>3. x \in MsgsOf(rx.buffer) \cup Before(wire, (n + j) - 1)
      <3>1. Before(wire, n) \subseteq Before(wire, (n + j) - 1)
        <4>1. 1..n \subseteq 1..((n + j) - 1)
          BY <1>1, <1>7
        <4> QED
          BY <4>1, Zenon DEF Before
      <3>2. Before(rest, j - 1) \subseteq Before(wire, (n + j) - 1)
        <4>1. ASSUME NEW b \in 1..(j - 1)
              PROVE  rest[b] = wire[n + b] /\ n + b \in 1..((n + j) - 1)
          <5>1. b \in 1..Len(rest) /\ n + b \in 1..((n + j) - 1)
            BY <1>1, <1>7
          <5> QED
            BY <1>7, <5>1, Zenon
        <4> QED
          BY <4>1, Zenon DEF Before
      <3> QED
        BY <1>10, <3>1, <3>2
    <2> QED
      BY <1>1, <2>1, <2>2, <2>3 DEF Parted
  <1> QED
    BY <1>13, <1>14, <1>15, <1>16, <1>17 DEF LinkInv

LEMMA LinkInvStep == LinkInv /\ [LinkNext]_linkVars => LinkInv'
  <1> SUFFICES ASSUME LinkInv, [LinkNext]_linkVars PROVE LinkInv'
    OBVIOUS
  <1>1. CASE UNCHANGED <<rx, wire, delivered, sent, reader>>
    BY <1>1 DEF LinkInv, LinkHolds, NoneUnsent, Parted, DeliveredFirst, OnceInOrder,
                Underway, Behind, Before, MsgsOf
  <1>2. CASE onRetryTimeout \/ ConnectFails
    BY <1>1, <1>2 DEF onRetryTimeout, ConnectFails, readVars, ends
  <1>3. CASE onConnected \/ onDisconnected
    BY <1>3, ConnectionKeeps
  <1>4. CASE \E m \in Messages : Send(m)
    BY <1>4, SendKeeps
  <1>5. CASE \E n \in ReadSizes \cup {Len(wire)} : onReadyRead(n)
    BY <1>5, ReadKeeps
  <1>6. CASE UNCHANGED linkVars
    BY <1>1, <1>6 DEF linkVars, readVars, ends
  <1> QED
    BY <1>2, <1>3, <1>4, <1>5, <1>6 DEF LinkNext

\* Whatever was in the receiver before it was first used, however the reads cut the
\* stream, whatever they strip of it and wherever the connection is lost, the frames that
\* are handed over whole are sent messages, each at most once and in the order sent.
THEOREM DeliveredOnceInOrder == LinkSpec => []OnceInOrder
  <1>1. LinkInv => OnceInOrder
    BY DEF LinkInv
  <1> QED
    BY <1>1, LinkInvInit, LinkInvStep, PTL DEF LinkSpec

-----------------------------------------------------------------------------
(* What arrives whole is handed over.                                      *)

\* One sequence behind another.
LEMMA Joint ==
  ASSUME NEW S, NEW x \in Seq(S), NEW y \in Seq(S), NEW z, z = x \o y
  PROVE  /\ z \in Seq(S) /\ Len(x) \in Nat /\ Len(y) \in Nat /\ Len(z) = Len(x) + Len(y)
         /\ \A q \in 1..Len(x) : z[q] = x[q] /\ q \in 1..Len(z)
         /\ \A t \in 1..Len(y) : z[Len(x) + t] = y[t] /\ Len(x) + t \in 1..Len(z)
  OBVIOUS

\* What FlattenSeq put together is where it was put.
PartAt(s, pre, i) ==
  /\ Len(pre[i]) = Len(pre[i - 1]) + Len(s[i])
  /\ Len(pre[i]) <= Len(pre[Len(s)])
  /\ \A t \in 1..Len(s[i]) : pre[Len(s)][Len(pre[i - 1]) + t] = s[i][t]

LEMMA JoinedAt ==
  ASSUME NEW S, NEW s \in Seq(Seq(S)), NEW pre, Joins(s, pre),
         \A j \in 0..Len(s) : pre[j] \in Seq(S), NEW i \in 1..Len(s)
  PROVE  PartAt(s, pre, i)
  <1> DEFINE n == Len(s)
             Extends(x) == /\ Len(pre[i]) <= Len(x)
                           /\ \A q \in 1..Len(pre[i]) : x[q] = pre[i][q]
             Good == [m \in 0..n |-> IF m < i THEN {pre[m]} ELSE {x \in Seq(S) : Extends(x)}]
  <1>1. /\ n \in Nat /\ i \in 1..n /\ i \in Nat /\ 0 \in 0..n /\ n \in 0..n /\ i \in 0..n /\ i - 1 \in 0..n
        /\ \A m \in 1..n : m \in 0..n /\ m - 1 \in 0..n /\ s[m] \in Seq(S)
    OBVIOUS
  <1>2. /\ \A m \in 1..n : pre[m] = pre[m - 1] \o s[m]
        /\ \A m \in 0..n : pre[m] \in Seq(S)
    BY DEF Joins
  <1> HIDE DEF n
  <1>3. pre[0] \in Good[0]
    BY <1>1
  <1>4. ASSUME NEW m \in 1..n, pre[m - 1] \in Good[m - 1]
        PROVE  pre[m] \in Good[m]
    <2>1. m \in 0..n /\ m - 1 \in 0..n /\ s[m] \in Seq(S) /\ m \in Nat
      BY <1>1
    <2>2. /\ pre[m] \in Seq(S) /\ pre[m - 1] \in Seq(S) /\ pre[i] \in Seq(S)
          /\ pre[m] = pre[m - 1] \o s[m]
      BY <1>1, <1>2, <2>1
    <2>3. CASE m < i
      BY <2>1, <2>3
    <2>4. CASE m = i
      <3>1. Len(pre[i]) \in Nat
        BY <2>2
      <3>2. Len(pre[i]) <= Len(pre[i])
        BY <3>1
      <3>3. Extends(pre[m])
        BY <2>4, <3>2, Zenon
      <3> QED
        BY <2>1, <2>2, <2>4, <3>3
    <2>5. CASE m > i
      <3>1. Extends(pre[m - 1])
        <4>1. ~(m - 1 < i) \/ m - 1 < i
          OBVIOUS
        <4>2. CASE m - 1 < i
          <5>1. m - 1 = i - 1 \/ m - 1 = i
            BY <1>1, <2>1, <2>5, <4>2
          <5> QED
            BY <1>1, <2>1, <2>5, <4>2
        <4>3. CASE ~(m - 1 < i)
          <5>1. Good[m - 1] = {x \in Seq(S) : Extends(x)}
            BY <2>1, <4>3, Zenon
          <5> QED
            BY <1>4, <5>1, Zenon
        <4> QED
          BY <4>1, <4>2, <4>3
      <3>2. Extends(pre[m])
        <4> DEFINE o == pre[i]
                   x == pre[m - 1]
                   y == s[m]
                   z == pre[m]
        <4>1. x \in Seq(S) /\ y \in Seq(S) /\ z = x \o y /\ o \in Seq(S)
          BY <2>1, <2>2
        <4>2. Len(o) <= Len(x) /\ \A q \in 1..Len(o) : x[q] = o[q]
          BY <3>1
        <4> HIDE DEF o, x, y, z
        <4>3. /\ Len(x) \in Nat /\ Len(y) \in Nat /\ Len(z) = Len(x) + Len(y)
              /\ \A q \in 1..Len(x) : z[q] = x[q]
          BY <4>1, Joint
        <4>4. Len(o) \in Nat /\ Len(o) <= Len(z)
          BY <4>1, <4>2, <4>3
        <4>5. ASSUME NEW q \in 1..Len(o) PROVE z[q] = o[q]
          <5>1. q \in 1..Len(x)
            BY <4>2, <4>3, <4>4
          <5> QED
            BY <4>2, <4>3, <5>1, Zenon
        <4> QED
          BY <4>4, <4>5, Zenon DEF o, z
      <3> HIDE DEF Extends
      <3> QED
        BY <1>1, <2>1, <2>2, <2>5, <3>2
    <2>6. m < i \/ m = i \/ m > i
      BY <1>1, <2>1
    <2> QED
      BY <2>3, <2>4, <2>5, <2>6, Zenon
  <1>5. pre[n] \in Good[n]
    <2> HIDE DEF Good
    <2> QED
      BY <1>1, <1>3, <1>4, StepsKeep, Zenon
  <1>6. Extends(pre[n])
    <2> HIDE DEF Extends
    <2> QED
      BY <1>1, <1>5
  <1>7. pre[i] = pre[i - 1] \o s[i] /\ pre[i - 1] \in Seq(S) /\ s[i] \in Seq(S)
    BY <1>1, <1>2
  <1> DEFINE x == pre[i - 1]
             y == s[i]
             z == pre[i]
  <1>8. x \in Seq(S) /\ y \in Seq(S) /\ z = x \o y
    BY <1>7
  <1> HIDE DEF x, y, z
  <1>9. /\ Len(z) = Len(x) + Len(y)
        /\ \A t \in 1..Len(y) : z[Len(x) + t] = y[t] /\ Len(x) + t \in 1..Len(z)
    BY <1>8, Joint
  <1> QED
    BY <1>6, <1>9, Zenon DEF PartAt, x, y, z, n

Body(m) == Payload(m) \o Fcs(Payload(m))
Escapes(m) == [i \in DOMAIN Body(m) |-> Escaped(Body(m)[i])]
FrameOf(m) == frameDecode(Payload(m))

\* How many octets the first i bytes of the body take.
Parts(m) ==
  CHOOSE pre : Joins(Escapes(m), pre) /\ \A i \in 0..Len(Escapes(m)) : pre[i] \in Seq(Int)
Taken(m, i) == Len(Parts(m)[i])

LEMMA BodyBytes ==
  ASSUME NEW m \in Messages
  PROVE  Body(m) \in Seq(0..255) /\ Len(Body(m)) = Len(Payload(m)) + 2 /\ Len(Body(m)) \in Nat
  <1>1. /\ Payload(m) \in Seq(0..255) /\ Fcs(Payload(m)) \in Seq(0..255)
        /\ Len(Fcs(Payload(m))) = 2
    BY BytesAssumption
  <1>2. ASSUME NEW Byte, NEW x \in Seq(Byte), NEW y \in Seq(Byte)
        PROVE  x \o y \in Seq(Byte) /\ Len(x \o y) = Len(x) + Len(y)
    OBVIOUS
  <1>3. Body(m) \in Seq(0..255) /\ Len(Body(m)) = Len(Payload(m)) + Len(Fcs(Payload(m)))
    BY <1>1, <1>2, ZenonT(40) DEF Body
  <1>4. Len(Payload(m)) \in Nat /\ Len(Fcs(Payload(m))) = 2
    BY <1>1, LenProperties, ZenonT(40)
  <1> QED
    BY <1>3, <1>4

LEMMA FrameShape ==
  ASSUME NEW m \in Messages
  PROVE  LET M == Len(Body(m))
         IN  /\ Body(m) \in Seq(0..255) /\ M = Len(Payload(m)) + 2 /\ M \in Nat
             /\ Len(FrameOf(m)) = Taken(m, M) + 2
             /\ FrameOf(m)[1] = FRAME_BOUNDARY_OCTET
             /\ FrameOf(m)[Taken(m, M) + 2] = FRAME_BOUNDARY_OCTET
             /\ Taken(m, 0) = 0 /\ \A i \in 0..M : Taken(m, i) \in Nat
             /\ \A i \in 1..M :
                  /\ Taken(m, i) <= Taken(m, M)
                  /\ Body(m)[i] \in Special =>
                       /\ Taken(m, i) = Taken(m, i - 1) + 2
                       /\ FrameOf(m)[Taken(m, i - 1) + 2] = CONTROL_ESCAPE_OCTET
                       /\ FrameOf(m)[Taken(m, i - 1) + 3] = Invert(Body(m)[i])
                  /\ Body(m)[i] \notin Special =>
                       /\ Taken(m, i) = Taken(m, i - 1) + 1
                       /\ FrameOf(m)[Taken(m, i - 1) + 2] = Body(m)[i]
  <1> DEFINE b == Body(m)
             M == Len(b)
             s == Escapes(m)
             pre == Parts(m)
             inner == FlattenSeq(s)
             E == FrameOf(m)
  <1>1. b \in Seq(0..255) /\ M = Len(Payload(m)) + 2 /\ M \in Nat
    BY BodyBytes
  <1>2. E = <<FRAME_BOUNDARY_OCTET>> \o inner \o <<FRAME_BOUNDARY_OCTET>>
    BY DEF FrameOf, frameDecode, Escapes, Body
  <1>3. /\ DOMAIN b = 1..M /\ \A i \in 1..M : b[i] \in 0..255
        /\ s = [i \in 1..M |-> Escaped(b[i])]
    <2>1. DOMAIN b = 1..M /\ \A i \in 1..M : b[i] \in 0..255
      <3> HIDE DEF b
      <3> QED
        BY <1>1, ElementOfSeq, LenProperties, ZenonT(40)
    <2> QED
      BY <2>1 DEF Escapes
  <1> HIDE DEF b, M, s, pre, inner, E
  <1>4. ASSUME NEW c \in 0..255
        PROVE  /\ Escaped(c) \in Seq(Int)
               /\ c \in Special => /\ Len(Escaped(c)) = 2
                                   /\ Escaped(c)[1] = CONTROL_ESCAPE_OCTET
                                   /\ Escaped(c)[2] = Invert(c)
               /\ c \notin Special => Len(Escaped(c)) = 1 /\ Escaped(c)[1] = c
    <2>1. Invert(c) \in Int /\ CONTROL_ESCAPE_OCTET \in Int /\ c \in Int
      BY DEF Invert, CONTROL_ESCAPE_OCTET
    <2> QED
      BY <2>1 DEF Escaped
  <1>5. /\ s \in Seq(Seq(Int)) /\ Len(s) = M /\ \A i \in 1..M : s[i] = Escaped(b[i])
    <2>1. \A i \in 1..M : Escaped(b[i]) \in Seq(Int)
      BY <1>3, <1>4
    <2> QED
      BY <1>1, <1>3, <2>1
  <1>6. Joins(s, pre) /\ \A i \in 0..M : pre[i] \in Seq(Int)
    <2>1. \E p : Joins(s, p) /\ \A i \in 0..Len(s) : p[i] \in Seq(Int)
      BY <1>5, Flattened, Zenon
    <2>2. Joins(s, pre) /\ \A i \in 0..Len(s) : pre[i] \in Seq(Int)
      BY <2>1, Zenon DEF pre, Parts, s
    <2> QED
      BY <1>5, <2>2
  <1>7. \A i \in 0..M : Taken(m, i) \in Nat /\ Taken(m, i) = Len(pre[i])
    BY <1>6 DEF Taken, pre
  <1>8. /\ inner \in Seq(Int) /\ Len(inner) = Taken(m, M) /\ Taken(m, 0) = 0 /\ Taken(m, M) \in Nat
    <2>1. inner = pre[M] /\ pre[0] = <<>> /\ 0 \in 0..M /\ M \in 0..M
      BY <1>1, <1>5, <1>6 DEF Joins, inner
    <2> QED
      BY <1>6, <1>7, <2>1
  <1>9. /\ Len(E) = Taken(m, M) + 2
        /\ E[1] = FRAME_BOUNDARY_OCTET /\ E[Taken(m, M) + 2] = FRAME_BOUNDARY_OCTET
        /\ \A q \in 1..Taken(m, M) : E[q + 1] = inner[q]
    <2>1. FRAME_BOUNDARY_OCTET \in Int
      BY DEF FRAME_BOUNDARY_OCTET
    <2> QED
      BY <1>2, <1>8, <2>1
  <1>10. ASSUME NEW i \in 1..M
         PROVE  /\ Taken(m, i) <= Taken(m, M)
                /\ b[i] \in Special =>
                     /\ Taken(m, i) = Taken(m, i - 1) + 2
                     /\ E[Taken(m, i - 1) + 2] = CONTROL_ESCAPE_OCTET
                     /\ E[Taken(m, i - 1) + 3] = Invert(b[i])
                /\ b[i] \notin Special =>
                     /\ Taken(m, i) = Taken(m, i - 1) + 1
                     /\ E[Taken(m, i - 1) + 2] = b[i]
    <2>1. i \in 0..M /\ i - 1 \in 0..M /\ b[i] \in 0..255 /\ s[i] = Escaped(b[i])
      BY <1>1, <1>3, <1>5
    <2>2. /\ Len(pre[i]) = Len(pre[i - 1]) + Len(s[i]) /\ Len(pre[i]) <= Len(inner)
          /\ \A t \in 1..Len(s[i]) : inner[Len(pre[i - 1]) + t] = s[i][t]
      <3>1. i \in 1..Len(s) /\ \A j \in 0..Len(s) : pre[j] \in Seq(Int)
        BY <1>5, <1>6
      <3>2. PartAt(s, pre, i)
        BY <1>5, <1>6, <3>1, JoinedAt, Zenon
      <3>3. inner = pre[Len(s)]
        BY <1>6, Zenon DEF inner, Joins
      <3> QED
        BY <3>2, <3>3, Zenon DEF PartAt
    <2> DEFINE p == Taken(m, i - 1)
               q == Taken(m, i)
               c == b[i]
    <2>3. /\ p \in Nat /\ q \in Nat /\ q = p + Len(Escaped(c)) /\ q <= Taken(m, M)
          /\ \A t \in 1..Len(Escaped(c)) : inner[p + t] = Escaped(c)[t]
      BY <1>7, <1>8, <2>1, <2>2
    <2>4. c \in 0..255
      BY <2>1
    <2> HIDE DEF p, q, c
    <2>5. CASE c \in Special
      <3>1. /\ Len(Escaped(c)) = 2 /\ Escaped(c)[1] = CONTROL_ESCAPE_OCTET
            /\ Escaped(c)[2] = Invert(c)
        BY <1>4, <2>4, <2>5
      <3>2. q = p + 2 /\ inner[p + 1] = CONTROL_ESCAPE_OCTET /\ inner[p + 2] = Invert(c)
        BY <2>3, <3>1
      <3>3. E[(p + 1) + 1] = inner[p + 1] /\ E[(p + 2) + 1] = inner[p + 2]
        BY <1>8, <1>9, <2>3, <3>2
      <3>4. (p + 1) + 1 = p + 2 /\ (p + 2) + 1 = p + 3
        BY <2>3
      <3> QED
        BY <2>3, <2>5, <3>2, <3>3, <3>4 DEF p, q, c
    <2>6. CASE c \notin Special
      <3>1. Len(Escaped(c)) = 1 /\ Escaped(c)[1] = c
        BY <1>4, <2>4, <2>6
      <3>2. q = p + 1 /\ inner[p + 1] = c
        BY <2>3, <3>1
      <3>3. E[(p + 1) + 1] = inner[p + 1]
        BY <1>8, <1>9, <2>3, <3>2
      <3>4. (p + 1) + 1 = p + 2
        BY <2>3
      <3> QED
        BY <2>3, <2>6, <3>2, <3>3, <3>4 DEF p, q, c
    <2> QED
      BY <2>5, <2>6
  <1> QED
    BY <1>1, <1>7, <1>8, <1>9, <1>10, Zenon DEF b, M, E

\* What the receiver holds after the first j octets of message k, which is m.
Reading(r, m, k, j) ==
  \E i \in 0..Len(Body(m)) :
    /\ r.buffer = Octets(SubSeq(Body(m), 1, i), k)
    /\ \/ ~r.escape /\ j = Taken(m, i) + 1
       \/ /\ r.escape /\ j = Taken(m, i) + 2
          /\ i < Len(Body(m)) /\ Body(m)[i + 1] \in Special

HandedOver(r, m, k) == \E a \in DOMAIN r.frames : r.frames[a] = Octets(Payload(m), k)

\* The octet that message k has at position j.
OctetOf(m, k, j) == [byte |-> FrameOf(m)[j], msg |-> k]

LEMMA BodyUpTo ==
  ASSUME NEW m \in Messages, NEW k \in Nat, NEW i \in 0..Len(Body(m))
  PROVE  LET buffer == Octets(SubSeq(Body(m), 1, i), k)
         IN  /\ buffer \in Seq(Octet) /\ Len(buffer) = i
             /\ \A q \in 1..i : buffer[q] = [byte |-> Body(m)[q], msg |-> k]
  <1> DEFINE b == Body(m)
             part == SubSeq(b, 1, i)
  <1>1. b \in Seq(0..255) /\ Len(b) \in Nat /\ i \in 0..Len(b)
    BY BodyBytes
  <1> HIDE DEF b
  <1>2. \A q \in 1..Len(b) : b[q] \in 0..255
    BY <1>1, ElementOfSeq, Zenon
  <1>3. part \in Seq(0..255) /\ Len(part) = i /\ \A q \in 1..i : part[q] = b[q]
    BY <1>1, <1>2
  <1> HIDE DEF part
  <1>4. /\ Octets(part, k) \in Seq(Octet) /\ Len(Octets(part, k)) = Len(part)
        /\ \A q \in 1..Len(part) : Octets(part, k)[q] = [byte |-> part[q], msg |-> k]
    BY <1>3, OctetsOfBytes
  <1>5. /\ Octets(part, k) \in Seq(Octet) /\ Len(Octets(part, k)) = i
        /\ \A q \in 1..i : Octets(part, k)[q] = [byte |-> b[q], msg |-> k]
    BY <1>3, <1>4, Zenon
  <1> QED
    BY <1>5 DEF b, part

LEMMA BodyGrows ==
  ASSUME NEW m \in Messages, NEW k \in Nat, NEW i \in 0..Len(Body(m)), i < Len(Body(m))
  PROVE  Append(Octets(SubSeq(Body(m), 1, i), k), [byte |-> Body(m)[i + 1], msg |-> k])
           = Octets(SubSeq(Body(m), 1, i + 1), k)
  <1> DEFINE e == [byte |-> Body(m)[i + 1], msg |-> k]
             x == Octets(SubSeq(Body(m), 1, i), k)
             y == Octets(SubSeq(Body(m), 1, i + 1), k)
  <1>1. Len(Body(m)) \in Nat /\ i + 1 \in 0..Len(Body(m)) /\ i \in Nat
    BY BodyBytes
  <1>2. /\ x \in Seq(Octet) /\ Len(x) = i
        /\ \A q \in 1..i : x[q] = [byte |-> Body(m)[q], msg |-> k]
    BY BodyUpTo
  <1>3. /\ y \in Seq(Octet) /\ Len(y) = i + 1
        /\ \A q \in 1..(i + 1) : y[q] = [byte |-> Body(m)[q], msg |-> k]
    BY <1>1, BodyUpTo, ZenonT(40)
  <1>4. e = y[i + 1]
    BY <1>1, <1>3
  <1>5. e \in Octet
    BY <1>1, <1>3, <1>4
  <1> HIDE DEF e, x, y
  <1>6. \A q \in 1..i : x[q] = y[q]
    <2>1. \A q \in 1..i : q \in 1..(i + 1)
      BY <1>1
    <2> QED
      BY <1>2, <1>3, <2>1, Zenon
  <1>7. Append(x, e) = y
    BY <1>1, <1>2, <1>3, <1>4, <1>5, <1>6
  <1> QED
    BY <1>7 DEF x, y, e

LEMMA SameOctets ==
  ASSUME NEW v \in Seq(0..255), NEW k, NEW x \in Seq(Octet), Len(x) = Len(v),
         \A q \in 1..Len(v) : x[q] = [byte |-> v[q], msg |-> k]
  PROVE  Values(x) = v /\ x = Octets(v, k)
  <1>1. /\ DOMAIN x = 1..Len(v) /\ DOMAIN v = 1..Len(v)
        /\ v = [q \in 1..Len(v) |-> v[q]] /\ x = [q \in 1..Len(v) |-> x[q]]
    <2>1. DOMAIN x = 1..Len(v) /\ DOMAIN v = 1..Len(v)
      BY LenProperties, Zenon
    <2>2. v \in [1..Len(v) -> 0..255] /\ x \in [1..Len(x) -> Octet]
      BY LenProperties, Zenon
    <2> QED
      BY <2>1, <2>2
  <1>2. Values(x) = v
    BY <1>1 DEF Values
  <1>3. x = Octets(v, k)
    BY <1>1 DEF Octets
  <1> QED
    BY <1>2, <1>3

\* The boundary that ends a frame hands the message over.
LEMMA FrameEnds ==
  ASSUME NEW m \in Messages, Fits(m), NEW k \in Nat, NEW r \in Receivers, ~r.escape,
         r.buffer = Octets(SubSeq(Body(m), 1, Len(Body(m))), k),
         NEW e, e.byte = FRAME_BOUNDARY_OCTET
  PROVE  HandedOver(Receive(r, e), m, k)
  <1> DEFINE b == Body(m)
             p == Payload(m)
             f == Fcs(p)
             n == Len(p)
             buffer == r.buffer
  <1>1. /\ p \in Seq(0..255) /\ f \in Seq(0..255) /\ Len(f) = 2 /\ b = p \o f
        /\ Len(b) = n + 2 /\ Len(b) \in Nat /\ n \in Nat /\ n >= 2
    <2>1. Payload(m) \in Seq(0..255) /\ Fcs(Payload(m)) \in Seq(0..255) /\ Len(Fcs(Payload(m))) = 2
      BY BytesAssumption
    <2>2. Len(Payload(m)) \in Nat /\ Len(Payload(m)) >= 2
      BY <2>1, LenProperties DEF Fits
    <2> QED
      BY <2>1, <2>2, BodyBytes DEF Body
  <1>2. /\ buffer \in Seq(Octet) /\ Len(buffer) = n + 2
        /\ \A q \in 1..(n + 2) : buffer[q] = [byte |-> b[q], msg |-> k]
    <2>1. Len(Body(m)) \in 0..Len(Body(m))
      BY BodyBytes
    <2>2. LET x == Octets(SubSeq(Body(m), 1, Len(Body(m))), k)
          IN  /\ x \in Seq(Octet) /\ Len(x) = Len(Body(m))
              /\ \A q \in 1..Len(Body(m)) : x[q] = [byte |-> Body(m)[q], msg |-> k]
      BY <2>1, BodyUpTo
    <2> QED
      BY <1>1, <2>2
  <1> HIDE DEF b, p, f, n, buffer
  <1>3. /\ \A q \in 1..n : b[q] = p[q]
        /\ \A q \in 1..2 : b[n + q] = f[q]
    BY <1>1 DEF n
  <1>4. \A q \in 1..(n + 2) : buffer[q] \in Octet
    BY <1>1, <1>2
  <1>5. /\ SubSeq(buffer, 1, n) \in Seq(Octet) /\ Len(SubSeq(buffer, 1, n)) = Len(p)
        /\ \A q \in 1..Len(p) : SubSeq(buffer, 1, n)[q] = [byte |-> p[q], msg |-> k]
    <2> DEFINE x == SubSeq(buffer, 1, n)
    <2>1. x \in Seq(Octet) /\ Len(x) = n /\ \A q \in 1..n : x[q] = buffer[q]
      BY <1>1, <1>2, <1>4
    <2> HIDE DEF x
    <2>2. \A q \in 1..n : q \in 1..(n + 2)
      BY <1>1
    <2>3. x \in Seq(Octet) /\ Len(x) = n /\ \A q \in 1..n : x[q] = [byte |-> p[q], msg |-> k]
      BY <1>2, <1>3, <2>1, <2>2, Zenon
    <2> QED
      BY <2>3 DEF x, n
  <1>6. /\ SubSeq(buffer, n + 1, n + 2) \in Seq(Octet)
        /\ Len(SubSeq(buffer, n + 1, n + 2)) = Len(f)
        /\ \A q \in 1..Len(f) : SubSeq(buffer, n + 1, n + 2)[q] = [byte |-> f[q], msg |-> k]
    <2> DEFINE x == SubSeq(buffer, n + 1, n + 2)
    <2>1. \A q \in (n + 1)..(n + 2) : buffer[q] \in Octet
      BY <1>1, <1>4
    <2>2. n + 1 \in Int /\ n + 2 \in Int /\ (n + 2) - (n + 1) + 1 = 2 /\ n + 1 <= n + 2 + 1
      BY <1>1
    <2>3. x \in Seq(Octet) /\ Len(x) = 2
      BY <1>1, <1>2, <2>1, <2>2
    <2>4. \A q \in 1..2 : x[q] = buffer[n + q] /\ n + q \in 1..(n + 2)
      BY <1>1, <1>2, <2>2
    <2> HIDE DEF x
    <2>5. \A q \in 1..2 : x[q] = [byte |-> f[q], msg |-> k]
      BY <1>2, <1>3, <2>4, Zenon
    <2> QED
      BY <1>1, <2>3, <2>5 DEF x
  <1>7. Values(SubSeq(buffer, 1, n)) = p
    BY <1>1, <1>5, SameOctets, Zenon
  <1>8. Values(SubSeq(buffer, n + 1, n + 2)) = f
    BY <1>1, <1>6, SameOctets, Zenon
  <1>9. SubSeq(buffer, 1, n) = Octets(p, k)
    BY <1>1, <1>5, SameOctets, Zenon
  <1>10. (n + 2) - 2 = n /\ (n + 2) - 1 = n + 1 /\ n + 2 >= 4
    BY <1>1
  <1>11. hdlcFrameCRC_check(buffer)
    BY <1>2, <1>7, <1>8, <1>10 DEF hdlcFrameCRC_check, f
  <1>12. EndsFrame(r, e)
    BY <1>2, <1>10, <1>11 DEF EndsFrame, buffer
  <1>13. Receive(r, e).frames = Append(r.frames, Octets(p, k))
    <2>1. Receive(r, e) = Boundary(r, e)
      BY DEF Receive
    <2>2. Receive(r, e).frames = Append(r.frames, SubSeq(r.buffer, 1, Len(r.buffer) - 2))
      BY <1>12, <2>1 DEF Boundary
    <2> QED
      BY <1>2, <1>9, <1>10, <2>2 DEF buffer
  <1>14. r.frames \in Seq(Seq(Octet))
    BY DEF Receivers
  <1>15. /\ Len(r.frames) + 1 \in DOMAIN Receive(r, e).frames
         /\ Receive(r, e).frames[Len(r.frames) + 1] = Octets(p, k)
    BY <1>13, <1>14
  <1> QED
    BY <1>15, Zenon DEF HandedOver, p

\* A byte of the body is collected; MaxFrame is not reached.
LEMMA ByteCollected ==
  ASSUME NEW m \in Messages, Fits(m), NEW k \in Nat, NEW r \in Receivers,
         NEW i \in 0..Len(Body(m)), i < Len(Body(m)),
         r.buffer = Octets(SubSeq(Body(m), 1, i), k), NEW e \in Octet, e.msg = k,
         (IF r.escape THEN Invert(e.byte) ELSE e.byte) = Body(m)[i + 1]
  PROVE  /\ ~Data(r, e).escape
         /\ Data(r, e).buffer = Octets(SubSeq(Body(m), 1, i + 1), k)
  <1> DEFINE o == IF r.escape THEN [e EXCEPT !.byte = Invert(@)] ELSE e
             grown == Append(r.buffer, o)
             y == Octets(SubSeq(Body(m), 1, i + 1), k)
  <1>1. o = [byte |-> Body(m)[i + 1], msg |-> k]
    BY DEF Octet
  <1> HIDE DEF o
  <1>2. grown = y
    <2>1. Append(Octets(SubSeq(Body(m), 1, i), k), [byte |-> Body(m)[i + 1], msg |-> k]) = y
      BY BodyGrows, Zenon
    <2> QED
      BY <1>1, <2>1, Zenon
  <1>3. Len(y) = i + 1 /\ i + 1 <= Len(Payload(m)) + 2 /\ i \in Nat /\ Len(Body(m)) \in Nat
        /\ Len(Body(m)) = Len(Payload(m)) + 2
    <2>1. i + 1 \in 0..Len(Body(m)) /\ Len(Body(m)) = Len(Payload(m)) + 2 /\ i \in Nat
          /\ Len(Body(m)) \in Nat
      BY BodyBytes
    <2>2. Len(y) = i + 1
      <3>1. ASSUME NEW h \in 0..Len(Body(m)) PROVE Len(Octets(SubSeq(Body(m), 1, h), k)) = h
        BY BodyUpTo
      <3> QED
        BY <2>1, <3>1, Zenon
    <2> QED
      BY <2>1, <2>2
  <1>4. ~(Len(grown) >= MaxFrame)
    <2>1. Len(grown) = i + 1
      BY <1>2, <1>3, Zenon
    <2>2. Len(Payload(m)) + 2 < MaxFrame /\ MaxFrame \in Nat
      BY RobotLinkAssumption DEF Fits
    <2> HIDE DEF grown
    <2> QED
      BY <1>3, <2>1, <2>2
  <1>5. Data(r, e) = [r EXCEPT !.escape = FALSE, !.buffer = y]
    BY <1>2, <1>4, Zenon DEF Data, o
  <1> HIDE DEF y
  <1> QED
    BY <1>5 DEF Receivers, y

\* A frame in the making grows by the next octet or is handed over with the last.
LEMMA NextOctet ==
  ASSUME NEW m \in Messages, Fits(m), NEW k \in Nat, NEW r \in Receivers,
         NEW j \in Nat, 0 < j, j < Len(FrameOf(m)), Reading(r, m, k, j)
  PROVE  LET new == Receive(r, OctetOf(m, k, j + 1))
         IN  /\ j + 1 = Len(FrameOf(m)) => HandedOver(new, m, k)
             /\ j + 1 < Len(FrameOf(m)) => Reading(new, m, k, j + 1)
  <1> DEFINE e == OctetOf(m, k, j + 1)
             M == Len(Body(m))
             E == FrameOf(m)
  <1>1. /\ Body(m) \in Seq(0..255) /\ M \in Nat /\ M = Len(Payload(m)) + 2
        /\ Len(E) = Taken(m, M) + 2 /\ E[Taken(m, M) + 2] = FRAME_BOUNDARY_OCTET
        /\ \A i \in 0..M : Taken(m, i) \in Nat
    BY FrameShape
  <1>2. e.byte = E[j + 1] /\ e.msg = k
    BY DEF OctetOf
  <1>3. PICK i \in 0..M :
          /\ r.buffer = Octets(SubSeq(Body(m), 1, i), k)
          /\ \/ ~r.escape /\ j = Taken(m, i) + 1
             \/ /\ r.escape /\ j = Taken(m, i) + 2
                /\ i < M /\ Body(m)[i + 1] \in Special
    BY DEF Reading
  <1> HIDE DEF e, M, E
  <1> DEFINE new == Receive(r, e)
  <1> SUFFICES /\ j + 1 = Len(E) => HandedOver(new, m, k)
               /\ j + 1 < Len(E) => Reading(new, m, k, j + 1)
    BY DEF e, E
  <1>4. CASE i = M
    <2>1. ~r.escape /\ j = Taken(m, M) + 1 /\ j + 1 = Len(E) /\ e.byte = FRAME_BOUNDARY_OCTET
      BY <1>1, <1>2, <1>3, <1>4
    <2>2. HandedOver(new, m, k)
      BY <1>3, <1>4, <2>1, FrameEnds DEF M
    <2> QED
      BY <2>1, <2>2
  <1>5. CASE i # M
    <2> DEFINE b == Body(m)[i + 1]
               t == Taken(m, i)
               u == Taken(m, i + 1)
    <2>1. /\ i \in 0..M /\ i < M /\ i + 1 \in 1..M /\ i + 1 \in 0..M /\ (i + 1) - 1 = i
          /\ t \in Nat /\ u \in Nat
      BY <1>1, <1>5
    <2>2. /\ u <= Taken(m, M)
          /\ b \in Special => /\ u = t + 2 /\ E[t + 2] = CONTROL_ESCAPE_OCTET
                              /\ E[t + 3] = Invert(b)
          /\ b \notin Special => u = t + 1 /\ E[t + 2] = b
      <3>1. \A h \in 1..M :
              /\ Taken(m, h) <= Taken(m, M)
              /\ Body(m)[h] \in Special =>
                   /\ Taken(m, h) = Taken(m, h - 1) + 2
                   /\ E[Taken(m, h - 1) + 2] = CONTROL_ESCAPE_OCTET
                   /\ E[Taken(m, h - 1) + 3] = Invert(Body(m)[h])
              /\ Body(m)[h] \notin Special =>
                   /\ Taken(m, h) = Taken(m, h - 1) + 1
                   /\ E[Taken(m, h - 1) + 2] = Body(m)[h]
        BY FrameShape DEF M, E
      <3> QED
        BY <2>1, <3>1, Zenon
    <2>3. b \in 0..255 /\ b \in Int
      <3>1. b \in 0..255
        BY <1>1, <2>1, ElementOfSeq, Zenon DEF M
      <3>2. \A z \in 0..255 : z \in Int
        OBVIOUS
      <3> QED
        BY <3>1, <3>2, Zenon
    <2>4. Taken(m, M) \in Nat /\ Len(E) = Taken(m, M) + 2
      BY <1>1
    <2>5. r.buffer = Octets(SubSeq(Body(m), 1, i), k)
      BY <1>3
    <2>6. /\ i < Len(Body(m)) /\ i \in 0..Len(Body(m)) /\ i + 1 \in 0..Len(Body(m))
      BY <2>1 DEF M
    <2>7. \/ ~r.escape /\ j = t + 1
          \/ r.escape /\ j = t + 2 /\ b \in Special
      BY <1>3
    <2>8. b \in Special => Invert(b) # FRAME_BOUNDARY_OCTET /\ Invert(b) \in Int /\ Invert(Invert(b)) = b
      <3>1. b \in Special => Invert(b) \notin Special /\ Invert(Invert(b)) = b
        BY <2>3, RobotLinkAssumption, Zenon
      <3>2. Invert(b) \in Int
        <4>1. b + 32 \in Int /\ b - 32 \in Int
          BY <2>3
        <4> QED
          BY <4>1, Zenon DEF Invert
      <3>3. FRAME_BOUNDARY_OCTET \in Special
        BY Zenon DEF Special
      <3> QED
        BY <3>1, <3>2, <3>3, Zenon
    <2> HIDE DEF b, t, u
    \* The escape octet: the buffer stays.
    <2>9. CASE ~r.escape /\ b \in Special
      <3>1. e.byte = CONTROL_ESCAPE_OCTET /\ j + 1 = t + 2 /\ j + 1 < Len(E)
        BY <1>2, <2>1, <2>2, <2>4, <2>7, <2>9
      <3>2. new = [r EXCEPT !.escape = TRUE]
        <4>1. e.byte # FRAME_BOUNDARY_OCTET
          BY <3>1 DEF FRAME_BOUNDARY_OCTET, CONTROL_ESCAPE_OCTET
        <4> QED
          BY <2>9, <3>1, <4>1 DEF Receive
      <3>3. new.escape /\ new.buffer = r.buffer
        BY <3>2 DEF Receivers
      <3> HIDE DEF new
      <3>4. Reading(new, m, k, j + 1)
        BY <2>5, <2>6, <2>9, <3>1, <3>3, Zenon DEF Reading, b, t
      <3> QED
        BY <2>1, <2>4, <3>1, <3>4
    \* A byte, plain or inverted behind its escape: the buffer grows.
    <2>10. CASE r.escape \/ b \notin Special
      <3>1. /\ j + 1 = u + 1 /\ j + 1 < Len(E) /\ e.byte \in Int
            /\ e.byte # FRAME_BOUNDARY_OCTET
            /\ ~(e.byte = CONTROL_ESCAPE_OCTET /\ ~r.escape)
            /\ (IF r.escape THEN Invert(e.byte) ELSE e.byte) = b
        <4>1. CASE r.escape
          <5>1. j = t + 2 /\ b \in Special /\ j + 1 = t + 3
            BY <2>1, <2>7, <4>1
          <5>2. e.byte = Invert(b)
            BY <1>2, <2>2, <5>1
          <5>3. j + 1 = u + 1 /\ j + 1 < Len(E)
            BY <2>1, <2>2, <2>4, <5>1
          <5> QED
            BY <2>8, <4>1, <5>1, <5>2, <5>3
        <4>2. CASE ~r.escape
          <5>1. j = t + 1 /\ b \notin Special /\ j + 1 = t + 2
            BY <2>1, <2>7, <2>10, <4>2
          <5>2. e.byte = b
            BY <1>2, <2>2, <5>1
          <5>3. j + 1 = u + 1 /\ j + 1 < Len(E)
            BY <2>1, <2>2, <2>4, <5>1
          <5>4. b # FRAME_BOUNDARY_OCTET /\ b # CONTROL_ESCAPE_OCTET
            BY <5>1 DEF Special
          <5> QED
            BY <2>3, <4>2, <5>2, <5>3, <5>4
        <4> QED
          BY <4>1, <4>2
      <3>2. new = Data(r, e)
        BY <3>1, Zenon DEF Receive
      <3>3. e \in Octet
        BY <3>1 DEF e, OctetOf, Octet
      <3>4. ~new.escape /\ new.buffer = Octets(SubSeq(Body(m), 1, i + 1), k)
        <4>1. (IF r.escape THEN Invert(e.byte) ELSE e.byte) = Body(m)[i + 1]
          BY <3>1, Zenon DEF b
        <4>2. /\ ~Data(r, e).escape
              /\ Data(r, e).buffer = Octets(SubSeq(Body(m), 1, i + 1), k)
          BY <1>2, <2>5, <2>6, <3>3, <4>1, ByteCollected
        <4> QED
          BY <3>2, <4>2, Zenon
      <3> HIDE DEF new
      <3>5. Reading(new, m, k, j + 1)
        BY <2>6, <3>1, <3>4, Zenon DEF Reading, u
      <3> QED
        BY <2>1, <2>4, <3>1, <3>5
    <2> QED
      BY <2>9, <2>10
  <1> QED
    BY <1>4, <1>5

\* What was handed over in a read stays so.
LEMMA HandedOverStays ==
  ASSUME NEW m \in Messages, NEW k \in Nat, NEW r \in Receivers, NEW e \in Octet,
         HandedOver(r, m, k)
  PROVE  HandedOver(Receive(r, e), m, k)
  <1>1. PICK a \in DOMAIN r.frames : r.frames[a] = Octets(Payload(m), k)
    BY DEF HandedOver
  <1>2. r.frames \in Seq(Seq(Octet)) /\ r.buffer \in Seq(Octet)
    BY DEF Receivers
  <1>3. \/ Receive(r, e).frames = r.frames
        \/ Receive(r, e).frames = Append(r.frames, Collected(r))
    BY OneOctet
  <1>4. a \in DOMAIN Receive(r, e).frames /\ Receive(r, e).frames[a] = r.frames[a]
    <2>1. CASE Receive(r, e).frames = r.frames
      BY <1>1, <2>1
    <2>2. CASE Receive(r, e).frames = Append(r.frames, Collected(r))
      BY <1>1, <1>2, <2>2
    <2> QED
      BY <1>3, <2>1, <2>2
  <1> QED
    BY <1>1, <1>4, Zenon DEF HandedOver

\* The boundary that opens a frame.
LEMMA FrameOpens ==
  ASSUME NEW m \in Messages, NEW k \in Nat, NEW r \in Receivers
  PROVE  Reading(Receive(r, OctetOf(m, k, 1)), m, k, 1)
  <1> DEFINE e == OctetOf(m, k, 1)
             new == Receive(r, e)
  <1>1. e.byte = FRAME_BOUNDARY_OCTET
    BY FrameShape DEF OctetOf
  <1>2. new.buffer = <<>> /\ ~new.escape
    BY <1>1 DEF Receive, Boundary
  <1> HIDE DEF new
  <1>3. 0 \in 0..Len(Body(m)) /\ Taken(m, 0) = 0
    BY FrameShape
  <1>4. Octets(SubSeq(Body(m), 1, 0), k) = <<>>
    <2>1. Octets(SubSeq(Body(m), 1, 0), k) \in Seq(Octet) /\ Len(Octets(SubSeq(Body(m), 1, 0), k)) = 0
      BY <1>3, BodyUpTo
    <2> QED
      BY <2>1
  <1>5. 1 = Taken(m, 0) + 1
    BY <1>3
  <1> QED
    BY <1>2, <1>3, <1>4, <1>5, Zenon DEF Reading, new

\* How far the receiver is with message k after p of its octets: not begun if p is not
\* positive.
Progress(r, m, k, p) ==
  /\ p >= Len(FrameOf(m)) => HandedOver(r, m, k)
  /\ 0 < p /\ p < Len(FrameOf(m)) => Reading(r, m, k, p)

LEMMA OctetProgresses ==
  ASSUME NEW m \in Messages, Fits(m), NEW k \in Nat, NEW r \in Receivers, NEW e \in Octet,
         NEW p \in Int, Progress(r, m, k, p),
         0 <= p /\ p < Len(FrameOf(m)) => e = OctetOf(m, k, p + 1)
  PROVE  Progress(Receive(r, e), m, k, p + 1)
  <1> DEFINE L == Len(FrameOf(m))
             new == Receive(r, e)
  <1>1. L \in Nat /\ L >= 2
    <2>1. /\ Len(FrameOf(m)) = Taken(m, Len(Body(m))) + 2 /\ Len(Body(m)) \in 0..Len(Body(m))
          /\ \A i \in 0..Len(Body(m)) : Taken(m, i) \in Nat
      BY FrameShape
    <2> QED
      BY <2>1
  <1>2. /\ p >= L => HandedOver(r, m, k)
        /\ 0 < p /\ p < L => Reading(r, m, k, p)
    BY DEF Progress
  <1>3. 0 <= p /\ p < L => e = OctetOf(m, k, p + 1)
    OBVIOUS
  <1> SUFFICES /\ p + 1 >= L => HandedOver(new, m, k)
               /\ 0 < p + 1 /\ p + 1 < L => Reading(new, m, k, p + 1)
    BY DEF Progress
  <1> HIDE DEF L
  <1>4. CASE p < 0
    BY <1>1, <1>4
  <1>5. CASE p = 0
    <2>1. p + 1 = 1 /\ e = OctetOf(m, k, 1)
      BY <1>1, <1>3, <1>5
    <2>2. Reading(new, m, k, 1)
      BY <2>1, FrameOpens
    <2> HIDE DEF new
    <2> QED
      BY <1>1, <2>1, <2>2
  <1>6. CASE 0 < p /\ p < L
    <2>1. p \in Nat /\ e = OctetOf(m, k, p + 1) /\ Reading(r, m, k, p)
      BY <1>2, <1>3, <1>6
    <2>2. /\ p + 1 = L => HandedOver(new, m, k)
          /\ p + 1 < L => Reading(new, m, k, p + 1)
      BY <1>6, <2>1, NextOctet DEF L
    <2> HIDE DEF new
    <2> QED
      BY <1>1, <1>6, <2>2
  <1>7. CASE p >= L
    <2>1. HandedOver(new, m, k)
      BY <1>2, <1>7, HandedOverStays
    <2> HIDE DEF new
    <2> QED
      BY <1>1, <1>7, <2>1
  <1> QED
    BY <1>1, <1>4, <1>5, <1>6, <1>7

\* A read of the octets of w from lo + 1 to n, where message k lies from a + 1 on.
LEMMA ReadProgresses ==
  ASSUME NEW w \in Seq(Octet), NEW r \in Receivers, NEW m \in Messages, Fits(m), NEW k \in Nat,
         NEW a \in Int, 0 < a + Len(FrameOf(m)), a + Len(FrameOf(m)) <= Len(w),
         \A j \in 1..Len(FrameOf(m)) : a + j >= 1 => w[a + j] = OctetOf(m, k, j),
         NEW lo \in Nat, NEW n \in 1..Len(w),
         a < 0 => lo = 0 /\ Reading(r, m, k, -a), 0 <= a /\ a < n => lo <= a
  PROVE  Progress(charReceiver(r, SubSeq(w, lo + 1, n)), m, k, n - a)
  <1> DEFINE octets == SubSeq(w, lo + 1, n)
             h == IF lo <= n THEN n - lo ELSE 0
             first == [r EXCEPT !.frames = <<>>]
             L == Len(FrameOf(m))
             At(i) == IF lo <= n THEN lo + i ELSE n
             Good == [i \in 0..h |-> {x \in Receivers : Progress(x, m, k, At(i) - a)}]
  <1>1. /\ Len(w) \in Nat /\ n \in Nat /\ n <= Len(w) /\ h \in Nat
        /\ \A i \in 1..h : lo + i \in 1..Len(w) /\ At(i) = lo + i /\ At(i - 1) = lo + i - 1
        /\ At(h) = n /\ At(0) = IF lo <= n THEN lo ELSE n
    OBVIOUS
  <1>2. octets \in Seq(Octet) /\ Len(octets) = h /\ \A i \in 1..h : octets[i] = w[lo + i]
    <2>1. \A i \in (lo + 1)..n : w[i] \in Octet
      BY <1>1
    <2> QED
      BY <1>1, <2>1
  <1>3. first \in Receivers /\ first.buffer = r.buffer /\ first.escape = r.escape
    <2>1. <<>> \in Seq(Seq(Octet))
      OBVIOUS
    <2> QED
      BY <2>1, Zenon DEF Receivers
  <1>4. L \in Nat /\ L >= 2 /\ a + L <= Len(w) /\ 0 < a + L
    <2>1. /\ Len(FrameOf(m)) = Taken(m, Len(Body(m))) + 2 /\ Len(Body(m)) \in 0..Len(Body(m))
          /\ \A i \in 0..Len(Body(m)) : Taken(m, i) \in Nat
      BY FrameShape
    <2> QED
      BY <2>1
  <1> HIDE DEF octets, h, first, At, L
  <1>5. Progress(first, m, k, At(0) - a)
    <2>1. CASE a < 0
      <3>1. At(0) - a = -a /\ 0 < -a /\ -a < L
        BY <1>1, <1>4, <2>1
      <3>2. Reading(first, m, k, -a)
        BY <1>3, <2>1, Zenon DEF Reading
      <3> QED
        BY <1>4, <3>1, <3>2 DEF Progress, L
    <2>2. CASE 0 <= a
      <3>1. At(0) - a <= 0 /\ At(0) - a \in Int
        BY <1>1, <2>2
      <3> QED
        BY <1>4, <3>1 DEF Progress, L
    <2> QED
      BY <2>1, <2>2
  <1>6. first \in Good[0]
    BY <1>1, <1>3, <1>5
  <1>7. ASSUME NEW i \in 1..Len(octets), NEW x \in Good[i - 1]
        PROVE  Receive(x, octets[i]) \in Good[i]
    <2> DEFINE q == lo + i - 1
               p == q - a
               e == octets[i]
    <2>1. i \in 1..h /\ i - 1 \in 0..h /\ i \in 0..h /\ q \in Nat /\ q + 1 = lo + i /\ p \in Int
      <3>1. i \in 1..h
        BY <1>2
      <3>2. i \in Nat /\ i >= 1 /\ i <= h
        BY <1>1, <3>1
      <3>3. lo + i - 1 \in Nat /\ lo + i - 1 + 1 = lo + i
        BY <3>2
      <3> QED
        BY <1>1, <3>1, <3>2, <3>3
    <2>2. x \in Receivers /\ Progress(x, m, k, p) /\ At(i) - a = p + 1
      BY <1>1, <2>1
    <2>3. e = w[q + 1] /\ q + 1 \in 1..Len(w) /\ e \in Octet
      <3>1. e = w[lo + i] /\ lo + i \in 1..Len(w)
        BY <1>1, <1>2, <2>1
      <3>2. w[lo + i] \in Octet
        BY <3>1
      <3> QED
        BY <2>1, <3>1, <3>2, Zenon
    <2>4. 0 <= p /\ p < L => e = OctetOf(m, k, p + 1)
      <3> SUFFICES ASSUME 0 <= p, p < L PROVE e = OctetOf(m, k, p + 1)
        OBVIOUS
      <3>1. p + 1 \in 1..L /\ a + (p + 1) = q + 1 /\ a + (p + 1) >= 1
        BY <1>4, <2>1
      <3>2. w[a + (p + 1)] = OctetOf(m, k, p + 1)
        BY <3>1 DEF L
      <3> QED
        BY <2>3, <3>1, <3>2
    <2> HIDE DEF p, q, e
    <2>5. Progress(Receive(x, e), m, k, p + 1)
      BY <2>1, <2>2, <2>3, <2>4, OctetProgresses DEF L
    <2>6. Receive(x, e) \in Receivers
      BY <2>2, <2>3, OneOctet
    <2> QED
      BY <2>1, <2>2, <2>5, <2>6 DEF e
  <1>8. charReceiver(r, octets) \in Good[Len(octets)]
    <2> HIDE DEF Good
    <2> QED
      BY <1>2, <1>6, <1>7, ReceiverKeeps DEF first
  <1>9. h \in 0..h /\ Good[h] = {x \in Receivers : Progress(x, m, k, n - a)}
    <2>1. h \in 0..h
      BY <1>1
    <2> QED
      BY <1>1, <2>1, Zenon
  <1>10. charReceiver(r, octets) \in Good[h]
    BY <1>2, <1>8, Zenon
  <1> HIDE DEF Good
  <1> QED
    BY <1>9, <1>10, Zenon DEF octets

\* Message k, which is m, lies on w from a + 1 on; the octets before the first were read.
Lies(w, m, k, a) ==
  /\ 0 < a + Len(FrameOf(m)) /\ a + Len(FrameOf(m)) <= Len(w)
  /\ \A j \in 1..Len(FrameOf(m)) : a + j >= 1 => w[a + j] = OctetOf(m, k, j)
Pending(k) ==
  \E a \in Int : Lies(wire, sent[k], k, a) /\ (a < 0 => Reading(rx, sent[k], k, -a))
ArrivesInv ==
  /\ clientState # "Connected" => wire = <<>>
  /\ \A k \in 1..Len(sent) : k \notin cut /\ Fits(sent[k]) => Contains(delivered, k) \/ Pending(k)

LEMMA FrameLength == ASSUME NEW m \in Messages PROVE Len(FrameOf(m)) \in Nat /\ Len(FrameOf(m)) >= 2
  <1>1. /\ Len(FrameOf(m)) = Taken(m, Len(Body(m))) + 2 /\ Len(Body(m)) \in 0..Len(Body(m))
        /\ \A i \in 0..Len(Body(m)) : Taken(m, i) \in Nat
    BY FrameShape
  <1> QED
    BY <1>1

LEMMA PendingIsOnWire ==
  ASSUME LinkHolds, NEW k \in 1..Len(sent), Pending(k)
  PROVE  k \in MsgsOf(wire)
  <1> DEFINE m == sent[k]
             L == Len(FrameOf(m))
  <1>1. m \in Messages /\ wire \in Seq(Octet)
    BY DEF LinkHolds
  <1>2. PICK a \in Int : Lies(wire, m, k, a)
    BY DEF Pending
  <1>3. L \in Nat /\ L >= 2
    BY <1>1, FrameLength
  <1>4. /\ 0 < a + L /\ a + L <= Len(wire)
        /\ \A j \in 1..L : a + j >= 1 => wire[a + j] = OctetOf(m, k, j)
    BY <1>2 DEF Lies
  <1> HIDE DEF L, m
  <1>5. L \in 1..L /\ a + L >= 1 /\ a + L \in 1..Len(wire) /\ 1..Len(wire) = DOMAIN wire
    BY <1>1, <1>3, <1>4
  <1>6. wire[a + L].msg = k
    <2>1. wire[a + L] = OctetOf(m, k, L)
      BY <1>4, <1>5, Zenon
    <2> QED
      BY <2>1 DEF OctetOf
  <1> QED
    BY <1>5, <1>6, Zenon DEF MsgsOf

LEMMA NumberOfWhole ==
  ASSUME sent \in Seq(Messages), NEW k \in 1..Len(sent), Fits(sent[k])
  PROVE  Number(Octets(Payload(sent[k]), k)) = k
  <1> DEFINE p == Payload(sent[k])
             frame == Octets(p, k)
             whole == {h \in 1..Len(sent) : MsgsOf(frame) = {h} /\ Values(frame) = Payload(sent[h])}
  <1>1. p \in Seq(0..255) /\ Len(p) >= 2 /\ k \in Nat
    <2>1. sent[k] \in Messages /\ k \in Nat
      OBVIOUS
    <2>2. p \in Seq(0..255)
      BY <2>1, BytesAssumption
    <2> QED
      BY <2>1, <2>2 DEF Fits
  <1> HIDE DEF p
  <1>2. /\ frame \in Seq(Octet) /\ Len(frame) = Len(p)
        /\ \A q \in 1..Len(p) : frame[q] = [byte |-> p[q], msg |-> k]
        /\ MsgsOf(frame) \subseteq {k}
    BY <1>1, OctetsOfBytes
  <1>3. Values(frame) = p
    BY <1>1, <1>2, SameOctets
  <1>4. MsgsOf(frame) = {k}
    <2>1. 1 \in DOMAIN frame /\ 1 \in 1..Len(p)
      BY <1>1, <1>2
    <2>2. frame[1] = [byte |-> p[1], msg |-> k]
      BY <1>2, <2>1, Zenon
    <2>3. frame[1].msg = k
      BY <2>2
    <2>4. k \in MsgsOf(frame)
      BY <2>1, <2>3, Zenon DEF MsgsOf
    <2> QED
      BY <1>2, <2>4
  <1>5. Number(frame) = IF whole = {} THEN 0 ELSE CHOOSE h \in whole : TRUE
    BY DEF Number
  <1> HIDE DEF frame
  <1>6. whole = {k}
    BY <1>3, <1>4 DEF p
  <1> HIDE DEF whole
  <1>7. Number(frame) = k
    BY <1>5, <1>6
  <1> QED
    BY <1>7 DEF frame, p

LEMMA ArrivesInit == LinkInit => ArrivesInv
  <1> SUFFICES ASSUME LinkInit PROVE ArrivesInv
    OBVIOUS
  <1>1. wire = <<>> /\ sent = <<>>
    BY DEF LinkInit
  <1>2. 1..Len(sent) = {}
    BY <1>1
  <1> QED
    BY <1>1, <1>2 DEF ArrivesInv

LEMMA SendArrives ==
  ASSUME LinkInv, ArrivesInv, NEW m \in Messages, Send(m)
  PROVE  ArrivesInv'
  <1> DEFINE n == Len(sent) + 1
             h == Octets(XPIDER_MESSAGE_HEAD, 0)
             f == Octets(FrameOf(m), n)
  <1>1. /\ wire \in Seq(Octet) /\ sent \in Seq(Messages) /\ Len(sent) \in Nat /\ n \in Nat
        /\ Len(wire) \in Nat /\ LinkHolds
    BY DEF LinkInv, LinkHolds
  <1>2. /\ clientState' = "Connected" /\ sent' = Append(sent, m) /\ wire' = wire \o h \o f
        /\ UNCHANGED <<rx, delivered, cut>>
    BY DEF Send, readVars, ends, FrameOf
  <1>3. h \in Seq(Octet) /\ Len(h) = 2
    <2>1. XPIDER_MESSAGE_HEAD \in Seq(0..255) /\ Len(XPIDER_MESSAGE_HEAD) = 2
      BY DEF XPIDER_MESSAGE_HEAD
    <2> QED
      BY <2>1, OctetsOfBytes
  <1>4. f \in Seq(Octet) /\ Len(f) = Len(FrameOf(m)) /\ \A j \in 1..Len(f) : f[j] = OctetOf(m, n, j)
    <2>1. f \in Seq(Octet)
      BY <1>1, FrameOctets DEF FrameOf
    <2>2. DOMAIN f = 1..Len(f) /\ DOMAIN f = DOMAIN FrameOf(m) /\ Len(f) \in Nat
      BY <2>1 DEF Octets
    <2>3. Len(f) = Len(FrameOf(m))
      BY <1>1, FrameOctets DEF FrameOf
    <2>4. \A j \in 1..Len(f) : f[j] = OctetOf(m, n, j)
      BY <2>2 DEF Octets, OctetOf
    <2> QED
      BY <2>1, <2>3, <2>4
  <1> HIDE DEF h, f
  <1>5. /\ Len(wire') = Len(wire) + 2 + Len(f) /\ Len(f) \in Nat
        /\ \A q \in 1..Len(wire) : wire'[q] = wire[q]
        /\ \A q \in 1..Len(f) : wire'[Len(wire) + 2 + q] = f[q]
    <2> DEFINE w == wire
               x == w \o h
               z == x \o f
    <2>1. w \in Seq(Octet)
      BY <1>1
    <2> HIDE DEF w
    <2>2. /\ x \in Seq(Octet) /\ Len(x) = Len(w) + 2 /\ Len(w) \in Nat
          /\ \A q \in 1..Len(w) : x[q] = w[q]
      <3>1. h \in Seq(Octet) /\ Len(h) = 2 /\ x = w \o h
        BY <1>3
      <3> HIDE DEF x
      <3>2. x \in Seq(Octet) /\ Len(w) \in Nat
        BY <2>1, <3>1
      <3>3. Len(x) = Len(w) + Len(h)
        <4>1. ASSUME NEW u \in Seq(Octet), NEW v \in Seq(Octet) PROVE Len(u \o v) = Len(u) + Len(v)
          OBVIOUS
        <4> QED
          BY <2>1, <3>1, <4>1, Zenon
      <3>4. \A q \in 1..Len(w) : x[q] = w[q]
        BY <2>1, <3>1
      <3>5. Len(x) = Len(w) + 2
        BY <3>1, <3>3, Zenon
      <3> QED
        BY <3>2, <3>4, <3>5, Zenon
    <2> HIDE DEF x
    <2>3. /\ Len(z) = Len(x) + Len(f) /\ Len(f) \in Nat
          /\ \A q \in 1..Len(x) : z[q] = x[q]
          /\ \A q \in 1..Len(f) : z[Len(x) + q] = f[q]
      BY <1>4, <2>2, SMTT(40)
    <2> HIDE DEF z
    <2>4. /\ Len(z) = Len(w) + 2 + Len(f)
          /\ \A q \in 1..Len(w) : z[q] = w[q]
          /\ \A q \in 1..Len(f) : z[Len(w) + 2 + q] = f[q]
      <3>1. \A q \in 1..Len(w) : q \in 1..Len(x)
        BY <2>2
      <3> QED
        BY <2>2, <2>3, <3>1
    <2> QED
      BY <1>2, <2>3, <2>4 DEF w, x, z
  <1>6. /\ Len(sent') = n /\ sent'[n] = m
        /\ \A k \in 1..Len(sent) : sent'[k] = sent[k]
    BY <1>1, <1>2
  <1>7. ASSUME NEW k \in 1..n, k \notin cut', Fits(sent'[k])
        PROVE  Contains(delivered', k) \/ Pending(k)'
    <2>1. CASE k = n
      <3> DEFINE a == Len(wire) + 2
      <3>1. a \in Int /\ ~(a < 0) /\ Len(f) = Len(FrameOf(m)) /\ Len(FrameOf(m)) >= 2
        BY <1>1, <1>4, FrameLength
      <3>2. Lies(wire', m, k, a)
        <4>1. \A j \in 1..Len(FrameOf(m)) : wire'[a + j] = OctetOf(m, k, j)
          BY <1>4, <1>5, <2>1
        <4>2. 0 < a + Len(FrameOf(m)) /\ a + Len(FrameOf(m)) <= Len(wire')
          BY <1>1, <1>4, <1>5, <3>1
        <4> HIDE DEF a
        <4> QED
          BY <4>1, <4>2 DEF Lies
      <3> HIDE DEF a
      <3>3. sent'[k] = m
        BY <1>6, <2>1
      <3> QED
        BY <3>1, <3>2, <3>3 DEF Pending
    <2>2. CASE k # n
      <3>1. k \in 1..Len(sent) /\ sent'[k] = sent[k] /\ sent[k] \in Messages
        BY <1>1, <1>6, <2>2
      <3>2. CASE Contains(delivered, k)
        BY <1>2, <3>2
      <3>3. CASE Pending(k)
        <4>1. PICK a \in Int : /\ Lies(wire, sent[k], k, a)
                               /\ a < 0 => Reading(rx, sent[k], k, -a)
          BY <3>3 DEF Pending
        <4> DEFINE L == Len(FrameOf(sent[k]))
        <4>2. L \in Nat
          BY <3>1, FrameLength
        <4>3. /\ 0 < a + L /\ a + L <= Len(wire)
              /\ \A j \in 1..L : a + j >= 1 => wire[a + j] = OctetOf(sent[k], k, j)
          BY <4>1 DEF Lies
        <4> HIDE DEF L
        <4>4. a + L <= Len(wire')
          BY <1>1, <1>5, <4>2, <4>3
        <4>5. ASSUME NEW j \in 1..L, a + j >= 1 PROVE wire'[a + j] = OctetOf(sent[k], k, j)
          <5>1. a + j \in 1..Len(wire)
            BY <1>1, <4>2, <4>3, <4>5
          <5> QED
            BY <1>5, <4>3, <4>5, <5>1
        <4>6. Lies(wire', sent[k], k, a)
          BY <4>3, <4>4, <4>5 DEF Lies, L
        <4> QED
          BY <1>2, <3>1, <4>1, <4>6 DEF Pending
      <3>4. Contains(delivered, k) \/ Pending(k)
        BY <1>2, <1>7, <3>1 DEF ArrivesInv
      <3> QED
        BY <3>2, <3>3, <3>4
    <2> QED
      BY <2>1, <2>2
  <1> QED
    BY <1>2, <1>6, <1>7 DEF ArrivesInv

LEMMA ReadArrives ==
  ASSUME LinkInv, ArrivesInv, NEW n, onReadyRead(n)
  PROVE  ArrivesInv'
  <1> DEFINE new == charReceiver(rx, SubSeq(wire, strip + 1, n))
             given == [b \in DOMAIN new.frames |-> Number(new.frames[b])]
             rest == SubSeq(wire, n + 1, Len(wire))
             lost == IF strip < n THEN strip ELSE n
  <1>1. /\ rx \in Receivers /\ rx.buffer \in Seq(Octet) /\ wire \in Seq(Octet) /\ Len(wire) \in Nat
        /\ delivered \in Seq(Nat) /\ sent \in Seq(Messages) /\ Len(sent) \in Nat
        /\ n \in 1..Len(wire) /\ n \in Nat /\ strip \in Nat /\ Parted(rx.buffer, wire)
    <2>1. n \in 1..Len(wire)
      BY DEF onReadyRead
    <2>2. strip \in Nat
      BY DEF strip
    <2>3. /\ rx \in Receivers /\ wire \in Seq(Octet) /\ delivered \in Seq(Nat)
          /\ sent \in Seq(Messages) /\ Parted(rx.buffer, wire)
      BY DEF LinkInv, LinkHolds
    <2>4. rx.buffer \in Seq(Octet)
      BY <2>3 DEF Receivers
    <2> QED
      BY <2>1, <2>2, <2>3, <2>4, LenProperties
  <1>2. /\ rx' = new /\ wire' = rest /\ delivered' = delivered \o given
        /\ cut' = cut \cup MsgsOf(SubSeq(wire, 1, lost))
        /\ UNCHANGED <<sent, clientState>> /\ clientState = "Connected"
    BY DEF onReadyRead, ends
  <1>3. new \in Receivers
    BY <1>1, ReadKeepsOrder
  <1> HIDE DEF new
  <1>4. new.frames \in Seq(Seq(Octet))
    BY <1>3 DEF Receivers
  <1>5. /\ given \in Seq(Nat) /\ Len(given) = Len(new.frames) /\ Len(given) \in Nat
        /\ DOMAIN new.frames = 1..Len(given)
        /\ \A b \in 1..Len(given) : given[b] = Number(new.frames[b])
    <2>1. DOMAIN new.frames = 1..Len(new.frames) /\ Len(new.frames) \in Nat
      BY <1>4
    <2>2. \A b \in 1..Len(new.frames) : Number(new.frames[b]) \in 0..Len(sent)
      BY <1>1, NumberIsWhole, Zenon
    <2>3. given = [b \in 1..Len(new.frames) |-> Number(new.frames[b])]
      BY <2>1
    <2>4. \A b \in 1..Len(new.frames) : Number(new.frames[b]) \in Nat
      BY <1>1, <2>2
    <2> QED
      BY <2>1, <2>3, <2>4
  <1> HIDE DEF given
  <1>6. /\ Len(delivered') = Len(delivered) + Len(given) /\ Len(delivered) \in Nat
        /\ \A q \in 1..Len(delivered) : delivered'[q] = delivered[q] /\ q \in 1..Len(delivered')
        /\ \A q \in 1..Len(given) : /\ delivered'[Len(delivered) + q] = given[q]
                                    /\ Len(delivered) + q \in 1..Len(delivered')
    <2> DEFINE x == delivered
               z == x \o given
    <2>1. x \in Seq(Nat) /\ given \in Seq(Nat)
      BY <1>1, <1>5
    <2> HIDE DEF x
    <2>2. /\ Len(z) = Len(x) + Len(given) /\ Len(x) \in Nat
          /\ \A q \in 1..Len(x) : z[q] = x[q] /\ q \in 1..Len(z)
          /\ \A q \in 1..Len(given) : z[Len(x) + q] = given[q] /\ Len(x) + q \in 1..Len(z)
      <3>1. z = x \o given
        OBVIOUS
      <3> HIDE DEF z
      <3> QED
        BY <2>1, <3>1, Joint
    <2> QED
      BY <1>2, <2>2, Zenon DEF x
  <1>7. /\ Len(rest) = Len(wire) - n /\ \A q \in 1..Len(rest) : rest[q] = wire[n + q]
    <2>1. \A q \in (n + 1)..Len(wire) : wire[q] \in Octet
      BY <1>1
    <2> QED
      BY <1>1, <2>1 DEF rest
  <1>8. /\ lost \in Nat /\ lost <= Len(wire) /\ lost <= n
        /\ \A q \in 1..lost : wire[q].msg \in cut'
    <2>1. lost \in Nat /\ lost <= n /\ lost <= Len(wire)
      BY <1>1
    <2> HIDE DEF lost
    <2>2. \A q \in 1..lost : wire[q] \in Octet
      BY <1>1, <2>1
    <2>3. \A q \in 1..lost : q \in DOMAIN SubSeq(wire, 1, lost) /\ SubSeq(wire, 1, lost)[q] = wire[q]
      BY <1>1, <2>1, <2>2
    <2>4. \A q \in 1..lost : wire[q].msg \in MsgsOf(SubSeq(wire, 1, lost))
      BY <2>3, Zenon DEF MsgsOf
    <2> QED
      BY <1>2, <2>1, <2>4
  <1> HIDE DEF rest
  <1>9. ASSUME NEW k \in 1..Len(sent), k \notin cut', Fits(sent[k])
        PROVE  Contains(delivered', k) \/ Pending(k)'
    <2> DEFINE m == sent[k]
               L == Len(FrameOf(m))
    <2>1. m \in Messages /\ k \in Nat /\ L \in Nat /\ L >= 2
      BY <1>1, FrameLength
    <2>2. Contains(delivered, k) \/ Pending(k)
      BY <1>2, <1>9 DEF ArrivesInv
    <2>3. CASE Contains(delivered, k)
      <3>1. PICK q \in 1..Len(delivered) : delivered[q] = k
        BY <2>3 DEF Contains
      <3> QED
        BY <1>6, <3>1, Zenon DEF Contains
    <2>4. CASE Pending(k)
      <3>1. PICK a \in Int : Lies(wire, m, k, a) /\ (a < 0 => Reading(rx, m, k, -a))
        BY <2>4 DEF Pending
      <3>2. /\ 0 < a + L /\ a + L <= Len(wire)
            /\ \A j \in 1..L : a + j >= 1 => wire[a + j] = OctetOf(m, k, j)
        BY <3>1 DEF Lies
      <3> HIDE DEF m, L, lost
      <3>3. ASSUME NEW q \in 1..lost, 1 <= q - a, q - a <= L PROVE FALSE
        <4>1. q - a \in 1..L /\ a + (q - a) = q /\ q >= 1
          BY <1>8, <2>1, <3>3
        <4>2. wire[q] = OctetOf(m, k, q - a)
          BY <3>2, <4>1
        <4>3. wire[q].msg = k
          BY <4>2 DEF OctetOf
        <4> QED
          BY <1>8, <1>9, <4>3
      <3>4. a < 0 => strip = 0
        <4> SUFFICES ASSUME a < 0, strip # 0 PROVE FALSE
          OBVIOUS
        <4>1. 1 \in 1..lost /\ 1 <= 1 - a /\ 1 - a <= L
          BY <1>1, <2>1, <3>2 DEF lost
        <4> QED
          BY <3>3, <4>1
      <3>5. 0 <= a /\ a < n => strip <= a
        <4> SUFFICES ASSUME 0 <= a, a < n, ~(strip <= a) PROVE FALSE
          OBVIOUS
        <4>1. a + 1 \in 1..lost /\ (a + 1) - a = 1 /\ 1 <= L
          BY <1>1, <2>1 DEF lost
        <4> QED
          BY <3>3, <4>1
      <3>6. Progress(new, m, k, n - a)
        <4>1. /\ Fits(m) /\ 0 < a + Len(FrameOf(m)) /\ a + Len(FrameOf(m)) <= Len(wire)
              /\ \A j \in 1..Len(FrameOf(m)) : a + j >= 1 => wire[a + j] = OctetOf(m, k, j)
          BY <1>9, <3>2 DEF L, m
        <4>2. a < 0 => strip = 0 /\ Reading(rx, m, k, -a)
          BY <3>1, <3>4
        <4> QED
          BY <1>1, <2>1, <3>5, <4>1, <4>2, ReadProgresses DEF new
      <3>7. CASE n - a >= L
        <4>1. HandedOver(new, m, k)
          BY <3>6, <3>7 DEF Progress, L
        <4>2. PICK b \in DOMAIN new.frames : new.frames[b] = Octets(Payload(m), k)
          BY <4>1 DEF HandedOver
        <4>3. Number(Octets(Payload(sent[k]), k)) = k
          BY <1>1, <1>9, NumberOfWhole
        <4>4. b \in 1..Len(given) /\ given[b] = k
          BY <1>5, <4>2, <4>3 DEF m
        <4> QED
          BY <1>6, <4>4, Zenon DEF Contains
      <3>8. CASE ~(n - a >= L)
        <4> DEFINE c == a - n
        <4>1. c \in Int /\ 0 < c + L /\ c + L <= Len(rest) /\ -c = n - a
          BY <1>1, <1>7, <2>1, <3>2, <3>8
        <4>2. ASSUME NEW j \in 1..L, c + j >= 1 PROVE rest[c + j] = OctetOf(m, k, j)
          <5>1. c + j \in 1..Len(rest) /\ n + (c + j) = a + j /\ a + j >= 1
            BY <1>1, <1>7, <2>1, <4>1, <4>2
          <5> QED
            BY <1>7, <3>2, <5>1
        <4>3. c < 0 => Reading(new, m, k, -c)
          <5> SUFFICES ASSUME c < 0 PROVE Reading(new, m, k, -c)
            OBVIOUS
          <5>1. 0 < n - a /\ n - a < L
            BY <1>1, <2>1, <3>8
          <5>2. Reading(new, m, k, n - a)
            BY <3>6, <5>1 DEF Progress, L
          <5> QED
            BY <4>1, <5>2
        <4> HIDE DEF c
        <4>4. Lies(rest, m, k, c)
          BY <4>1, <4>2 DEF Lies, L
        <4> QED
          BY <1>2, <4>1, <4>3, <4>4 DEF Pending, m
      <3> QED
        BY <3>7, <3>8
    <2> QED
      BY <2>2, <2>3, <2>4
  <1> QED
    BY <1>2, <1>9 DEF ArrivesInv

LEMMA ArrivesStep == LinkInv /\ ArrivesInv /\ [LinkNext]_linkVars => ArrivesInv'
  <1> SUFFICES ASSUME LinkInv, ArrivesInv, [LinkNext]_linkVars PROVE ArrivesInv'
    OBVIOUS
  <1>1. LinkHolds /\ MsgsOf(<<>>) = {}
    BY DEF LinkInv, MsgsOf
  <1>2. ASSUME wire = <<>>, NEW k \in 1..Len(sent), Pending(k) PROVE FALSE
    BY <1>1, <1>2, PendingIsOnWire
  <1>3. CASE onRetryTimeout \/ ConnectFails
    <2>1. UNCHANGED <<rx, delivered, wire, sent, cut>> /\ wire = <<>>
      BY <1>3 DEF onRetryTimeout, ConnectFails, readVars, ArrivesInv
    <2> QED
      BY <2>1 DEF ArrivesInv, Pending
  <1>4. CASE onConnected
    <2>1. /\ UNCHANGED <<rx, delivered, sent, cut>> /\ wire = <<>> /\ clientState' = "Connected"
      BY <1>4 DEF onConnected, readVars, ArrivesInv
    <2>2. \A k \in 1..Len(sent) : k \notin cut /\ Fits(sent[k]) => Contains(delivered, k)
      BY <1>2, <2>1 DEF ArrivesInv
    <2> QED
      BY <2>1, <2>2 DEF ArrivesInv
  <1>5. CASE onDisconnected
    <2>1. /\ UNCHANGED <<rx, delivered, sent>> /\ wire' = <<>> /\ cut' = cut \cup MsgsOf(wire)
      BY <1>5 DEF onDisconnected, readVars
    <2>2. ASSUME NEW k \in 1..Len(sent), k \notin cut', Fits(sent[k]) PROVE Contains(delivered, k)
      <3>1. k \notin cut /\ k \notin MsgsOf(wire)
        BY <2>1, <2>2
      <3> QED
        BY <1>1, <2>2, <3>1, PendingIsOnWire DEF ArrivesInv
    <2> QED
      BY <2>1, <2>2 DEF ArrivesInv
  <1>6. CASE \E m \in Messages : Send(m)
    BY <1>6, SendArrives
  <1>7. CASE \E n \in ReadSizes \cup {Len(wire)} : onReadyRead(n)
    BY <1>7, ReadArrives
  <1>8. CASE UNCHANGED linkVars
    <2>1. UNCHANGED <<rx, delivered, wire, sent, cut, clientState>>
      BY <1>8 DEF linkVars, readVars
    <2> QED
      BY <2>1 DEF ArrivesInv, Pending
  <1> QED
    BY <1>3, <1>4, <1>5, <1>6, <1>7, <1>8 DEF LinkNext

\* Whatever the receiver went through before - members never initialized, text between the
\* frames, a frame cut by a lost connection, an escape with nothing behind it - and wherever
\* the reads cut the stream: a frame that fits it and arrives whole is handed over.
THEOREM ArrivedIsDelivered == LinkSpec => []UncutIsDelivered
  <1>1. LinkInv /\ ArrivesInv => UncutIsDelivered
    <2> SUFFICES ASSUME LinkInv, ArrivesInv, NEW k \in 1..Len(sent), Arrived(k), Fits(sent[k])
                 PROVE  Contains(delivered, k)
      BY DEF UncutIsDelivered
    <2>1. k \notin cut /\ k \notin MsgsOf(wire) /\ LinkHolds
      BY DEF Arrived, LinkInv
    <2> QED
      BY <2>1, PendingIsOnWire DEF ArrivesInv
  <1> QED
    BY <1>1, LinkInvInit, LinkInvStep, ArrivesInit, ArrivesStep, PTL DEF LinkSpec

-----------------------------------------------------------------------------
(* What GetMessage reads is what GetBuffer wrote.                          *)

\* The fields of XpiderInfo that are not strings.
LEMMA WidthIs ==
  /\ DOMAIN Width = {"step_counter", "obstacle_distance", "voltage", "yaw_pitch_roll",
       "sound_level", "eye_power", "eye_angle", "left_led_rgb", "right_led_rgb", "move",
       "rotate", "count_speed", "count", "rotate_speed", "rotate_rad", "walk_speed",
       "walk_step", "autopilot_enable", "autopilot_heading"}
  /\ Width \in [DOMAIN Width -> Nat]
  BY DEF Width

\* The fields of x, one behind the other.
Listed(x, fields) == [i \in DOMAIN fields |-> x[fields[i]]]

\* Where the fields begin, one behind the other, and what is to be found there.
Adds(off, fields) ==
  off[1] = 1 /\ \A j \in 1..Len(fields) : off[j + 1] = off[j] + Width[fields[j]]
Laid(p, c, x, fields, off) ==
  /\ p[1] = c /\ Adds(off, fields)
  /\ \A j \in 1..Len(fields) : Take(p, off[j], Width[fields[j]]) = x[fields[j]]

\* Each of them can be taken from the message at its offset.
LEMMA FieldsLie ==
  ASSUME NEW x, IsInfo(x), NEW fields \in Seq(DOMAIN Width), NEW c \in 0..255,
         NEW p, p = <<c>> \o FlattenSeq(Listed(x, fields))
  PROVE  \E off : Laid(p, c, x, fields, off)
  <1> DEFINE S == 0..255
             parts == Listed(x, fields)
             flat == FlattenSeq(parts)
             n == Len(fields)
             D == DOMAIN Width
  <1>1. /\ n \in Nat /\ DOMAIN fields = 1..n /\ \A i \in 1..n : fields[i] \in D
    BY ElementOfSeq, LenProperties, Zenon
  <1>2. \A f \in D : x[f] \in Seq(S) /\ Len(x[f]) = Width[f] /\ Width[f] \in Nat
    BY WidthIs DEF IsInfo
  <1> HIDE DEF D, n, S
  <1>3. parts \in Seq(Seq(S)) /\ Len(parts) = n /\ \A i \in 1..n : parts[i] = x[fields[i]]
    <2>1. parts = [i \in 1..n |-> x[fields[i]]]
      BY <1>1 DEF Listed
    <2>2. \A i \in 1..n : x[fields[i]] \in Seq(S)
      BY <1>1, <1>2
    <2> HIDE DEF parts
    <2>3. \A i \in 1..n : parts[i] = x[fields[i]]
      BY <2>1
    <2>4. parts \in [1..n -> Seq(S)]
      BY <2>1, <2>2, Zenon
    <2>5. parts \in Seq(Seq(S)) /\ Len(parts) = n
      BY <1>1, <2>4
    <2> QED
      BY <2>3, <2>5
  <1> HIDE DEF parts
  <1>4. PICK pre : Joins(parts, pre) /\ \A i \in 0..n : pre[i] \in Seq(S)
    BY <1>3, Flattened
  <1>5. flat = pre[n] /\ flat \in Seq(S) /\ pre[0] = <<>>
    BY <1>1, <1>3, <1>4 DEF Joins
  <1>6. \A i \in 1..n : PartAt(parts, pre, i)
    BY <1>3, <1>4, JoinedAt
  <1> HIDE DEF flat
  <1>7. /\ <<c>> \in Seq(S) /\ Len(<<c>>) = 1 /\ p = <<c>> \o flat /\ c \in S
    <2>1. p = <<c>> \o flat
      BY DEF flat, parts
    <2>2. c \in S
      BY DEF S
    <2>3. <<c>> \in Seq(S) /\ Len(<<c>>) = 1
      BY <2>2
    <2> QED
      BY <2>1, <2>2, <2>3
  <1>8. /\ p \in Seq(S) /\ Len(p) = 1 + Len(flat) /\ Len(flat) \in Nat /\ p[1] = c
        /\ \A t \in 1..Len(flat) : p[1 + t] = flat[t]
    <2> DEFINE a == <<c>>
    <2>1. a \in Seq(S) /\ Len(a) = 1 /\ a[1] = c /\ p = a \o flat
      BY <1>7
    <2> HIDE DEF a
    <2>2. /\ p \in Seq(S) /\ Len(a) \in Nat /\ Len(flat) \in Nat /\ Len(p) = Len(a) + Len(flat)
          /\ \A q \in 1..Len(a) : p[q] = a[q] /\ q \in 1..Len(p)
          /\ \A t \in 1..Len(flat) : p[Len(a) + t] = flat[t] /\ Len(a) + t \in 1..Len(p)
      <3>1. a \in Seq(S)
        BY ONLY <2>1
      <3>2. flat \in Seq(S)
        BY ONLY <1>5
      <3>3. p = a \o flat
        BY ONLY <2>1
      <3> QED
        BY ONLY <3>1, <3>2, <3>3, Joint
    <2>3. 1 \in 1..Len(a)
      BY <2>1
    <2> QED
      BY <2>1, <2>2, <2>3
  <1> DEFINE off == [j \in 1..(n + 1) |-> 1 + Len(pre[j - 1])]
  <1>9. \A j \in 1..(n + 1) : off[j] = 1 + Len(pre[j - 1]) /\ off[j] \in Nat
    <2>1. \A j \in 1..(n + 1) : j - 1 \in 0..n
      BY <1>1
    <2>2. \A j \in 1..(n + 1) : Len(pre[j - 1]) \in Nat
      BY <1>4, <2>1, LenProperties
    <2> QED
      BY <2>2
  <1>10. off[1] = 1
    BY <1>1, <1>5, <1>9
  <1> HIDE DEF off
  <1>11. ASSUME NEW j \in 1..n
         PROVE  /\ off[j] \in Nat /\ off[j + 1] = off[j] + Width[fields[j]]
                /\ Take(p, off[j], Width[fields[j]]) = x[fields[j]]
    <2> DEFINE y == x[fields[j]]
               w == Width[fields[j]]
               o == off[j]
    <2>1. y \in Seq(S) /\ Len(y) = w /\ w \in Nat /\ parts[j] = y
      BY <1>1, <1>2, <1>3
    <2>2. /\ j \in 1..(n + 1) /\ j + 1 \in 1..(n + 1) /\ (j + 1) - 1 = j
          /\ j \in 0..n /\ j - 1 \in 0..n
      BY <1>1
    <2>3. /\ Len(pre[j]) = Len(pre[j - 1]) + w /\ Len(pre[j]) <= Len(flat)
          /\ \A t \in 1..w : flat[Len(pre[j - 1]) + t] = y[t]
      BY <1>3, <1>5, <1>6, <2>1, ZenonT(60) DEF PartAt
    <2>4. Len(pre[j - 1]) \in Nat /\ Len(pre[j]) \in Nat
      BY <1>4, <2>2, LenProperties
    <2>5. o \in Nat /\ o = 1 + Len(pre[j - 1]) /\ off[j + 1] = o + w
      <3>1. off[j] = 1 + Len(pre[j - 1]) /\ off[j + 1] = 1 + Len(pre[j]) /\ off[j] \in Nat
        BY <1>9, <2>2
      <3> DEFINE a == Len(pre[j - 1])
                 b == Len(pre[j])
                 q == off[j + 1]
      <3>2. /\ a \in Nat /\ b \in Nat /\ b = a + w /\ o = 1 + a /\ q = 1 + b /\ w \in Nat
            /\ o \in Nat
        BY <2>1, <2>3, <2>4, <3>1
      <3> HIDE DEF a, b, q, w, o
      <3>3. q = o + w
        BY <3>2
      <3> QED
        BY <3>1, <3>2, <3>3 DEF a, q, o
    <2> HIDE DEF y, w, o
    <2>6. ASSUME NEW t \in 1..w PROVE o + t <= Len(p) /\ p[o + t] = y[t]
      <3> DEFINE a == Len(pre[j - 1])
                 b == Len(pre[j])
      <3>1. a \in Nat /\ b \in Nat /\ b = a + w /\ b <= Len(flat) /\ o = 1 + a /\ flat[a + t] = y[t]
        BY <2>3, <2>4, <2>5
      <3> HIDE DEF a, b
      <3>2. a + t \in 1..Len(flat) /\ o + t = 1 + (a + t)
        BY <1>8, <2>1, <3>1
      <3> QED
        BY <1>8, <3>1, <3>2
    <2>7. Take(p, o, w) = [t \in 1..w |-> y[t]]
      BY <2>6 DEF Take
    <2>8. y = [t \in 1..w |-> y[t]]
      BY <2>1
    <2> QED
      BY <2>5, <2>7, <2>8 DEF y, w, o
  <1> QED
    <2>1. Laid(p, c, x, fields, off)
      BY <1>8, <1>10, <1>11 DEF n, Laid, Adds
    <2> QED
      BY <2>1

\* The two versions of the codec, and the field that is not read where it was written.
Versions == {"center", "client"}
Unread(v) == IF v = "center" THEN {"sound_level"} ELSE {}

\* The kinds of message that are a list of fields.
LEMMA WrittenIs ==
  /\ DOMAIN Written = {"kHeartBeat", "kEye", "kFrontLeds", "kMove", "kStep", "kAutoMove",
                       "kAutoPilot", "kRun", "kEmergencyStop"}
  /\ DOMAIN ReadAt = DOMAIN Written \ {"kRun", "kEmergencyStop"}
  /\ DOMAIN ClientReadAt = DOMAIN ReadAt \ {"kStep", "kAutoMove"}
  BY DEF Written, ReadAt, ClientReadAt, ClientTypes

\* No two kinds have the same code.
LEMMA TypeCodes ==
  ASSUME NEW t \in DOMAIN Written
  PROVE  /\ Type[t] \in 0..255 \ {9, 10, 11}
         /\ \A u \in DOMAIN Written : Type[u] = Type[t] => u = t
  BY WrittenIs DEF Type

\* GetMessage looks for the fields of a message where they were put.
ReadsAt(v, t, off) ==
  \A j \in 1..Len(Written[t]) :
    Written[t][j] \notin Unread(v) => LayoutOf(v)[t][Written[t][j]] = off[j]

\* The heartbeat, read by either version.
LEMMA HeartBeatLayout ==
  ASSUME NEW v \in Versions, NEW off, Adds(off, Written["kHeartBeat"])
  PROVE  ReadsAt(v, "kHeartBeat", off)
  <1> DEFINE fields == Written["kHeartBeat"]
  <1>1. fields = <<"step_counter", "obstacle_distance", "voltage", "yaw_pitch_roll", "sound_level">>
    BY DEF Written
  <1>2. /\ Width["step_counter"] = 2 /\ Width["obstacle_distance"] = 2 /\ Width["voltage"] = 2
        /\ Width["yaw_pitch_roll"] = 12
    BY DEF Width
  <1> HIDE DEF fields
  <1>3. Len(fields) = 5 /\ fields[1] = "step_counter" /\ fields[2] = "obstacle_distance"
        /\ fields[3] = "voltage" /\ fields[4] = "yaw_pitch_roll" /\ fields[5] = "sound_level"
    BY <1>1
  <1>4. off[1] = 1 /\ off[2] = 3 /\ off[3] = 5 /\ off[4] = 7 /\ off[5] = 19
    <2>1. \A j \in 1..5 : off[j + 1] = off[j] + Width[fields[j]]
      BY <1>3 DEF fields, Adds
    <2>2. off[1] = 1
      BY DEF Adds
    <2> QED
      BY <1>2, <1>3, <2>1, <2>2
  <1>5. /\ ReadAt["kHeartBeat"].step_counter = 1 /\ ReadAt["kHeartBeat"].obstacle_distance = 3
        /\ ReadAt["kHeartBeat"].voltage = 5 /\ ReadAt["kHeartBeat"].yaw_pitch_roll = 7
    BY DEF ReadAt
  <1>6. CASE v = "center"
    <2>1. LayoutOf(v) = ReadAt
      BY <1>6 DEF LayoutOf
    <2> QED
      BY <1>3, <1>4, <1>5, <1>6, <2>1 DEF fields, Unread, ReadsAt
  <1>7. CASE v = "client"
    <2>1. LayoutOf(v)["kHeartBeat"] = [ReadAt["kHeartBeat"] EXCEPT !.sound_level = 19]
      BY <1>7, WrittenIs DEF LayoutOf, ClientReadAt, ClientTypes
    <2>2. DOMAIN ReadAt["kHeartBeat"] =
            {"step_counter", "obstacle_distance", "voltage", "yaw_pitch_roll", "sound_level"}
      BY DEF ReadAt
    <2>3. /\ LayoutOf(v)["kHeartBeat"].sound_level = 19
          /\ \A f \in {"step_counter", "obstacle_distance", "voltage", "yaw_pitch_roll"} :
               LayoutOf(v)["kHeartBeat"][f] = ReadAt["kHeartBeat"][f]
      BY <2>1, <2>2
    <2> QED
      BY <1>3, <1>4, <1>5, <2>3 DEF fields, ReadsAt
  <1> QED
    BY <1>6, <1>7 DEF Versions
\* The other kinds, of two fields and one of four.
LEMMA PairLayout ==
  ASSUME NEW v \in Versions, NEW t \in DOMAIN LayoutOf(v) \ {"kHeartBeat"},
         NEW off, Adds(off, Written[t])
  PROVE  ReadsAt(v, t, off)
  <1>1. /\ t \in {"kEye", "kFrontLeds", "kMove", "kStep", "kAutoMove", "kAutoPilot"}
        /\ LayoutOf(v)[t] = ReadAt[t]
    BY WrittenIs DEF LayoutOf, Versions, ClientReadAt, ClientTypes
  <1>2. ASSUME NEW f, NEW g, Written[t] = <<f, g>>, ReadAt[t][f] = 1, ReadAt[t][g] = 1 + Width[f]
        PROVE  ReadsAt(v, t, off)
    <2> DEFINE fields == Written[t]
    <2>1. Len(fields) = 2 /\ fields[1] = f /\ fields[2] = g
      BY <1>2
    <2>2. off[1] = 1 /\ off[2] = off[1] + Width[f]
      <3>1. /\ 1 \in 1..Len(fields) /\ off[1] = 1
            /\ \A j \in 1..Len(fields) : off[j + 1] = off[j] + Width[fields[j]]
        BY <2>1 DEF Adds
      <3> HIDE DEF fields
      <3> QED
        BY <2>1, <3>1
    <2> HIDE DEF fields
    <2>3. ASSUME NEW j \in 1..2 PROVE LayoutOf(v)[t][fields[j]] = off[j]
      <3>1. j = 1 \/ j = 2
        OBVIOUS
      <3> QED
        BY <1>1, <1>2, <2>1, <2>2, <3>1
    <2> QED
      BY <2>1, <2>3 DEF ReadsAt, fields
  <1>3. CASE t = "kEye"
    <2>1. Written[t] = <<"eye_power", "eye_angle">>
      BY <1>3 DEF Written
    <2>2. ReadAt[t]["eye_power"] = 1 /\ ReadAt[t]["eye_angle"] = 2
      BY <1>3 DEF ReadAt
    <2>3. Width["eye_power"] = 1
      BY DEF Width
    <2> QED
      BY <1>2, <2>1, <2>2, <2>3
  <1>4. CASE t = "kFrontLeds"
    <2>1. Written[t] = <<"left_led_rgb", "right_led_rgb">>
      BY <1>4 DEF Written
    <2>2. ReadAt[t]["left_led_rgb"] = 1 /\ ReadAt[t]["right_led_rgb"] = 4
      BY <1>4 DEF ReadAt
    <2>3. Width["left_led_rgb"] = 3
      BY DEF Width
    <2> QED
      BY <1>2, <2>1, <2>2, <2>3
  <1>5. CASE t = "kMove"
    <2>1. Written[t] = <<"move", "rotate">>
      BY <1>5 DEF Written
    <2>2. ReadAt[t]["move"] = 1 /\ ReadAt[t]["rotate"] = 2
      BY <1>5 DEF ReadAt
    <2>3. Width["move"] = 1
      BY DEF Width
    <2> QED
      BY <1>2, <2>1, <2>2, <2>3
  <1>6. CASE t = "kStep"
    <2>1. Written[t] = <<"count_speed", "count">>
      BY <1>6 DEF Written
    <2>2. ReadAt[t]["count_speed"] = 1 /\ ReadAt[t]["count"] = 2
      BY <1>6 DEF ReadAt
    <2>3. Width["count_speed"] = 1
      BY DEF Width
    <2> QED
      BY <1>2, <2>1, <2>2, <2>3
  <1>7. CASE t = "kAutoPilot"
    <2>1. Written[t] = <<"autopilot_enable", "autopilot_heading">>
      BY <1>7 DEF Written
    <2>2. ReadAt[t]["autopilot_enable"] = 1 /\ ReadAt[t]["autopilot_heading"] = 2
      BY <1>7 DEF ReadAt
    <2>3. Width["autopilot_enable"] = 1
      BY DEF Width
    <2> QED
      BY <1>2, <2>1, <2>2, <2>3
  <1>8. CASE t = "kAutoMove"
    <2> DEFINE fields == Written[t]
    <2>1. fields = <<"rotate_speed", "rotate_rad", "walk_speed", "walk_step">>
      BY <1>8 DEF Written
    <2>2. /\ ReadAt[t]["rotate_speed"] = 1 /\ ReadAt[t]["rotate_rad"] = 2
          /\ ReadAt[t]["walk_speed"] = 6 /\ ReadAt[t]["walk_step"] = 7
      BY <1>8 DEF ReadAt
    <2>3. Width["rotate_speed"] = 1 /\ Width["rotate_rad"] = 4 /\ Width["walk_speed"] = 1
      BY DEF Width
    <2>4. off[1] = 1 /\ \A j \in 1..Len(fields) : off[j + 1] = off[j] + Width[fields[j]]
      BY DEF Adds
    <2> HIDE DEF fields
    <2>5. Len(fields) = 4 /\ fields[1] = "rotate_speed" /\ fields[2] = "rotate_rad"
          /\ fields[3] = "walk_speed" /\ fields[4] = "walk_step"
      BY <2>1
    <2>6. off[1] = 1 /\ off[2] = 2 /\ off[3] = 6 /\ off[4] = 7
      BY <2>3, <2>4, <2>5
    <2>7. ASSUME NEW j \in 1..4 PROVE LayoutOf(v)[t][fields[j]] = off[j]
      <3>1. j = 1 \/ j = 2 \/ j = 3 \/ j = 4
        OBVIOUS
      <3> QED
        BY <1>1, <2>2, <2>5, <2>6, <3>1
    <2> QED
      BY <2>5, <2>7 DEF ReadsAt, fields
  <1> QED
    BY <1>1, <1>3, <1>4, <1>5, <1>6, <1>7, <1>8

\* The fields a message of a list of fields carries.
Fields(v, t, x) ==
  IF t = "kAutoPilot" /\ AutoPilotOff(x) THEN {"autopilot_enable"}
  ELSE IF t \in TypesOf(v) THEN ToSet(Written[t]) ELSE {}

\* What a message that carries some fields of x makes of i.
Updated(v, fields, x, i, g) ==
  /\ DOMAIN g = DOMAIN i
  /\ \A f \in DOMAIN i \ Unread(v) : g[f] = IF f \in fields THEN x[f] ELSE i[f]

\* GetMessage looks for the fields GetBuffer writes, and for no others.
LEMMA Layouts ==
  ASSUME NEW v \in Versions
  PROVE  /\ TypesOf(v) \subseteq DOMAIN Written /\ "kAutoPilot" \in DOMAIN LayoutOf(v)
         /\ DOMAIN LayoutOf(v) = TypesOf(v) \ {"kRun", "kEmergencyStop"}
         /\ \A t \in DOMAIN LayoutOf(v) : DOMAIN LayoutOf(v)[t] = ToSet(Written[t])
         /\ ToSet(Written["kRun"]) = {} /\ ToSet(Written["kEmergencyStop"]) = {}
  <1>1. /\ TypesOf(v) \subseteq DOMAIN Written /\ "kAutoPilot" \in DOMAIN LayoutOf(v)
        /\ DOMAIN LayoutOf(v) = TypesOf(v) \ {"kRun", "kEmergencyStop"}
    BY WrittenIs DEF TypesOf, ClientTypes, LayoutOf, Versions
  <1>2. ToSet(Written["kRun"]) = {} /\ ToSet(Written["kEmergencyStop"]) = {}
    BY DEF Written, ToSet
  <1>3. ASSUME NEW t \in DOMAIN ReadAt PROVE DOMAIN ReadAt[t] = ToSet(Written[t])
    <2>0. ASSUME NEW f, NEW g, Written[t] = <<f, g>>, DOMAIN ReadAt[t] = {f, g}
          PROVE  DOMAIN ReadAt[t] = ToSet(Written[t])
      BY <2>0 DEF ToSet
    <2>4. CASE t = "kEye"
      <3>1. /\ Written[t] = <<"eye_power", "eye_angle">>
            /\ DOMAIN ReadAt[t] = {"eye_power", "eye_angle"}
        BY <2>4 DEF Written, ReadAt
      <3> QED
        BY <2>0, <3>1
    <2>5. CASE t = "kFrontLeds"
      <3>1. /\ Written[t] = <<"left_led_rgb", "right_led_rgb">>
            /\ DOMAIN ReadAt[t] = {"left_led_rgb", "right_led_rgb"}
        BY <2>5 DEF Written, ReadAt
      <3> QED
        BY <2>0, <3>1
    <2>6. CASE t = "kMove"
      <3>1. Written[t] = <<"move", "rotate">> /\ DOMAIN ReadAt[t] = {"move", "rotate"}
        BY <2>6 DEF Written, ReadAt
      <3> QED
        BY <2>0, <3>1
    <2>7. CASE t = "kStep"
      <3>1. /\ Written[t] = <<"count_speed", "count">>
            /\ DOMAIN ReadAt[t] = {"count_speed", "count"}
        BY <2>7 DEF Written, ReadAt
      <3> QED
        BY <2>0, <3>1
    <2>8. CASE t = "kAutoPilot"
      <3>1. /\ Written[t] = <<"autopilot_enable", "autopilot_heading">>
            /\ DOMAIN ReadAt[t] = {"autopilot_enable", "autopilot_heading"}
        BY <2>8 DEF Written, ReadAt
      <3> QED
        BY <2>0, <3>1
    <2>2. CASE t = "kHeartBeat"
      BY <2>2 DEF ReadAt, Written, ToSet
    <2>3. CASE t = "kAutoMove"
      BY <2>3 DEF ReadAt, Written, ToSet
    <2> QED
      BY <2>2, <2>3, <2>4, <2>5, <2>6, <2>7, <2>8, WrittenIs
  <1>4. ASSUME NEW t \in DOMAIN LayoutOf(v)
        PROVE  t \in DOMAIN ReadAt /\ DOMAIN LayoutOf(v)[t] = DOMAIN ReadAt[t]
    BY WrittenIs DEF LayoutOf, ClientReadAt, ClientTypes, Versions
  <1> QED
    BY <1>1, <1>2, <1>3, <1>4

\* Each field is read from where it was put.
LEMMA LayoutRight ==
  ASSUME NEW v \in Versions, NEW t \in DOMAIN LayoutOf(v), NEW off, Adds(off, Written[t])
  PROVE  ReadsAt(v, t, off)
  <1>1. CASE t = "kHeartBeat"
    BY <1>1, HeartBeatLayout
  <1>2. CASE t # "kHeartBeat"
    BY <1>2, PairLayout
  <1> QED
    BY <1>1, <1>2

\* What is written are fields with a width.
LEMMA WrittenFields == ASSUME NEW t \in DOMAIN Written PROVE Written[t] \in Seq(DOMAIN Width)
  <1> DEFINE D == DOMAIN Width
  <1>0. /\ \A a, b \in D : <<a, b>> \in Seq(D)
        /\ \A a, b, c, d \in D : <<a, b, c, d>> \in Seq(D)
        /\ \A a, b, c, d, e \in D : <<a, b, c, d, e>> \in Seq(D)
    <2> HIDE DEF D
    <2> QED
      OBVIOUS
  <1>5. CASE t = "kEye"
    <2>1. /\ Written[t] = <<"eye_power", "eye_angle">>
          /\ "eye_power" \in D /\ "eye_angle" \in D
      BY <1>5, WidthIs DEF Written
    <2> QED
      BY <1>0, <2>1
  <1>6. CASE t = "kFrontLeds"
    <2>1. /\ Written[t] = <<"left_led_rgb", "right_led_rgb">>
          /\ "left_led_rgb" \in D /\ "right_led_rgb" \in D
      BY <1>6, WidthIs DEF Written
    <2> QED
      BY <1>0, <2>1
  <1>7. CASE t = "kMove"
    <2>1. Written[t] = <<"move", "rotate">> /\ "move" \in D /\ "rotate" \in D
      BY <1>7, WidthIs DEF Written
    <2> QED
      BY <1>0, <2>1
  <1>8. CASE t = "kStep"
    <2>1. Written[t] = <<"count_speed", "count">> /\ "count_speed" \in D /\ "count" \in D
      BY <1>8, WidthIs DEF Written
    <2> QED
      BY <1>0, <2>1
  <1>9. CASE t = "kAutoPilot"
    <2>1. /\ Written[t] = <<"autopilot_enable", "autopilot_heading">>
          /\ "autopilot_enable" \in D /\ "autopilot_heading" \in D
      BY <1>9, WidthIs DEF Written
    <2> QED
      BY <1>0, <2>1
  <1>10. CASE t = "kRun" \/ t = "kEmergencyStop"
    <2>1. Written[t] = <<>>
      BY <1>10 DEF Written
    <2> QED
      BY <2>1
  <1>2. CASE t = "kHeartBeat"
    <2>1. Written[t] =
            <<"step_counter", "obstacle_distance", "voltage", "yaw_pitch_roll", "sound_level">>
      BY <1>2 DEF Written
    <2>2. /\ "step_counter" \in D /\ "obstacle_distance" \in D /\ "voltage" \in D
          /\ "yaw_pitch_roll" \in D /\ "sound_level" \in D
      BY WidthIs
    <2> QED
      BY <1>0, <2>1, <2>2
  <1>3. CASE t = "kAutoMove"
    <2>1. Written[t] = <<"rotate_speed", "rotate_rad", "walk_speed", "walk_step">>
      BY <1>3 DEF Written
    <2>2. "rotate_speed" \in D /\ "rotate_rad" \in D /\ "walk_speed" \in D /\ "walk_step" \in D
      BY WidthIs
    <2> QED
      BY <1>0, <2>1, <2>2
  <1> QED
    BY <1>2, <1>3, <1>5, <1>6, <1>7, <1>8, <1>9, <1>10, WrittenIs

\* The widths that the reader's fields have, which are those of the sender's.
Sized(v, i) ==
  /\ DOMAIN i = DOMAIN Width \cup ToSet(RegField)
  /\ \A f \in DOMAIN Width \ Unread(v) : Len(i[f]) = Width[f]

\* A message that is a list of fields leaves them in XpiderInfo, and nothing else.
LEMMA FieldsRead ==
  ASSUME NEW v \in Versions, NEW x, IsInfo(x), NEW i, Sized(v, i),
         NEW t \in DOMAIN Written
  PROVE  Updated(v, Fields(v, t, x), x, i, GetMessage(v, GetBuffer(t, x), i))
  <1> DEFINE p == GetBuffer(t, x)
             g == GetMessage(v, p, i)
             layout == LayoutOf(v)
             types == {u \in DOMAIN layout : Type[u] = p[1]}
             second == Take(p, 1, 1)[1]
             read(u) == IF u = "kAutoPilot" /\ second = 0
                          THEN {"autopilot_enable"} ELSE DOMAIN layout[u]
             switched == t = "kAutoPilot" /\ AutoPilotOff(x)
             fields == IF switched THEN <<"autopilot_enable">> ELSE Written[t]
  <1>1. Type[t] \in 0..255 \ {9, 10, 11} /\ \A u \in DOMAIN Written : Type[u] = Type[t] => u = t
    BY TypeCodes
  <1>2. fields \in Seq(DOMAIN Width)
    <2>1. Written[t] \in Seq(DOMAIN Width)
      BY WrittenFields
    <2> DEFINE D == DOMAIN Width
    <2>2. \A a \in D : <<a>> \in Seq(D)
      <3> HIDE DEF D
      <3> QED
        OBVIOUS
    <2>3. <<"autopilot_enable">> \in Seq(D)
      BY <2>2, WidthIs
    <2> HIDE DEF D
    <2>4. fields = Written[t] \/ fields = <<"autopilot_enable">>
      OBVIOUS
    <2> QED
      BY <2>1, <2>3, <2>4 DEF D
  <1>3. p = <<Type[t]>> \o FlattenSeq(Listed(x, fields))
    BY DEF GetBuffer, Listed
  <1> HIDE DEF fields, p
  <1> DEFINE c == Type[t]
  <1>0. c \in 0..255 /\ p = <<c>> \o FlattenSeq(Listed(x, fields))
    BY <1>1, <1>3
  <1> HIDE DEF c
  <1>4. PICK o : Laid(p, c, x, fields, o)
    BY <1>0, <1>2, FieldsLie, Zenon
  <1>5. /\ p[1] = Type[t] /\ Adds(o, fields)
        /\ \A j \in 1..Len(fields) : Take(p, o[j], Width[fields[j]]) = x[fields[j]]
    BY <1>4 DEF Laid, c
  <1>6. g = [f \in DOMAIN i |->
               IF \E u \in types : f \in read(u)
                 THEN Take(p, layout[CHOOSE u \in types : TRUE][f], Len(i[f])) ELSE i[f]]
    <2>1. p[1] \notin {Type.kUpdateRegister, Type.kRegisterResponse}
      BY <1>1, <1>5 DEF Type
    <2> QED
      BY <2>1, Zenon DEF GetMessage
  <1>7. types = IF t \in DOMAIN layout THEN {t} ELSE {}
    <2>1. DOMAIN layout \subseteq DOMAIN Written
      BY Layouts
    <2> QED
      BY <1>1, <1>5, <2>1
  <1> HIDE DEF g, layout, types, second, read, switched
  <1>8. CASE t \notin DOMAIN layout
    <2>1. Fields(v, t, x) = {}
      BY <1>8, Layouts DEF Fields, layout
    <2>2. g = [f \in DOMAIN i |-> i[f]]
      BY <1>6, <1>7, <1>8
    <2> QED
      BY <2>1, <2>2 DEF Updated, g, p
  <1>9. CASE t \in DOMAIN layout
    <2>1. types = {t} /\ (CHOOSE u \in types : TRUE) = t
      BY <1>7, <1>9
    <2>2. g = [f \in DOMAIN i |-> IF f \in read(t) THEN Take(p, layout[t][f], Len(i[f])) ELSE i[f]]
      BY <1>6, <2>1
    <2>3. \A f \in Fields(v, t, x) \ Unread(v) :
            f \in DOMAIN Width /\ Take(p, layout[t][f], Width[f]) = x[f]
      <3>1. CASE switched
        <4>1. Fields(v, t, x) = {"autopilot_enable"} /\ fields = <<"autopilot_enable">>
          BY <3>1 DEF Fields, fields, switched
        <4>2. Take(p, 1, Width["autopilot_enable"]) = x["autopilot_enable"]
          <5>1. 1 \in 1..Len(fields) /\ fields[1] = "autopilot_enable"
            BY <4>1
          <5>2. o[1] = 1
            BY <1>5 DEF Adds
          <5> QED
            BY <1>5, <5>1, <5>2
        <4>3. layout[t]["autopilot_enable"] = 1
          BY <3>1, WrittenIs DEF switched, layout, LayoutOf, Versions, ClientReadAt, ClientTypes, ReadAt
        <4> QED
          BY <4>1, <4>2, <4>3, WidthIs
      <3>2. CASE ~switched
        <4>1. fields = Written[t] /\ Fields(v, t, x) = ToSet(Written[t])
          BY <1>9, <3>2, Layouts DEF Fields, fields, switched, layout
        <4>2. ReadsAt(v, t, o)
          BY <1>5, <1>9, <4>1, LayoutRight DEF layout
        <4>3. ASSUME NEW f \in ToSet(fields) \ Unread(v)
              PROVE  f \in DOMAIN Width /\ Take(p, layout[t][f], Width[f]) = x[f]
          <5>1. PICK j \in 1..Len(fields) : f = fields[j]
            BY <1>2 DEF ToSet
          <5>2. layout[t][f] = o[j]
            BY <4>1, <4>2, <5>1 DEF ReadsAt, layout
          <5> QED
            BY <1>2, <1>5, <5>1, <5>2
        <4> QED
          BY <4>1, <4>3
      <3> QED
        BY <3>1, <3>2
    <2>4. read(t) = Fields(v, t, x)
      <3>1. CASE t = "kAutoPilot"
        <4>1. Take(p, 1, 1) = x["autopilot_enable"]
          <5>1. fields[1] = "autopilot_enable" /\ 1 \in 1..Len(fields)
            BY <3>1 DEF fields, Written
          <5>2. o[1] = 1 /\ Width["autopilot_enable"] = 1
            BY <1>5 DEF Adds, Width
          <5> QED
            BY <1>5, <5>1, <5>2
        <4>2. second = 0 <=> AutoPilotOff(x)
          <5> DEFINE e == x["autopilot_enable"]
          <5>1. e \in Seq(0..255) /\ Len(e) = 1
            <6>1. "autopilot_enable" \in DOMAIN Width /\ Width["autopilot_enable"] = 1
              BY WidthIs DEF Width
            <6> QED
              BY <6>1 DEF IsInfo
          <5>2. second = e[1]
            BY <4>1 DEF second
          <5> HIDE DEF e
          <5>3. e[1] = 0 <=> e = <<0>>
            BY <5>1
          <5> QED
            BY <5>2, <5>3 DEF AutoPilotOff, e
        <4> QED
          BY <1>9, <3>1, <4>2, Layouts DEF read, Fields, layout
      <3>2. CASE t # "kAutoPilot"
        BY <1>9, <3>2, Layouts DEF read, Fields, layout
      <3> QED
        BY <3>1, <3>2
    <2>5. ASSUME NEW f \in DOMAIN i \ Unread(v)
          PROVE  g[f] = IF f \in Fields(v, t, x) THEN x[f] ELSE i[f]
      <3>1. CASE f \in Fields(v, t, x)
        <4>1. f \in DOMAIN Width /\ Len(i[f]) = Width[f] /\ Take(p, layout[t][f], Width[f]) = x[f]
          BY <2>3, <3>1 DEF Sized
        <4> QED
          BY <2>2, <2>4, <3>1, <4>1
      <3>2. CASE f \notin Fields(v, t, x)
        BY <2>2, <2>4, <3>2
      <3> QED
        BY <3>1, <3>2
    <2> QED
      BY <2>2, <2>5 DEF Updated, g, p
  <1> QED
    BY <1>8, <1>9

\* A message about a register leaves that register in XpiderInfo, and nothing else.
LEMMA RegisterRead ==
  ASSUME NEW v \in Versions, NEW x, IsInfo(x), NEW i, Sized(v, i), NEW reg \in 0..3,
         NEW type \in {Type.kUpdateRegister, Type.kRegisterResponse}
  PROVE  Updated(v, {RegField[reg + 1]}, x, i, GetMessage(v, RegisterMessage(type, reg, x), i))
  <1> DEFINE p == RegisterMessage(type, reg, x)
             g == GetMessage(v, p, i)
             s == x[RegField[reg + 1]]
             head == <<type, reg, Len(s)>>
             second == Take(p, 1, 1)[1]
  <1>1. s \in Seq(0..255) /\ RegField[reg + 1] \notin DOMAIN Width
    <2>1. RegField[reg + 1] \in ToSet(RegField)
      BY DEF RegField, ToSet
    <2>2. RegField[reg + 1] \notin DOMAIN Width
      BY WidthIs DEF RegField
    <2> QED
      BY <2>1, <2>2 DEF IsInfo
  <1>2. p = head \o s
    BY DEF RegisterMessage
  <1> DEFINE S == (0..255) \cup {type, reg, Len(s)}
  <1>3. head \in Seq(S) /\ Len(head) = 3 /\ head[1] = type /\ head[2] = reg /\ head[3] = Len(s)
    OBVIOUS
  <1>4. s \in Seq(S) /\ Len(s) \in Nat
    <2>1. \A z \in Seq(0..255) : z \in Seq(S) /\ Len(z) \in Nat
      <3> HIDE DEF s
      <3> QED
        OBVIOUS
    <2> QED
      BY <1>1, <2>1
  <1> HIDE DEF s, head, S, p, g
  <1>5. /\ Len(p) = 3 + Len(s) /\ \A q \in 1..3 : p[q] = head[q]
        /\ \A k \in 1..Len(s) : p[3 + k] = s[k]
    <2>1. /\ Len(p) = Len(head) + Len(s) /\ \A q \in 1..Len(head) : p[q] = head[q]
          /\ \A k \in 1..Len(s) : p[Len(head) + k] = s[k]
      <3>1. head \in Seq(S)
        BY <1>3
      <3> QED
        BY ONLY <1>2, <1>4, <3>1, Joint
    <2> QED
      BY <1>3, <2>1
  <1>6. p[1] = type /\ second = reg /\ Take(p, 2, 1)[1] = Len(s)
    BY <1>3, <1>4, <1>5 DEF Take
  <1>7. Take(p, 3, Len(s)) = s
    <2>1. \A k \in 1..Len(s) : 3 + k <= Len(p) /\ p[3 + k] = s[k]
      BY <1>4, <1>5
    <2>2. Take(p, 3, Len(s)) = [k \in 1..Len(s) |-> s[k]]
      BY <2>1 DEF Take
    <2> QED
      BY <1>4, <2>2
  <1>8. g = [f \in DOMAIN i |-> IF second < 4 /\ f = RegField[second + 1]
                                  THEN Take(p, 3, Take(p, 2, 1)[1]) ELSE i[f]]
    BY <1>6, Zenon DEF GetMessage, g
  <1> HIDE DEF second
  <1>9. g = [f \in DOMAIN i |-> IF f = RegField[reg + 1] THEN s ELSE i[f]]
    BY <1>6, <1>7, <1>8
  <1> QED
    BY <1>9 DEF Updated, g, p, s

\* A question about a register changes nothing.
LEMMA QuestionRead ==
  ASSUME NEW v \in Versions, NEW x, NEW i, NEW reg
  PROVE  Updated(v, {}, x, i, GetMessage(v, GetRegister(reg), i))
  <1> DEFINE p == GetRegister(reg)
             types == {u \in DOMAIN LayoutOf(v) : Type[u] = p[1]}
             second == Take(p, 1, 1)[1]
             read(u) == IF u = "kAutoPilot" /\ second = 0
                          THEN {"autopilot_enable"} ELSE DOMAIN LayoutOf(v)[u]
  <1>1. p[1] = 9
    BY DEF GetRegister, Type
  <1>2. types = {}
    <2>1. DOMAIN LayoutOf(v) \subseteq DOMAIN Written
      BY Layouts
    <2> QED
      BY <1>1, <2>1, TypeCodes
  <1>3. p[1] \notin {Type.kUpdateRegister, Type.kRegisterResponse}
    BY <1>1 DEF Type
  <1> HIDE DEF p
  <1>4. GetMessage(v, p, i) =
          [f \in DOMAIN i |->
             IF \E u \in types : f \in read(u)
               THEN Take(p, LayoutOf(v)[CHOOSE u \in types : TRUE][f], Len(i[f])) ELSE i[f]]
    BY <1>3, Zenon DEF GetMessage
  <1>5. GetMessage(v, p, i) = [f \in DOMAIN i |-> i[f]]
    <2> HIDE DEF types, read
    <2> QED
      BY <1>2, <1>4
  <1> QED
    BY <1>5 DEF Updated, p

\* What the reader takes from a message is what the sender put into it.
LEMMA MessageRead ==
  ASSUME NEW m \in Messages, NEW i, Sized(Version, i),
         m.type \in DOMAIN Written \cup {"kGetRegister", "kUpdateRegister", "kRegisterResponse"}
  PROVE  Updated(Version, Carried(m), m.info, i, GetMessage(Version, Payload(m), i))
  <1>1. Version \in Versions /\ IsInfo(m.info) /\ m.reg \in 0..3
    BY InfoAssumption DEF Version, Versions
  <1>2. CASE m.type = "kGetRegister"
    <2>1. Payload(m) = GetRegister(m.reg) /\ Carried(m) = {}
      BY <1>2, Zenon DEF Payload, Carried
    <2> QED
      BY <1>1, <2>1, QuestionRead
  <1>3. CASE m.type = "kUpdateRegister"
    <2>1. /\ Payload(m) = RegisterMessage(Type.kUpdateRegister, m.reg, m.info)
          /\ Carried(m) = {RegField[m.reg + 1]}
      BY <1>3 DEF Payload, Carried, UpdateRegister
    <2> QED
      BY <1>1, <2>1, RegisterRead
  <1>4. CASE m.type = "kRegisterResponse"
    <2>1. /\ Payload(m) = RegisterMessage(Type.kRegisterResponse, m.reg, m.info)
          /\ Carried(m) = {RegField[m.reg + 1]}
      BY <1>4 DEF Payload, Carried, RegisterResponse
    <2> QED
      BY <1>1, <2>1, RegisterRead
  <1>5. CASE m.type \in DOMAIN Written
    <2>1. m.type \notin {"kGetRegister", "kUpdateRegister", "kRegisterResponse"}
      BY <1>5, WrittenIs
    <2>2. Payload(m) = GetBuffer(m.type, m.info)
      BY <2>1 DEF Payload
    <2>3. Carried(m) = Fields(Version, m.type, m.info)
      BY <2>1 DEF Carried, Fields
    <2> QED
      BY <1>1, <1>5, <2>2, <2>3, FieldsRead
  <1> QED
    BY <1>2, <1>3, <1>4, <1>5

\* The kinds of message.
Kinds == DOMAIN Written \cup {"kGetRegister", "kUpdateRegister", "kRegisterResponse"}

\* The frames are read one after the other.
ReadsOn(w, v, i, n, frames) ==
  /\ w = [k \in 0..n |-> w[k]] /\ w[0] = i
  /\ \A k \in 1..n : w[k] = GetMessage(v, Values(frames[k]), w[k - 1])

LEMMA ReadSteps ==
  ASSUME NEW v, NEW i, NEW n \in Nat, NEW frames
  PROVE  \E w : ReadsOn(w, v, i, n, frames)
  <1> DEFINE Next1(k, x) == GetMessage(v, Values(frames[k]), x)
             Made(m, w) == /\ w = [k \in 0..m |-> w[k]] /\ w[0] = i
                           /\ \A k \in 1..m : w[k] = Next1(k, w[k - 1])
             Bad == {m \in 0..n : ~\E w : Made(m, w)}
  <1> HIDE DEF Next1
  <1>1. ASSUME Bad # {} PROVE FALSE
    <2>1. Bad \in SUBSET Nat
      OBVIOUS
    <2> HIDE DEF Bad
    <2>2. PICK m \in Bad : \A k \in Bad : m <= k
      BY <1>1, <2>1, LeastOfNats
    <2> USE DEF Bad
    <2>3. CASE m = 0
      <3> DEFINE w == [k \in 0..0 |-> i]
      <3>1. Made(0, w)
        OBVIOUS
      <3> QED
        BY <2>2, <2>3, <3>1
    <2>4. CASE m # 0
      <3>1. m - 1 \in 0..n /\ m \in 1..n /\ m - 1 \notin Bad /\ m \in Nat
        BY <2>2, <2>4
      <3>2. PICK w : Made(m - 1, w)
        BY <3>1
      <3> DEFINE u == [k \in 0..m |-> IF k = m THEN Next1(m, w[m - 1]) ELSE w[k]]
      <3>3. u[0] = i
        BY <2>4, <3>1, <3>2
      <3>4. ASSUME NEW k \in 1..m PROVE u[k] = Next1(k, u[k - 1])
        <4>1. u[k - 1] = w[k - 1]
          BY <3>1
        <4>2. CASE k = m
          BY <4>1, <4>2
        <4>3. CASE k # m
          <5>1. k \in 1..(m - 1)
            BY <3>1, <4>3
          <5>2. w[k] = Next1(k, w[k - 1])
            BY <3>2, <5>1
          <5>3. u[k] = w[k]
            BY <4>3
          <5> QED
            BY <4>1, <5>2, <5>3, Zenon
        <4> QED
          BY <4>2, <4>3
      <3>5. u = [k \in 0..m |-> u[k]]
        OBVIOUS
      <3> HIDE DEF u
      <3>6. Made(m, u)
        BY <3>3, <3>4, <3>5
      <3> QED
        BY <2>2, <3>6
    <2> QED
      BY <2>3, <2>4
  <1>2. \E w : Made(n, w)
    BY <1>1
  <1> QED
    BY <1>2 DEF Next1, ReadsOn

\* That is how Read reads them.
LEMMA ReadIs ==
  ASSUME NEW i, NEW frames, Len(frames) \in Nat
  PROVE  \E w : Read(i, frames) = w[Len(frames)] /\ ReadsOn(w, Version, i, Len(frames), frames)
  <1> DEFINE n == Len(frames)
             Called(f) == [k \in 0..n |->
                             IF k = 0 THEN i ELSE GetMessage(Version, Values(frames[k]), f[k - 1])]
             w == CHOOSE f : f = Called(f)
  <1>1. Read(i, frames) = w[n]
    BY DEF Read
  <1> HIDE DEF w, n
  <1>2. n \in Nat
    BY DEF n
  <1>3. \E f : f = Called(f)
    <2>0. PICK f : ReadsOn(f, Version, i, n, frames)
      BY <1>2, ReadSteps, Zenon
    <2>1. /\ f = [k \in 0..n |-> f[k]] /\ f[0] = i
          /\ \A k \in 1..n : f[k] = GetMessage(Version, Values(frames[k]), f[k - 1])
      BY <2>0 DEF ReadsOn
    <2>2. ASSUME NEW k \in 0..n
          PROVE  f[k] = IF k = 0 THEN i ELSE GetMessage(Version, Values(frames[k]), f[k - 1])
      <3>1. k = 0 \/ k \in 1..n
        BY <1>2
      <3> QED
        BY <2>1, <3>1
    <2>3. f = Called(f)
      BY <2>1, <2>2
    <2> QED
      BY <2>3
  <1>4. w = Called(w)
    BY <1>3, Zenon DEF w
  <1>5. w[0] = i /\ \A k \in 1..n : w[k] = GetMessage(Version, Values(frames[k]), w[k - 1])
    <2>1. 0 \in 0..n
      BY <1>2
    <2>2. w[0] = i
      BY <1>4, <2>1
    <2>3. ASSUME NEW k \in 1..n PROVE w[k] = GetMessage(Version, Values(frames[k]), w[k - 1])
      <3>1. k \in 0..n /\ k # 0
        BY <1>2
      <3> QED
        BY <1>4, <3>1
    <2> QED
      BY <2>2, <2>3
  <1>6. w = [k \in 0..n |-> w[k]]
    BY <1>4
  <1>7. ReadsOn(w, Version, i, n, frames)
    BY <1>5, <1>6 DEF ReadsOn
  <1> QED
    BY <1>1, <1>7 DEF n

\* Which of the messages d carry the field f.
Said(d, f) == {k \in ToSet(d) : f \in Carried(sent[k])}

\* i is what the messages d, in their order, make of a fresh XpiderInfo.
Knows(i, d) ==
  \A f \in DOMAIN Fresh \ Misread :
    i[f] = IF Said(d, f) = {} THEN Fresh[f] ELSE sent[Max(Said(d, f))].info[f]

\* The messages sent are of known kinds, and info holds what the delivered ones said, in
\* fields of their width.
InfoInv ==
  /\ \A k \in 1..Len(sent) : sent[k].type \in Kinds
  /\ ~Contains(delivered, 0) => Sized(Version, info) /\ Knows(info, delivered)

\* One message more.
LEMMA OneRead ==
  ASSUME NEW d \in Seq(Nat), NEW k \in 1..Len(sent), NEW i, sent \in Seq(Messages),
         sent[k].type \in Kinds, \A j \in 1..Len(d) : d[j] < k,
         Sized(Version, i), Knows(i, d), NEW e, e = Append(d, k),
         NEW g, g = GetMessage(Version, Payload(sent[k]), i)
  PROVE  Sized(Version, g) /\ Knows(g, e)
  <1> DEFINE m == sent[k]
  <1>1. m \in Messages /\ k \in Nat /\ Misread = Unread(Version) /\ IsInfo(m.info)
        /\ IsInfo(Fresh)
    BY InfoAssumption DEF Misread, Unread
  <1>2. Updated(Version, Carried(m), m.info, i, g)
    BY <1>1, MessageRead DEF Kinds
  <1>3. DOMAIN Fresh = DOMAIN i
    BY <1>1 DEF IsInfo, Sized
  <1>4. ToSet(e) = ToSet(d) \cup {k} /\ \A y \in ToSet(d) : y \in Nat /\ y < k
    <2>1. /\ Len(e) = Len(d) + 1 /\ DOMAIN e = 1..(Len(d) + 1) /\ Len(d) \in Nat
          /\ DOMAIN d = 1..Len(d)
          /\ \A j \in 1..Len(d) : e[j] = d[j] /\ d[j] \in Nat
          /\ e[Len(d) + 1] = k
      BY <1>1
    <2>2. \A j \in 1..(Len(d) + 1) : j \in 1..Len(d) \/ j = Len(d) + 1
      BY <2>1
    <2>3. Len(d) + 1 \in 1..(Len(d) + 1) /\ \A j \in 1..Len(d) : j \in 1..(Len(d) + 1)
      BY <2>1
    <2> QED
      BY <2>1, <2>2, <2>3, Zenon DEF ToSet
  <1> HIDE DEF m
  <1>5. ASSUME NEW f \in DOMAIN Fresh \ Misread
        PROVE  g[f] = IF Said(e, f) = {} THEN Fresh[f] ELSE sent[Max(Said(e, f))].info[f]
    <2>1. g[f] = IF f \in Carried(m) THEN m.info[f] ELSE i[f]
      BY <1>1, <1>2, <1>3 DEF Updated
    <2>2. i[f] = IF Said(d, f) = {} THEN Fresh[f] ELSE sent[Max(Said(d, f))].info[f]
      BY DEF Knows
    <2>3. CASE f \in Carried(m)
      <3>1. k \in Said(e, f) /\ \A y \in Said(e, f) : y \in Nat /\ k >= y
        BY <1>1, <1>4, <2>3 DEF Said, m
      <3>2. Max(Said(e, f)) = k
        <4> DEFINE T == Said(e, f)
        <4> HIDE DEF T
        <4>1. k \in T /\ \A y \in T : y \in Nat /\ k >= y
          BY <3>1 DEF T
        <4>2. (CHOOSE y \in T : \A z \in T : y >= z) = k
          <5> DEFINE c == CHOOSE y \in T : \A z \in T : y >= z
          <5>1. \E y \in T : \A z \in T : y >= z
            BY <4>1
          <5>2. c \in T /\ \A z \in T : c >= z
            BY <5>1
          <5> HIDE DEF c
          <5>3. c = k
            BY <1>1, <4>1, <5>2
          <5> QED
            BY <5>3 DEF c
        <4> QED
          BY <4>2 DEF T, Max
      <3> QED
        BY <2>1, <2>3, <3>1, <3>2 DEF m
    <2>4. CASE f \notin Carried(m)
      <3>1. Said(e, f) = Said(d, f)
        BY <1>4, <2>4 DEF Said, m
      <3> QED
        BY <2>1, <2>2, <2>4, <3>1
    <2> QED
      BY <2>3, <2>4
  <1>6. Sized(Version, g)
    <2>1. \A f \in DOMAIN Width \ Unread(Version) :
            f \in DOMAIN i /\ Len(i[f]) = Width[f] /\ Len(m.info[f]) = Width[f]
      BY <1>1 DEF Sized, IsInfo, m
    <2> QED
      BY <1>2, <2>1 DEF Sized, Updated
  <1> QED
    BY <1>5, <1>6 DEF Knows

\* A frame with a number has the bytes of that message.
LEMMA NumberIsPayload ==
  ASSUME NEW frame, Number(frame) # 0
  PROVE  Number(frame) \in 1..Len(sent) /\ Values(frame) = Payload(sent[Number(frame)])
  <1> DEFINE whole == {k \in 1..Len(sent) : MsgsOf(frame) = {k} /\ Values(frame) = Payload(sent[k])}
  <1>1. Number(frame) = IF whole = {} THEN 0 ELSE CHOOSE k \in whole : TRUE
    BY DEF Number
  <1> HIDE DEF whole
  <1>2. Number(frame) \in whole
    BY <1>1
  <1> QED
    BY <1>2 DEF whole

\* The frames of a read, when all are whole messages in their order.
LEMMA FramesRead ==
  ASSUME NEW frames, NEW n \in Nat, n = Len(frames), NEW d \in Seq(Nat), NEW given \in Seq(Nat),
         Len(given) = n, \A a \in 1..n : given[a] = Number(frames[a]) /\ given[a] # 0,
         \A a \in 1..n : \A j \in 1..Len(d) : d[j] < given[a],
         \A a, b \in 1..n : a < b => given[a] < given[b],
         sent \in Seq(Messages), \A k \in 1..Len(sent) : sent[k].type \in Kinds,
         NEW i, Sized(Version, i), Knows(i, d)
  PROVE  Sized(Version, Read(i, frames)) /\ Knows(Read(i, frames), d \o given)
  <1>0. PICK w : Read(i, frames) = w[n] /\ ReadsOn(w, Version, i, n, frames)
    <2>1. Len(frames) \in Nat
      OBVIOUS
    <2>2. \E w : Read(i, frames) = w[Len(frames)] /\ ReadsOn(w, Version, i, Len(frames), frames)
      BY <2>1, ReadIs, Zenon
    <2> QED
      BY <2>2
  <1>1. /\ Read(i, frames) = w[n] /\ w[0] = i
        /\ \A k \in 1..n : w[k] = GetMessage(Version, Values(frames[k]), w[k - 1])
    BY <1>0 DEF ReadsOn
  <1> DEFINE first(k) == d \o [a \in 1..k |-> given[a]]
             Good == [k \in 0..n |-> {x \in {w[k]} : Sized(Version, x) /\ Knows(x, first(k))}]
  <1>2. ASSUME NEW k \in 0..n
        PROVE  /\ first(k) \in Seq(Nat) /\ Len(first(k)) = Len(d) + k
               /\ \A j \in 1..Len(d) : first(k)[j] = d[j]
               /\ \A a \in 1..k : first(k)[Len(d) + a] = given[a]
    <2> DEFINE s == [a \in 1..k |-> given[a]]
    <2>1. k \in Nat /\ \A a \in 1..k : a \in 1..n
      OBVIOUS
    <2>2. s \in Seq(Nat) /\ Len(s) = k /\ \A a \in 1..k : s[a] = given[a]
      BY <2>1
    <2> HIDE DEF s
    <2>3. /\ d \o s \in Seq(Nat) /\ Len(d \o s) = Len(d) + Len(s)
          /\ \A j \in 1..Len(d) : (d \o s)[j] = d[j]
          /\ \A a \in 1..Len(s) : (d \o s)[Len(d) + a] = s[a]
      <3>1. s \in Seq(Nat)
        BY <2>2
      <3>2. d \in Seq(Nat)
        OBVIOUS
      <3> QED
        BY ONLY <3>1, <3>2, Joint
    <2> QED
      BY <2>2, <2>3 DEF s
  <1>3. first(0) = d
    <2>1. [a \in 1..0 |-> given[a]] = <<>>
      OBVIOUS
    <2>2. d \o <<>> = d
      BY ConcatEmptySeq
    <2> QED
      BY <2>1, <2>2
  <1>4. ASSUME NEW k \in 1..n PROVE first(k) = Append(first(k - 1), given[k])
    <2> DEFINE x == first(k - 1)
               y == first(k)
               z == Append(x, given[k])
    <2>0. k \in 0..n /\ k - 1 \in 0..n /\ given[k] \in Nat /\ Len(d) \in Nat
      OBVIOUS
    <2>1. /\ x \in Seq(Nat) /\ Len(x) = Len(d) + (k - 1)
          /\ \A j \in 1..Len(d) : x[j] = d[j]
          /\ \A a \in 1..(k - 1) : x[Len(d) + a] = given[a]
      BY <1>2, <2>0
    <2>2. /\ y \in Seq(Nat) /\ Len(y) = Len(d) + k
          /\ \A j \in 1..Len(d) : y[j] = d[j]
          /\ \A a \in 1..k : y[Len(d) + a] = given[a]
      BY <1>2, <2>0
    <2> HIDE DEF first, x, y
    <2>3. /\ z \in Seq(Nat) /\ Len(z) = Len(x) + 1 /\ z[Len(x) + 1] = given[k]
          /\ \A j \in 1..Len(x) : z[j] = x[j]
      BY <2>0, <2>1
    <2> HIDE DEF z
    <2>4. ASSUME NEW j \in 1..(Len(d) + k) PROVE y[j] = z[j]
      <3>1. CASE j <= Len(d)
        <4>1. j \in 1..Len(d) /\ j \in 1..Len(x)
          BY <2>0, <2>1, <3>1
        <4> QED
          BY <2>1, <2>2, <2>3, <4>1
      <3>2. CASE j = Len(d) + k
        <4>1. k \in 1..k /\ j = Len(x) + 1
          BY <2>0, <2>1, <3>2
        <4> QED
          BY <2>2, <2>3, <3>2, <4>1
      <3>3. CASE j > Len(d) /\ j # Len(d) + k
        <4>1. j - Len(d) \in 1..(k - 1) /\ j - Len(d) \in 1..k /\ j = Len(d) + (j - Len(d))
              /\ j \in 1..Len(x)
          BY <2>0, <2>1, <3>3
        <4>2. /\ x[Len(d) + (j - Len(d))] = given[j - Len(d)]
              /\ y[Len(d) + (j - Len(d))] = given[j - Len(d)]
          BY <2>1, <2>2, <4>1
        <4> QED
          BY <2>3, <4>1, <4>2
      <3> QED
        BY <2>0, <3>1, <3>2, <3>3
    <2>5. Len(y) = Len(z) /\ Len(y) = Len(d) + k /\ Len(y) \in Nat
      BY <2>0, <2>1, <2>2, <2>3
    <2>6. y = z
      <3>1. y = [j \in 1..Len(y) |-> y[j]] /\ z = [j \in 1..Len(z) |-> z[j]]
        BY ONLY <2>2, <2>3
      <3> QED
        BY <2>4, <2>5, <3>1
    <2> QED
      BY <2>6 DEF x, y, z
  <1> HIDE DEF first
  <1>5. w[0] \in Good[0]
    BY <1>1, <1>3
  <1>6. ASSUME NEW k \in 1..n, w[k - 1] \in Good[k - 1] PROVE w[k] \in Good[k]
    <2>1. k \in 0..n /\ k - 1 \in 0..n /\ k \in Nat
      OBVIOUS
    <2>2. Sized(Version, w[k - 1]) /\ Knows(w[k - 1], first(k - 1)) /\ first(k - 1) \in Seq(Nat)
          /\ first(k) = Append(first(k - 1), given[k])
      BY <1>2, <1>4, <1>6, <2>1
    <2>3. given[k] \in 1..Len(sent) /\ w[k] = GetMessage(Version, Payload(sent[given[k]]), w[k - 1])
      BY <1>1, NumberIsPayload
    <2>4. ASSUME NEW j \in 1..Len(first(k - 1)) PROVE first(k - 1)[j] < given[k]
      <3>1. /\ Len(first(k - 1)) = Len(d) + (k - 1) /\ Len(d) \in Nat
            /\ \A a \in 1..Len(d) : first(k - 1)[a] = d[a]
            /\ \A a \in 1..(k - 1) : first(k - 1)[Len(d) + a] = given[a]
        <4>1. Len(d) \in Nat
          OBVIOUS
        <4> DEFINE h == k - 1
        <4>2. h \in 0..n
          BY <2>1
        <4> HIDE DEF h
        <4>3. /\ Len(first(h)) = Len(d) + h
              /\ \A a \in 1..Len(d) : first(h)[a] = d[a]
              /\ \A a \in 1..h : first(h)[Len(d) + a] = given[a]
          BY ONLY <1>2, <4>2
        <4> QED
          BY <4>1, <4>3 DEF h
      <3>2. CASE j <= Len(d)
        <4>1. j \in 1..Len(d)
          BY <2>1, <3>1, <3>2
        <4> QED
          BY <3>1, <4>1
      <3>3. CASE j > Len(d)
        <4>1. /\ j - Len(d) \in 1..(k - 1) /\ j - Len(d) \in 1..n /\ j - Len(d) < k
              /\ j = Len(d) + (j - Len(d))
          BY <2>1, <3>1, <3>3
        <4>2. first(k - 1)[Len(d) + (j - Len(d))] = given[j - Len(d)]
          BY <3>1, <4>1
        <4> QED
          BY <4>1, <4>2
      <3> QED
        BY <3>1, <3>2, <3>3
    <2>5. sent[given[k]].type \in Kinds
      BY <2>3
    <2>6. Sized(Version, w[k]) /\ Knows(w[k], first(k))
      BY <2>2, <2>3, <2>4, <2>5, OneRead, ZenonT(60)
    <2> QED
      BY <2>1, <2>6
  <1>7. w[n] \in Good[n]
    <2> HIDE DEF Good
    <2> QED
      BY <1>5, <1>6, StepsKeep
  <1>8. first(n) = d \o given
    <2>1. given = [a \in 1..n |-> given[a]]
      OBVIOUS
    <2> QED
      BY <2>1 DEF first
  <1>9. n \in 0..n /\ Sized(Version, w[n]) /\ Knows(w[n], first(n))
    BY <1>7
  <1> QED
    BY <1>1, <1>8, <1>9

\* Before the first message nothing is known.
LEMMA InfoInit == LinkInit => InfoInv
  <1> SUFFICES ASSUME LinkInit PROVE InfoInv
    OBVIOUS
  <1>1. sent = <<>> /\ delivered = <<>> /\ info = Fresh /\ IsInfo(Fresh)
    BY InfoAssumption DEF LinkInit
  <1>2. \A k \in 1..Len(sent) : sent[k].type \in Kinds
    BY <1>1
  <1>3. Sized(Version, info)
    BY <1>1 DEF Sized, IsInfo
  <1>4. \A f : Said(delivered, f) = {}
    BY <1>1 DEF Said, ToSet
  <1>5. Knows(info, delivered)
    BY <1>1, <1>4 DEF Knows
  <1> QED
    BY <1>2, <1>3, <1>5 DEF InfoInv

\* What the reader takes of a message does not depend on the state of the link.
LEMMA SameReader ==
  ASSUME reader' = reader
  PROVE  /\ Version' = Version /\ Misread' = Misread /\ \A x : Carried(x)' = Carried(x)
         /\ \A i : Sized(Version, i)' <=> Sized(Version, i)
  <1>1. Version' = Version
    BY DEF Version
  <1> QED
    BY <1>1 DEF Misread, Carried, Sized

\* The messages delivered whole are some that were sent.
LEMMA SaidWasSent ==
  ASSUME LinkInv, ~Contains(delivered, 0), NEW f
  PROVE  /\ \A k \in ToSet(delivered) : k \in 1..Len(sent)
         /\ Said(delivered, f) # {} => Max(Said(delivered, f)) \in 1..Len(sent)
  <1>1. delivered \in Seq(Nat) /\ sent \in Seq(Messages) /\ Len(sent) \in Nat
    BY LenProperties DEF LinkInv, LinkHolds
  <1>2. ASSUME NEW k \in ToSet(delivered) PROVE k \in 1..Len(sent)
    <2>1. PICK j \in DOMAIN delivered : k = delivered[j]
      BY DEF ToSet
    <2>2. k <= Len(sent)
      BY <2>1 DEF LinkInv, NoneUnsent
    <2>3. k # 0 /\ k \in Nat
      BY <1>1, <2>1 DEF Contains
    <2> QED
      BY <1>1, <2>2, <2>3
  <1>3. ASSUME Said(delivered, f) # {} PROVE Max(Said(delivered, f)) \in 1..Len(sent)
    <2> DEFINE T == Said(delivered, f)
               L == Len(sent)
               S == {L - k : k \in T}
    <2>1. T # {} /\ \A k \in T : k \in 1..L
      BY <1>2, <1>3 DEF Said
    <2>2. L \in Nat
      BY <1>1
    <2> HIDE DEF T, L
    <2>3. S \in SUBSET Nat /\ S # {}
      BY <2>1, <2>2
    <2>4. PICK s \in S : \A y \in S : s <= y
      BY <2>3, LeastOfNats
    <2>5. PICK k \in T : s = L - k
      BY <2>4
    <2>6. \A y \in T : k >= y
      <3> TAKE y \in T
      <3>1. L - k <= L - y
        BY <2>4, <2>5
      <3> QED
        BY <2>1, <2>2, <3>1
    <2>7. (CHOOSE y \in T : \A z \in T : y >= z) \in T
      BY <2>6
    <2> QED
      BY <2>1, <2>7 DEF Max, T, L
  <1> QED
    BY <1>2, <1>3

\* A new message is not delivered yet.
LEMMA SendInfo ==
  ASSUME LinkInv, InfoInv, NEW m \in Messages, Send(m)
  PROVE  InfoInv'
  <1>1. /\ sent' = Append(sent, m) /\ UNCHANGED <<delivered, info, reader>>
        /\ m.type \in Kinds
    <2>1. m.type \in TypesOf(sender) \cup {"kGetRegister", "kUpdateRegister", "kRegisterResponse"}
      BY DEF Send
    <2>2. TypesOf(sender) \subseteq DOMAIN Written
      BY DEF TypesOf, ClientTypes
    <2> QED
      BY <2>1, <2>2 DEF Send, readVars, ends, Kinds
  <1>2. sent \in Seq(Messages) /\ Len(sent) \in Nat /\ Len(sent') = Len(sent) + 1
        /\ \A k \in 1..Len(sent) : sent'[k] = sent[k]
    BY <1>1, LenProperties DEF LinkInv, LinkHolds
  <1>3. \A k \in 1..Len(sent') : sent'[k].type \in Kinds
    BY <1>1, <1>2 DEF LinkInv, LinkHolds, InfoInv
  <1>4. ASSUME ~Contains(delivered', 0) PROVE Sized(Version, info)' /\ Knows(info, delivered)'
    <2>1. ~Contains(delivered, 0) /\ Sized(Version, info) /\ Knows(info, delivered)
      BY <1>1, <1>4 DEF InfoInv
    <2>2. /\ Version' = Version /\ Misread' = Misread /\ \A x : Carried(x)' = Carried(x)
      BY <1>1, SameReader
    <2>3. Sized(Version, info)'
      BY <1>1, <2>1, <2>2 DEF Sized
    <2>4. ASSUME NEW f
          PROVE  /\ Said(delivered, f)' = Said(delivered, f)
                 /\ Said(delivered, f) # {}
                      => sent'[Max(Said(delivered, f))] = sent[Max(Said(delivered, f))]
      <3>1. \A k \in ToSet(delivered) : Carried(sent[k])' = Carried(sent[k])
        <4> TAKE k \in ToSet(delivered)
        <4>1. PICK x : x = sent[k]
          OBVIOUS
        <4>2. sent'[k] = x
          BY <1>2, <2>1, <4>1, SaidWasSent
        <4>3. Carried(x)' = Carried(x)
          BY <2>2
        <4> QED
          BY <2>2, <4>1, <4>2, <4>3 DEF Carried
      <3>2. Said(delivered, f)' = Said(delivered, f)
        BY <1>1, <3>1 DEF Said
      <3> QED
        BY <1>2, <2>1, <3>2, SaidWasSent
    <2>5. Knows(info, delivered)'
      BY <1>1, <2>1, <2>2, <2>4, ZenonT(60) DEF Knows
    <2> QED
      BY <2>3, <2>5
  <1> QED
    BY <1>3, <1>4 DEF InfoInv

\* A read leaves in info what its frames carry.
LEMMA ReadInfo ==
  ASSUME LinkInv, LinkInv', InfoInv, NEW n, onReadyRead(n)
  PROVE  InfoInv'
  <1>1. PICK fr : fr = rx'.frames
    OBVIOUS
  <1> DEFINE given == [a \in DOMAIN fr |-> Number(fr[a])]
  <1>2. /\ delivered' = delivered \o given /\ info' = Read(info, fr)
        /\ UNCHANGED <<sent, reader>>
    BY <1>1 DEF onReadyRead, ends
  <1>3. /\ fr \in Seq(Seq(Octet)) /\ Len(fr) \in Nat /\ DOMAIN fr = 1..Len(fr)
        /\ delivered \in Seq(Nat) /\ Len(delivered) \in Nat /\ sent \in Seq(Messages)
    <2>1. rx' \in Receivers /\ delivered \in Seq(Nat) /\ sent \in Seq(Messages)
      BY DEF LinkInv, LinkHolds
    <2>2. fr \in Seq(Seq(Octet))
      BY <1>1, <2>1 DEF Receivers
    <2> HIDE DEF Octet
    <2> QED
      BY <2>1, <2>2, LenProperties
  <1>4. /\ given \in Seq(Nat) /\ Len(given) = Len(fr)
        /\ \A a \in 1..Len(fr) : given[a] = Number(fr[a])
    <2>1. \A a \in 1..Len(fr) : Number(fr[a]) \in 0..Len(sent)
      BY <1>3, NumberIsWhole
    <2>2. Len(sent) \in Nat
      BY <1>3, LenProperties
    <2>3. \A a \in 1..Len(fr) : Number(fr[a]) \in Nat
      BY <2>1, <2>2
    <2> QED
      BY <1>3, <2>3
  <1> HIDE DEF given
  <1>5. /\ Len(delivered') = Len(delivered) + Len(fr) /\ DOMAIN delivered' = 1..Len(delivered')
        /\ \A j \in 1..Len(delivered) : delivered'[j] = delivered[j]
        /\ \A a \in 1..Len(fr) : delivered'[Len(delivered) + a] = given[a]
    <2>1. PICK d, e : d = delivered /\ e = delivered'
      OBVIOUS
    <2>2. d \in Seq(Nat) /\ given \in Seq(Nat) /\ e = d \o given /\ Len(given) = Len(fr)
      BY <1>2, <1>3, <1>4, <2>1
    <2>3. /\ Len(e) = Len(d) + Len(given) /\ e \in Seq(Nat)
          /\ \A q \in 1..Len(d) : e[q] = d[q]
          /\ \A t \in 1..Len(given) : e[Len(d) + t] = given[t]
      BY ONLY <2>2, Joint
    <2>4. DOMAIN e = 1..Len(e)
      BY <2>3
    <2> QED
      BY <2>1, <2>2, <2>3, <2>4
  <1>6. ASSUME ~Contains(delivered', 0)
        PROVE  Sized(Version, info)' /\ Knows(info, delivered)'
    <2>1. /\ \A j \in 1..Len(delivered') : delivered'[j] # 0
          /\ \A j \in 1..Len(delivered) : j \in 1..Len(delivered')
          /\ \A a \in 1..Len(fr) : Len(delivered) + a \in 1..Len(delivered')
      BY <1>3, <1>5, <1>6 DEF Contains
    <2>2. ~Contains(delivered, 0) /\ \A a \in 1..Len(fr) : given[a] # 0
      BY <1>5, <2>1 DEF Contains
    <2>3. Sized(Version, info) /\ Knows(info, delivered)
          /\ \A k \in 1..Len(sent) : sent[k].type \in Kinds
      BY <2>2 DEF InfoInv
    <2>4. \A j, k \in 1..Len(delivered') : j < k => delivered'[j] < delivered'[k]
      BY <1>5, <2>1 DEF LinkInv, OnceInOrder
    <2>5. \A a \in 1..Len(fr) : \A j \in 1..Len(delivered) : delivered[j] < given[a]
      <3> TAKE a \in 1..Len(fr)
      <3> TAKE j \in 1..Len(delivered)
      <3>1. j < Len(delivered) + a
        BY <1>3
      <3> QED
        BY <1>5, <2>1, <2>4, <3>1
    <2>6. \A a, b \in 1..Len(fr) : a < b => given[a] < given[b]
      <3> TAKE a, b \in 1..Len(fr)
      <3> HAVE a < b
      <3>1. Len(delivered) + a < Len(delivered) + b
        BY <1>3
      <3> QED
        BY <1>5, <2>1, <2>4, <3>1
    <2>7. Sized(Version, Read(info, fr)) /\ Knows(Read(info, fr), delivered \o given)
      BY <1>3, <1>4, <2>2, <2>3, <2>5, <2>6, FramesRead
    <2>8. PICK i, d : i = Read(info, fr) /\ d = delivered \o given
      OBVIOUS
    <2>9. Sized(Version, i) /\ Knows(i, d) /\ info' = i /\ delivered' = d
      BY <1>2, <2>7, <2>8
    <2>10. Version' = Version /\ Misread' = Misread /\ \A x : Carried(x)' = Carried(x)
      BY <1>2, SameReader
    <2>11. Sized(Version, info)'
      BY <2>9, <2>10 DEF Sized
    <2>12. \A f : Said(delivered, f)' = Said(d, f)
      <3>1. \A k : Carried(sent[k])' = Carried(sent[k])
        <4> TAKE k
        <4>1. sent'[k] = sent[k] /\ Version' = Version
          BY <1>2, <2>10
        <4> QED
          BY <4>1 DEF Carried
      <3> QED
        BY <2>9, <3>1 DEF Said
    <2>13. Knows(info, delivered)'
      BY <1>2, <2>9, <2>10, <2>12 DEF Knows
    <2> QED
      BY <2>11, <2>13
  <1>7. \A k \in 1..Len(sent') : sent'[k].type \in Kinds
    BY <1>2 DEF InfoInv
  <1> QED
    BY <1>6, <1>7 DEF InfoInv

\* Every step keeps info what the messages delivered make of it.
LEMMA InfoStep == LinkInv /\ LinkInv' /\ InfoInv /\ [LinkNext]_linkVars => InfoInv'
  <1> SUFFICES ASSUME LinkInv, LinkInv', InfoInv, [LinkNext]_linkVars PROVE InfoInv'
    OBVIOUS
  <1>1. CASE UNCHANGED <<sent, delivered, info, reader>>
    <2>1. Version' = Version /\ Misread' = Misread /\ \A x : Carried(x)' = Carried(x)
      BY <1>1, SameReader
    <2>2. \A k : Carried(sent[k])' = Carried(sent[k])
      <3> TAKE k
      <3>1. sent'[k] = sent[k] /\ Version' = Version
        BY <1>1, <2>1
      <3> QED
        BY <3>1 DEF Carried
    <2>3. \A f : Said(delivered, f)' = Said(delivered, f)
      BY <1>1, <2>2 DEF Said
    <2>4. Knows(info, delivered) => Knows(info, delivered)'
      BY <1>1, <2>1, <2>3 DEF Knows
    <2>5. Sized(Version, info) => Sized(Version, info)'
      BY <1>1, <2>1 DEF Sized
    <2> QED
      BY <1>1, <2>4, <2>5 DEF InfoInv
  <1>2. CASE onRetryTimeout \/ ConnectFails \/ onConnected \/ onDisconnected
    BY <1>1, <1>2 DEF onRetryTimeout, ConnectFails, onConnected, onDisconnected, readVars, ends
  <1>3. CASE \E m \in Messages : Send(m)
    BY <1>3, SendInfo
  <1>4. CASE \E n \in ReadSizes \cup {Len(wire)} : onReadyRead(n)
    BY <1>4, ReadInfo
  <1>5. CASE UNCHANGED linkVars
    BY <1>1, <1>5 DEF linkVars, readVars, ends
  <1> QED
    BY <1>2, <1>3, <1>4, <1>5 DEF LinkNext

\* Whatever the order of the kinds, the versions of the two codecs, the cuts of the
\* stream and the connections lost, the reader knows of each field what the last
\* message that carries it said, as long as no frame was mixed of two messages.
THEOREM ReadIsAsSent == LinkSpec => []StoredAsSent
  <1>1. LinkInit => LinkInv /\ InfoInv
    BY LinkInvInit, InfoInit
  <1>2. LinkInv /\ InfoInv /\ [LinkNext]_linkVars => (LinkInv /\ InfoInv)'
    BY LinkInvStep, InfoStep
  <1>3. InfoInv => StoredAsSent
    BY DEF InfoInv, StoredAsSent, Knows, Said
  <1> QED
    BY <1>1, <1>2, <1>3, PTL DEF LinkSpec
=============================================================================
