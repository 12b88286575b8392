---------------------------- MODULE XpiderSocket ----------------------------
(***************************************************************************)
(* The robots' threads of the older program (HelloXpiderCenter:            *)
(* xpidersocket.cpp, xpiderpool.cpp).  Each thread runs a loop over a      *)
(* blocking socket: without a connection it retries now and then, else it  *)
(* waits in the socket for at most RX_TIMEOUT, writes out its tx_queue_,   *)
(* clears it and looks at its clock.  The queue is appended to by          *)
(* the planner's thread without a lock, and the times of the last attempt  *)
(* and of the last heartbeat are static variables that all threads share,  *)
(* while each thread compares them with a clock of its own, started when   *)
(* it was.                                                                 *)
(*                                                                         *)
(* A shared time is kept as its distance from the clock of the thread that *)
(* started first; another thread's clock is behind it by its lag.  Messages *)
(* are numbered per robot.  What QTcpSocket does is as in                  *)
(* XpiderSocketThread, but happens only while the thread waits in it.      *)
(* Appending is atomic, which the QByteArrayList does not ensure, and so   *)
(* is a look at a shared time with the store that follows.                 *)
(***************************************************************************)
EXTENDS Integers, Sequences, SequencesExt, FiniteSetsExt

CONSTANTS
  host_size,         \* robots: 5 in the code
  RETRY_INTERVAL, HB_INTERVAL, CONNECT_TIMEOUT, RX_TIMEOUT,    \* in ticks
  MaxLag,            \* bound: the pool's threads have all started within this
  MaxAppended        \* bound, by robot: messages

ASSUME SocketAssumption ==
  /\ host_size \in Nat \ {0} /\ MaxLag \in Nat /\ MaxAppended \in [0..(host_size - 1) -> Nat]
  /\ RETRY_INTERVAL \in Nat \ {0} /\ HB_INTERVAL \in Nat \ {0}
  /\ CONNECT_TIMEOUT \in Nat \ {0} /\ RX_TIMEOUT \in Nat \ {0}

\* StartConnection creates the robots one by one; an id is the size of the map.
Robot == 0..(host_size - 1)

VARIABLES
  g_xpider_map_,     \* the ids in it
  thread,            \* where run() is
  is_running_,
  lag,               \* how far a thread's clock is behind the first one's
  age,               \* the first one's clock, as long as a thread has yet to start
  retry_gap, hb_gap, \* the first one's clock minus retry_last_msec, hb_last_msec
  begun,             \* ticks since the thread began to wait in its socket
  state, wbuf,       \* QTcpSocket
  reachable, alive,  \* the robot is in range; it still knows the connection
  tx_queue_,
  appended,          \* history: messages appended
  received           \* history: messages the robot has read

clockVars == <<lag, age, retry_gap, hb_gap, begun>>
socketVars == <<state, wbuf, alive, received>>
queueVars == <<tx_queue_, appended>>
poolVars == <<g_xpider_map_, is_running_>>
vars == <<poolVars, thread, clockVars, socketVars, reachable, queueVars>>

HeartBeat == 0

\* StartConnection: the threads are on their way.  is_running_ is not initialised.
Init ==
  /\ g_xpider_map_ = Robot
  /\ thread = [r \in Robot |-> "starting"] /\ is_running_ \in [Robot -> BOOLEAN]
  /\ lag = [r \in Robot |-> 0] /\ age = 0
  /\ retry_gap = 0 /\ hb_gap = 0 /\ begun = [r \in Robot |-> 0]
  /\ state = [r \in Robot |-> "Unconnected"] /\ wbuf = [r \in Robot |-> <<>>]
  /\ reachable \in [Robot -> BOOLEAN] /\ alive = [r \in Robot |-> FALSE]
  /\ tx_queue_ = [r \in Robot |-> <<>>]
  /\ appended = [r \in Robot |-> 0] /\ received = [r \in Robot |-> <<>>]

Starting == {r \in Robot : thread[r] = "starting"}
Waiting == {r \in Robot : thread[r] \in {"retrying", "waiting"}}

\* The longest lag there is or may yet be.
Longest == IF Starting = {} THEN Max({lag[q] : q \in Robot}) ELSE MaxLag

-----------------------------------------------------------------------------
(* The thread of robot r.                                                  *)

\* run() begins: Reset and is_running_ = true, whatever became of it meanwhile.
Enter(r) ==
  /\ thread[r] = "starting"
  /\ thread' = [thread EXCEPT ![r] = "top"]
  /\ is_running_' = [is_running_ EXCEPT ![r] = TRUE]
  /\ tx_queue_' = [tx_queue_ EXCEPT ![r] = <<>>]
  /\ lag' = [lag EXCEPT ![r] = age]
  /\ age' = IF Starting = {r} THEN 0 ELSE age
  /\ UNCHANGED <<g_xpider_map_, retry_gap, hb_gap, begun, socketVars, reachable, appended>>

Looping(r) == thread[r] = "top" /\ is_running_[r]

\* From the end of a turn into the wait of the next one, if there is a connection;
\* when the loop is over the thread disconnects, which sends what is buffered first.
AfterTurn(r, connection) ==
  CASE ~is_running_[r] -> "leaving"
    [] is_running_[r] /\ connection # "Unconnected" -> "waiting"
    [] is_running_[r] /\ connection = "Unconnected" -> "top"

\* Nothing of an earlier attempt is left when this is due: the thread is the one
\* that stores the time of the attempt, but any other thread's attempt counts.
RetryDue(r) == retry_gap - lag[r] >= RETRY_INTERVAL

\* ConnectionRetry: the time is the one at which it was called.
ConnectionRetry(r) ==
  /\ Looping(r) /\ state[r] = "Unconnected" /\ RetryDue(r)
  /\ thread' = [thread EXCEPT ![r] = "retrying"]
  /\ state' = [state EXCEPT ![r] = "Connecting"]
  /\ begun' = [begun EXCEPT ![r] = 0]
  /\ UNCHANGED <<poolVars, lag, age, retry_gap, hb_gap, wbuf, alive, received,
                 reachable, queueVars>>

\* waitForConnected returns when the robot answers, when it is found out of reach
\* or when the attempt has taken CONNECT_TIMEOUT; then that time is stored.
EndRetry(r) ==
  /\ thread[r] = "retrying"
  /\ \/ reachable[r] /\ state' = [state EXCEPT ![r] = "Connected"]
                     /\ alive' = [alive EXCEPT ![r] = TRUE]
     \/ (~reachable[r] \/ begun[r] = CONNECT_TIMEOUT)
        /\ state' = [state EXCEPT ![r] = "Unconnected"] /\ UNCHANGED alive
  /\ thread' = [thread EXCEPT ![r] = AfterTurn(r, state'[r])]
  /\ retry_gap' = Min({begun[r] + lag[r], RETRY_INTERVAL + Longest})
  /\ begun' = [begun EXCEPT ![r] = 0]
  /\ UNCHANGED <<poolVars, lag, age, hb_gap, wbuf, received, reachable, queueVars>>

\* Mutant of SendQueue: only the oldest message is written before the clear().
SendQueue_One(r) ==
  /\ thread[r] = "waiting" /\ tx_queue_[r] # <<>>
  /\ wbuf' = [wbuf EXCEPT ![r] =
                IF state[r] = "Connected" THEN Append(@, Head(tx_queue_[r])) ELSE @]
  /\ thread' = [thread EXCEPT ![r] = "clearing"] /\ begun' = [begun EXCEPT ![r] = 0]
  /\ UNCHANGED <<poolVars, lag, age, retry_gap, hb_gap, state, alive, received,
                 reachable, queueVars>>

\* The wait is over: something has come, the connection has been found dead, or
\* RX_TIMEOUT has passed.  Every queued message is encoded and written, by direct
\* calls; a socket that is no longer connected takes none of them.
SendQueue(r) ==
  /\ thread[r] = "waiting" /\ tx_queue_[r] # <<>>
  /\ wbuf' = [wbuf EXCEPT ![r] = IF state[r] = "Connected" THEN @ \o tx_queue_[r] ELSE @]
  /\ thread' = [thread EXCEPT ![r] = "clearing"] /\ begun' = [begun EXCEPT ![r] = 0]
  /\ UNCHANGED <<poolVars, lag, age, retry_gap, hb_gap, state, alive, received,
                 reachable, queueVars>>

BeatDue(r) == hb_gap - lag[r] >= HB_INTERVAL

\* ConnectionTxHeartBeat: in the buffer one heartbeat stands for any number in a
\* row.  The time is stored even if the socket takes none.
Beat(r) ==
  IF BeatDue(r)
    THEN /\ wbuf' = [wbuf EXCEPT ![r] =
                       IF state[r] = "Connected" /\ (@ = <<>> \/ Last(@) # HeartBeat)
                         THEN Append(@, HeartBeat) ELSE @]
         /\ hb_gap' = lag[r]
    ELSE UNCHANGED <<wbuf, hb_gap>>

\* Mutant of ClearQueue: only the oldest message is taken out.
ClearQueue_First(r) ==
  /\ thread[r] = "clearing"
  /\ tx_queue_' = [tx_queue_ EXCEPT ![r] = Tail(@)]
  /\ thread' = [thread EXCEPT ![r] = AfterTurn(r, state[r])]
  /\ Beat(r)
  /\ UNCHANGED <<poolVars, lag, age, retry_gap, begun, state, alive, received,
                 reachable, appended>>

\* tx_queue_.clear(), what was appended since the loop ended being lost, and
\* ConnectionTxHeartBeat, the end of the turn.
ClearQueue(r) ==
  /\ thread[r] = "clearing"
  /\ tx_queue_' = [tx_queue_ EXCEPT ![r] = <<>>]
  /\ thread' = [thread EXCEPT ![r] = AfterTurn(r, state[r])]
  /\ Beat(r)
  /\ UNCHANGED <<poolVars, lag, age, retry_gap, begun, state, alive, received,
                 reachable, appended>>


\* The wait is over as above, and the queue is empty.
ConnectionTxHeartBeat(r) ==
  /\ thread[r] = "waiting" /\ tx_queue_[r] = <<>>
  /\ Beat(r)
  /\ thread' = [thread EXCEPT ![r] = AfterTurn(r, state[r])]
  /\ begun' = [begun EXCEPT ![r] = 0]
  /\ UNCHANGED <<poolVars, lag, age, retry_gap, state, alive, received, reachable, queueVars>>

\* So does the loop that has no connection.
DisconnectFromHost(r) ==
  /\ thread[r] = "top" /\ ~is_running_[r]
  /\ thread' = [thread EXCEPT ![r] = "leaving"]
  /\ UNCHANGED <<poolVars, clockVars, socketVars, reachable, queueVars>>

\* waitForDisconnected is over.  Dispose; the pool deletes the object.
Leave(r) ==
  /\ thread[r] = "leaving" /\ ~(reachable[r] /\ alive[r] /\ wbuf[r] # <<>>)
  /\ thread' = [thread EXCEPT ![r] = "gone"]
  /\ g_xpider_map_' = g_xpider_map_ \ {r}
  /\ state' = [state EXCEPT ![r] = "Unconnected"] /\ wbuf' = [wbuf EXCEPT ![r] = <<>>]
  /\ alive' = [alive EXCEPT ![r] = FALSE]
  /\ tx_queue_' = [tx_queue_ EXCEPT ![r] = <<>>]
  /\ UNCHANGED <<is_running_, clockVars, received, reachable, appended>>

-----------------------------------------------------------------------------
(* The socket of robot r, while its thread waits in it, once a turn and at  *)
(* the end.                                                                *)

\* A write shows that the connection is dead.  The turn goes on.
Disconnected(r) ==
  /\ thread[r] = "waiting" /\ state[r] = "Connected" /\ wbuf[r] # <<>>
  /\ ~(reachable[r] /\ alive[r])
  /\ state' = [state EXCEPT ![r] = "Unconnected"] /\ wbuf' = [wbuf EXCEPT ![r] = <<>>]
  /\ alive' = [alive EXCEPT ![r] = FALSE]
  /\ UNCHANGED <<poolVars, thread, clockVars, received, reachable, queueVars>>

Flush(r) ==
  /\ thread[r] \in {"waiting", "leaving"} /\ state[r] = "Connected"
  /\ alive[r] /\ reachable[r] /\ wbuf[r] # <<>>
  /\ received' = [received EXCEPT ![r] = IF Head(wbuf[r]) = HeartBeat THEN @
                                          ELSE Append(@, Head(wbuf[r]))]
  /\ wbuf' = [wbuf EXCEPT ![r] = Tail(@)]
  /\ UNCHANGED <<poolVars, thread, clockVars, state, alive, reachable, queueVars>>

-----------------------------------------------------------------------------
(* Other threads and the robots.                                           *)

\* onXpiderPlannerUpdated: Search and AppendTxMessage.
AppendTxMessage(r) ==
  /\ r \in g_xpider_map_ /\ appended[r] < MaxAppended[r]
  /\ appended' = [appended EXCEPT ![r] = @ + 1]
  /\ tx_queue_' = [tx_queue_ EXCEPT ![r] = Append(@, appended[r] + 1)]
  /\ UNCHANGED <<poolVars, thread, clockVars, socketVars, reachable>>

\* StopConnection, at the end of the program: DisposeAll, and a clear() of the
\* pool that finds nothing, each robot having got a thread at once.  The bound: by
\* then all messages have been appended, nothing being appended after it.
StopConnection ==
  /\ g_xpider_map_ # {} /\ appended = MaxAppended
  /\ is_running_' = [r \in Robot |-> r \notin g_xpider_map_ /\ is_running_[r]]
  /\ g_xpider_map_' = {}
  /\ UNCHANGED <<thread, clockVars, socketVars, reachable, queueVars>>

\* Robots come and go, as long as a loop goes on.
Lose(r) ==
  /\ reachable[r] /\ (g_xpider_map_ # {} \/ is_running_[r])
  /\ reachable' = [reachable EXCEPT ![r] = FALSE]
  /\ alive' \in {alive, [alive EXCEPT ![r] = FALSE]}
  /\ UNCHANGED <<poolVars, thread, clockVars, state, wbuf, received, queueVars>>

Return(r) ==
  /\ ~reachable[r] /\ (g_xpider_map_ # {} \/ is_running_[r])
  /\ reachable' = [reachable EXCEPT ![r] = TRUE]
  /\ UNCHANGED <<poolVars, thread, clockVars, socketVars, queueVars>>

\* Without its waits a turn takes less than a tick, and so does what waits for a
\* robot that is there.
Busy(r) ==
  \/ thread[r] = "clearing"
  \/ thread[r] = "retrying" /\ (reachable[r] \/ begun[r] = CONNECT_TIMEOUT)
  \/ thread[r] = "top" /\ ~is_running_[r]
  \/ Looping(r) /\ state[r] = "Unconnected" /\ RetryDue(r)
  \/ thread[r] = "waiting" /\ (state[r] = "Unconnected" \/ begun[r] = RX_TIMEOUT)
  \/ reachable[r] /\ alive[r] /\ wbuf[r] # <<>>

\* A tick of every clock, as long as a loop goes on.  The shared times matter no longer once
\* they are older than any interval.
Tick ==
  /\ \E r \in Robot : thread[r] # "starting" /\ is_running_[r]
  /\ Starting # {} => age < MaxLag
  /\ \A r \in Robot : ~Busy(r)
  /\ age' = IF Starting = {} THEN age ELSE age + 1
  /\ retry_gap' = Min({retry_gap + 1, RETRY_INTERVAL + Longest})
  /\ hb_gap' = Min({hb_gap + 1, HB_INTERVAL + Longest})
  /\ begun' = [r \in Robot |-> IF r \in Waiting THEN begun[r] + 1 ELSE begun[r]]
  /\ UNCHANGED <<poolVars, thread, lag, socketVars, reachable, queueVars>>

Run(r) ==
  \/ Enter(r) \/ ConnectionRetry(r) \/ EndRetry(r) \/ SendQueue(r) \/ ClearQueue(r)
  \/ ConnectionTxHeartBeat(r) \/ DisconnectFromHost(r) \/ Leave(r)

Network(r) == Disconnected(r) \/ Flush(r)

Next ==
  \/ Tick \/ StopConnection
  \/ \E r \in Robot : Run(r) \/ Network(r) \/ AppendTxMessage(r) \/ Lose(r) \/ Return(r)

\* Threads, sockets and clocks go on.  A connected loop looks at its clock once a
\* turn and may miss every span in which its heartbeat is due.
Fairness ==
  WF_vars(Tick) /\ \A r \in Robot : WF_vars(Run(r)) /\ WF_vars(Network(r))

Spec == Init /\ [][Next]_vars
FairSpec == Spec /\ Fairness

-----------------------------------------------------------------------------
(* What the threads are for.                                               *)

Fifo(r) == INSTANCE LossyFifo
             WITH MaxSent <- MaxAppended[r], count <- appended[r], delivered <- received[r]

\* What the planner appends for a robot while the robot's thread writes out and
\* clears the queue may be lost, but the robot acts on each message at most once
\* and in the order of the decisions, across lost connections and stale queues.
ImplementsLossyFifo ==
  /\ \A r \in Robot : Fifo(r)!Init
  /\ [][\A r \in Robot : [Fifo(r)!Next]_<<appended[r], received[r]>>]_vars

Healthy(r) == is_running_[r] /\ state[r] = "Connected" /\ alive[r] /\ reachable[r]


\* A message in the queue when the thread has not just written it out reaches the
\* robot unless the connection is lost or the program stops.
AppendedIsDelivered ==
  \A r \in Robot : \A n \in 1..MaxAppended[r] :
    (/\ n \in ToSet(tx_queue_[r]) /\ thread[r] # "clearing"
     /\ Healthy(r))
    ~> (n \in ToSet(received[r]) \/ ~Healthy(r))
=============================================================================
