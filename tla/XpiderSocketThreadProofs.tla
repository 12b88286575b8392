----------------------- MODULE XpiderSocketThreadProofs -----------------------
(***************************************************************************)
(* That the link to a robot implements LossyFifo, for any number of        *)
(* messages, any length of the queues and any history of reconnections,    *)
(* with the command thread among those that post.                          *)
(*                                                                         *)
(* On its way a message passes three sequences: the events, the write      *)
(* buffer and what the robot has received.  Each is ascending as far as it *)
(* holds messages, and each message of an earlier stage is younger than    *)
(* all that is in a later one.  Retry, heartbeats and colours, all of them *)
(* numbers below those of messages, may stand anywhere.                    *)
(*                                                                         *)
(* And that the command thread executes the lines of the texts users enter *)
(* in order, whatever texts there are and however they overlap: within a   *)
(* text the offset only grows, and a line is executed from its first       *)
(* character only, so that the lines executed end at or before the offset. *)
(***************************************************************************)
EXTENDS CommandChain, NaturalsInduction, WellFoundedInduction, TLAPS

Ascending(s) == \A i, j \in 1..Len(s) : i < j /\ s[j] > 0 => s[i] < s[j]
Precedes(s, t) == \A i \in 1..Len(s), j \in 1..Len(t) : t[j] > 0 => s[i] < t[j]
UpTo(s, n) == \A i \in 1..Len(s) : s[i] <= n

Typed ==
  /\ events \in Seq(Int) /\ wbuf \in Seq(Int) /\ received \in Seq(Int)
  /\ posted \in 0..MaxPosted

InOrder ==
  /\ Ascending(events) /\ Ascending(wbuf) /\ Ascending(received)
  /\ Precedes(wbuf, events) /\ Precedes(received, events) /\ Precedes(received, wbuf)
  /\ UpTo(events, posted) /\ UpTo(wbuf, posted) /\ UpTo(received, posted)

Inv == Typed /\ InOrder

-----------------------------------------------------------------------------
(* What the queues keep when something is taken out of them or put in.     *)

\* An item that may stand before those of t, and one that may stand behind those of s.
Older(x, t) == \A j \in 1..Len(t) : t[j] > 0 => x < t[j]
Younger(x, s) == x > 0 => \A i \in 1..Len(s) : s[i] < x

\* What is left of a queue keeps its place among the others.
LEMMA TailKeepsOrder ==
  ASSUME NEW s \in Seq(Int), s # <<>>
  PROVE  /\ Tail(s) \in Seq(Int)
         /\ Ascending(s) => Ascending(Tail(s))
         /\ \A t \in Seq(Int) : Precedes(s, t) => Precedes(Tail(s), t)
         /\ \A t \in Seq(Int) : Precedes(t, s) => Precedes(t, Tail(s))
         /\ \A n \in Int : UpTo(s, n) => UpTo(Tail(s), n)
  <1>1. /\ Tail(s) \in Seq(Int) /\ Len(Tail(s)) = Len(s) - 1
        /\ \A i \in 1..Len(Tail(s)) : Tail(s)[i] = s[i + 1] /\ i + 1 \in 1..Len(s)
    OBVIOUS
  <1> QED
    BY <1>1 DEF Ascending, Precedes, UpTo

\* What is at the head of a queue is younger than all that precedes the queue, and
\* older than what comes behind it.
LEMMA HeadIsBetween ==
  ASSUME NEW s \in Seq(Int), s # <<>>
  PROVE  /\ Head(s) \in Int
         /\ \A t \in Seq(Int) : Precedes(t, s) => Younger(Head(s), t)
         /\ \A t \in Seq(Int) : Precedes(s, t) => Older(Head(s), t)
         /\ Ascending(s) => Older(Head(s), Tail(s))
         /\ \A n \in Int : UpTo(s, n) => Head(s) <= n
  <1>1. /\ 1 \in 1..Len(s) /\ Head(s) = s[1] /\ Len(Tail(s)) = Len(s) - 1
        /\ \A i \in 1..Len(Tail(s)) : Tail(s)[i] = s[i + 1] /\ i + 1 \in 1..Len(s) /\ 1 < i + 1
    OBVIOUS
  <1> QED
    BY <1>1 DEF Ascending, Precedes, UpTo, Older, Younger

\* An item may be appended to a queue if it is younger than what is in it and before
\* it and older than what is behind.
LEMMA AppendKeepsOrder ==
  ASSUME NEW s \in Seq(Int), NEW x \in Int
  PROVE  /\ Append(s, x) \in Seq(Int)
         /\ Ascending(s) /\ Younger(x, s) => Ascending(Append(s, x))
         /\ \A t \in Seq(Int) : Precedes(t, s) /\ Younger(x, t) => Precedes(t, Append(s, x))
         /\ \A t \in Seq(Int) : Precedes(s, t) /\ Older(x, t) => Precedes(Append(s, x), t)
         /\ \A n \in Int : UpTo(s, n) /\ x <= n => UpTo(Append(s, x), n)
  <1>1. /\ Append(s, x) \in Seq(Int) /\ Len(Append(s, x)) = Len(s) + 1
        /\ \A i \in 1..(Len(s) + 1) : Append(s, x)[i] = IF i = Len(s) + 1 THEN x ELSE s[i]
        /\ \A i \in 1..(Len(s) + 1) : i = Len(s) + 1 \/ i \in 1..Len(s)
        /\ \A i \in 1..Len(s) : ~(Len(s) + 1 < i)
    OBVIOUS
  <1> QED
    BY <1>1 DEF Ascending, Precedes, UpTo, Older, Younger

\* What is no message may stand anywhere.
LEMMA NoMessageAnywhere ==
  ASSUME NEW x \in Int, x <= 0
  PROVE  \A s \in Seq(Int) : Younger(x, s) /\ Older(x, s)
  BY DEF Younger, Older

\* Neither may an empty queue disturb any.
LEMMA EmptyInOrder ==
  /\ <<>> \in Seq(Int) /\ Ascending(<<>>)
  /\ \A s : Precedes(<<>>, s) /\ Precedes(s, <<>>)
  /\ \A n : UpTo(<<>>, n)
  BY DEF Ascending, Precedes, UpTo

-----------------------------------------------------------------------------

LEMMA InitInv == Init => Inv
  BY EmptyInOrder, LinkAssumption DEF Init, Inv, Typed, InOrder

\* write(): in its place, if it is written at all.
LEMMA WriteKeepsInv ==
  ASSUME Inv, NEW x \in Int, Write(x), x <= posted,
         Younger(x, wbuf), Younger(x, received), NEW rest \in Seq(Int),
         Precedes(wbuf, rest), Older(x, rest)
  PROVE  /\ wbuf' \in Seq(Int) /\ Ascending(wbuf') /\ UpTo(wbuf', posted)
         /\ Precedes(wbuf', rest) /\ Precedes(received, wbuf')
  <1>1. CASE state = "Unconnected"
    BY <1>1 DEF Inv, Typed, InOrder, Write
  <1>2. CASE state # "Unconnected"
    <2>1. wbuf' = Append(wbuf, x) /\ posted \in Int
      BY <1>2 DEF Inv, Typed, Write
    <2> QED
      BY <2>1, AppendKeepsOrder DEF Inv, Typed, InOrder
  <1> QED
    BY <1>1, <1>2

\* The event thread takes an event and writes at most one item for it.
LEMMA ServeKeepsInv ==
  ASSUME Inv, events # <<>>, events' = Tail(events), UNCHANGED <<posted, received>>,
         \/ UNCHANGED wbuf
         \/ Write(HeartBeat)
         \/ Write(Head(events))
  PROVE  Inv'
  <1>1. /\ events' \in Seq(Int) /\ Ascending(events') /\ UpTo(events', posted)
        /\ Precedes(wbuf, events') /\ Precedes(received, events')
        /\ posted \in Int
    BY TailKeepsOrder DEF Inv, Typed, InOrder
  <1>2. ASSUME NEW x \in Int, Write(x), x <= posted, Younger(x, wbuf), Younger(x, received),
               Older(x, events')
        PROVE  Inv'
    BY <1>1, <1>2, WriteKeepsInv DEF Inv, Typed, InOrder
  <1>3. CASE UNCHANGED wbuf
    BY <1>1, <1>3 DEF Inv, Typed, InOrder
  <1>4. CASE Write(HeartBeat)
    <2>1. HeartBeat \in Int /\ HeartBeat <= 0 /\ HeartBeat <= posted
      BY DEF Inv, Typed, HeartBeat
    <2> QED
      BY <1>1, <1>2, <1>4, <2>1, NoMessageAnywhere DEF Inv, Typed
  <1>5. CASE Write(Head(events))
    <2>1. /\ Head(events) \in Int /\ Head(events) <= posted
          /\ Younger(Head(events), wbuf) /\ Younger(Head(events), received)
          /\ Older(Head(events), events')
      BY <1>1, HeadIsBetween DEF Inv, Typed, InOrder
    <2> QED
      BY <1>2, <1>5, <2>1
  <1> QED
    BY <1>3, <1>4, <1>5

LEMMA SendMessageKeepsInv ==
  ASSUME Inv, SendMessage
  PROVE  Inv'
  <1>1. /\ posted \in 0..MaxPosted /\ posted + 1 \in 0..MaxPosted /\ posted + 1 \in Int
        /\ posted' = posted + 1 /\ events' = Append(events, posted + 1)
        /\ UNCHANGED <<wbuf, received>>
    BY LinkAssumption DEF Inv, Typed, SendMessage
  <1>2. \A s \in Seq(Int) : UpTo(s, posted) => UpTo(s, posted + 1) /\ Younger(posted + 1, s)
    BY <1>1 DEF UpTo, Younger
  <1> QED
    BY <1>1, <1>2, AppendKeepsOrder DEF Inv, Typed, InOrder

LEMMA TimeoutRetryKeepsInv ==
  ASSUME Inv, TimeoutRetry
  PROVE  Inv'
  <1>1. Retry \in Int /\ Retry <= 0 /\ Retry <= posted /\ posted \in Int
    BY DEF Inv, Typed, Retry
  <1> QED
    BY <1>1, AppendKeepsOrder, NoMessageAnywhere DEF Inv, Typed, InOrder, TimeoutRetry

LEMMA OnConnectedKeepsInv ==
  ASSUME Inv, onConnected
  PROVE  Inv'
  <1>1. Led \in Int /\ Led <= 0 /\ Led <= posted /\ posted \in Int
    BY DEF Inv, Typed, Led
  <1> QED
    BY <1>1, AppendKeepsOrder, NoMessageAnywhere DEF Inv, Typed, InOrder, onConnected

LEMMA FlushKeepsInv ==
  ASSUME Inv, Flush
  PROVE  /\ Inv'
         /\ UNCHANGED posted
         /\ UNCHANGED received \/ \E n \in 1..MaxPosted : Fifo!Deliver(n)
  <1>1. /\ wbuf # <<>> /\ wbuf' = Tail(wbuf) /\ UNCHANGED <<events, posted>>
        /\ posted \in Int /\ wbuf \in Seq(Int) /\ events \in Seq(Int) /\ received \in Seq(Int)
    BY DEF Inv, Typed, Flush
  <1>2. /\ wbuf' \in Seq(Int) /\ Ascending(wbuf') /\ UpTo(wbuf', posted)
        /\ Precedes(wbuf', events) /\ Precedes(received, wbuf')
    BY <1>1, TailKeepsOrder DEF Inv, InOrder
  <1>3. /\ Head(wbuf) \in Int /\ Head(wbuf) <= posted /\ Younger(Head(wbuf), received)
        /\ Older(Head(wbuf), wbuf') /\ Older(Head(wbuf), events)
    BY <1>1, HeadIsBetween DEF Inv, InOrder
  <1>4. CASE Head(wbuf) > 0
    <2>1. received' = Append(received, Head(wbuf))
      BY <1>4 DEF Flush
    <2>2. Inv'
      BY <1>1, <1>2, <1>3, <2>1, AppendKeepsOrder DEF Inv, Typed, InOrder
    <2>3. Fifo!Deliver(Head(wbuf)) /\ Head(wbuf) \in 1..MaxPosted
      BY <1>1, <1>3, <1>4, <2>1, LinkAssumption DEF Fifo!Deliver, Younger, Inv, Typed
    <2> QED
      BY <1>1, <2>2, <2>3
  <1>5. CASE ~(Head(wbuf) > 0)
    <2>1. UNCHANGED received
      BY <1>5 DEF Flush
    <2> QED
      BY <1>1, <1>2, <2>1 DEF Inv, Typed, InOrder
  <1> QED
    BY <1>4, <1>5

\* The other steps only empty the write buffer or leave all messages alone.
LEMMA OthersKeepInv ==
  ASSUME Inv, onDisconnected \/ Lose \/ Return \/ UNCHANGED vars
  PROVE  Inv' /\ UNCHANGED <<posted, received>>
  <1>1. UNCHANGED <<events, posted, received>> /\ (UNCHANGED wbuf \/ wbuf' = <<>>)
    BY DEF onDisconnected, Lose, Return, vars
  <1> QED
    BY <1>1, EmptyInOrder DEF Inv, Typed, InOrder

LEMMA EventThreadKeepsInv ==
  ASSUME Inv, onTimeoutRetry \/ onHdlcEncodedByte
  PROVE  Inv' /\ UNCHANGED <<posted, received>>
  <1>1. /\ events # <<>> /\ events' = Tail(events) /\ UNCHANGED <<posted, received>>
        /\ UNCHANGED wbuf \/ Write(HeartBeat) \/ Write(Head(events))
    BY DEF onTimeoutRetry, onHdlcEncodedByte
  <1> QED
    BY <1>1, ServeKeepsInv

\* A step of the link is a step of the abstract one, or none.
LEMMA StepImplements ==
  ASSUME Inv, [Next]_vars
  PROVE  Inv' /\ [Fifo!Next]_(Fifo!fifoVars)
  <1> USE DEF Fifo!fifoVars
  <1>1. CASE SendMessage
    <2>1. Fifo!Send
      BY <1>1 DEF SendMessage, Fifo!Send
    <2> QED
      BY <1>1, <2>1, SendMessageKeepsInv DEF Fifo!Next
  <1>2. CASE TimeoutRetry
    BY <1>2, TimeoutRetryKeepsInv DEF TimeoutRetry
  <1>3. CASE onTimeoutRetry \/ onHdlcEncodedByte
    BY <1>3, EventThreadKeepsInv
  <1>4. CASE onConnected
    BY <1>4, OnConnectedKeepsInv DEF onConnected
  <1>5. CASE Flush
    BY <1>5, FlushKeepsInv DEF Fifo!Next
  <1>6. CASE onDisconnected \/ Lose \/ Return \/ UNCHANGED vars
    BY <1>6, OthersKeepInv
  <1> QED
    BY <1>1, <1>2, <1>3, <1>4, <1>5, <1>6 DEF Next, EventThread

\* The link to a robot is a channel that may lose messages and no more: each
\* SendMessage is a send, each frame the robot reads a delivery, and every other
\* step of timer, event thread, socket and robot is invisible.
THEOREM LinkIsLossyFifo == Spec => ImplementsLossyFifo
  <1>1. Init => Fifo!Init
    BY DEF Init, Fifo!Init
  <1> QED
    BY <1>1, InitInv, StepImplements, PTL DEF Spec, ImplementsLossyFifo, Fifo!Spec

\* With the command thread the link does no step it would not do alone.
LEMMA ChainStepIsLinkStep == ASSUME [ChainNext]_allVars PROVE [Next]_vars
  BY DEF ChainNext, allVars, CommandThread, Run, Skip, Wake, LedExec, Leave, Finish,
         RunClicked, PostedByOthers, Link, Next, vars

\* The same with the command thread running texts that replace each other: whatever
\* it posts meanwhile reaches the robot at most once and in the order posted.
THEOREM ChainIsLossyFifo == ChainFairSpec => ImplementsLossyFifo
  <1>1. ChainInit => Init
    BY DEF ChainInit
  <1>2. ChainFairSpec => Spec
    BY <1>1, ChainStepIsLinkStep, PTL DEF ChainFairSpec, ChainSpec, Spec
  <1> QED
    BY <1>2, LinkIsLossyFifo

-----------------------------------------------------------------------------
(* Texts.                                                                  *)

\* A set of naturals that is not empty has a least element.
LEMMA LeastNat ==
  ASSUME NEW T \in SUBSET Nat, T # {}
  PROVE  \E x \in T : \A y \in T : x <= y
  <1>1. PICK x \in T : \A y \in T : ~(<<y, x>> \in OpToRel(<, Nat))
    BY NatLessThanWellFounded, WFMin
  <1>2. ASSUME NEW y \in T, y < x PROVE FALSE
    <2>1. <<y, x>> \in Nat \X Nat
      OBVIOUS
    <2>2. <<y, x>> \in OpToRel(<, Nat)
      BY <1>2, <2>1 DEF OpToRel
    <2> QED
      BY <1>1, <1>2, <2>2
  <1> QED
    BY <1>2

\* The lines of a text that is not empty: numbered from 1, none empty, each where
\* the one before it ends.
LEMMA LinesOfText ==
  ASSUME NEW text \in Text, text # <<>>
  PROVE  /\ Len(text) \in Nat /\ 1 <= Len(text) /\ DOMAIN text = 1..Len(text)
         /\ Size(text) = text[Len(text)].to
         /\ \A k \in 1..Len(text) :
              /\ text[k].from \in Nat /\ text[k].to \in Nat /\ text[k].from < text[k].to
              /\ text[k].from = IF k = 1 THEN 0 ELSE text[k - 1].to
  <1> DEFINE Line == [does : {"led", "delay", "nothing"}, from : Nat, to : Nat]
  <1>1. /\ text \in Seq(Line)
        /\ \A k \in DOMAIN text : /\ text[k].from < text[k].to
                                   /\ text[k].from = IF k = 1 THEN 0 ELSE text[k - 1].to
    BY TextAssumption, Zenon DEF TextAssumption
  <1>2. Len(text) \in Nat /\ Len(text) # 0 /\ DOMAIN text = 1..Len(text)
    BY <1>1
  <1> HIDE DEF Line
  <1>3. \A k \in 1..Len(text) : text[k] \in Line
    BY <1>1
  <1> QED
    BY <1>1, <1>2, <1>3 DEF Size, Last, Line

\* Of two lines the first ends before the second begins.
LEMMA LinesInOrder ==
  ASSUME NEW text \in Text, text # <<>>, NEW j \in DOMAIN text, NEW k \in DOMAIN text, j < k
  PROVE  text[j].to <= text[k].from
  <1> DEFINE Bad == {m \in DOMAIN text : j < m /\ ~(text[j].to <= text[m].from)}
  <1>1. SUFFICES ASSUME Bad # {} PROVE FALSE
    OBVIOUS
  <1>2. Bad \in SUBSET Nat
    BY LinesOfText
  <1>3. PICK m \in Bad : \A i \in Bad : m <= i
    BY <1>1, <1>2, LeastNat
  <1>4. m \in 2..Len(text) /\ m - 1 \in 1..Len(text) /\ text[m].from = text[m - 1].to
    BY LinesOfText
  <1>5. CASE m - 1 = j
    BY <1>4, <1>5, LinesOfText
  <1>6. CASE m - 1 # j
    <2>1. m - 1 \notin Bad /\ j < m - 1
      BY <1>2, <1>3, <1>4, <1>6
    <2>2. text[j].to <= text[m - 1].from
      BY <1>4, <2>1, LinesOfText
    <2>3. /\ text[j].to \in Nat /\ text[m].from \in Nat
          /\ text[m - 1].from \in Nat /\ text[m - 1].from < text[m].from
      BY <1>4, LinesOfText
    <2>4. ~(text[j].to <= text[m].from)
      BY <1>3
    <2> QED
      BY <2>2, <2>3, <2>4
  <1> QED
    BY <1>5, <1>6

\* Every character is in a line, the first that ends behind it.
LEMMA LineOfCharacter ==
  ASSUME NEW text \in Text, text # <<>>, NEW x \in Nat, x < Size(text)
  PROVE  \E k \in DOMAIN text : text[k].from <= x /\ x < text[k].to
  <1> DEFINE Behind == {k \in DOMAIN text : x < text[k].to}
  <1>1. Behind \in SUBSET Nat /\ Len(text) \in Behind
    BY LinesOfText
  <1>2. PICK k \in Behind : \A i \in Behind : k <= i
    BY <1>1, LeastNat
  <1>3. CASE k = 1
    BY <1>2, <1>3, LinesOfText
  <1>4. CASE k # 1
    <2>1. k - 1 \in DOMAIN text /\ k - 1 \notin Behind
      BY <1>1, <1>2, <1>4, LinesOfText
    <2> QED
      BY <1>2, <1>4, <2>1, LinesOfText, SMTT(40)
  <1> QED
    BY <1>3, <1>4

-----------------------------------------------------------------------------
(* The command thread.                                                     *)

ChainTyped ==
  /\ texts \in Nat /\ offset \in Nat /\ origin \in Seq(Nat \X Nat)
  /\ thread \in {"idle", "started", "running", "asleep", "finishing"}
  /\ texts > 0 => cmd_text_ \in Text /\ cmd_text_ # <<>>
  /\ thread # "idle" => texts > 0

\* What has been executed: lines of texts entered, in their order; and of the last
\* text led lines that end at or before the offset.
ExecutedInOrder ==
  /\ \A j \in Own : 0 < origin[j][1] /\ origin[j][1] <= texts
  /\ \A j \in Latest :
       /\ thread # "started" /\ origin[j][2] \in LedLines(cmd_text_)
       /\ cmd_text_[origin[j][2]].to <= offset
  /\ \A i, j \in Own : i < j => Before(origin[i], origin[j])

Executed(k) == \E j \in Latest : origin[j][2] = k

\* The offset is where a line begins, or behind the last.
Boundary == offset = Size(cmd_text_) \/ \E k \in DOMAIN cmd_text_ : offset = cmd_text_[k].from

\* A text entered while no other is being run is executed as far as it has been
\* read, and in the end as a whole.
WholeText ==
  texts > 0 /\ ~overlapped =>
    /\ thread \in {"running", "asleep"} =>
         /\ Boundary
         /\ \A k \in LedLines(cmd_text_) : cmd_text_[k].to <= offset => Executed(k)
    /\ thread \in {"finishing", "idle"} => \A k \in LedLines(cmd_text_) : Executed(k)

ChainInv == ChainTyped /\ ExecutedInOrder /\ WholeText

\* The line the stream is in; from a boundary it is read as a whole, and after it
\* the stream is at a boundary again.
LEMMA CurrentLine ==
  ASSUME ChainInv, thread = "running", Readable
  PROVE  /\ Current \in DOMAIN cmd_text_ /\ Current \in Nat
         /\ cmd_text_[Current].to \in Nat /\ offset < cmd_text_[Current].to
         /\ \A k \in DOMAIN cmd_text_ :
              /\ cmd_text_[k].to <= offset => k < Current
              /\ cmd_text_[k].to <= cmd_text_[Current].to =>
                   k = Current \/ cmd_text_[k].to <= offset
         /\ Boundary => ~Fragment
         /\ offset' = cmd_text_[Current].to /\ UNCHANGED cmd_text_ => Boundary'
  <1>1. cmd_text_ \in Text /\ cmd_text_ # <<>> /\ offset \in Nat
    BY DEF ChainInv, ChainTyped
  <1>2. PICK c : c = Current
    OBVIOUS
  <1>3. c \in DOMAIN cmd_text_ /\ cmd_text_[c].from <= offset /\ offset < cmd_text_[c].to
    BY <1>1, <1>2, LineOfCharacter DEF Current, Readable
  <1>4. /\ Len(cmd_text_) \in Nat /\ DOMAIN cmd_text_ = 1..Len(cmd_text_)
        /\ Size(cmd_text_) = cmd_text_[Len(cmd_text_)].to
        /\ \A k \in DOMAIN cmd_text_ :
             /\ cmd_text_[k].from \in Nat /\ cmd_text_[k].to \in Nat
             /\ cmd_text_[k].from < cmd_text_[k].to
             /\ k # 1 => cmd_text_[k].from = cmd_text_[k - 1].to
    BY <1>1, LinesOfText
  <1>5. \A j, k \in DOMAIN cmd_text_ : j < k => cmd_text_[j].to <= cmd_text_[k].from
    BY <1>1, LinesInOrder
  <1>6. ASSUME NEW k \in DOMAIN cmd_text_
        PROVE  /\ cmd_text_[k].to <= offset => k < c
               /\ cmd_text_[k].to <= cmd_text_[c].to => k = c \/ cmd_text_[k].to <= offset
    <2>1. c \in Nat /\ k \in Nat
      BY <1>3, <1>4
    <2>2. CASE k < c
      BY <1>1, <1>3, <1>4, <1>5, <2>2
    <2>3. CASE c < k
      BY <1>1, <1>3, <1>4, <1>5, <2>3
    <2> QED
      BY <1>1, <1>3, <1>4, <2>1, <2>2, <2>3
  <1>7. ASSUME Boundary PROVE offset = cmd_text_[c].from
    <2>1. offset # Size(cmd_text_)
      BY <1>1, <1>4 DEF Readable
    <2>2. PICK k \in DOMAIN cmd_text_ : offset = cmd_text_[k].from
      BY <1>7, <2>1 DEF Boundary
    <2>3. c \in Nat /\ k \in Nat
      BY <1>3, <1>4
    <2>4. ~(k < c)
      BY <1>1, <1>3, <1>4, <1>5, <2>2
    <2>5. ~(c < k)
      BY <1>1, <1>3, <1>4, <1>5, <2>2
    <2> QED
      BY <2>2, <2>3, <2>4, <2>5
  <1>8. ASSUME offset' = cmd_text_[c].to, UNCHANGED cmd_text_ PROVE Boundary'
    <2>1. CASE c = Len(cmd_text_)
      BY <1>4, <1>8, <2>1 DEF Boundary
    <2>2. CASE c # Len(cmd_text_)
      <3>1. c + 1 \in DOMAIN cmd_text_ /\ c + 1 # 1 /\ (c + 1) - 1 = c
        BY <1>3, <1>4, <2>2
      <3> QED
        BY <1>4, <1>8, <3>1 DEF Boundary
    <2> QED
      BY <2>1, <2>2
  <1>9. c \in Nat /\ cmd_text_[c].to \in Nat
    BY <1>3, <1>4
  <1> QED
    BY <1>2, <1>3, <1>6, <1>7, <1>8, <1>9 DEF Fragment

LEMMA ChainInitInv == ChainInit => ChainInv
  BY DEF ChainInit, ChainInv, ChainTyped, ExecutedInOrder, WholeText, Own, Latest

\* What the invariant says of origin is about the messages of texts only.
LEMMA OthersAppended ==
  ASSUME origin \in Seq(Nat \X Nat), origin' = Append(origin, <<0, 0>>)
  PROVE  /\ origin' \in Seq(Nat \X Nat)
         /\ Own' = Own /\ \A j \in Own : origin'[j] = origin[j]
  <1>1. /\ origin' \in Seq(Nat \X Nat) /\ DOMAIN origin' = 1..(Len(origin) + 1)
        /\ DOMAIN origin = 1..Len(origin) /\ Len(origin) \in Nat
        /\ \A j \in 1..Len(origin) : origin'[j] = origin[j]
        /\ origin'[Len(origin) + 1] = <<0, 0>>
    OBVIOUS
  <1> QED
    BY <1>1 DEF Own

LEMMA OwnAppended ==
  ASSUME origin \in Seq(Nat \X Nat), NEW k \in Nat, texts \in Nat, texts > 0,
         origin' = Append(origin, <<texts, k>>)
  PROVE  /\ origin' \in Seq(Nat \X Nat) /\ Len(origin) + 1 \in Nat
         /\ Own' = Own \cup {Len(origin) + 1} /\ \A j \in Own : j \in Nat /\ j < Len(origin) + 1
         /\ \A j \in Own : origin'[j] = origin[j]
         /\ origin'[Len(origin) + 1] = <<texts, k>>
  <1>1. /\ origin' \in Seq(Nat \X Nat) /\ DOMAIN origin' = 1..(Len(origin) + 1)
        /\ DOMAIN origin = 1..Len(origin) /\ Len(origin) \in Nat
        /\ \A j \in 1..Len(origin) : origin'[j] = origin[j]
        /\ origin'[Len(origin) + 1] = <<texts, k>>
    OBVIOUS
  <1>2. <<texts, k>> # <<0, 0>>
    OBVIOUS
  <1> QED
    BY <1>1, <1>2, SMTT(40) DEF Own

\* A text put in place of the last one has nothing executed of it yet.
LEMMA RunClickedKeepsInv ==
  ASSUME ChainInv, NEW text \in Text, RunClicked(text)
  PROVE  ChainInv'
  <1>1. /\ text # <<>> /\ cmd_text_' = text /\ texts' = texts + 1
        /\ thread' = (IF thread = "idle" THEN "started" ELSE thread)
        /\ overlapped' = (thread # "idle") /\ UNCHANGED <<offset, origin>>
    BY DEF RunClicked, StartCommandChain
  <1>2. ChainTyped'
    BY <1>1 DEF ChainInv, ChainTyped
  <1>3. Own' = Own /\ Latest' = {}
    BY <1>1 DEF ChainInv, ChainTyped, ExecutedInOrder, Own, Latest
  <1>4. ExecutedInOrder'
    <2>1. \A j \in Own' : 0 < origin'[j][1] /\ origin'[j][1] <= texts'
      BY <1>1, <1>3 DEF ChainInv, ChainTyped, ExecutedInOrder, Own
    <2> QED
      BY <1>1, <1>3, <2>1 DEF ChainInv, ExecutedInOrder
  <1>5. WholeText'
    BY <1>1 DEF WholeText
  <1> QED
    BY <1>2, <1>4, <1>5 DEF ChainInv

\* Of a text about to be run no line ends at the beginning.
LEMMA RunKeepsInv ==
  ASSUME ChainInv, Run
  PROVE  ChainInv'
  <1>1. /\ thread = "started" /\ thread' = "running" /\ offset' = 0
        /\ UNCHANGED <<cmd_text_, texts, origin, overlapped>>
    BY DEF Run
  <1>2. ChainTyped'
    BY <1>1 DEF ChainInv, ChainTyped
  <1>3. Own' = Own /\ Latest' = Latest /\ Latest = {}
    BY <1>1 DEF ChainInv, ExecutedInOrder, Own, Latest
  <1>4. ExecutedInOrder'
    BY <1>1, <1>3 DEF ChainInv, ExecutedInOrder
  <1>5. WholeText'
    <2>1. cmd_text_ \in Text /\ cmd_text_ # <<>>
      BY <1>1 DEF ChainInv, ChainTyped
    <2>2. Boundary'
      <3>1. 1 \in DOMAIN cmd_text_ /\ cmd_text_[1].from = 0
        BY <2>1, LinesOfText
      <3> QED
        BY <1>1, <3>1 DEF Boundary
    <2>3. \A k \in DOMAIN cmd_text_ : ~(cmd_text_[k].to <= 0)
      BY <2>1, LinesOfText
    <2> QED
      BY <1>1, <2>2, <2>3 DEF WholeText, LedLines
  <1> QED
    BY <1>2, <1>4, <1>5 DEF ChainInv

LEMMA SkipKeepsInv ==
  ASSUME ChainInv, Skip
  PROVE  ChainInv'
  <1>1. /\ thread = "running" /\ Readable /\ Does # "led" /\ thread' \in {"running", "asleep"}
        /\ offset' = cmd_text_[Current].to
        /\ UNCHANGED <<cmd_text_, texts, origin, overlapped>>
    BY DEF Skip
  <1>2. PICK c : c = Current
    OBVIOUS
  <1>3. /\ c \in DOMAIN cmd_text_ /\ cmd_text_[c].to \in Nat /\ offset < cmd_text_[c].to
        /\ \A k \in DOMAIN cmd_text_ :
              cmd_text_[k].to <= cmd_text_[c].to => k = c \/ cmd_text_[k].to <= offset
        /\ Boundary => ~Fragment /\ Boundary'
    BY <1>1, <1>2, CurrentLine
  <1>4. ChainTyped'
    BY <1>1, <1>2, <1>3 DEF ChainInv, ChainTyped
  <1>5. Own' = Own /\ Latest' = Latest /\ \A k : Executed(k)' <=> Executed(k)
    BY <1>1 DEF Own, Latest, Executed
  <1>6. ExecutedInOrder'
    <2>1. \A j \in Latest : cmd_text_[origin[j][2]].to \in Nat /\ offset \in Nat
      <3>1. Latest # {} => cmd_text_ \in Text /\ cmd_text_ # <<>>
        BY <1>1 DEF ChainInv, ChainTyped
      <3> QED
        BY <3>1, LinesOfText DEF ChainInv, ChainTyped, ExecutedInOrder, LedLines
    <2>2. \A j \in Latest : cmd_text_[origin[j][2]].to <= cmd_text_[c].to
      BY <1>3, <2>1 DEF ChainInv, ExecutedInOrder
    <2> QED
      BY <1>1, <1>2, <1>5, <2>2 DEF ChainInv, ExecutedInOrder
  <1>7. WholeText'
    <2>1. SUFFICES ASSUME texts > 0, ~overlapped
                   PROVE  /\ Boundary'
                          /\ \A k \in LedLines(cmd_text_) : cmd_text_[k].to <= offset' => Executed(k)
      BY <1>1, <1>5 DEF WholeText
    <2>2. /\ Boundary
          /\ \A k \in LedLines(cmd_text_) : cmd_text_[k].to <= offset => Executed(k)
      BY <1>1, <2>1 DEF ChainInv, WholeText
    <2>3. cmd_text_[c].does # "led"
      BY <1>1, <1>2, <1>3, <2>2 DEF Does
    <2> QED
      BY <1>1, <1>2, <1>3, <2>2, <2>3 DEF LedLines
  <1> QED
    BY <1>4, <1>6, <1>7 DEF ChainInv

\* A line executed comes behind all that have been executed of its text.
LEMMA LedExecKeepsInv ==
  ASSUME ChainInv, LedExec
  PROVE  ChainInv'
  <1>1. /\ thread = "running" /\ Readable /\ Does = "led"
        /\ origin' = Append(origin, <<texts, Current>>)
        /\ offset' = cmd_text_[Current].to
        /\ UNCHANGED <<cmd_text_, thread, texts, overlapped>>
    BY DEF LedExec
  <1>2. PICK c, n : c = Current /\ n = Len(origin) + 1
    OBVIOUS
  <1>3. /\ c \in DOMAIN cmd_text_ /\ c \in Nat
        /\ cmd_text_[c].to \in Nat /\ offset < cmd_text_[c].to
        /\ \A k \in DOMAIN cmd_text_ :
             /\ cmd_text_[k].to <= offset => k < c
             /\ cmd_text_[k].to <= cmd_text_[c].to => k = c \/ cmd_text_[k].to <= offset
        /\ Boundary'
    BY <1>1, <1>2, CurrentLine
  <1>4. texts \in Nat /\ texts > 0 /\ origin \in Seq(Nat \X Nat)
        /\ cmd_text_ \in Text /\ cmd_text_ # <<>> /\ offset \in Nat
    BY <1>1 DEF ChainInv, ChainTyped
  <1>5. /\ origin' \in Seq(Nat \X Nat)
        /\ Own' = Own \cup {n} /\ n \in Nat /\ \A j \in Own : j \in Nat /\ j < n /\ origin'[j] = origin[j]
        /\ origin'[n] = <<texts, c>>
    BY <1>1, <1>2, <1>3, <1>4, OwnAppended
  <1>6. Latest' = Latest \cup {n}
    <2>1. origin'[n][1] = texts
      BY <1>5
    <2>2. \A j \in Own : origin'[j][1] = origin[j][1]
      BY <1>5, Zenon
    <2>3. \A j : j \in Own' /\ origin'[j][1] = texts <=> (j \in Own /\ origin[j][1] = texts) \/ j = n
      BY <1>5, <2>1, <2>2
    <2> QED
      BY <1>1, <2>3, Zenon DEF Latest
  <1>7. c \in LedLines(cmd_text_)
    BY <1>1, <1>2, <1>3 DEF Does, LedLines
  <1>8. ChainTyped'
    BY <1>1, <1>2, <1>3, <1>5 DEF ChainInv, ChainTyped
  <1>9. ASSUME NEW j \in Latest
        PROVE  origin[j][2] \in LedLines(cmd_text_) /\ cmd_text_[origin[j][2]].to <= cmd_text_[c].to
               /\ origin[j][2] < c
    <2>1. origin[j][2] \in LedLines(cmd_text_) /\ cmd_text_[origin[j][2]].to <= offset
      BY DEF ChainInv, ExecutedInOrder
    <2>2. cmd_text_[origin[j][2]].to \in Nat /\ origin[j][2] \in DOMAIN cmd_text_
      BY <1>4, <2>1, LinesOfText DEF LedLines
    <2> QED
      BY <1>3, <1>4, <2>1, <2>2, SMTT(40)
  <1>10. ExecutedInOrder'
    <2>1. ASSUME NEW j \in Own'
          PROVE  0 < origin'[j][1] /\ origin'[j][1] <= texts'
      <3>1. CASE j = n
        <4>1. origin'[j][1] = texts
          BY <1>5, <3>1
        <4>2. 0 < texts /\ texts <= texts'
          BY <1>1, <1>4
        <4> QED
          BY <4>1, <4>2, Zenon
      <3>2. CASE j \in Own
        BY <1>1, <1>5, <3>2, Zenon DEF ChainInv, ExecutedInOrder
      <3> QED
        BY <1>5, <3>1, <3>2
    <2>2. ASSUME NEW j \in Latest'
          PROVE  /\ thread' # "started" /\ origin'[j][2] \in LedLines(cmd_text_')
                 /\ cmd_text_'[origin'[j][2]].to <= offset'
      <3>1. CASE j = n
        <4>1. origin'[j][2] = c
          BY <1>5, <3>1
        <4>2. offset' = cmd_text_[c].to /\ cmd_text_[c].to <= offset'
          BY <1>1, <1>2, <1>3
        <4>3. thread' # "started" /\ cmd_text_' = cmd_text_
          BY <1>1
        <4> QED
          BY <1>7, <4>1, <4>2, <4>3, Zenon
      <3>2. CASE j \in Latest
        <4>1. origin'[j] = origin[j]
          BY <1>5, <3>2 DEF Latest
        <4> QED
          BY <1>1, <1>2, <1>9, <3>2, <4>1
      <3> QED
        BY <1>6, <3>1, <3>2
    <2>3. ASSUME NEW i \in Own', NEW j \in Own', i < j
          PROVE  Before(origin'[i], origin'[j])
      <3>1. i \in Own /\ origin'[i] = origin[i]
        BY <1>5, <2>3
      <3>2. CASE j \in Own
        <4>1. origin'[j] = origin[j]
          BY <1>5, <3>2
        <4> QED
          BY <2>3, <3>1, <3>2, <4>1, Zenon DEF ChainInv, ExecutedInOrder
      <3>3. CASE j = n
        <4>1. PICK x \in Nat, y \in Nat : origin[i] = <<x, y>>
          BY <1>4, <3>1 DEF Own
        <4>2. x <= texts
          <5>1. origin[i][1] <= texts /\ origin[i][1] = x
            BY <3>1, <4>1 DEF ChainInv, ExecutedInOrder
          <5> QED
            BY <5>1
        <4>3. x = texts => y < c
          <5>1. origin[i][1] = x /\ origin[i][2] = y
            BY <4>1
          <5> QED
            BY <1>9, <3>1, <5>1, Zenon DEF Latest
        <4>4. Before(<<x, y>>, <<texts, c>>)
          BY <1>3, <1>4, <4>2, <4>3 DEF Before
        <4> QED
          BY <1>5, <3>1, <3>3, <4>1, <4>4, Zenon
      <3> QED
        BY <1>5, <3>2, <3>3
    <2> QED
      BY <2>1, <2>2, <2>3 DEF ExecutedInOrder
  <1>11. WholeText'
    <2>1. SUFFICES ASSUME ~overlapped
                   PROVE  \A k \in LedLines(cmd_text_) : cmd_text_[k].to <= offset' => Executed(k)'
      BY <1>1, <1>3 DEF WholeText
    <2>2. \A k \in LedLines(cmd_text_) : cmd_text_[k].to <= offset => Executed(k)
      BY <1>1, <1>4, <2>1 DEF ChainInv, WholeText
    <2>3. \A k : Executed(k) \/ k = c => Executed(k)'
      BY <1>5, <1>6 DEF Executed, Latest
    <2> QED
      BY <1>1, <1>2, <1>3, <2>2, <2>3 DEF LedLines
  <1> QED
    BY <1>8, <1>10, <1>11 DEF ChainInv

\* At the end of the text all its lines end at or before the offset.
LEMMA LeaveKeepsInv ==
  ASSUME ChainInv, Leave
  PROVE  ChainInv'
  <1>1. /\ thread = "running" /\ atEnd /\ thread' = "finishing"
        /\ UNCHANGED <<cmd_text_, offset, texts, origin, overlapped>>
    BY DEF Leave
  <1>2. Own' = Own /\ Latest' = Latest /\ \A k : Executed(k)' <=> Executed(k)
    BY <1>1 DEF Own, Latest, Executed
  <1>3. ChainTyped' /\ ExecutedInOrder'
    BY <1>1, <1>2 DEF ChainInv, ChainTyped, ExecutedInOrder
  <1>4. ASSUME NEW k \in DOMAIN cmd_text_ PROVE cmd_text_[k].to <= offset
    <2>1. cmd_text_ \in Text /\ cmd_text_ # <<>>
      BY <1>1 DEF ChainInv, ChainTyped
    <2>2. /\ Len(cmd_text_) \in DOMAIN cmd_text_ /\ offset = cmd_text_[Len(cmd_text_)].to
          /\ k \in Nat /\ k <= Len(cmd_text_) /\ Len(cmd_text_) \in Nat
          /\ cmd_text_[k].to \in Nat /\ cmd_text_[Len(cmd_text_)].to \in Nat
          /\ cmd_text_[Len(cmd_text_)].from \in Nat
          /\ cmd_text_[Len(cmd_text_)].from < cmd_text_[Len(cmd_text_)].to
      BY <1>1, <2>1, LinesOfText DEF atEnd
    <2>3. k < Len(cmd_text_) => cmd_text_[k].to <= cmd_text_[Len(cmd_text_)].from
      BY <2>1, <2>2, LinesInOrder
    <2> QED
      BY <2>2, <2>3
  <1>5. WholeText'
    BY <1>1, <1>2, <1>4 DEF ChainInv, WholeText, LedLines
  <1> QED
    BY <1>3, <1>5 DEF ChainInv

LEMMA PostedByOthersKeepsInv ==
  ASSUME ChainInv, PostedByOthers
  PROVE  ChainInv'
  <1>1. /\ origin' = Append(origin, <<0, 0>>)
        /\ UNCHANGED <<cmd_text_, thread, offset, texts, overlapped>>
    BY DEF PostedByOthers
  <1>2. /\ origin' \in Seq(Nat \X Nat) /\ Own' = Own
        /\ \A j \in Own : origin'[j] = origin[j]
    BY <1>1, OthersAppended DEF ChainInv, ChainTyped
  <1>3. Latest' = Latest /\ \A k : Executed(k)' <=> Executed(k)
    BY <1>1, <1>2 DEF Latest, Executed
  <1>4. ChainTyped'
    BY <1>1, <1>2 DEF ChainInv, ChainTyped
  <1>5. ExecutedInOrder'
    <2>1. \A j \in Latest : j \in Own
      BY DEF Latest
    <2> QED
      BY <1>1, <1>2, <1>3, <2>1, Zenon DEF ChainInv, ExecutedInOrder
  <1>6. WholeText'
    BY <1>1, <1>3 DEF ChainInv, WholeText, Boundary
  <1> QED
    BY <1>4, <1>5, <1>6 DEF ChainInv

\* The other steps leave text, offset and messages alone: falling asleep and waking
\* up, ending after the end of the text, and what the link does.
LEMMA RestKeepsInv ==
  ASSUME ChainInv, UNCHANGED <<cmd_text_, offset, texts, origin, overlapped>>,
         \/ UNCHANGED thread
         \/ thread = "asleep" /\ thread' = "running"
         \/ thread = "finishing" /\ thread' = "idle"
  PROVE  ChainInv'
  <1>1. Own' = Own /\ Latest' = Latest /\ \A k : Executed(k)' <=> Executed(k)
    BY DEF Own, Latest, Executed
  <1>2. ChainTyped' /\ ExecutedInOrder'
    BY <1>1 DEF ChainInv, ChainTyped, ExecutedInOrder
  <1>3. WholeText'
    BY <1>1 DEF ChainInv, WholeText, Boundary
  <1> QED
    BY <1>2, <1>3 DEF ChainInv

LEMMA ChainNextKeepsInv == ChainInv /\ [ChainNext]_allVars => ChainInv'
  <1> SUFFICES ASSUME ChainInv, [ChainNext]_allVars PROVE ChainInv'
      OBVIOUS
  <1>1. CASE \E text \in Text : RunClicked(text)
    BY <1>1, RunClickedKeepsInv
  <1>2. CASE Run
    BY <1>2, RunKeepsInv
  <1>3. CASE Skip
    BY <1>3, SkipKeepsInv
  <1>4. CASE LedExec
    BY <1>4, LedExecKeepsInv
  <1>5. CASE Leave
    BY <1>5, LeaveKeepsInv
  <1>6. CASE PostedByOthers
    BY <1>6, PostedByOthersKeepsInv
  <1>7. CASE Wake \/ Finish \/ Link \/ UNCHANGED allVars
    BY <1>7, RestKeepsInv DEF Wake, Finish, Link, allVars, chainVars
  <1> QED
    BY <1>1, <1>2, <1>3, <1>4, <1>5, <1>6, <1>7 DEF ChainNext, CommandThread

\* Whatever texts users enter, and however the running of one overlaps the next: each
\* line is executed at most once and in the order entered; and a text entered while
\* no other was being run has had exactly its led lines executed when the thread is
\* idle again.
THEOREM CommandsInOrder == ChainSpec => []CommandsRunInOrder
  <1>1. ChainInv => CommandsRunInOrder
    <2> SUFFICES ASSUME ChainInv PROVE CommandsRunInOrder
        OBVIOUS
    <2>1. thread = "idle" /\ texts > 0 /\ ~overlapped =>
            {origin[j][2] : j \in Latest} = LedLines(cmd_text_)
      BY DEF ChainInv, ExecutedInOrder, WholeText, Executed
    <2> QED
      BY <2>1 DEF ChainInv, ExecutedInOrder, CommandsRunInOrder
  <1> QED
    BY <1>1, ChainInitInv, ChainNextKeepsInv, PTL DEF ChainSpec
=============================================================================
