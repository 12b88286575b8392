--------------------------- MODULE XpiderMessages ---------------------------
(***************************************************************************)
(* The two long messages of the robot protocol as bytes                    *)
(* (xpider_ctl/xpider_protocol.cpp): the action groups (kGroupInfo) and    *)
(* the learned neurons (kNNInfo).  Framed with GroupBody or NnBody is      *)
(* what GetBuffer writes, ParsedGroups and ParsedNn what ParseGroupMsg     *)
(* and ParseNnMsg read back.                                               *)
(*                                                                         *)
(* A message is a sequence of bytes; At(m, i) is m[i] of the C array,      *)
(* whose first byte has index 0.                                           *)
(***************************************************************************)
EXTENDS Integers, Sequences, SequencesExt

U8 == 256            \* uint8_t counts modulo U8
U16 == 65536         \* uint16_t counts modulo U16
Byte == 0..(U8 - 1)

kGroupInfo == 5
kNNInfo == 6
Kind == {kGroupInfo, kNNInfo}
HeaderLength == 4    \* type, version, length (two bytes, the low one first)

\* idWalk, idRotate, idLed, idEye, idSpeaker; idUnknow and above have no data.
ActionIndex == 0..4
\* sizeof the Info struct of each action, its padding included.
ActionSize == [id \in ActionIndex |-> IF id = 2 THEN 8 ELSE 4]
Action == {a \in [id : ActionIndex, data : Seq(Byte)] :
             Len(a.data) = ActionSize[a.id]}
Group == [id : Byte, actions : Seq(Action)]
Neuron == [bytes : Seq(Byte), cat : Byte]

\* Bytes past total_msg_position are zero, by the memset before a message, but for
\* one: the memcpy of a later packet takes a byte from behind the packet, which the
\* next one overwrites.  It is taken for a zero here.  A message as it was sent is
\* not read that far; one made of the remains of two that passes the sum may be.
At(m, i) == IF i < Len(m) THEN m[i + 1] ELSE 0
Block(m, i, n) == [k \in 1..n |-> At(m, i + k - 1)]
LengthField(m) == At(m, 2) + U8 * At(m, 3)

SumCRC(m) == FoldLeft(+, 0, m) % U8
GetCRCResult(m) == SumCRC(Front(m)) = Last(m)

----------------------------------------------------------------------------
(* GetBuffer.                                                              *)

\* The header and the trailing check byte around a body.  The header counts
\* the check byte, which GetBuffer's own *length does not.
Framed(kind, ver, body) ==
  LET length == HeaderLength + Len(body) + 1
      msg == <<kind, ver, length % U8, (length \div U8) % U8>> \o body
  IN  Append(msg, SumCRC(msg))

ActionBytes(a) == <<a.id>> \o a.data
GroupBytes(g) ==
  <<g.id, Len(g.actions) % U8>>
    \o FlattenSeq([j \in DOMAIN g.actions |-> ActionBytes(g.actions[j])])
GroupBody(groups) == FlattenSeq([n \in DOMAIN groups |-> GroupBytes(groups[n])])

NeuronBytes(u) == <<Len(u.bytes)>> \o u.bytes \o <<u.cat>>
NnBody(sensors, neurons) ==
  <<Len(sensors)>> \o sensors \o <<Len(neurons)>>
    \o FlattenSeq([n \in DOMAIN neurons |-> NeuronBytes(neurons[n])])

----------------------------------------------------------------------------
(* ParseGroupMsg: next is the C loop index.                                 *)

\* A round of the inner loop; ok becomes FALSE at an action it does not know,
\* where the function returns.
NextAction(m, read) ==
  IF read.ok
  THEN LET id == At(m, read.next)
       IN  IF id \in ActionIndex
           THEN [actions |-> Append(read.actions,
                   [id |-> id, data |-> Block(m, read.next + 1, ActionSize[id])]),
                 next |-> read.next + 1 + ActionSize[id], ok |-> TRUE]
           ELSE [read EXCEPT !.next = @ + 1, !.ok = FALSE]
  ELSE read

\* The inner loop, with count actions to read from an index on: it ends when
\* they are read, or at the first it does not know.
ActionsFrom(m, first, count) ==
  LET read[n \in 0..count] ==
        IF n = 0 THEN [actions |-> <<>>, next |-> first, ok |-> TRUE]
        ELSE NextAction(m, read[n - 1])
      Ends(n) == n = count \/ ~read[n].ok
  IN  read[CHOOSE n \in 0..count : Ends(n) /\ \A k \in 0..(n - 1) : ~Ends(k)]

\* The outer loop ends before the check byte or with the function.
GoesOn(m, read) == read.ok /\ read.next < Len(m) - 1

\* A round of it: a group completed, or the actions added to one that is not.
NextGroup(m, read) ==
  IF GoesOn(m, read)
  THEN LET list == ActionsFrom(m, read.next + 2, At(m, read.next + 1))
           here == [id |-> At(m, read.next), actions |-> list.actions]
       IN  IF list.ok
           THEN [groups |-> Append(read.groups, here), residue |-> <<>>,
                 next |-> list.next, ok |-> TRUE]
           ELSE [groups |-> read.groups, residue |-> list.actions,
                 next |-> list.next, ok |-> FALSE]
  ELSE read

\* A round reads two bytes or more, so that the loop ends before there were as many
\* rounds as bytes; a round after its end changes nothing.
ParsedGroups(m) ==
  LET read[n \in 0..Len(m)] ==
        IF n = 0
        THEN [groups |-> <<>>, residue |-> <<>>, next |-> HeaderLength, ok |-> TRUE]
        ELSE NextGroup(m, read[n - 1])
  IN  read[CHOOSE n \in 0..Len(m) : ~GoesOn(m, read[n])]

----------------------------------------------------------------------------
(* ParseNnMsg: here i is a uint8_t, so it wraps after 255.                 *)

NextNeuron(m, read) ==
  LET length == At(m, read.next)
      start == (read.next + 1) % U8
      end == (start + length) % U8
  IN  [neurons |-> Append(read.neurons,
                          [bytes |-> Block(m, start, length), cat |-> At(m, end)]),
       next |-> (end + 1) % U8]

NeuronsFrom(m, first, count) ==
  LET read[n \in 0..count] ==
        IF n = 0 THEN [neurons |-> <<>>, next |-> first]
        ELSE NextNeuron(m, read[n - 1])
  IN  read[count].neurons

ParsedNn(m) ==
  LET sensors == At(m, HeaderLength)
      i == (HeaderLength + 1 + sensors) % U8
  IN  [sensors |-> [k \in 1..sensors |-> At(m, (HeaderLength + k) % U8)],
       neurons |-> NeuronsFrom(m, (i + 1) % U8, At(m, i))]
=============================================================================
