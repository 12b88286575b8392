------------------------- MODULE MCXpiderProtocol -------------------------
(* Instances of XpiderProtocol for TLC: the messages sent in each run.      *)
EXTENDS XpiderProtocol

Walk == [id |-> 0, data |-> <<3, 0, 44, 1>>]
Rotate == [id |-> 1, data |-> <<9, 0, 20, 0>>]
Led == [id |-> 2, data |-> <<15, 0, 5, 6, 7, 9, 10, 0>>]
Eye == [id |-> 3, data |-> <<6, 0, 2, 0>>]
Speaker == [id |-> 4, data |-> <<5, 0, 0, 0>>]

\* One group, then two of which one is empty.  The sum of the first neurons wraps.
Groups == {[ver |-> 1, groups |-> <<[id |-> 7, actions |-> <<Walk, Eye>>]>>],
           [ver |-> 5, groups |-> <<[id |-> 6, actions |-> <<Led>>],
                                    [id |-> 7, actions |-> <<>>]>>]}
Neurons == {[ver |-> 6, sensors |-> <<1, 3>>,
             neurons |-> <<[bytes |-> <<60, 70, 80>>, cat |-> 12]>>],
            [ver |-> 5, sensors |-> <<2>>, neurons |-> <<>>]}

\* Four neurons of MAX_NN_NEURON_BYTES: a message of 272 bytes.
LongNeurons == {[ver |-> 1, sensors |-> <<1>>,
                 neurons |-> [n \in 1..4 |->
                   [bytes |-> [i \in 1..64 |-> n], cat |-> 10 + n]]]}
=============================================================================
