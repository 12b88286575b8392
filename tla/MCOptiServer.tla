---------------------------- MODULE MCOptiServer ----------------------------
(* Instances of OptiServer for TLC: packet lengths chosen per run.          *)
EXTENDS OptiServer

\* Two payloads of 2 bytes, and between them a packet of MAX_MESSAGE_LEN = 4 and 1 byte.
LongCmds == <<"upload", "other", "upload">>
LongBetween == <<4, 5, 4>>
\* A payload of 2 bytes, a bare header whose length is below its own
\* (MESSAGE_HEAD_LEN = 2), too long a packet, a payload again.
MixedCmds == <<"upload", "other", "upload", "other">>
MixedLens == <<4, 1, 5, 4>>
=============================================================================
