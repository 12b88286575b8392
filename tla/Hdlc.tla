-------------------------------- MODULE Hdlc --------------------------------
(***************************************************************************)
(* HDLC_qt (hdlc_qt.cpp): frames between 0x7E octets, 0x7E and 0x7D in them *)
(* escaped, a frame check sequence at the end.  An octet received carries   *)
(* its value in the field "byte".                                           *)
(***************************************************************************)
EXTENDS Integers, Sequences, SequencesExt

CONSTANTS
  Fcs(_),            \* the inverted qChecksum of a message: its low and high byte
  MaxFrame           \* the size at which the receiver gives up (2048)

FRAME_BOUNDARY_OCTET == 126
CONTROL_ESCAPE_OCTET == 125
Special == {FRAME_BOUNDARY_OCTET, CONTROL_ESCAPE_OCTET}

\* b ^ INVERT_OCTET, which flips the bit of value 32.
Invert(b) == IF (b \div 32) % 2 = 0 THEN b + 32 ELSE b - 32

Escaped(b) == IF b \in Special THEN <<CONTROL_ESCAPE_OCTET, Invert(b)>> ELSE <<b>>

\* frameDecode is the encoder, for all its name.
frameDecode(m) ==
  LET body == m \o Fcs(m)
  IN  <<FRAME_BOUNDARY_OCTET>> \o FlattenSeq([i \in DOMAIN body |-> Escaped(body[i])])
        \o <<FRAME_BOUNDARY_OCTET>>

-----------------------------------------------------------------------------
Values(octets) == [k \in DOMAIN octets |-> octets[k].byte]

hdlcFrameCRC_check(frame) ==
  LET n == Len(frame)
  IN  Fcs(Values(SubSeq(frame, 1, n - 2))) = Values(SubSeq(frame, n - 1, n))

\* The receiver: receive_frame_buffer, whose length is frame_position,
\* escape_character, and the frames handed over so far.
EndsFrame(rx, e) ==
  /\ e.byte = FRAME_BOUNDARY_OCTET /\ ~rx.escape
  /\ Len(rx.buffer) >= 4 /\ hdlcFrameCRC_check(rx.buffer)

\* Mutant of Boundary: only a valid frame clears the buffer.
Boundary_ClearsValid(rx, e) ==
  IF EndsFrame(rx, e)
    THEN [buffer |-> <<>>, escape |-> FALSE,
          frames |-> Append(rx.frames, SubSeq(rx.buffer, 1, Len(rx.buffer) - 2))]
    ELSE [rx EXCEPT !.escape = FALSE]

\* A boundary clears the buffer, and an escape before it.
Boundary(rx, e) ==
  [buffer |-> <<>>, escape |-> FALSE,
   frames |-> IF EndsFrame(rx, e)
                THEN Append(rx.frames, SubSeq(rx.buffer, 1, Len(rx.buffer) - 2))
                ELSE rx.frames]

Data(rx, e) ==
  LET grown == Append(rx.buffer, IF rx.escape THEN [e EXCEPT !.byte = Invert(@)] ELSE e)
  IN  [rx EXCEPT !.escape = FALSE,
                 !.buffer = IF Len(grown) >= MaxFrame THEN <<>> ELSE grown]

\* Mutant of Receive: the buffer outlives the boundary that ends a frame.
Receive_KeepsFrame(rx, e) ==
  IF e.byte = FRAME_BOUNDARY_OCTET
    THEN [Boundary(rx, e) EXCEPT !.buffer = IF EndsFrame(rx, e) THEN rx.buffer ELSE <<>>]
    ELSE IF e.byte = CONTROL_ESCAPE_OCTET /\ ~rx.escape
      THEN [rx EXCEPT !.escape = TRUE] ELSE Data(rx, e)

\* The loop body of charReceiver.
Receive(rx, e) ==
  IF e.byte = FRAME_BOUNDARY_OCTET THEN Boundary(rx, e)
  ELSE IF e.byte = CONTROL_ESCAPE_OCTET /\ ~rx.escape
    THEN [rx EXCEPT !.escape = TRUE]
    ELSE Data(rx, e)

charReceiver(rx, octets) ==
  LET after[n \in 0..Len(octets)] ==
        IF n = 0 THEN [rx EXCEPT !.frames = <<>>] ELSE Receive(after[n - 1], octets[n])
  IN  after[Len(octets)]
=============================================================================
