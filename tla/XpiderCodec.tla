----------------------------- MODULE XpiderCodec -----------------------------
(***************************************************************************)
(* The messages of fixed layout of XpiderProtocol: which field of          *)
(* XpiderInfo GetBuffer, GetRegister, UpdateRegister and RegisterResponse   *)
(* put where, and from where GetMessage takes it.  A field is the sequence  *)
(* of the bytes that stand for it in a message (a float that is scaled to   *)
(* an int16_t is the int16_t); a C string keeps its NUL.                    *)
(*                                                                         *)
(* Two versions of the codec are in use: "center", that of XpiderCenterGUI *)
(* and HelloXpiderCenter, and "client", that of TestXpiderClient, which is *)
(* older.  They write the messages both know in the same way.              *)
(***************************************************************************)
EXTENDS Integers, Sequences, SequencesExt

Type == [kHeartBeat |-> 0, kMove |-> 1, kFrontLeds |-> 2, kEye |-> 3,
         kAutoPilot |-> 4, kRun |-> 7, kEmergencyStop |-> 8, kGetRegister |-> 9,
         kUpdateRegister |-> 10, kRegisterResponse |-> 11, kStep |-> 13,
         kAutoMove |-> 14]

\* kRegUUID, kRegName, kRegVersion, kRegFirmware, counted from 0.
RegField == <<"uuid", "name", "hardware_version", "firmware_version_">>

\* What GetBuffer puts behind the type byte, in this order.
Written ==
  [kHeartBeat |-> <<"step_counter", "obstacle_distance", "voltage",
                    "yaw_pitch_roll", "sound_level">>,
   kEye       |-> <<"eye_power", "eye_angle">>,
   kFrontLeds |-> <<"left_led_rgb", "right_led_rgb">>,
   kMove      |-> <<"move", "rotate">>,
   kStep      |-> <<"count_speed", "count">>,
   kAutoMove  |-> <<"rotate_speed", "rotate_rad", "walk_speed", "walk_step">>,
   kAutoPilot |-> <<"autopilot_enable", "autopilot_heading">>,
   kRun |-> <<>>, kEmergencyStop |-> <<>>]

\* How many bytes of a message stand for a field.
Width ==
  [step_counter |-> 2, obstacle_distance |-> 2, voltage |-> 2, yaw_pitch_roll |-> 12,
   sound_level |-> 1, eye_power |-> 1, eye_angle |-> 1, left_led_rgb |-> 3,
   right_led_rgb |-> 3, move |-> 1, rotate |-> 1, count_speed |-> 1, count |-> 1,
   rotate_speed |-> 1, rotate_rad |-> 4, walk_speed |-> 1, walk_step |-> 1,
   autopilot_enable |-> 1, autopilot_heading |-> 2]

\* What XpiderInfo holds: these fields and the strings of the registers.
IsInfo(info) ==
  /\ DOMAIN info = DOMAIN Width \cup ToSet(RegField)
  /\ \A f \in DOMAIN info : info[f] \in Seq(0..255)
  /\ \A f \in DOMAIN Width : Len(info[f]) = Width[f]

\* The offset in the message at which GetMessage finds a field.
ReadAt ==
  [kHeartBeat |-> [step_counter |-> 1, obstacle_distance |-> 3, voltage |-> 5,
                   yaw_pitch_roll |-> 7, sound_level |-> 13],
   kEye       |-> [eye_power |-> 1, eye_angle |-> 2],
   kFrontLeds |-> [left_led_rgb |-> 1, right_led_rgb |-> 4],
   kMove      |-> [move |-> 1, rotate |-> 2],
   kStep      |-> [count_speed |-> 1, count |-> 2],
   kAutoMove  |-> [rotate_speed |-> 1, rotate_rad |-> 2, walk_speed |-> 6,
                   walk_step |-> 7],
   kAutoPilot |-> [autopilot_enable |-> 1, autopilot_heading |-> 2]]

\* The older version knows neither steps nor automatic moves, and takes the sound
\* level from where it was put.
ClientTypes == DOMAIN Written \ {"kStep", "kAutoMove"}
ClientReadAt ==
  [t \in DOMAIN ReadAt \cap ClientTypes |->
     IF t = "kHeartBeat" THEN [ReadAt[t] EXCEPT !.sound_level = 19] ELSE ReadAt[t]]

TypesOf(version) == IF version = "client" THEN ClientTypes ELSE DOMAIN Written
LayoutOf(version) == IF version = "client" THEN ClientReadAt ELSE ReadAt

\* An autopilot message that switches it off ends after the switch.
AutoPilotOff(info) == info.autopilot_enable = <<0>>

GetBuffer(type, info) ==
  LET fields == IF type = "kAutoPilot" /\ AutoPilotOff(info)
                  THEN <<"autopilot_enable">> ELSE Written[type]
  IN  <<Type[type]>> \o FlattenSeq([i \in DOMAIN fields |-> info[fields[i]]])

GetRegister(reg) == <<Type.kGetRegister, reg>>
RegisterMessage(type, reg, info) ==
  <<type, reg, Len(info[RegField[reg + 1]])>> \o info[RegField[reg + 1]]
UpdateRegister(reg, info) == RegisterMessage(Type.kUpdateRegister, reg, info)
RegisterResponse(reg, info) == RegisterMessage(Type.kRegisterResponse, reg, info)

\* n bytes of the message from offset o; what lies behind its end is not told.
Take(m, o, n) == [k \in 1..n |-> IF o + k <= Len(m) THEN m[o + k] ELSE 0]

\* Mutant of GetMessage: the switch of the autopilot does not decide what is read.
GetMessage_AlwaysHeading(version, m, info) ==
  LET layout == LayoutOf(version)
      types == {t \in DOMAIN layout : Type[t] = m[1]}
  IN  [f \in DOMAIN info |->
         IF \E t \in types : f \in DOMAIN layout[t]
           THEN Take(m, layout[CHOOSE t \in types : TRUE][f], Len(info[f])) ELSE info[f]]

\* What GetMessage leaves in xpider_info_, the two long messages apart.
GetMessage(version, m, info) ==
  LET layout == LayoutOf(version)
      types == {t \in DOMAIN layout : Type[t] = m[1]}
      second == Take(m, 1, 1)[1]
      read(t) == IF t = "kAutoPilot" /\ second = 0
                   THEN {"autopilot_enable"} ELSE DOMAIN layout[t]
  IN  IF m[1] \in {Type.kUpdateRegister, Type.kRegisterResponse}
        THEN [f \in DOMAIN info |->
                IF second < 4 /\ f = RegField[second + 1]
                  THEN Take(m, 3, Take(m, 2, 1)[1]) ELSE info[f]]
        ELSE [f \in DOMAIN info |->
                IF \E t \in types : f \in read(t)
                  THEN Take(m, layout[CHOOSE t \in types : TRUE][f], Len(info[f]))
                  ELSE info[f]]
=============================================================================
