----------------------------- MODULE MCRobotLink -----------------------------
(* Instances of RobotLink for TLC: two states of a robot, their bytes chosen *)
(* to need escapes in the payload and in the check bytes.                    *)
EXTENDS RobotLink

\* A position-dependent sum stands in for the CRC.
FletcherFcs(m) ==
  LET sums == FoldLeft(LAMBDA acc, b : <<(acc[1] + b) % 256, (acc[1] + b + acc[2]) % 256>>,
                       <<3, 7>>, m)
  IN  <<255 - sums[1], 255 - sums[2]>>

Zero(n) == [k \in 1..n |-> 0]
FreshInfo ==
  [step_counter |-> Zero(2), obstacle_distance |-> Zero(2), voltage |-> Zero(2),
   yaw_pitch_roll |-> Zero(12), sound_level |-> Zero(1), eye_power |-> Zero(1),
   eye_angle |-> Zero(1), left_led_rgb |-> Zero(3), right_led_rgb |-> Zero(3),
   move |-> Zero(1), rotate |-> Zero(1), count_speed |-> Zero(1), count |-> Zero(1),
   rotate_speed |-> Zero(1), rotate_rad |-> Zero(4), walk_speed |-> Zero(1),
   walk_step |-> Zero(1), autopilot_enable |-> Zero(1), autopilot_heading |-> Zero(2),
   uuid |-> Zero(4), name |-> <<85, 0>>, hardware_version |-> <<0>>,
   firmware_version_ |-> <<0>>]

InfoA ==
  [step_counter |-> <<126, 1>>, obstacle_distance |-> <<2, 125>>, voltage |-> <<94, 93>>,
   yaw_pitch_roll |-> [k \in 1..12 |-> 30 + k], sound_level |-> <<9>>,
   eye_power |-> <<1>>, eye_angle |-> <<126>>, left_led_rgb |-> <<125, 126, 94>>,
   right_led_rgb |-> <<11, 12, 13>>, move |-> <<14>>, rotate |-> <<125>>,
   count_speed |-> <<15>>, count |-> <<16>>, rotate_speed |-> <<100>>,
   rotate_rad |-> <<17, 126, 18, 19>>, walk_speed |-> <<85>>, walk_step |-> <<5>>,
   autopilot_enable |-> <<1>>, autopilot_heading |-> <<20, 21>>,
   uuid |-> <<22, 126, 23, 24>>, name |-> <<88, 80, 0>>, hardware_version |-> <<25, 0>>,
   firmware_version_ |-> [k \in 1..19 |-> IF k < 19 THEN 64 + k ELSE 0]]
InfoB == [InfoA EXCEPT !.eye_angle = <<59>>, !.autopilot_enable = <<0>>, !.walk_step = <<125>>]

Of(type, reg, inf) == [type |-> type, reg |-> reg, info |-> inf]
SomeMessages ==
  {Of(t, 0, InfoA) : t \in {"kHeartBeat", "kFrontLeds", "kAutoPilot", "kAutoMove",
                            "kEye"}}
  \cup {Of("kAutoPilot", 0, InfoB), Of("kGetRegister", 2, InfoA),
        Of("kUpdateRegister", 1, InfoA), Of("kRegisterResponse", 0, InfoA)}
SomeJunk == {<<>>, [k \in 1..23 |-> 0]}
=============================================================================
