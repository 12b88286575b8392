-------------------------- MODULE TrajectoryPlanner --------------------------
(***************************************************************************)
(* TrajectoryPlanner::Reset and ::Plan (trajectoryplanner.cpp), called one *)
(* after the other by OptiPostWork: each target's robot is given a turn    *)
(* and a number of steps; of two robots closer than min_dis one waits, and *)
(* one that has waited too often side-steps instead.                       *)
(*                                                                         *)
(* Angles are integers modulo CIRCLE (2*PI), positions and their distance  *)
(* abstract.  C arrays start at 0, the sequences here at 1.                *)
(***************************************************************************)
EXTENDS Integers, Sequences, FiniteSets

CONSTANTS
  Robot,             \* ids, integers
  Point, Dist,       \* positions and their distance
  Origin,            \* the point Reset measures from
  Bearing,           \* the direction from a point to another, in 0..CIRCLE-1
  CIRCLE,            \* 2*PI
  min_dis,
  wait_max_number,
  Slots,             \* entries of id_to_id, 5050 in the code
  Calls              \* the inputs considered: records [info, targets]

Info == [id : Robot, theta : 0..(CIRCLE - 1), pos : Point]
Target == [id : Robot, pos : Point]

\* Both lists come from std::maps, in ascending order of id.
Ascending(list) ==
  \A j, k \in DOMAIN list : j < k => list[j].id < list[k].id

ASSUME PlannerAssumption ==
  /\ Robot \subseteq Nat
  /\ CIRCLE \in Nat \ {0} /\ CIRCLE % 4 = 0
  /\ Origin \in Point
  /\ Dist \in [Point -> [Point -> Nat]]
  /\ \A p, q \in Point : Dist[p][q] = Dist[q][p]
  /\ Bearing \in [Point -> [Point -> 0..(CIRCLE - 1)]]
  /\ min_dis \in Nat /\ wait_max_number \in Nat /\ Slots \in Nat
  /\ Calls \subseteq [info : Seq(Info), targets : Seq(Target)]
  /\ \A c \in Calls : /\ Ascending(c.info) /\ Ascending(c.targets)
                       /\ Len(c.info) <= Slots /\ Len(c.targets) <= Slots

\* An entry of out_action that Plan never wrote.
Uninit == [uninit |-> TRUE]

NoCall == [info |-> <<>>, targets |-> <<>>]

PI == CIRCLE \div 2

VARIABLES
  max_dis,           \* (max_dis_x, max_dis_y): the target farthest from Origin
  id_to_id,          \* how often the robot at an index has had to wait
  call,              \* the input of the round being carried out
  action_list,       \* ... and its output, Uninit where Plan wrote nothing
  overrun,           \* Plan wrote past the end of out_action in this round
  located,           \* history: the robots located in the last round
  waited             \* history: waits in a row of each robot, while the robots
                     \* located are the same in every call

vars == <<max_dis, id_to_id, call, action_list, overrun, located, waited>>

Abs(n) == IF n < 0 THEN -n ELSE n

\* The constructor zeroes max_dis_x and max_dis_y.
Init ==
  /\ max_dis = Origin
  /\ id_to_id = [k \in 1..Slots |-> 0]
  /\ call = NoCall /\ action_list = <<>> /\ overrun = FALSE
  /\ located = {}
  /\ waited = [r \in Robot |-> 0]

\* Reset: the first of the farthest targets.  The point of the call before
\* stays when there is no target, or none away from the origin.
Farthest(targets) ==
  LET away == {k \in DOMAIN targets : Dist[Origin][targets[k].pos] > 0}
      far == {k \in away : \A j \in away :
                LET dk == Dist[Origin][targets[k].pos]
                    dj == Dist[Origin][targets[j].pos]
                IN  dj < dk \/ (dj = dk /\ k <= j)}
  IN  IF away = {} THEN max_dis ELSE targets[CHOOSE k \in far : TRUE].pos

\* Mutant of Turn: one formula for both signs.
Turn_OneSign(theta, bearing) ==
  LET delta_rad1 == theta - bearing
      delta_rad2 == CIRCLE + delta_rad1
  IN  IF Abs(delta_rad1) > Abs(delta_rad2) THEN delta_rad2 ELSE delta_rad1

\* Step 2: the shorter way to turn from theta to the bearing of the target.
Turn(theta, bearing) ==
  LET delta_rad1 == theta - bearing
      delta_rad2 == IF delta_rad1 < 0 THEN CIRCLE + delta_rad1
                                      ELSE delta_rad1 - CIRCLE
  IN  IF Abs(delta_rad1) > Abs(delta_rad2) THEN delta_rad2 ELSE delta_rad1

Locates(info, id) == {k \in DOMAIN info : info[k].id = id}

\* Step 3: of each pair too close, the index of the robot that is to wait: the
\* one farther from max_dis.  Indices are of info, not of the targets.
TooClose(info) ==
  {p \in (DOMAIN info) \X (DOMAIN info) :
     /\ info[p[1]].id < info[p[2]].id
     /\ Dist[info[p[1]].pos][info[p[2]].pos] < min_dis}

\* Mutant of Yields: a tie left undecided.
Yields_NoTie(info, far, p) ==
  LET d1 == Dist[info[p[1]].pos][far]
      d2 == Dist[info[p[2]].pos][far]
  IN  CASE d1 < d2 -> p[2] [] d2 < d1 -> p[1] [] OTHER -> 0

Yields(info, far, p) ==
  IF Dist[info[p[1]].pos][far] < Dist[info[p[2]].pos][far] THEN p[2] ELSE p[1]
\* Mutant of Waits: in a tie both robots wait.
Waits_Both(info, far, k) ==
  Cardinality({p \in TooClose(info) :
    \E j \in {p[1], p[2]} : k \in {p[1], p[2]} \ {j}
                            /\ Dist[info[j].pos][far] <= Dist[info[k].pos][far]})
Waits(info, far, k) ==
  Cardinality({p \in TooClose(info) : Yields(info, far, p) = k})

\* The counters after step 3, and the targets step 4 lets side-step.
Counters(info, far) == [k \in 1..Slots |-> id_to_id[k] + Waits(info, far, k)]
\* Mutant of SideSteps: an off-by-one in the number of waits.
SideSteps_Late(info, targets, count) ==
  {k \in DOMAIN targets :
     count[k] > wait_max_number + 1 /\ Locates(info, targets[k].id) # {}}
SideSteps(info, targets, count) ==
  {k \in DOMAIN targets :
     count[k] > wait_max_number /\ Locates(info, targets[k].id) # {}}

\* What out_action[k] holds in the end.  Where no robot is located for a target
\* the entry keeps whatever was on the stack.
ActionFor(info, targets, far, free, k) ==
  LET t == targets[k]
      here == info[CHOOSE j \in Locates(info, t.id) : TRUE]
      turn == Turn(here.theta, Bearing[here.pos][t.pos])
  IN  IF Locates(info, t.id) = {} THEN Uninit
      ELSE IF k \in free
        THEN [id |-> t.id, delta_theta |-> turn - PI \div 2, detla_step |-> 3]
      ELSE IF Waits(info, far, k) > 0
        THEN [id |-> t.id, delta_theta |-> turn, detla_step |-> 0]
        ELSE [id |-> t.id, delta_theta |-> turn, detla_step |-> 5]

\* The robots located are exactly those that have a target.
IdsOf(list) == {list[k].id : k \in DOMAIN list}
Matched(c) == IdsOf(c.info) = IdsOf(c.targets)

\* The robots that Plan has calculated an action for, and leaves standing.
Standing(actions) ==
  {actions[k].id : k \in {j \in DOMAIN actions :
                            actions[j] # Uninit /\ actions[j].detla_step = 0}}

\* Reset and Plan of one planning round; onXpiderPlannerUpdated skips Plan
\* when there is no target.
Replan(c) ==
  /\ call = NoCall
  /\ LET far == Farthest(c.targets)
         count == Counters(c.info, far)
         free == SideSteps(c.info, c.targets, count)
         actions == [k \in DOMAIN c.targets |-> ActionFor(c.info, c.targets, far, free, k)]
         same == Matched(c) /\ IdsOf(c.info) = located
     IN  /\ call' = c /\ located' = IdsOf(c.info)
         /\ max_dis' = far
         /\ action_list' = actions
         /\ IF c.targets = <<>>
              THEN overrun' = FALSE /\ UNCHANGED id_to_id
              ELSE /\ overrun' = \E k \in (1..Slots) \ DOMAIN c.targets :
                                   Waits(c.info, far, k) > 0
                   /\ id_to_id' = [k \in 1..Slots |-> IF k \in free THEN 0 ELSE count[k]]
         /\ waited' = [r \in Robot |->
                         IF Matched(c) /\ r \in Standing(actions)
                           THEN (IF same THEN waited[r] + 1 ELSE 1) ELSE 0]

\* The actions have been handed to the sockets and out_action is gone.
Done ==
  /\ call # NoCall
  /\ call' = NoCall /\ action_list' = <<>> /\ overrun' = FALSE
  /\ UNCHANGED <<max_dis, id_to_id, located, waited>>

Next == Done \/ \E c \in Calls : Replan(c)

Spec == Init /\ [][Next]_vars

-----------------------------------------------------------------------------

\* What the variables hold.
TypeOK ==
  /\ max_dis \in Point
  /\ id_to_id \in [1..Slots -> Nat]
  /\ call \in [info : Seq(Info), targets : Seq(Target)] /\ located \subseteq Robot
  /\ \A k \in DOMAIN action_list :
       \/ action_list[k] = Uninit
       \/ action_list[k] \in [id : Robot, delta_theta : Int, detla_step : {0, 3, 5}]
  /\ overrun \in BOOLEAN /\ waited \in [Robot -> Nat]

\* A robot turns the shorter way, and after the turn it faces its target:
\* step 2's case analysis on the sign agrees with arithmetic modulo 2*PI.
TurnsToTarget ==
  \A k \in DOMAIN action_list, j \in DOMAIN call.info :
    LET a == action_list[k]
        b == Bearing[call.info[j].pos][call.targets[k].pos]
    IN  a # Uninit /\ a.id = call.info[j].id /\ a.detla_step # 3 =>
          /\ -PI <= a.delta_theta /\ a.delta_theta <= PI
          /\ (call.info[j].theta - a.delta_theta - b) % CIRCLE = 0

\* Two robots located closer together than min_dis.
Crowding == {p \in (DOMAIN call.info) \X (DOMAIN call.info) :
               p[1] < p[2] /\ Dist[call.info[p[1]].pos][call.info[p[2]].pos] < min_dis}

\* Of two robots closer than min_dis at most one walks on towards its target,
\* and step 3 writes nothing past the end of out_action, when the robots located
\* are those with a target.
NeverBothAdvance ==
  Matched(call) =>
    /\ ~overrun
    /\ \A p \in Crowding :
         ~(action_list[p[1]].detla_step = 5 /\ action_list[p[2]].detla_step = 5)

\* ... and in a crowd somebody always moves: the waiting robots cannot all be
\* waiting for each other.
SomebodyMoves ==
  Matched(call) /\ call.info # <<>> =>
    \E k \in DOMAIN action_list : action_list[k].detla_step > 0

\* ... and nobody is left standing more than wait_max_number rounds in a row
\* while the same robots are located.
WaitIsBounded == \A r \in Robot : waited[r] <= wait_max_number

-----------------------------------------------------------------------------
(* What the comments say of Plan, for any input.                           *)

\* "out_action, the calculated action of all xpiders" (trajectoryplanner.h):
\* every entry of the length Plan returns was calculated.
ActionsCalculated == \A k \in DOMAIN action_list : action_list[k] # Uninit

\* Of two robots below the safety distance the one of lower priority, farther
\* from the farthest target, has its step set to zero (trajectoryplanner.cpp);
\* step 4 may let it side-step instead.
LowerPriorityStops ==
  \A p \in Crowding, k \in DOMAIN action_list :
    LET a == action_list[k]
        other == CHOOSE j \in {p[1], p[2]} : call.info[j].id # a.id
        own == IF other = p[1] THEN p[2] ELSE p[1]
    IN  /\ a # Uninit /\ a.id \in {call.info[p[1]].id, call.info[p[2]].id}
        /\ Dist[call.info[other].pos][max_dis] < Dist[call.info[own].pos][max_dis]
        => a.detla_step # 5
=============================================================================
