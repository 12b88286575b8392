----------------------- MODULE HelloTrajectoryPlanner -----------------------
(***************************************************************************)
(* The planner of the older program (HelloXpiderCenter) beside the present *)
(* one, given the same robots and targets.  It has no state of its own     *)
(* worth keeping but id_to_id, which nothing initialises or resets: which  *)
(* robots have waited exactly ten times is a parameter.                    *)
(***************************************************************************)
EXTENDS TrajectoryPlanner

\* MoveToPostWork: the located robots in the order of the targets, so that one
\* index serves both lists.  The entry of a robot that was not located keeps
\* what an earlier round left there.
HelloMoveToPostWork(c) ==
  [k \in DOMAIN c.targets |->
     IF Locates(c.info, c.targets[k].id) = {} THEN Uninit
     ELSE c.info[CHOOSE j \in Locates(c.info, c.targets[k].id) : TRUE]]

\* The target straight above or below, or reached: its x is the robot's.
SameX(p, q) == p = q \/ Bearing[p][q] % PI = PI \div 2

\* A1: the angle from atan and the signs of the differences, which are no help
\* when the target is due left.
A1(b) == IF b = PI THEN 0 ELSE b

\* Mutant of HelloTurn: the sign is not looked at.
HelloTurn_Unsigned(theta, b) ==
  LET D_a == Abs(theta - A1(b))
      D_b == CIRCLE - D_a
  IN  IF D_a > D_b THEN D_b ELSE D_a

\* Step 2: the smaller angle, negative if adding it to theta gives A1.
HelloTurn(theta, b) ==
  LET D_a == Abs(theta - A1(b))
      D_b == CIRCLE - D_a
      D_min == IF D_a > D_b THEN D_b ELSE D_a
  IN  IF A1(b) - D_min = theta THEN -D_min ELSE D_min

\* A step that Plan never wrote: whatever was on the stack.
Unset == -1

\* Mutant of HelloPlan: step 3 comes before step 2, which sets the steps.
HelloPlan_StepsLast(info, targets, far, tired) ==
  [k \in DOMAIN targets |->
     LET here == info[k].pos
         there == targets[k].pos
     IN  [id |-> targets[k].id,
          delta_theta |-> HelloTurn(info[k].theta, Bearing[here][there]),
          detla_step |-> IF here = there THEN 0 ELSE IF SameX(here, there) THEN Unset ELSE 5]]

\* The whole of Plan for lists without stale entries: steps 2 to 5.  With the
\* same x the turn does not look at the heading, and no step is set.
HelloPlan(info, targets, far, tired) ==
  [k \in DOMAIN targets |->
     LET here == info[k].pos
         there == targets[k].pos
         turn == IF ~SameX(here, there)
                   THEN HelloTurn(info[k].theta, Bearing[here][there])
                 ELSE IF here # there /\ Bearing[here][there] < PI THEN 0 ELSE PI
     IN  [id |-> targets[k].id,
          delta_theta |-> IF k \in tired THEN turn + PI \div 2 ELSE turn,
          detla_step |-> IF Waits(info, far, k) > 0 \/ here = there THEN 0
                         ELSE IF SameX(here, there) THEN Unset ELSE 5]]

-----------------------------------------------------------------------------

\* The round with some of its targets only, those at the indices of pick: others
\* are located as well.
Thinned(pick) ==
  [info |-> call.info, targets |-> [k \in DOMAIN pick |-> call.targets[pick[k]]]]

\* Every target's robot was located, so that the older program reads no entry
\* of an earlier round.
Fresh(c) == \A k \in DOMAIN c.targets : Locates(c.info, c.targets[k].id) # {}

HelloActions(c) == HelloPlan(HelloMoveToPostWork(c), c.targets, Farthest(c.targets), {})

\* The older program turns a robot to its target as the present one does, which
\* is: unless the target is due left or has the robot's x, or the shorter way
\* leads across the heading of zero, where it turns the wrong way round.
HelloTurnsToTarget ==
  Fresh(call) => \A k \in DOMAIN call.targets :
    LET h == HelloMoveToPostWork(call)[k]
        b == Bearing[h.pos][call.targets[k].pos]
    IN  ~SameX(h.pos, call.targets[k].pos) /\ b # PI /\ Abs(h.theta - b) <= PI =>
          (HelloActions(call)[k].delta_theta - Turn(h.theta, b)) % CIRCLE = 0

\* It keeps one index for a target and its robot, so that of two robots closer
\* than min_dis never both advance, whichever of the located robots have a
\* target: the present planner, which does not, needs that all of them do.
HelloNeverBothAdvance ==
  \A n \in 0..Len(call.targets) : \A pick \in [1..n -> DOMAIN call.targets] :
    LET c == Thinned(pick)
        list == HelloMoveToPostWork(c)
        actions == HelloActions(c)
    IN  (\A j, k \in 1..n : j < k => pick[j] < pick[k]) /\ Fresh(c) =>
          \A j, k \in 1..n :
            j < k /\ Dist[list[j].pos][list[k].pos] < min_dis =>
              actions[j].detla_step = 0 \/ actions[k].detla_step = 0

\* What the older program decides in every round the present one plans.
HelloPlansRight == HelloTurnsToTarget /\ HelloNeverBothAdvance
=============================================================================
