---------------------------- MODULE OptiPostWork ----------------------------
(***************************************************************************)
(* The planning pipeline of OptiService (optiserver.cpp): on the GUI       *)
(* thread a camera frame may trigger a round, for which MoveToPostWork     *)
(* copies the targets and the located robots into OptiPostWork and         *)
(* plannerUpdate() is queued; on planner_thread_ the slot                  *)
(* onXpiderPlannerUpdated reads the copies, plans, and posts one AutoMove  *)
(* per action to the sockets.  The copies are guarded by no lock: what     *)
(* keeps the two threads apart is that rounds are INTERVAL_POST_TASK apart *)
(* and a round takes less.                                                 *)
(*                                                                         *)
(* What is copied is written and read element by element, so that a write  *)
(* in the middle of a read is a state.  Time is QTime::elapsed(), which    *)
(* wraps after a day.  What Plan computes is abstracted to the ids of the  *)
(* robots it has actions for (TrajectoryPlanner has the rest).             *)
(***************************************************************************)
EXTENDS Integers, Sequences, FiniteSets

CONSTANTS
  Robot,                 \* ids, integers: std::map order
  INTERVAL_POST_TASK,    \* in ticks, as are the next two
  RoundTime,             \* a round, once triggered, takes no longer than this
  Day                    \* elapsed() counts modulo this

ASSUME PostWorkAssumption ==
  /\ Robot \subseteq Nat /\ IsFiniteSet(Robot)
  /\ INTERVAL_POST_TASK \in Nat /\ RoundTime \in Nat /\ Day \in Nat \ {0}

\* The rounds are short enough: an assumption on the machine, not in the code.
ASSUME RoundsAreShort == RoundTime <= INTERVAL_POST_TASK

VARIABLES
  target_map_,           \* robots that have a target
  is_planner_running_,
  elapsed,               \* time_.elapsed()
  last_trigger_,
  gui,                   \* where the GUI thread is in onPayloadReady
  todo,                  \* targets MoveToPostWork has yet to copy
  info,                  \* xpider_info_list of this frame
  target_list_,          \* OptiPostWork: the copies (list_len_ is its length,
                         \* target_len_ and the planner's own list follow)
  xpider_list_,
  target_len_,           \* planner_.target_len_, set by Reset
  queued,                \* plannerUpdate signals not yet delivered
  planner,               \* where the planner thread is in its slot
  action_size,           \* the length of its array action_list
  actions,               \* the robots it has yet to send an AutoMove to
  since,                 \* history: ticks since the last trigger, at most Day
  late,                  \* history: AutoMoves to each robot since it had no
                         \* target any more, at most 2 counted
  garbage,               \* history: an action left uninitialised was sent
  overrun                \* history: more actions written than the array holds

guiVars == <<target_map_, is_planner_running_, gui, todo, info>>
sharedVars == <<target_list_, xpider_list_, target_len_>>
plannerVars == <<planner, action_size, actions>>
clockVars == <<elapsed, last_trigger_, since>>
historyVars == <<late, garbage, overrun>>
postVars == <<guiVars, sharedVars, plannerVars, clockVars, historyVars, queued>>

\* StartService; the arrays of OptiPostWork are written before they are read.
PostInit ==
  /\ target_map_ = {} /\ is_planner_running_ = FALSE
  /\ elapsed = 0 /\ last_trigger_ = 0 /\ since = 0
  /\ gui = "idle" /\ todo = {} /\ info = {}
  /\ target_list_ = <<>> /\ xpider_list_ = {} /\ target_len_ = 0
  /\ queued = 0 /\ planner = "idle" /\ action_size = 0 /\ actions = {}
  /\ late = [r \in Robot |-> 0] /\ garbage = FALSE /\ overrun = FALSE

\* A round is under way from its trigger to the slot's return.
RoundPending == queued > 0 \/ planner # "idle"

\* A tick passes.  The GUI thread's own work takes no time to speak of.
Tick ==
  /\ gui = "idle"
  /\ RoundPending => since < RoundTime
  /\ elapsed' = (elapsed + 1) % Day
  /\ since' = IF since < Day THEN since + 1 ELSE since
  /\ UNCHANGED <<guiVars, sharedVars, plannerVars, historyVars, queued, last_trigger_>>

-----------------------------------------------------------------------------
(* GUI thread.                                                             *)

pushTarget(r) ==
  /\ gui = "idle"
  /\ target_map_' = target_map_ \cup {r}
  /\ late' = [late EXCEPT ![r] = 0]
  /\ UNCHANGED <<is_planner_running_, gui, todo, info, sharedVars, plannerVars,
                 clockVars, garbage, overrun, queued>>

\* Also posts a stop to the robot's socket.
removeTarget(r) ==
  /\ gui = "idle"
  /\ target_map_' = target_map_ \ {r}
  /\ late' = [late EXCEPT ![r] = 0]
  /\ UNCHANGED <<is_planner_running_, gui, todo, info, sharedVars, plannerVars,
                 clockVars, garbage, overrun, queued>>

startPlanner(b) ==
  /\ gui = "idle"
  /\ is_planner_running_' = b
  /\ UNCHANGED <<target_map_, gui, todo, info, sharedVars, plannerVars,
                 clockVars, historyVars, queued>>

\* Mutants of Trigger: the round before not recorded; >= for >; list_len_ not
\* reset before copying.
Trigger_NotRecorded(found) ==
  /\ gui = "idle"
  /\ elapsed - last_trigger_ > INTERVAL_POST_TASK /\ is_planner_running_
  /\ since' = 0 /\ gui' = "copying" /\ todo' = target_map_
  /\ info' = found /\ target_list_' = <<>>
  /\ UNCHANGED <<target_map_, is_planner_running_, elapsed, last_trigger_, xpider_list_,
                 target_len_, plannerVars, historyVars, queued>>
Trigger_AtInterval(found) ==
  /\ gui = "idle"
  /\ elapsed - last_trigger_ >= INTERVAL_POST_TASK /\ is_planner_running_
  /\ last_trigger_' = elapsed /\ since' = 0
  /\ gui' = "copying" /\ todo' = target_map_
  /\ info' = found /\ target_list_' = <<>>
  /\ UNCHANGED <<target_map_, is_planner_running_, elapsed, xpider_list_,
                 target_len_, plannerVars, historyVars, queued>>
Trigger_NoReset(found) ==
  /\ gui = "idle"
  /\ elapsed - last_trigger_ > INTERVAL_POST_TASK /\ is_planner_running_
  /\ last_trigger_' = elapsed /\ since' = 0
  /\ gui' = "copying" /\ todo' = target_map_
  /\ info' = found
  /\ UNCHANGED <<target_map_, is_planner_running_, elapsed, target_list_, xpider_list_,
                 target_len_, plannerVars, historyVars, queued>>

\* onPayloadReady, step 3: a frame that located the robots found triggers a
\* round; MoveToPostWork starts by emptying the list.
Trigger(found) ==
  /\ gui = "idle"
  /\ elapsed - last_trigger_ > INTERVAL_POST_TASK /\ is_planner_running_
  /\ last_trigger_' = elapsed /\ since' = 0
  /\ gui' = "copying"
  /\ todo' = target_map_
  /\ info' = found
  /\ target_list_' = <<>>
  /\ UNCHANGED <<target_map_, is_planner_running_, elapsed, xpider_list_,
                 target_len_, plannerVars, historyVars, queued>>

\* One iteration of MoveToPostWork's loop, with its ++list_len_: the map is
\* walked in the order of its keys.
CopyTarget ==
  /\ gui = "copying"
  /\ \E r \in todo : /\ \A s \in todo : r <= s
                     /\ target_list_' = Append(target_list_, r)
                     /\ todo' = todo \ {r}
  /\ UNCHANGED <<target_map_, is_planner_running_, gui, info, xpider_list_,
                 target_len_, plannerVars, clockVars, historyVars, queued>>

\* The rest of MoveToPostWork: the located robots and planner_.Reset.
CopyInfo ==
  /\ gui = "copying" /\ todo = {}
  /\ xpider_list_' = info
  /\ target_len_' = Len(target_list_)
  /\ gui' = "emit"
  /\ UNCHANGED <<target_map_, is_planner_running_, todo, info, target_list_,
                 plannerVars, clockVars, historyVars, queued>>

EmitPlannerUpdate ==
  /\ gui = "emit"
  /\ gui' = "idle" /\ info' = {}
  /\ queued' = queued + 1
  /\ UNCHANGED <<target_map_, is_planner_running_, todo, sharedVars, plannerVars,
                 clockVars, historyVars>>

-----------------------------------------------------------------------------
(* Planner thread: onXpiderPlannerUpdated.                                 *)

\* The slot starts; with no target it returns at once.
StartRound ==
  /\ planner = "idle" /\ queued > 0
  /\ queued' = queued - 1
  /\ planner' = IF Len(target_list_) = 0 THEN "idle" ELSE "planning"
  /\ action_size' = Len(target_list_)
  /\ UNCHANGED <<guiVars, sharedVars, actions, clockVars, historyVars>>

\* Plan.  An entry whose robot was not located keeps what was on the stack:
\* any id at all.
Plan ==
  /\ planner = "planning"
  /\ LET wanted == {target_list_[k] : k \in 1..Len(target_list_)}
         lost == wanted \ xpider_list_
     IN  /\ \E junk \in SUBSET Robot :
              /\ Cardinality(junk) <= Cardinality(lost)
              /\ actions' = (wanted \cap xpider_list_) \cup junk
         /\ garbage' = (garbage \/ lost # {})
  /\ overrun' = (overrun \/ target_len_ > action_size)
  /\ planner' = "sending"
  /\ UNCHANGED <<guiVars, sharedVars, action_size, clockVars, late, queued>>

SendAutoMove(r) ==
  /\ planner = "sending" /\ r \in actions
  /\ actions' = actions \ {r}
  /\ late' = [late EXCEPT ![r] =
                IF r \in target_map_ \/ @ = 2 THEN @ ELSE @ + 1]
  /\ UNCHANGED <<guiVars, sharedVars, planner, action_size, clockVars,
                 garbage, overrun, queued>>

EndRound ==
  /\ planner = "sending" /\ actions = {}
  /\ planner' = "idle" /\ action_size' = 0
  /\ UNCHANGED <<guiVars, sharedVars, actions, clockVars, historyVars, queued>>

PlannerStep == StartRound \/ Plan \/ EndRound \/ \E r \in Robot : SendAutoMove(r)

PostNext ==
  \/ Tick \/ CopyTarget \/ CopyInfo \/ EmitPlannerUpdate \/ PlannerStep
  \/ \E b \in BOOLEAN : startPlanner(b)
  \/ \E found \in SUBSET Robot : Trigger(found)
  \/ \E r \in Robot : pushTarget(r) \/ removeTarget(r)

\* Threads that can run do, and the clock goes on.  Camera frames come many
\* times a second, so one arrives in any span in which it would trigger a
\* round, even if such spans keep ending: strong fairness.
PostFairness ==
  /\ WF_postVars(Tick) /\ WF_postVars(PlannerStep)
  /\ WF_postVars(CopyTarget) /\ WF_postVars(CopyInfo) /\ WF_postVars(EmitPlannerUpdate)
  /\ SF_postVars(\E found \in SUBSET Robot : Trigger(found))

PostSpec == PostInit /\ [][PostNext]_postVars
PostFairSpec == PostSpec /\ PostFairness

-----------------------------------------------------------------------------

\* What the variables hold; what is copied fits arrays of one entry per robot.
PostTypeOK ==
  /\ target_map_ \subseteq Robot /\ is_planner_running_ \in BOOLEAN
  /\ elapsed \in 0..(Day - 1) /\ last_trigger_ \in 0..(Day - 1) /\ since \in 0..Day
  /\ gui \in {"idle", "copying", "emit"} /\ todo \subseteq Robot /\ info \subseteq Robot
  /\ target_list_ \in Seq(Robot) /\ Len(target_list_) <= Cardinality(Robot)
  /\ xpider_list_ \subseteq Robot /\ target_len_ \in Nat
  /\ queued \in Nat /\ planner \in {"idle", "planning", "sending"}
  /\ action_size \in Nat /\ actions \subseteq Robot
  /\ late \in [Robot -> 0..2] /\ garbage \in BOOLEAN /\ overrun \in BOOLEAN

\* MoveToPostWork writes the shared copies only while no round that reads them
\* is queued or running, though no lock says so: rounds are spaced by the
\* strict comparison in onPayloadReady, also across the wrap of elapsed().
NoDataRace == gui # "idle" => ~RoundPending

\* So a round plans what one trigger copied: as many actions as its array holds.
RoundIsConsistent ==
  /\ ~overrun
  /\ planner # "idle" => target_len_ = action_size /\ Len(target_list_) = action_size

\* After removeTarget has stopped a robot, the round in flight can set it going
\* again, but only that one: a second AutoMove needs an action that Plan left
\* uninitialised.
AtMostOneLateMove == \A r \in Robot \ target_map_ : late[r] <= 1 \/ garbage

\* "every 5sec", says the comment beside the trigger: while the planner is on
\* and frames arrive, rounds are triggered for ever.
RoundsGoOn == <>[]is_planner_running_ => []<>(gui = "copying")
=============================================================================
