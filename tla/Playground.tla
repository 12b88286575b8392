----------------------------- MODULE Playground -----------------------------
(***************************************************************************)
(* The playground of the user interface (Playground.qml, main.qml) and the *)
(* targets it keeps in OptiService.  Everything is kept by row: row i of   *)
(* xpider_queue_ shows the i-th marker of the last frame, whichever robot  *)
(* that is, and row i of target_queue_ the target set while robot row i    *)
(* was selected.  OptiService keeps targets by robot id.                   *)
(*                                                                         *)
(* A place is a spot of the screen.  Two positions are within the 40       *)
(* pixels of selectXpider and of the timer exactly if they are the same    *)
(* place.  A frame carries the places its markers will be drawn at.        *)
(***************************************************************************)
EXTENDS Integers, Sequences

CONSTANTS
  Place,
  reset_pos_,            \* where what has no place is put, off the screen
  max_xpider_num_,       \* rows of each queue
  host_size              \* robots that StartService creates

\* There are more rows than robots: 100 and 40.
ASSUME RowAssumption ==
  /\ reset_pos_ \notin Place
  /\ max_xpider_num_ \in Nat /\ host_size \in 0..max_xpider_num_

Row == 0..(max_xpider_num_ - 1)

\* StartService: a robot's id is the size of g_xpider_map_ when it is entered.
Robot == 0..(host_size - 1)

NoRobot == -1            \* the "id" of a marker that is no robot's

VARIABLES
  x,                     \* place of each robot row (y goes with it)
  dev_id, visible, selected_,
  selected_xpider_index_,
  target_x,              \* place of each target row
  target_dev_id,
  is_planner_running,    \* of start_btn_, and is_planner_running_ of OptiService
  target_map_,           \* OptiService: the ids that have a target
  astray                 \* history: since the last Stop a target was shown at a
                         \* row that was not, or not alone, its robot's

rowVars == <<x, dev_id, visible>>
targetVars == <<target_x, target_dev_id>>
selectionVars == <<selected_, selected_xpider_index_>>
vars == <<rowVars, targetVars, selectionVars, is_planner_running, target_map_, astray>>

\* createXpider and createTarget.
Init ==
  /\ x = [i \in Row |-> reset_pos_] /\ dev_id = [i \in Row |-> i]
  /\ visible = [i \in Row |-> FALSE] /\ selected_ = [i \in Row |-> FALSE]
  /\ selected_xpider_index_ = -1
  /\ target_x = [i \in Row |-> reset_pos_] /\ target_dev_id = [i \in Row |-> i]
  /\ is_planner_running = FALSE /\ target_map_ = {} /\ astray = FALSE

\* pushTarget and removeTarget take an unsigned int: -1 becomes an id that is
\* no robot's and no row's.
Phantom == max_xpider_num_
Unsigned(id) == IF id = NoRobot THEN Phantom ELSE id

Shown(i) == target_x[i] # reset_pos_

\* The row of this target is not its robot's, or another that has been on the
\* screen is too.
Astray(i) ==
  /\ Shown(i)
  /\ \/ dev_id[i] # target_dev_id[i]
     \/ /\ dev_id[i] # NoRobot
        /\ \E k \in Row \ {i} : x[k] # reset_pos_ /\ dev_id[k] = dev_id[i]

KeepAstray == astray' = (astray \/ (\E i \in Row : Astray(i))')

-----------------------------------------------------------------------------
(* A click.                                                                *)

\* selectXpider: the nearest row, the first of several, hidden rows included.
Nearest(p, i) == x[i] = p /\ \A k \in Row : k < i => x[k] # p
Hit(p, i) == Nearest(p, i) /\ dev_id[i] >= 0

\* Mutant of SelectOnly: the row clicked is selected, no other let go.
SelectOnly_KeepsOthers(i) == selected_' = [selected_ EXCEPT ![i] = TRUE]

\* setSelected(i === index) for every row.
SelectOnly(i) == selected_' = [k \in Row |-> k = i]

\* A click on a robot selects its row; a click on the row that already shows as
\* selected lets it go, but goes on showing it so.
Select(p) ==
  /\ \E i \in Row :
       /\ Hit(p, i)
       /\ selected_xpider_index_' = IF selected_[i] THEN -1 ELSE i
       /\ SelectOnly(i)
  /\ UNCHANGED <<rowVars, targetVars, is_planner_running, target_map_>>
  /\ KeepAstray

\* A click elsewhere, or on a marker without a robot, sets the target of the
\* row that is selected, for the robot that row shows now.
PlaceTarget(p) ==
  /\ ~ \E i \in Row : Hit(p, i)
  /\ selected_xpider_index_ >= 0
  /\ LET i == selected_xpider_index_
     IN  /\ target_x' = [target_x EXCEPT ![i] = p]
         /\ target_dev_id' = [target_dev_id EXCEPT ![i] = dev_id[i]]
         /\ target_map_' = target_map_ \cup {Unsigned(dev_id[i])}
  /\ UNCHANGED <<rowVars, selectionVars, is_planner_running>>
  /\ KeepAstray

-----------------------------------------------------------------------------
(* Frames, the timer and the button.                                       *)

\* What onPayloadReady tells of a frame: a marker has the id of a robot or none.
Frames ==
  {f \in UNION {[1..n -> [id : Robot \cup {NoRobot}, at : Place]] : n \in 0..max_xpider_num_} :
     \A j, k \in DOMAIN f :
       j # k => f[j].at # f[k].at /\ (f[j].id # f[k].id \/ f[j].id = NoRobot)}

\* onXpiderListUpdate: rows beyond the list keep what they had, but are hidden.
onXpiderListUpdate(xpider_list) ==
  LET Listed(i) == i + 1 \in DOMAIN xpider_list
  IN  /\ x' = [i \in Row |-> IF Listed(i) THEN xpider_list[i + 1].at ELSE x[i]]
      /\ dev_id' = [i \in Row |-> IF Listed(i) THEN xpider_list[i + 1].id ELSE dev_id[i]]
      /\ visible' = [i \in Row |-> Listed(i)]
      /\ UNCHANGED <<targetVars, selectionVars, is_planner_running, target_map_>>
      /\ KeepAstray

\* The robot of row i stands on the target of row i.
Arrived(i) == Shown(i) /\ visible[i] /\ x[i] = target_x[i]

\* Mutant of onTriggered: the row's number for the robot's, as in resetAllTargets.
onTriggered_ByRow ==
  /\ target_map_' = target_map_ \ {i \in Row : Arrived(i)}
  /\ target_x' = [i \in Row |-> IF Arrived(i) THEN reset_pos_ ELSE target_x[i]]
  /\ UNCHANGED <<rowVars, target_dev_id, selectionVars, is_planner_running>>
  /\ KeepAstray

\* The timer, once a second: a target reached is removed from OptiService for
\* the robot its row shows.
onTriggered ==
  /\ target_map_' = target_map_ \ {Unsigned(dev_id[i]) : i \in {k \in Row : Arrived(k)}}
  /\ target_x' = [i \in Row |-> IF Arrived(i) THEN reset_pos_ ELSE target_x[i]]
  /\ UNCHANGED <<rowVars, target_dev_id, selectionVars, is_planner_running>>
  /\ KeepAstray

\* removeTarget for every row number, which covers every robot, not Phantom.
resetAllTargets ==
  /\ target_map_' = target_map_ \ Row
  /\ target_x' = [i \in Row |-> reset_pos_]
  /\ UNCHANGED target_dev_id

Start ==
  /\ ~is_planner_running /\ is_planner_running' = TRUE
  /\ UNCHANGED <<rowVars, targetVars, selectionVars, target_map_>>
  /\ KeepAstray

Stop ==
  /\ is_planner_running /\ is_planner_running' = FALSE
  /\ resetAllTargets
  /\ UNCHANGED <<rowVars, selectionVars>>
  /\ astray' = FALSE

Next ==
  \/ \E p \in Place : Select(p) \/ PlaceTarget(p)
  \/ \E f \in Frames : onXpiderListUpdate(f)
  \/ onTriggered \/ Start \/ Stop

Spec == Init /\ [][Next]_vars

-----------------------------------------------------------------------------

\* What the variables hold; whatever is visible, selected or has a target has
\* been on the screen.
TypeOK ==
  /\ x \in [Row -> Place \cup {reset_pos_}]
  /\ dev_id \in [Row -> Row \cup {NoRobot}]
  /\ visible \in [Row -> BOOLEAN] /\ selected_ \in [Row -> BOOLEAN]
  /\ selected_xpider_index_ \in Row \cup {-1}
  /\ target_x \in [Row -> Place \cup {reset_pos_}]
  /\ target_dev_id \in [Row -> Row \cup {NoRobot}]
  /\ is_planner_running \in BOOLEAN /\ astray \in BOOLEAN
  /\ target_map_ \subseteq Row \cup {Phantom}

\* The row that the next target is for is the one row shown as selected.  (Not
\* the other way round: a row that was let go still shows as selected, and
\* clicking it again does not select it.)
SelectionIsShown ==
  selected_xpider_index_ >= 0 =>
    \A i \in Row : selected_[i] <=> i = selected_xpider_index_

\* The targets on the screen are those the planner works with: a robot has a
\* target in target_map_ exactly if one is shown for it.  Rows and ids are
\* matched by chance of the order in a frame, so this needs that since the last
\* Stop no target was shown at a row of another robot; Stop makes it true again
\* whatever happened before.
PictureIsRight ==
  ~astray => \A r \in Robot :
    r \in target_map_ <=> \E i \in Row : Shown(i) /\ target_dev_id[i] = r
=============================================================================
