-------------------------- MODULE PlaygroundProofs --------------------------
(***************************************************************************)
(* Theorems about Playground: the row selected is the one row shown so, and *)
(* the targets on the screen are those the planner has, for any numbers of *)
(* rows, robots and places.                                                *)
(***************************************************************************)
EXTENDS Playground, TLAPS

\* What is selected has been clicked, so has been on the screen; what has a
\* target has been selected.
BeenSeen ==
  /\ selected_xpider_index_ >= 0 => x[selected_xpider_index_] # reset_pos_
  /\ \A i \in Row : Shown(i) => x[i] # reset_pos_

\* While nothing is said to have gone astray, nothing has.
NothingAstray == ~astray => \A i \in Row : ~Astray(i)

Inv == TypeOK /\ SelectionIsShown /\ BeenSeen /\ NothingAstray /\ PictureIsRight

-----------------------------------------------------------------------------

\* The ids of robots are numbers of rows, and none is the phantom's.
LEMMA RobotsAreRows ==
  /\ Robot \subseteq Row /\ Phantom \notin Row /\ NoRobot \notin Row
  /\ \A i \in Row : i \in Int /\ i >= 0
  BY RowAssumption DEF Robot, Row, Phantom, NoRobot

LEMMA InitInv == Init => Inv
  <1> SUFFICES ASSUME Init PROVE Inv
      OBVIOUS
  <1>1. TypeOK
    BY RobotsAreRows DEF Init, TypeOK
  <1>2. \A i \in Row : ~Shown(i)
    BY DEF Init, Shown
  <1>3. SelectionIsShown /\ BeenSeen /\ NothingAstray
    BY <1>2 DEF Init, SelectionIsShown, BeenSeen, NothingAstray, Astray
  <1>4. PictureIsRight
    BY <1>2, RobotsAreRows DEF Init, PictureIsRight
  <1> QED
    BY <1>1, <1>3, <1>4 DEF Inv

\* A step that leaves the history to KeepAstray leaves nothing astray unsaid.
LEMMA AstrayKept ==
  ASSUME Inv, KeepAstray
  PROVE  /\ astray' \in BOOLEAN
         /\ NothingAstray'
         /\ ~astray' => (~astray /\ (\A i \in Row : ~Astray(i)) /\ (\A i \in Row : ~Astray(i)'))
  BY Zenon DEF Inv, TypeOK, KeepAstray, NothingAstray

-----------------------------------------------------------------------------
(* One lemma for each action.                                              *)

LEMMA SelectKeepsInv ==
  ASSUME Inv, NEW p \in Place, Select(p)
  PROVE  Inv'
  <1> USE DEF Inv
  <1>1. PICK i \in Row : /\ Hit(p, i)
                         /\ selected_xpider_index_' = IF selected_[i] THEN -1 ELSE i
                         /\ SelectOnly(i)
    BY DEF Select
  <1>2. UNCHANGED <<x, dev_id, visible, target_x, target_dev_id, is_planner_running, target_map_>>
    BY DEF Select, rowVars, targetVars
  <1>3. /\ astray' \in BOOLEAN /\ NothingAstray' /\ (~astray' => ~astray)
    BY AstrayKept, Zenon DEF Select
  <1>4. TypeOK'
    BY <1>1, <1>2, <1>3 DEF TypeOK, SelectOnly
  <1>5. SelectionIsShown'
    <2>1. selected_xpider_index_' >= 0 => selected_xpider_index_' = i
      BY <1>1
    <2>2. \A k \in Row : selected_'[k] = (k = i)
      BY <1>1 DEF SelectOnly
    <2> QED
      BY <2>1, <2>2, Zenon DEF SelectionIsShown
  <1>6. x[i] # reset_pos_
    BY <1>1, RowAssumption DEF Hit, Nearest
  <1>7. BeenSeen'
    BY <1>1, <1>2, <1>6 DEF BeenSeen, Shown
  <1>8. PictureIsRight'
    BY <1>2, <1>3 DEF PictureIsRight, Shown
  <1> QED
    BY <1>3, <1>4, <1>5, <1>7, <1>8

\* A new target takes the place of one for the same robot, or nothing is said of
\* the picture.
LEMMA PlaceTargetKeepsInv ==
  ASSUME Inv, NEW p \in Place, PlaceTarget(p)
  PROVE  Inv'
  <1> USE DEF Inv
  <1>0. PICK i : i = selected_xpider_index_
    OBVIOUS
  <1>1. /\ i \in Row
        /\ target_x' = [target_x EXCEPT ![i] = p]
        /\ target_dev_id' = [target_dev_id EXCEPT ![i] = dev_id[i]]
        /\ target_map_' = target_map_ \cup {Unsigned(dev_id[i])}
    BY <1>0 DEF PlaceTarget, TypeOK
  <1>2. UNCHANGED <<x, dev_id, visible, selected_, selected_xpider_index_, is_planner_running>>
    BY DEF PlaceTarget, rowVars, selectionVars
  <1>3. /\ astray' \in BOOLEAN /\ NothingAstray'
        /\ ~astray' => ~astray /\ \A k \in Row : ~Astray(k)
    BY AstrayKept, Zenon DEF PlaceTarget
  <1>4. p # reset_pos_
    BY RowAssumption
  <1>5. dev_id[i] \in Row \cup {NoRobot} /\ Unsigned(dev_id[i]) \in Row \cup {Phantom}
    BY <1>1 DEF TypeOK, Unsigned
  <1>6. TypeOK'
    BY <1>1, <1>2, <1>3, <1>5 DEF TypeOK
  <1>7. SelectionIsShown'
    BY <1>2 DEF SelectionIsShown
  <1>8. x[i] # reset_pos_
    BY <1>0, <1>1, RobotsAreRows DEF BeenSeen
  <1>9. BeenSeen'
    BY <1>1, <1>2, <1>8 DEF BeenSeen, Shown, TypeOK
  <1>10. PictureIsRight'
    <2> SUFFICES ASSUME ~astray', NEW r \in Robot
                 PROVE  r \in target_map_' <=> \E k \in Row : Shown(k)' /\ target_dev_id'[k] = r
        BY DEF PictureIsRight
    <2>1. r \in target_map_ <=> \E k \in Row : Shown(k) /\ target_dev_id[k] = r
      BY <1>3 DEF PictureIsRight
    <2>2. \A k \in Row : Shown(k) => dev_id[k] = target_dev_id[k]
      BY <1>3 DEF Astray
    <2>3. Shown(i)' /\ target_dev_id'[i] = dev_id[i]
      BY <1>1, <1>4 DEF Shown, TypeOK
    <2>4. \A k \in Row \ {i} : Shown(k)' = Shown(k) /\ target_dev_id'[k] = target_dev_id[k]
      BY <1>1 DEF Shown, TypeOK
    <2>5. r \in target_map_' <=> r \in target_map_ \/ r = dev_id[i]
      BY <1>1, <1>5, RobotsAreRows DEF Unsigned
    <2> QED
      BY <1>1, <2>1, <2>2, <2>3, <2>4, <2>5
  <1> QED
    BY <1>3, <1>6, <1>7, <1>9, <1>10

\* Rows are only ever put on the screen.
LEMMA FrameKeepsInv ==
  ASSUME Inv, NEW f \in Frames, onXpiderListUpdate(f)
  PROVE  Inv'
  <1> USE DEF Inv
  <1>1. \A k \in DOMAIN f : f[k].at \in Place /\ f[k].id \in Row \cup {NoRobot}
    BY RobotsAreRows DEF Frames
  <1>2. /\ x' = [i \in Row |-> IF i + 1 \in DOMAIN f THEN f[i + 1].at ELSE x[i]]
        /\ dev_id' = [i \in Row |-> IF i + 1 \in DOMAIN f THEN f[i + 1].id ELSE dev_id[i]]
        /\ visible' = [i \in Row |-> i + 1 \in DOMAIN f]
        /\ UNCHANGED <<target_x, target_dev_id, selected_, selected_xpider_index_,
                       is_planner_running, target_map_>>
    BY DEF onXpiderListUpdate, targetVars, selectionVars
  <1>3. /\ astray' \in BOOLEAN /\ NothingAstray' /\ (~astray' => ~astray)
    BY AstrayKept, Zenon DEF onXpiderListUpdate
  <1>4. \A i \in Row : x[i] # reset_pos_ => x'[i] # reset_pos_
    BY <1>1, <1>2, RowAssumption
  <1>5. TypeOK'
    BY <1>1, <1>2, <1>3 DEF TypeOK
  <1>6. SelectionIsShown'
    BY <1>2 DEF SelectionIsShown
  <1>7. BeenSeen'
    BY <1>2, <1>4, RobotsAreRows DEF BeenSeen, Shown, TypeOK
  <1>8. PictureIsRight'
    BY <1>2, <1>3 DEF PictureIsRight, Shown
  <1> QED
    BY <1>3, <1>5, <1>6, <1>7, <1>8

\* The timer removes a robot's target from both, and no other's.
LEMMA TimerKeepsInv ==
  ASSUME Inv, onTriggered
  PROVE  Inv'
  <1> USE DEF Inv
  <1>1. /\ target_map_' = target_map_ \ {Unsigned(dev_id[i]) : i \in {k \in Row : Arrived(k)}}
        /\ target_x' = [i \in Row |-> IF Arrived(i) THEN reset_pos_ ELSE target_x[i]]
        /\ UNCHANGED <<x, dev_id, visible, target_dev_id, selected_, selected_xpider_index_,
                       is_planner_running>>
    BY DEF onTriggered, rowVars, selectionVars
  <1>2. /\ astray' \in BOOLEAN /\ NothingAstray'
        /\ ~astray' => ~astray /\ \A k \in Row : ~Astray(k)
    BY AstrayKept, Zenon DEF onTriggered
  <1>3. TypeOK'
    BY <1>1, <1>2 DEF TypeOK
  <1>4. SelectionIsShown'
    BY <1>1 DEF SelectionIsShown
  <1>5. \A i \in Row : Shown(i)' <=> Shown(i) /\ ~Arrived(i)
    BY <1>1 DEF Shown, Arrived
  <1>6. BeenSeen'
    BY <1>1, <1>5 DEF BeenSeen
  <1>7. PictureIsRight'
    <2> SUFFICES ASSUME ~astray', NEW r \in Robot
                 PROVE  r \in target_map_' <=> \E k \in Row : Shown(k)' /\ target_dev_id'[k] = r
        BY DEF PictureIsRight
    <2>1. r \in target_map_ <=> \E k \in Row : Shown(k) /\ target_dev_id[k] = r
      BY <1>2 DEF PictureIsRight
    <2>2. r # NoRobot /\ r # Phantom
      BY RobotsAreRows
    <2>3. \A k \in Row : Unsigned(dev_id[k]) = r <=> dev_id[k] = r
      BY <2>2 DEF Unsigned
    <2>4. r \in target_map_' <=> r \in target_map_ /\ ~ \E k \in Row : Arrived(k) /\ dev_id[k] = r
      BY <1>1, <2>3
    <2>5. \A k \in Row : Shown(k) => dev_id[k] = target_dev_id[k]
      BY <1>2 DEF Astray
    \* Two targets shown for one robot would be astray.
    <2>6. \A k, l \in Row : Shown(k) /\ Shown(l) /\ dev_id[k] = r /\ dev_id[l] = r => k = l
      BY <1>2, <2>2 DEF Astray, BeenSeen
    <2>7. \A k \in Row : Arrived(k) => Shown(k)
      BY DEF Arrived
    <2> QED
      BY <1>1, <1>5, <2>1, <2>4, <2>5, <2>6, <2>7
  <1> QED
    BY <1>2, <1>3, <1>4, <1>6, <1>7

LEMMA StartKeepsInv ==
  ASSUME Inv, Start
  PROVE  Inv'
  <1> USE DEF Inv
  <1>1. /\ is_planner_running' = TRUE
        /\ UNCHANGED <<x, dev_id, visible, target_x, target_dev_id, selected_,
                       selected_xpider_index_, target_map_>>
    BY DEF Start, rowVars, targetVars, selectionVars
  <1>2. /\ astray' \in BOOLEAN /\ NothingAstray' /\ (~astray' => ~astray)
    BY AstrayKept, Zenon DEF Start
  <1>3. TypeOK'
    BY <1>1, <1>2 DEF TypeOK
  <1> QED
    BY <1>1, <1>2, <1>3 DEF SelectionIsShown, BeenSeen, PictureIsRight, Shown

\* Stop mends the picture whatever it was: no target is left on either side.
LEMMA StopKeepsInv ==
  ASSUME Inv, Stop
  PROVE  Inv'
  <1> USE DEF Inv
  <1>1. /\ is_planner_running' = FALSE /\ astray' = FALSE
        /\ target_map_' = target_map_ \ Row
        /\ target_x' = [i \in Row |-> reset_pos_]
        /\ UNCHANGED <<x, dev_id, visible, target_dev_id, selected_, selected_xpider_index_>>
    BY DEF Stop, resetAllTargets, rowVars, selectionVars
  <1>2. \A i \in Row : ~Shown(i)'
    BY <1>1 DEF Shown
  <1>3. TypeOK'
    BY <1>1 DEF TypeOK
  <1>4. SelectionIsShown' /\ BeenSeen'
    BY <1>1, <1>2 DEF SelectionIsShown, BeenSeen
  <1>5. NothingAstray'
    BY <1>2 DEF NothingAstray, Astray
  <1>6. PictureIsRight'
    BY <1>1, <1>2, RobotsAreRows DEF PictureIsRight
  <1> QED
    BY <1>3, <1>4, <1>5, <1>6

LEMMA NextKeepsInv == Inv /\ [Next]_vars => Inv'
  <1> SUFFICES ASSUME Inv, [Next]_vars PROVE Inv'
      OBVIOUS
  <1>1. CASE \E p \in Place : Select(p)
    BY <1>1, SelectKeepsInv
  <1>2. CASE \E p \in Place : PlaceTarget(p)
    BY <1>2, PlaceTargetKeepsInv
  <1>3. CASE \E f \in Frames : onXpiderListUpdate(f)
    BY <1>3, FrameKeepsInv
  <1>4. CASE onTriggered
    BY <1>4, TimerKeepsInv
  <1>5. CASE Start
    BY <1>5, StartKeepsInv
  <1>6. CASE Stop
    BY <1>6, StopKeepsInv
  <1>7. CASE UNCHANGED vars
    BY <1>7, Zenon DEF vars, rowVars, targetVars, selectionVars, Inv, TypeOK, SelectionIsShown,
           BeenSeen, NothingAstray, PictureIsRight, Astray, Shown
  <1> QED
    BY <1>1, <1>2, <1>3, <1>4, <1>5, <1>6, <1>7 DEF Next

LEMMA Invariant == Spec => []Inv
  BY InitInv, NextKeepsInv, PTL DEF Spec

-----------------------------------------------------------------------------

\* The next target is for the row that shows as selected, and no other does,
\* whatever frames and clicks came between (Playground.qml, selectXpider).
THEOREM SelectionIsAlwaysShown == Spec => []SelectionIsShown
  <1>1. Inv => SelectionIsShown
    BY DEF Inv
  <1> QED
    BY Invariant, <1>1, PTL

\* Screen and planner have the same targets until one is shown at a row that is
\* not its robot's, and again after Stop (Playground.qml and OptiService).
THEOREM PictureStaysRight == Spec => []PictureIsRight
  <1>1. Inv => PictureIsRight
    BY DEF Inv
  <1> QED
    BY Invariant, <1>1, PTL
=============================================================================
