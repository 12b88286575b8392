--------------------------- MODULE XpiderLocation ---------------------------
(***************************************************************************)
(* The tracker that gives anonymous markers the identity of robots         *)
(* (xpider_location.cpp): a robot is the marker nearest to where it was in *)
(* the frame before.  One step is one iteration of GetRobotLocation's loop *)
(* over id_list; a frame starts a call.                                    *)
(*                                                                         *)
(* Points and their distance are abstract.  The heading of a marker is     *)
(* that of the robot that wears it, so theta tells which marker an entry   *)
(* was copied from.                                                        *)
(***************************************************************************)
EXTENDS Integers, Sequences, FiniteSets, SequencesExt

CONSTANTS
  Robot,                     \* g_xpider_map_ ids, as integers: map order
  Point, Dist,               \* positions and their distance
  Initial,                   \* initialize_points_: where each robot is placed
  MARKER_MAX_DISTANCE,
  ROBOT_LOOSE_FRAME_COUNT,
  Reach,                     \* how far a robot walks between two frames
  Apart,                     \* how close two robots ever come
  MaxFrames                  \* bound: frames processed

\* Dist is a metric; nothing is assumed of how the robots move but what the
\* constants Reach and Apart say.
ASSUME MetricAssumption ==
  /\ Robot \subseteq Nat /\ IsFiniteSet(Robot)
  /\ Dist \in [Point -> [Point -> Nat]]
  /\ \A p \in Point : Dist[p][p] = 0
  /\ \A p, q \in Point : Dist[p][q] = Dist[q][p]
  /\ \A p, q, r \in Point : Dist[p][r] <= Dist[p][q] + Dist[q][r]
  /\ Initial \in [Robot -> Point]
  /\ MARKER_MAX_DISTANCE \in Nat /\ ROBOT_LOOSE_FRAME_COUNT \in Nat
  /\ Reach \in Nat /\ Apart \in Nat /\ MaxFrames \in Nat

\* A robot stays nearer to its own last position than any other comes to it.
ASSUME SpacingAssumption == Reach < MARKER_MAX_DISTANCE /\ 2 * Reach < Apart

Junk == -1                   \* a heading never initialised

VARIABLES
  robot_data_,               \* history: a partial function on Robot
  raw_info,                  \* the markers of the current frame, in order
  id_list,                   \* ids of the robots whose link is up
  i,                         \* loop index, Len(id_list) once the call returned
  out_list,                  \* the robots reported so far
  temp_index,                \* where this robot's entry is expected in out_list
  temp_data,                 \* *temp_robot_data, the history being rebuilt
  truth,                     \* environment: where the robots really are
  frames,                    \* history: the frames processed
  disturbed                  \* history: a robot was hidden, or its link was
                             \* down while it was away from its initial point

vars == <<robot_data_, raw_info, id_list, i, out_list, temp_index, temp_data,
          truth, frames, disturbed>>

Marker == [pos : Point, theta : Robot]
Info == [id : Robot, loose_count : Nat, theta : Robot \cup {Junk}, pos : Point]

Spaced(where) == \A a, b \in Robot : a # b => Dist[where[a]][where[b]] >= Apart

Init ==
  /\ robot_data_ = <<>> /\ temp_data = <<>>
  /\ raw_info = <<>> /\ id_list = <<>> /\ i = 0
  /\ out_list = <<>> /\ temp_index = 0
  /\ truth = Initial /\ Spaced(truth)
  /\ frames = <<>> /\ disturbed = FALSE

Returned == i = Len(id_list)

\* The vision system sends the markers it sees, in any order; onPayloadReady
\* collects the ids whose socket is Available(), in map order.  The tracker is
\* not called for a frame without markers or while no robot is connected.
Frame(where, seen, up) ==
  /\ truth' = where
  /\ \E ids \in SetToSeqs(up) :
       /\ \A j, k \in DOMAIN ids : j < k => ids[j] < ids[k]
       /\ id_list' = ids
  /\ \E order \in SetToSeqs(seen) :
       raw_info' = [k \in 1..Len(order) |->
                      [pos |-> where[order[k]], theta |-> order[k]]]
  /\ out_list' = <<>> /\ temp_index' = 0 /\ temp_data' = <<>>
  /\ IF seen # {} /\ up # {}
       THEN i' = 0 /\ frames' = Append(frames, raw_info')
       ELSE i' = Len(id_list') /\ frames' = frames
  /\ disturbed' = \/ disturbed \/ seen # Robot \/ up = {}
                  \/ \E r \in Robot \ up : where[r] # Initial[r]
  /\ UNCHANGED robot_data_

\* ... the robots having walked since the frame before.
NextFrame ==
  /\ Returned /\ Len(frames) < MaxFrames
  /\ \E where \in [Robot -> Point] :
       /\ \A r \in Robot : Dist[truth[r]][where[r]] <= Reach
       /\ Spaced(where)
       /\ \E seen, up \in SUBSET Robot : Frame(where, seen, up)

-----------------------------------------------------------------------------
(* One iteration of the loop.                                              *)

\* The entry a robot starts from: its history or its initial point.
Known(r) ==
  IF r \in DOMAIN robot_data_
    THEN robot_data_[r]
    ELSE [id |-> r, loose_count |-> ROBOT_LOOSE_FRAME_COUNT,
          theta |-> Junk, pos |-> Initial[r]]

Gap(p, k) == Dist[p][raw_info[k].pos]

\* Mutants: index 0 taken for "no marker"; min_distance not updated.
InRange_NotFirst(p) == {k \in DOMAIN raw_info \ {1} : Gap(p, k) < MARKER_MAX_DISTANCE}
BestMarker_Last(p) ==
  CHOOSE k \in DOMAIN raw_info :
    /\ Gap(p, k) < MARKER_MAX_DISTANCE
    /\ \A j \in DOMAIN raw_info : Gap(p, j) < MARKER_MAX_DISTANCE => j <= k

\* The markers in range of p, and the first of the nearest of them.
InRange(p) == {k \in DOMAIN raw_info : Gap(p, k) < MARKER_MAX_DISTANCE}
BestMarker(p) ==
  CHOOSE k \in InRange(p) : \A j \in InRange(p) :
    Gap(p, k) < Gap(p, j) \/ (Gap(p, k) = Gap(p, j) /\ k <= j)

\* The entry pushed for this robot is read back at temp_index.
Pushed == Append(out_list, Known(id_list[i + 1]))
Entry == Pushed[temp_index + 1]

\* The end of an iteration that stores e at temp_index and keeps it.
Keep(e) ==
  LET r == id_list[i + 1]
      stored == [k \in DOMAIN temp_data \cup {r} |->
                   IF k \in DOMAIN temp_data THEN temp_data[k] ELSE e]
  IN  /\ out_list' = [Pushed EXCEPT ![temp_index + 1] = e]
      /\ temp_data' = stored
      /\ temp_index' = temp_index + 1
      /\ i' = i + 1
      /\ robot_data_' = IF i + 1 = Len(id_list) THEN stored ELSE robot_data_

LocateFound ==
  /\ ~Returned /\ InRange(Entry.pos) # {}
  /\ LET m == raw_info[BestMarker(Entry.pos)]
     IN  Keep([id |-> Entry.id, loose_count |-> 0,
               theta |-> m.theta, pos |-> m.pos])
  /\ UNCHANGED <<raw_info, id_list, truth, frames, disturbed>>

\* Mutants: ++loose_count forgotten; pop_back forgotten.
LocateLoose_NoCount ==
  /\ ~Returned /\ InRange(Entry.pos) = {}
  /\ Entry.loose_count < ROBOT_LOOSE_FRAME_COUNT
  /\ Keep(Entry)
  /\ UNCHANGED <<raw_info, id_list, truth, frames, disturbed>>
LocateLost_NoPop ==
  /\ ~Returned /\ InRange(Entry.pos) = {}
  /\ Entry.loose_count >= ROBOT_LOOSE_FRAME_COUNT
  /\ out_list' = Pushed
  /\ i' = i + 1
  /\ robot_data_' = IF i + 1 = Len(id_list) THEN temp_data ELSE robot_data_
  /\ UNCHANGED <<temp_index, temp_data, raw_info, id_list, truth, frames, disturbed>>

LocateLoose ==
  /\ ~Returned /\ InRange(Entry.pos) = {}
  /\ Entry.loose_count < ROBOT_LOOSE_FRAME_COUNT
  /\ Keep([Entry EXCEPT !.loose_count = @ + 1])
  /\ UNCHANGED <<raw_info, id_list, truth, frames, disturbed>>

LocateLost ==
  /\ ~Returned /\ InRange(Entry.pos) = {}
  /\ Entry.loose_count >= ROBOT_LOOSE_FRAME_COUNT
  /\ out_list' = Front(Pushed)
  /\ i' = i + 1
  /\ robot_data_' = IF i + 1 = Len(id_list) THEN temp_data ELSE robot_data_
  /\ UNCHANGED <<temp_index, temp_data, raw_info, id_list, truth, frames, disturbed>>

Next ==
  NextFrame \/ LocateFound \/ LocateLoose \/ LocateLost

Spec == Init /\ [][Next]_vars

-----------------------------------------------------------------------------

\* What the variables hold; the history never holds an uninitialised heading.
TypeOK ==
  /\ DOMAIN robot_data_ \subseteq Robot
  /\ \A r \in DOMAIN robot_data_ : robot_data_[r] \in Info /\ robot_data_[r].theta # Junk
  /\ DOMAIN temp_data \subseteq Robot
  /\ \A r \in DOMAIN temp_data : temp_data[r] \in Info
  /\ raw_info \in Seq(Marker) /\ frames \in Seq(Seq(Marker))
  /\ id_list \in Seq(Robot) /\ i \in 0..Len(id_list)
  /\ out_list \in Seq(Info) /\ temp_index \in Nat
  /\ truth \in [Robot -> Point] /\ disturbed \in BOOLEAN

\* out_list[temp_index] is the entry just pushed, for this very robot, at the
\* start of every iteration: pop_back and ++temp_index keep in step, and the
\* rebuilt history holds exactly the robots reported, as reported.
ListAndHistoryAgree ==
  /\ temp_index = Len(out_list)
  /\ DOMAIN temp_data = {out_list[k].id : k \in DOMAIN out_list}
  /\ \A k \in DOMAIN out_list : temp_data[out_list[k].id] = out_list[k]
  /\ Returned /\ out_list # <<>> => robot_data_ = temp_data

\* A reported robot has a position and heading that one marker really had,
\* exactly loose_count processed frames ago, at most ROBOT_LOOSE_FRAME_COUNT:
\* the uninitialised heading of a robot never seen is never reported.
ReportedWasSeen ==
  \A k \in DOMAIN out_list :
    LET e == out_list[k]
    IN  /\ e.loose_count <= ROBOT_LOOSE_FRAME_COUNT
        /\ e.loose_count < Len(frames)
        /\ \E m \in DOMAIN frames[Len(frames) - e.loose_count] :
             frames[Len(frames) - e.loose_count][m] = [pos |-> e.pos, theta |-> e.theta]

\* While every robot is in view and no link drops on the way, the nearest
\* marker is the right one: each reported robot is where it really is.
IdentityKept ==
  ~disturbed => \A k \in DOMAIN out_list :
                  /\ out_list[k].pos = truth[out_list[k].id]
                  /\ out_list[k].theta = out_list[k].id

\* Under the same conditions no connected robot is missing from a full report.
NobodyMissing ==
  ~disturbed /\ Returned => [k \in DOMAIN out_list |-> out_list[k].id] = id_list
=============================================================================
