------------------------ MODULE XpiderLocationProofs ------------------------
(***************************************************************************)
(* Proofs about XpiderLocation: its types; that the nearest marker is the  *)
(* right one, for any number of robots in any metric space, as long as     *)
(* SpacingAssumption holds and nothing disturbs the tracker; and, whatever *)
(* does, that its two lists keep in step and what it reports was seen.     *)
(***************************************************************************)
EXTENDS XpiderLocation, FiniteSetTheorems, SequenceTheorems, WellFoundedInduction,
        TLAPS

USE DEF Junk

-----------------------------------------------------------------------------
(* Sequences that enumerate a set.                                         *)

\* A sequence of SetToSeqs(S) holds every element of S exactly once.
LEMMA Enumeration ==
  ASSUME NEW S \in SUBSET Robot, NEW s \in SetToSeqs(S)
  PROVE  /\ s \in Seq(S) /\ Len(s) = Cardinality(S) /\ Cardinality(S) \in Nat
         /\ DOMAIN s = 1..Len(s)
         /\ \A j, k \in 1..Len(s) : j # k => s[j] # s[k]
         /\ \A x \in S : \E k \in 1..Len(s) : s[k] = x
<1>1. IsFiniteSet(S) /\ Cardinality(S) \in Nat
  BY MetricAssumption, FS_Subset, FS_CardinalityType
<1>2. /\ s \in [1..Cardinality(S) -> S]
      /\ \A j, k \in 1..Cardinality(S) : j # k => s[j] # s[k]
  BY DEF SetToSeqs
<1>3. s \in Seq(S) /\ Len(s) = Cardinality(S)  BY <1>1, <1>2
<1>4. s \in Injection(1..Cardinality(S), S)  BY <1>2 DEF Injection, IsInjective
<1>5. /\ IsFiniteSet(1..Cardinality(S))
      /\ Cardinality(1..Cardinality(S)) = Cardinality(S)
  BY <1>1, FS_Interval
<1>6. s \in Surjection(1..Cardinality(S), S)
  BY <1>1, <1>4, <1>5, FS_Injection
<1>7. \A x \in S : \E k \in 1..Cardinality(S) : s[k] = x
  BY <1>6 DEF Surjection
<1> QED  BY <1>1, <1>2, <1>3, <1>7

-----------------------------------------------------------------------------
(* Type correctness.                                                       *)

\* What TypeOK needs from the other parts of the state: the entry of an
\* iteration is found at the end of the list, a history entry is filed under
\* its own id, and one that is kept never has an uninitialised heading.
TypeInv ==
  /\ TypeOK
  /\ temp_index = Len(out_list)
  /\ \A r \in DOMAIN robot_data_ : robot_data_[r].id = r
  /\ \A r \in DOMAIN temp_data : temp_data[r].id = r /\ temp_data[r].theta # Junk

\* The entry an iteration works on is the one of the loop's robot.
LEMMA EntryIsKnown ==
  ASSUME TypeInv, ~Returned
  PROVE  /\ id_list[i + 1] \in Robot
         /\ Known(id_list[i + 1]) \in Info
         /\ Known(id_list[i + 1]).id = id_list[i + 1]
         /\ Pushed \in Seq(Info) /\ Len(Pushed) = Len(out_list) + 1
         /\ \A k \in 1..Len(out_list) : Pushed[k] = out_list[k]
         /\ Entry = Known(id_list[i + 1])
         /\ Entry.theta = Junk => Entry.loose_count >= ROBOT_LOOSE_FRAME_COUNT
         /\ Len(id_list) \in Nat /\ i + 1 \in 1..Len(id_list)
<1> DEFINE r == id_list[i + 1]
<1>1. Len(id_list) \in Nat /\ i + 1 \in 1..Len(id_list)
  BY LenProperties DEF TypeInv, TypeOK, Returned
<1>2. r \in Robot  BY <1>1, ElementOfSeq DEF TypeInv, TypeOK
<1>3. Known(r) \in Info /\ Known(r).id = r
      /\ (Known(r).theta = Junk => Known(r).loose_count >= ROBOT_LOOSE_FRAME_COUNT)
  <2>1. CASE r \in DOMAIN robot_data_
    BY <2>1 DEF Known, TypeInv, TypeOK
  <2>2. CASE r \notin DOMAIN robot_data_
    <3>1. Initial[r] \in Point /\ ROBOT_LOOSE_FRAME_COUNT \in Nat
      BY <1>2, MetricAssumption
    <3>2. Known(r) = [id |-> r, loose_count |-> ROBOT_LOOSE_FRAME_COUNT,
                      theta |-> Junk, pos |-> Initial[r]]
      BY <2>2 DEF Known
    <3>3. [id |-> r, loose_count |-> ROBOT_LOOSE_FRAME_COUNT,
           theta |-> Junk, pos |-> Initial[r]] \in Info
      BY <1>2, <3>1 DEF Info
    <3> QED  BY <3>1, <3>2, <3>3
  <2> QED  BY <2>1, <2>2
<1>4. /\ Pushed \in Seq(Info) /\ Len(Pushed) = Len(out_list) + 1
      /\ \A k \in 1..Len(out_list) : Pushed[k] = out_list[k]
      /\ Pushed[Len(out_list) + 1] = Known(r)
  <2>1. out_list \in Seq(Info)  BY DEF TypeInv, TypeOK
  <2> QED  BY <1>3, <2>1, AppendProperties DEF Pushed
<1>5. Entry = Known(r)  BY <1>4 DEF Entry, TypeInv
<1> QED  BY <1>1, <1>2, <1>3, <1>4, <1>5

\* What Keep does, spelled out.
LEMMA KeepEffect ==
  ASSUME TypeInv, ~Returned, NEW e \in Info, e.id = id_list[i + 1], e.theta # Junk,
         Keep(e)
  PROVE  LET r == id_list[i + 1] IN
         /\ out_list' \in Seq(Info) /\ Len(out_list') = Len(out_list) + 1
         /\ \A k \in 1..Len(out_list) : out_list'[k] = out_list[k]
         /\ out_list'[Len(out_list) + 1] = e
         /\ temp_index' = Len(out_list')
         /\ DOMAIN temp_data' = DOMAIN temp_data \cup {r}
         /\ \A k \in DOMAIN temp_data : temp_data'[k] = temp_data[k]
         /\ r \notin DOMAIN temp_data => temp_data'[r] = e
         /\ i' = i + 1
         /\ robot_data_' = IF i + 1 = Len(id_list) THEN temp_data' ELSE robot_data_
<1> DEFINE r == id_list[i + 1]
           stored == [k \in DOMAIN temp_data \cup {r} |->
                        IF k \in DOMAIN temp_data THEN temp_data[k] ELSE e]
<1>1. /\ out_list' = [Pushed EXCEPT ![temp_index + 1] = e]
      /\ temp_data' = stored /\ temp_index' = temp_index + 1 /\ i' = i + 1
      /\ robot_data_' = IF i + 1 = Len(id_list) THEN stored ELSE robot_data_
  BY DEF Keep
<1>2. Len(out_list) \in Nat  BY LenProperties DEF TypeInv, TypeOK
<1>3. temp_index + 1 \in 1..Len(Pushed)  BY <1>2, EntryIsKnown DEF TypeInv
<1>4. /\ out_list' \in Seq(Info) /\ Len(out_list') = Len(Pushed)
      /\ \A k \in 1..Len(Pushed) : out_list'[k] = IF k = temp_index + 1 THEN e ELSE Pushed[k]
  BY <1>1, <1>3, EntryIsKnown, ExceptSeq
<1>5. /\ Len(out_list') = Len(out_list) + 1 /\ temp_index' = Len(out_list')
      /\ \A k \in 1..Len(out_list) : out_list'[k] = out_list[k]
      /\ out_list'[Len(out_list) + 1] = e
  <2>1. temp_index = Len(out_list)  BY DEF TypeInv
  <2>2. /\ Len(Pushed) = Len(out_list) + 1
        /\ \A k \in 1..Len(out_list) : Pushed[k] = out_list[k]
    BY EntryIsKnown
  <2> QED  BY <1>1, <1>2, <1>4, <2>1, <2>2
<1>6. /\ DOMAIN temp_data' = DOMAIN temp_data \cup {r}
      /\ \A k \in DOMAIN temp_data : temp_data'[k] = temp_data[k]
      /\ r \notin DOMAIN temp_data => temp_data'[r] = e
  BY <1>1
<1> QED  BY <1>1, <1>4, <1>5, <1>6

\* An iteration that keeps an entry keeps the types.
LEMMA KeepType ==
  ASSUME TypeInv, ~Returned, NEW e \in Info, e.id = id_list[i + 1], e.theta # Junk,
         Keep(e), UNCHANGED <<raw_info, id_list, truth, frames, disturbed>>
  PROVE  TypeInv'
<1> DEFINE r == id_list[i + 1]
<1>1. r \in Robot /\ i + 1 \in 1..Len(id_list) /\ Len(id_list) \in Nat  BY EntryIsKnown
<1>0. /\ DOMAIN temp_data' = DOMAIN temp_data \cup {r}
      /\ \A k \in DOMAIN temp_data : temp_data'[k] = temp_data[k]
      /\ r \notin DOMAIN temp_data => temp_data'[r] = e
  BY KeepEffect
<1>2. /\ DOMAIN temp_data' \subseteq Robot
      /\ \A k \in DOMAIN temp_data' : /\ temp_data'[k] \in Info
                                      /\ temp_data'[k].id = k
                                      /\ temp_data'[k].theta # Junk
  BY <1>0, <1>1 DEF TypeInv, TypeOK
<1>3. /\ DOMAIN robot_data_' \subseteq Robot
      /\ \A k \in DOMAIN robot_data_' : /\ robot_data_'[k] \in Info
                                        /\ robot_data_'[k].id = k
                                        /\ robot_data_'[k].theta # Junk
  BY <1>2, KeepEffect DEF TypeInv, TypeOK
<1>4. /\ out_list' \in Seq(Info) /\ temp_index' = Len(out_list') /\ temp_index' \in Nat
      /\ i' \in 0..Len(id_list')
  BY <1>1, KeepEffect, LenProperties
<1> QED  BY <1>2, <1>3, <1>4 DEF TypeInv, TypeOK

\* A marker of the frame has a position, at some distance from any other.
LEMMA MarkerType ==
  ASSUME TypeOK, NEW p \in Point, NEW k \in DOMAIN raw_info
  PROVE  /\ raw_info[k] \in Marker
         /\ raw_info[k].pos \in Point /\ raw_info[k].theta \in Robot
         /\ Gap(p, k) \in Nat
<1>1. raw_info \in Seq(Marker) /\ DOMAIN raw_info = 1..Len(raw_info)
  BY LenProperties DEF TypeOK
<1>2. raw_info[k] \in Marker  BY <1>1, ElementOfSeq
<1> QED  BY <1>2, MetricAssumption DEF Marker, Gap

\* A frame is a sequence of markers, and starts a call or none.
LEMMA FrameType ==
  ASSUME TypeInv, NEW where \in [Robot -> Point], NEW seen \in SUBSET Robot,
         NEW up \in SUBSET Robot, Frame(where, seen, up)
  PROVE  TypeInv'
<1>1. PICK ids \in SetToSeqs(up) : id_list' = ids
  BY DEF Frame
<1>2. id_list' \in Seq(Robot) /\ Len(id_list') \in Nat
  BY <1>1, Enumeration, SeqMonotonic, LenProperties
<1>3. PICK order \in SetToSeqs(seen) :
        raw_info' = [k \in 1..Len(order) |->
                       [pos |-> where[order[k]], theta |-> order[k]]]
  BY DEF Frame
<1>4. raw_info' \in Seq(Marker)
  <2>1. /\ Len(order) \in Nat
        /\ \A k \in 1..Len(order) : order[k] \in Robot
    BY Enumeration, ElementOfSeq, LenProperties
  <2>2. \A k \in 1..Len(order) :
          [pos |-> where[order[k]], theta |-> order[k]] \in Marker
    BY <2>1 DEF Marker
  <2>3. raw_info' \in [1..Len(order) -> Marker]  BY <1>3, <2>2
  <2> QED  BY <2>1, <2>3
<1>5. frames' \in Seq(Seq(Marker))
  <2>1. Append(frames, raw_info') \in Seq(Seq(Marker))
    BY <1>4, AppendProperties DEF TypeInv, TypeOK
  <2> QED  BY <2>1 DEF Frame, TypeInv, TypeOK
<1>6. i' \in 0..Len(id_list')  BY <1>2 DEF Frame
<1>7. /\ out_list' = <<>> /\ out_list' \in Seq(Info) /\ Len(out_list') = 0
      /\ temp_index' = 0 /\ DOMAIN temp_data' = {}
  <2>1. DOMAIN <<>> = {}  OBVIOUS
  <2> QED  BY <2>1, EmptySeq DEF Frame
<1>8. truth' \in [Robot -> Point] /\ disturbed' \in BOOLEAN
  BY DEF Frame, TypeInv, TypeOK
<1> QED  BY <1>2, <1>4, <1>5, <1>6, <1>7, <1>8 DEF TypeInv, TypeOK, Frame

\* What an iteration that finds a marker keeps is that marker, under the id of
\* the loop's robot.
LEMMA FoundEntry ==
  ASSUME TypeInv, LocateFound,
         BestMarker(Entry.pos) \in DOMAIN raw_info
  PROVE  LET m == raw_info[BestMarker(Entry.pos)]
             e == [id |-> id_list[i + 1], loose_count |-> 0,
                   theta |-> m.theta, pos |-> m.pos]
         IN  /\ m \in Marker /\ e \in Info /\ e.theta # Junk /\ Keep(e)
<1> DEFINE m == raw_info[BestMarker(Entry.pos)]
           e == [id |-> id_list[i + 1], loose_count |-> 0,
                 theta |-> m.theta, pos |-> m.pos]
<1>1. ~Returned  BY DEF LocateFound
<1>2. Entry.id = id_list[i + 1] /\ id_list[i + 1] \in Robot  BY <1>1, EntryIsKnown
<1>3. Keep(e)  BY <1>2 DEF LocateFound
<1>4. raw_info \in Seq(Marker) /\ DOMAIN raw_info = 1..Len(raw_info)
  BY LenProperties DEF TypeInv, TypeOK
<1>5. m \in Marker  BY <1>4, ElementOfSeq
<1>6. m.theta \in Robot /\ m.pos \in Point  BY <1>5 DEF Marker
<1>7. e \in Info /\ e.theta # Junk  BY <1>2, <1>6, MetricAssumption DEF Info
<1> QED  BY <1>3, <1>5, <1>7

\* A set of naturals that is not empty has a least element.
LEMMA LeastNat ==
  ASSUME NEW T \in SUBSET Nat, T # {}
  PROVE  \E x \in T : \A y \in T : x <= y
<1>1. PICK x \in T : \A y \in T : ~(<<y, x>> \in OpToRel(<, Nat))
  BY NatLessThanWellFounded, WFMin
<1>2. \A y \in T : ~(y < x)
  <2> TAKE y \in T
  <2>1. <<y, x>> \in Nat \X Nat  OBVIOUS
  <2>2. y < x => <<y, x>> \in OpToRel(<, Nat)  BY <2>1 DEF OpToRel
  <2> QED  BY <1>1, <2>2
<1> QED  BY <1>2

\* If a marker is in range there is a first of the nearest ones: what the
\* minimum search of the code returns.
LEMMA BestExists ==
  ASSUME TypeOK, NEW p \in Point, InRange(p) # {}
  PROVE  /\ BestMarker(p) \in InRange(p)
         /\ \A j \in InRange(p) : Gap(p, BestMarker(p)) <= Gap(p, j)
<1> DEFINE gaps == {Gap(p, k) : k \in InRange(p)}
<1>1. InRange(p) \subseteq DOMAIN raw_info /\ DOMAIN raw_info \subseteq Nat
  BY LenProperties DEF InRange, TypeOK
<1>2. \A k \in InRange(p) : Gap(p, k) \in Nat  BY <1>1, MarkerType
<1>3. gaps \in SUBSET Nat /\ gaps # {}  BY <1>2
<1>4. PICK g \in gaps : \A h \in gaps : g <= h  BY <1>3, LeastNat
<1> DEFINE nearest == {k \in InRange(p) : Gap(p, k) = g}
<1>5. nearest \in SUBSET Nat /\ nearest # {}  BY <1>1, <1>4
<1>6. PICK k \in nearest : \A j \in nearest : k <= j  BY <1>5, LeastNat
<1>7. \A j \in InRange(p) :
        Gap(p, k) < Gap(p, j) \/ (Gap(p, k) = Gap(p, j) /\ k <= j)
  <2> TAKE j \in InRange(p)
  <2>1. Gap(p, k) = g /\ g <= Gap(p, j) /\ g \in Nat /\ Gap(p, j) \in Nat
    BY <1>2, <1>3, <1>4
  <2>2. CASE Gap(p, j) = g
    BY <1>6, <2>1, <2>2
  <2>3. CASE Gap(p, j) # g
    BY <2>1, <2>3
  <2> QED  BY <2>2, <2>3
<1>8. \E b \in InRange(p) : \A j \in InRange(p) :
        Gap(p, b) < Gap(p, j) \/ (Gap(p, b) = Gap(p, j) /\ b <= j)
  BY <1>7
<1>9. /\ BestMarker(p) \in InRange(p)
      /\ \A j \in InRange(p) :
           \/ Gap(p, BestMarker(p)) < Gap(p, j)
           \/ Gap(p, BestMarker(p)) = Gap(p, j) /\ BestMarker(p) <= j
  BY <1>8 DEF BestMarker
<1> QED  BY <1>2, <1>9

\* Taking the pushed entry off again leaves the list as it was.
LEMMA LostPops ==
  ASSUME TypeInv, ~Returned, LocateLost
  PROVE  out_list' = out_list
<1>1. out_list \in Seq(Info) /\ Len(out_list) \in Nat
  BY LenProperties DEF TypeInv, TypeOK
<1>2. /\ Pushed \in Seq(Info) /\ Len(Pushed) = Len(out_list) + 1
      /\ \A k \in 1..Len(out_list) : Pushed[k] = out_list[k]
  BY EntryIsKnown
<1>3. out_list' = SubSeq(Pushed, 1, Len(out_list))
  BY <1>1, <1>2 DEF LocateLost, Front
<1>4. \A k \in 1..Len(out_list) : Pushed[k] \in Info  BY <1>1, <1>2, ElementOfSeq
<1>5. /\ out_list' \in Seq(Info) /\ Len(out_list') = Len(out_list)
      /\ \A k \in 1..Len(out_list) : out_list'[k] = Pushed[k]
  BY <1>1, <1>3, <1>4, SubSeqProperties
<1> QED  BY <1>1, <1>2, <1>5, SeqEqual

\* The strengthened type invariant is kept by every step.
LEMMA TypeInvariant == Spec => []TypeInv
<1>1. Init => TypeInv
  <2> SUFFICES ASSUME Init PROVE TypeInv
    OBVIOUS
  <2>1. DOMAIN <<>> = {} /\ Len(<<>>) = 0  OBVIOUS
  <2>2. truth \in [Robot -> Point]  BY MetricAssumption DEF Init
  <2>3. /\ raw_info \in Seq(Marker) /\ frames \in Seq(Seq(Marker))
        /\ id_list \in Seq(Robot) /\ out_list \in Seq(Info)
    BY EmptySeq DEF Init
  <2>4. /\ DOMAIN robot_data_ = {} /\ DOMAIN temp_data = {}
        /\ i \in 0..Len(id_list) /\ temp_index = 0 /\ Len(out_list) = 0
        /\ disturbed = FALSE
    BY <2>1 DEF Init
  <2> QED  BY <2>2, <2>3, <2>4 DEF TypeInv, TypeOK
<1>2. TypeInv /\ [Next]_vars => TypeInv'
  <2> SUFFICES ASSUME TypeInv, [Next]_vars PROVE TypeInv'
    OBVIOUS
  <2>1. CASE UNCHANGED vars
    BY <2>1 DEF vars, TypeInv, TypeOK
  <2>2. CASE NextFrame
    BY <2>2, FrameType DEF NextFrame
  <2>3. CASE LocateFound
    <3>1. ~Returned /\ InRange(Entry.pos) # {}  BY <2>3 DEF LocateFound
    <3>2. Entry \in Info  BY <3>1, EntryIsKnown
    <3>3. Entry.pos \in Point  BY <3>2 DEF Info
    <3>4. BestMarker(Entry.pos) \in DOMAIN raw_info
      BY <3>1, <3>3, BestExists DEF InRange, TypeInv
    <3> DEFINE m == raw_info[BestMarker(Entry.pos)]
               e == [id |-> id_list[i + 1], loose_count |-> 0,
                     theta |-> m.theta, pos |-> m.pos]
    <3>5. e \in Info /\ e.theta # Junk /\ Keep(e) /\ e.id = id_list[i + 1]
      BY <2>3, <3>4, FoundEntry
    <3> HIDE DEF e
    <3> QED  BY <2>3, <3>1, <3>5, KeepType DEF LocateFound
  <2>4. CASE LocateLoose
    <3> DEFINE e == [Entry EXCEPT !.loose_count = @ + 1]
    <3>1. ~Returned /\ Keep(e) /\ Entry.loose_count < ROBOT_LOOSE_FRAME_COUNT
      BY <2>4 DEF LocateLoose
    <3>2. /\ Entry \in Info /\ Entry.id = id_list[i + 1]
          /\ Entry.theta = Junk => Entry.loose_count >= ROBOT_LOOSE_FRAME_COUNT
      BY <3>1, EntryIsKnown
    <3>3. Entry.theta # Junk  BY <3>1, <3>2, MetricAssumption DEF Info
    <3>4. e \in Info /\ e.id = id_list[i + 1] /\ e.theta # Junk
      BY <3>2, <3>3 DEF Info
    <3> HIDE DEF e
    <3> QED  BY <2>4, <3>1, <3>4, KeepType DEF LocateLoose
  <2>5. CASE LocateLost
    <3>1. ~Returned  BY <2>5 DEF LocateLost
    <3>2. i + 1 \in 1..Len(id_list) /\ Len(id_list) \in Nat  BY <3>1, EntryIsKnown
    <3>3. out_list' = out_list
      BY <2>5, <3>1, LostPops
    <3>4. UNCHANGED <<temp_index, temp_data, raw_info, id_list, truth, frames, disturbed>>
      BY <2>5 DEF LocateLost
    <3>5. /\ i' \in 0..Len(id_list')
          /\ robot_data_' = robot_data_ \/ robot_data_' = temp_data
      BY <2>5, <3>2, <3>4 DEF LocateLost
    <3> QED  BY <3>3, <3>4, <3>5 DEF TypeInv, TypeOK
  <2> QED  BY <2>1, <2>2, <2>3, <2>4, <2>5 DEF Next
<1> QED  BY <1>1, <1>2, PTL DEF Spec

\* Every variable keeps its type, and no entry with a heading that was never
\* initialised reaches the history.
THEOREM TypeCorrect == Spec => []TypeOK
<1>1. TypeInv => TypeOK  BY DEF TypeInv
<1> QED  BY <1>1, TypeInvariant, PTL

-----------------------------------------------------------------------------
(* Identity.                                                               *)

\* The markers of the frame are those of all robots, one each.
MarkersTrue ==
  /\ \A k \in DOMAIN raw_info : raw_info[k].pos = truth[raw_info[k].theta]
  /\ \A r \in Robot : \E k \in DOMAIN raw_info : raw_info[k].theta = r

\* What the tracker relies on, unless something disturbed it: between calls it
\* knows where every robot is, during a call where it was a frame ago, and a
\* robot whose link is down has not left the point it is initialised to.
Tracked ==
  /\ Spaced(truth)
  /\ ~disturbed =>
       /\ \A r \in Robot : IF Returned THEN Known(r).pos = truth[r]
                                       ELSE Dist[Known(r).pos][truth[r]] <= Reach
       /\ ~Returned => MarkersTrue
       /\ \A r \in Robot : (\A k \in 1..Len(id_list) : id_list[k] # r)
                             => truth[r] = Initial[r]
       /\ \A k \in 1..i : id_list[k] \in DOMAIN temp_data
       /\ \A r \in DOMAIN temp_data : temp_data[r].pos = truth[r]
       /\ Len(out_list) = i
       /\ \A k \in 1..i : /\ out_list[k].id = id_list[k]
                          /\ out_list[k].pos = truth[out_list[k].id]
                          /\ out_list[k].theta = out_list[k].id

\* The nearest marker to where a robot was is the one it wears: any other is
\* at least Apart - Reach away, which is more than Reach.
LEMMA NearestIsOwn ==
  ASSUME TypeOK, Spaced(truth), MarkersTrue,
         NEW r \in Robot, NEW p \in Point, Dist[p][truth[r]] <= Reach
  PROVE  /\ InRange(p) # {} /\ BestMarker(p) \in DOMAIN raw_info
         /\ raw_info[BestMarker(p)].theta = r
         /\ raw_info[BestMarker(p)].pos = truth[r]
<1>1. PICK own \in DOMAIN raw_info : raw_info[own].theta = r
  BY DEF MarkersTrue
<1>2. raw_info[own].pos = truth[r]  BY <1>1 DEF MarkersTrue
<1>3. Gap(p, own) <= Reach /\ Gap(p, own) \in Nat  BY <1>1, <1>2, MarkerType DEF Gap
<1>4. own \in InRange(p)
  BY <1>1, <1>3, SpacingAssumption, MetricAssumption DEF InRange
<1>5. /\ BestMarker(p) \in InRange(p)
      /\ Gap(p, BestMarker(p)) <= Gap(p, own)
  BY <1>4, BestExists
<1> DEFINE b == BestMarker(p)
           s == raw_info[b].theta
<1>6. b \in DOMAIN raw_info  BY <1>5 DEF InRange
<1>7. s \in Robot /\ raw_info[b].pos = truth[s] /\ Gap(p, b) \in Nat
  BY <1>6, MarkerType DEF MarkersTrue
<1>8. s = r
  <2> SUFFICES ASSUME s # r PROVE FALSE
    OBVIOUS
  <2>1. truth[r] \in Point /\ truth[s] \in Point  BY <1>7 DEF TypeOK
  <2>2. Dist[truth[r]][truth[s]] >= Apart  BY <1>7 DEF Spaced
  <2>3. Dist[truth[r]][truth[s]] <= Dist[truth[r]][p] + Dist[p][truth[s]]
    BY <2>1, MetricAssumption
  <2>4. Dist[truth[r]][p] = Dist[p][truth[r]]  BY <2>1, MetricAssumption
  <2>5. Dist[p][truth[s]] = Gap(p, b)  BY <1>7 DEF Gap
  <2>6. /\ Dist[truth[r]][truth[s]] \in Nat /\ Dist[p][truth[r]] \in Nat
        /\ Reach \in Nat /\ Apart \in Nat
    BY <2>1, MetricAssumption
  <2> HIDE DEF b, s
  <2> QED  BY <1>3, <1>5, <1>7, <2>2, <2>3, <2>4, <2>5, <2>6, SpacingAssumption DEF b
<1> QED  BY <1>4, <1>6, <1>7, <1>8

\* The next frame: each robot has moved by Reach at most, and if it still
\* counts as undisturbed it shows every robot.
LEMMA FrameTracked ==
  ASSUME TypeInv, TypeInv', Tracked, Returned,
         NEW where \in [Robot -> Point],
         \A r \in Robot : Dist[truth[r]][where[r]] <= Reach, Spaced(where),
         NEW seen \in SUBSET Robot, NEW up \in SUBSET Robot, Frame(where, seen, up)
  PROVE  Tracked'
<1>1. truth' = where  BY DEF Frame
<1>2. Spaced(truth)'  BY <1>1 DEF Spaced
<1> SUFFICES ASSUME ~disturbed' PROVE Tracked'
  BY <1>2 DEF Tracked
<1>3. /\ ~disturbed /\ seen = Robot /\ up # {}
      /\ \A r \in Robot \ up : where[r] = Initial[r]
  BY DEF Frame
<1>4. PICK ids \in SetToSeqs(up) : id_list' = ids
  BY DEF Frame
<1>5. /\ Len(id_list') \in Nat /\ Len(id_list') # 0
      /\ \A x \in up : \E k \in 1..Len(id_list') : id_list'[k] = x
  BY <1>3, <1>4, Enumeration
<1>6. PICK order \in SetToSeqs(Robot) :
        raw_info' = [k \in 1..Len(order) |->
                       [pos |-> where[order[k]], theta |-> order[k]]]
  BY <1>3 DEF Frame
<1>7. /\ Len(order) \in Nat /\ \A k \in 1..Len(order) : order[k] \in Robot
      /\ \A x \in Robot : \E k \in 1..Len(order) : order[k] = x
  BY Enumeration, ElementOfSeq
<1>8. MarkersTrue'
  BY <1>1, <1>6, <1>7 DEF MarkersTrue
<1>9. i' = 0 /\ ~Returned'
  <2>1. Robot # {}  BY <1>3
  <2> QED  BY <1>3, <1>5, <2>1 DEF Frame, Returned
<1>10. \A r \in Robot : Dist[Known(r).pos][truth[r]]' <= Reach
  BY <1>1, <1>3 DEF Tracked, Frame, Known
<1>11. \A r \in Robot : (\A k \in 1..Len(id_list') : id_list'[k] # r)
                          => truth'[r] = Initial[r]
  BY <1>1, <1>3, <1>5
<1>12. DOMAIN temp_data' = {} /\ Len(out_list') = 0
  <2>1. DOMAIN <<>> = {} /\ Len(<<>>) = 0  OBVIOUS
  <2> QED  BY <2>1 DEF Frame
<1> QED  BY <1>2, <1>8, <1>9, <1>10, <1>11, <1>12 DEF Tracked

\* An iteration in a call nothing disturbed finds the robot's own marker.
LEMMA FoundTracked ==
  ASSUME TypeInv, Tracked, ~disturbed, ~Returned
  PROVE  LET r == id_list[i + 1]
             m == raw_info[BestMarker(Entry.pos)]
         IN  /\ Entry = Known(r) /\ r \in Robot /\ Entry.pos \in Point
             /\ InRange(Entry.pos) # {}
             /\ BestMarker(Entry.pos) \in DOMAIN raw_info
             /\ m.theta = r /\ m.pos = truth[r]
<1> DEFINE r == id_list[i + 1]
<1>1. Entry = Known(r) /\ r \in Robot /\ Entry \in Info  BY EntryIsKnown
<1>2. Entry.pos \in Point  BY <1>1 DEF Info
<1>3. Dist[Entry.pos][truth[r]] <= Reach /\ MarkersTrue /\ Spaced(truth)
  BY <1>1 DEF Tracked
<1> QED  BY <1>1, <1>2, <1>3, NearestIsOwn DEF TypeInv

\* Whatever an iteration does, what the tracker relies on is kept.
LEMMA LocateTracked ==
  ASSUME TypeInv, TypeInv', Tracked, LocateFound \/ LocateLoose \/ LocateLost
  PROVE  Tracked'
<1>1. ~Returned /\ UNCHANGED <<raw_info, id_list, truth, disturbed>>
  BY DEF LocateFound, LocateLoose, LocateLost
<1>2. Spaced(truth)'  BY <1>1 DEF Tracked, Spaced
<1> SUFFICES ASSUME ~disturbed PROVE Tracked'
  BY <1>1, <1>2 DEF Tracked
<1> DEFINE r == id_list[i + 1]
           m == raw_info[BestMarker(Entry.pos)]
           e == [id |-> r, loose_count |-> 0, theta |-> m.theta, pos |-> m.pos]
<1>3. /\ r \in Robot /\ InRange(Entry.pos) # {}
      /\ BestMarker(Entry.pos) \in DOMAIN raw_info
      /\ m.theta = r /\ m.pos = truth[r]
  BY <1>1, FoundTracked
<1>4. LocateFound  BY <1>3 DEF LocateLoose, LocateLost
<1>5. e \in Info /\ e.theta # Junk /\ Keep(e) /\ e.id = r
      /\ e.pos = truth[r] /\ e.theta = r
  BY <1>3, <1>4, FoundEntry
<1> HIDE DEF e, m
<1>6. /\ Len(out_list') = Len(out_list) + 1
      /\ \A k \in 1..Len(out_list) : out_list'[k] = out_list[k]
      /\ out_list'[Len(out_list) + 1] = e
      /\ DOMAIN temp_data' = DOMAIN temp_data \cup {r}
      /\ \A k \in DOMAIN temp_data : temp_data'[k] = temp_data[k]
      /\ r \notin DOMAIN temp_data => temp_data'[r] = e
      /\ i' = i + 1
      /\ robot_data_' = IF i + 1 = Len(id_list) THEN temp_data' ELSE robot_data_
  BY <1>1, <1>5, KeepEffect
<1>7. i \in Nat /\ Len(out_list) = i /\ Len(id_list) \in Nat /\ i + 1 \in 1..Len(id_list)
  BY <1>1, EntryIsKnown DEF Tracked, TypeInv, TypeOK
<1>8. \A k \in 1..i' : id_list'[k] \in DOMAIN temp_data'
  BY <1>1, <1>6, <1>7 DEF Tracked
<1>9. \A k \in DOMAIN temp_data' : temp_data'[k].pos = truth'[k]
  BY <1>1, <1>5, <1>6 DEF Tracked
<1>10. /\ Len(out_list') = i'
       /\ \A k \in 1..i' : /\ out_list'[k].id = id_list'[k]
                           /\ out_list'[k].pos = truth'[out_list'[k].id]
                           /\ out_list'[k].theta = out_list'[k].id
  <2>1. ASSUME NEW k \in 1..i' 
        PROVE  /\ out_list'[k].id = id_list'[k]
               /\ out_list'[k].pos = truth'[out_list'[k].id]
               /\ out_list'[k].theta = out_list'[k].id
    <3>1. CASE k = i + 1
      BY <1>1, <1>5, <1>6, <1>7, <3>1
    <3>2. CASE k \in 1..i
      BY <1>1, <1>6, <1>7, <3>2 DEF Tracked
    <3> QED  BY <1>6, <1>7, <3>1, <3>2
  <2> QED  BY <1>6, <1>7, <2>1
<1>11. \A x \in Robot : (\A k \in 1..Len(id_list') : id_list'[k] # x)
                          => truth'[x] = Initial[x]
  BY <1>1 DEF Tracked
<1>12. CASE i + 1 = Len(id_list)
  <2>1. Returned'  BY <1>1, <1>6, <1>12 DEF Returned
  <2>2. ASSUME NEW x \in Robot PROVE Known(x)'.pos = truth'[x]
    <3>1. CASE x \in DOMAIN temp_data'
      BY <1>6, <1>9, <1>12, <3>1 DEF Known
    <3>2. CASE x \notin DOMAIN temp_data'
      <4>1. truth'[x] = Initial[x]  BY <1>1, <1>6, <1>8, <1>11, <1>12, <3>2
      <4> QED  BY <1>6, <1>12, <3>2, <4>1 DEF Known
    <3> QED  BY <3>1, <3>2
  <2> QED  BY <1>1, <1>2, <1>8, <1>9, <1>10, <1>11, <2>1, <2>2 DEF Tracked
<1>13. CASE i + 1 # Len(id_list)
  <2>1. ~Returned'  BY <1>1, <1>6, <1>7, <1>13 DEF Returned
  <2>2. \A x \in Robot : Known(x)' = Known(x)  BY <1>6, <1>13 DEF Known
  <2>3. \A x \in Robot : Dist[Known(x).pos][truth[x]]' <= Reach
    BY <1>1, <2>2 DEF Tracked
  <2>4. MarkersTrue'  BY <1>1 DEF MarkersTrue, Tracked
  <2> QED  BY <1>1, <1>2, <1>8, <1>9, <1>10, <1>11, <2>1, <2>3, <2>4 DEF Tracked
<1> QED  BY <1>12, <1>13

\* While no robot is hidden and no link drops on the way, every robot reported
\* is where it is and none of the connected ones is missing, whatever the
\* number of robots, the metric, and the way they move.
THEOREM RobotsKeepTheirIdentity == Spec => [](IdentityKept /\ NobodyMissing)
<1>1. Init => Tracked
  <2> SUFFICES ASSUME Init PROVE Tracked
    OBVIOUS
  <2>1. DOMAIN <<>> = {} /\ Len(<<>>) = 0  OBVIOUS
  <2>2. Returned /\ i = 0 /\ Len(out_list) = 0 /\ DOMAIN temp_data = {}
    BY <2>1 DEF Init, Returned
  <2>3. \A r \in Robot : Known(r).pos = truth[r]  BY <2>1 DEF Init, Known
  <2> QED  BY <2>2, <2>3 DEF Init, Tracked
<1>2. TypeInv /\ TypeInv' /\ Tracked /\ [Next]_vars => Tracked'
  <2> SUFFICES ASSUME TypeInv, TypeInv', Tracked, [Next]_vars PROVE Tracked'
    OBVIOUS
  <2>1. CASE UNCHANGED vars
    BY <2>1 DEF vars, Tracked, Spaced, Returned, Known, MarkersTrue
  <2>2. CASE NextFrame
    BY <2>2, FrameTracked DEF NextFrame
  <2>3. CASE LocateFound \/ LocateLoose \/ LocateLost
    BY <2>3, LocateTracked
  <2> QED  BY <2>1, <2>2, <2>3 DEF Next
<1>3. TypeInv /\ Tracked => IdentityKept /\ NobodyMissing
  <2> SUFFICES ASSUME TypeInv, Tracked PROVE IdentityKept /\ NobodyMissing
    OBVIOUS
  <2>1. /\ DOMAIN out_list = 1..Len(out_list)
        /\ id_list \in Seq(Robot) /\ DOMAIN id_list = 1..Len(id_list)
        /\ id_list = [k \in 1..Len(id_list) |-> id_list[k]]
    BY LenProperties DEF TypeInv, TypeOK
  <2>2. IdentityKept  BY <2>1 DEF Tracked, IdentityKept
  <2>3. NobodyMissing
    <3> SUFFICES ASSUME ~disturbed, Returned
                 PROVE  [k \in DOMAIN out_list |-> out_list[k].id] = id_list
      BY DEF NobodyMissing
    <3>1. DOMAIN out_list = 1..Len(id_list)  BY <2>1 DEF Tracked, Returned
    <3>2. \A k \in 1..Len(id_list) : out_list[k].id = id_list[k]
      BY DEF Tracked, Returned
    <3>3. [k \in DOMAIN out_list |-> out_list[k].id]
            = [k \in 1..Len(id_list) |-> id_list[k]]
      BY <3>1, <3>2
    <3> QED  BY <2>1, <3>3
  <2> QED  BY <2>2, <2>3
<1> QED  BY <1>1, <1>2, <1>3, TypeInvariant, PTL DEF Spec

\* The second half of it on its own.
THEOREM NobodyIsMissing == Spec => []NobodyMissing
<1> QED  BY RobotsKeepTheirIdentity, PTL

-----------------------------------------------------------------------------
(* The bookkeeping of the two lists, whatever is hidden or disconnected.   *)

\* What an iteration keeps: the marker found, or the entry known from before with
\* one more frame of absence.
FoundNow(e) ==
  /\ e.loose_count = 0
  /\ \E k \in DOMAIN raw_info : raw_info[k] = [pos |-> e.pos, theta |-> e.theta]
KnownFrom(e, old) ==
  /\ old \in Info /\ old.loose_count < ROBOT_LOOSE_FRAME_COUNT
  /\ e.loose_count = old.loose_count + 1 /\ e.pos = old.pos /\ e.theta = old.theta

LEMMA IterationKeeps ==
  ASSUME TypeInv, LocateFound \/ LocateLoose
  PROVE  /\ ~Returned /\ UNCHANGED <<raw_info, id_list, truth, frames, disturbed>>
         /\ \E e \in Info : /\ Keep(e) /\ e.id = id_list[i + 1] /\ e.theta # Junk
                            /\ FoundNow(e) \/ KnownFrom(e, Known(id_list[i + 1]))
<1>1. ~Returned /\ UNCHANGED <<raw_info, id_list, truth, frames, disturbed>>
  BY DEF LocateFound, LocateLoose
<1>2. /\ Entry \in Info /\ Entry.id = id_list[i + 1] /\ Entry = Known(id_list[i + 1])
      /\ Entry.theta = Junk => Entry.loose_count >= ROBOT_LOOSE_FRAME_COUNT
  BY <1>1, EntryIsKnown
<1>3. CASE LocateFound
  <2>1. InRange(Entry.pos) # {} /\ Entry.pos \in Point  BY <1>2, <1>3 DEF LocateFound, Info
  <2>2. BestMarker(Entry.pos) \in DOMAIN raw_info
    BY <2>1, BestExists DEF InRange, TypeInv
  <2> DEFINE m == raw_info[BestMarker(Entry.pos)]
             e == [id |-> id_list[i + 1], loose_count |-> 0,
                   theta |-> m.theta, pos |-> m.pos]
  <2>3. m \in Marker /\ e \in Info /\ e.theta # Junk /\ Keep(e)
    BY <1>3, <2>2, FoundEntry
  <2>4. m = [pos |-> m.pos, theta |-> m.theta]  BY <2>3 DEF Marker
  <2>5. FoundNow(e)
    <3>1. e.loose_count = 0 /\ e.pos = m.pos /\ e.theta = m.theta  OBVIOUS
    <3> QED  BY <2>2, <2>4, <3>1 DEF FoundNow
  <2>6. e.id = id_list[i + 1]  OBVIOUS
  <2> HIDE DEF e, m
  <2> QED  BY <1>1, <2>3, <2>5, <2>6
<1>4. CASE LocateLoose
  <2> DEFINE e == [Entry EXCEPT !.loose_count = @ + 1]
  <2>1. Keep(e) /\ Entry.loose_count < ROBOT_LOOSE_FRAME_COUNT
    BY <1>4 DEF LocateLoose
  <2>2. Entry.theta # Junk  BY <1>2, <2>1, MetricAssumption DEF Info
  <2>3. /\ e \in Info /\ e.id = id_list[i + 1] /\ e.theta # Junk
        /\ e.loose_count = Entry.loose_count + 1 /\ e.pos = Entry.pos /\ e.theta = Entry.theta
    BY <1>2, <2>2 DEF Info
  <2> HIDE DEF e
  <2>4. KnownFrom(e, Known(id_list[i + 1]))  BY <1>2, <2>1, <2>3 DEF KnownFrom
  <2> QED  BY <1>1, <2>1, <2>3, <2>4
<1> QED  BY <1>3, <1>4

LEMMA IterationLoses ==
  ASSUME TypeInv, LocateLost
  PROVE  /\ ~Returned /\ i' = i + 1
         /\ UNCHANGED <<out_list, temp_data, raw_info, id_list, truth, frames, disturbed>>
         /\ robot_data_' = IF i + 1 = Len(id_list) THEN temp_data ELSE robot_data_
<1>1. ~Returned  BY DEF LocateLost
<1>2. out_list' = out_list  BY <1>1, LostPops
<1> QED  BY <1>1, <1>2 DEF LocateLost

\* No robot comes twice in a call, so that what was stored is from this call's own
\* iterations; the list and the history hold the same entries.
Book ==
  /\ \A j, k \in 1..Len(id_list) : j # k => id_list[j] # id_list[k]
  /\ \A r \in DOMAIN temp_data : \E k \in 1..i : id_list[k] = r
  /\ \A r \in DOMAIN temp_data : \E k \in 1..Len(out_list) : out_list[k].id = r
  /\ \A k \in 1..Len(out_list) : /\ out_list[k].id \in DOMAIN temp_data
                                 /\ temp_data[out_list[k].id] = out_list[k]
  /\ Returned /\ out_list # <<>> => robot_data_ = temp_data

LEMMA KeepBook ==
  ASSUME TypeInv, Book, LocateFound \/ LocateLoose
  PROVE  Book'
<1>1. ~Returned /\ UNCHANGED id_list  BY IterationKeeps
<1>2. PICK e \in Info : Keep(e) /\ e.id = id_list[i + 1] /\ e.theta # Junk
  BY IterationKeeps
<1> DEFINE r == id_list[i + 1]
<1>3. /\ Len(out_list') = Len(out_list) + 1
      /\ \A k \in 1..Len(out_list) : out_list'[k] = out_list[k]
      /\ out_list'[Len(out_list) + 1] = e
      /\ DOMAIN temp_data' = DOMAIN temp_data \cup {r}
      /\ \A k \in DOMAIN temp_data : temp_data'[k] = temp_data[k]
      /\ r \notin DOMAIN temp_data => temp_data'[r] = e
      /\ i' = i + 1
      /\ robot_data_' = IF i + 1 = Len(id_list) THEN temp_data' ELSE robot_data_
  BY <1>1, <1>2, KeepEffect
<1>4. /\ i \in Nat /\ i + 1 \in 1..Len(id_list) /\ Len(id_list) \in Nat
      /\ Len(out_list) \in Nat
  BY <1>1, EntryIsKnown, LenProperties DEF TypeInv, TypeOK
<1>5. r \notin DOMAIN temp_data
  <2> SUFFICES ASSUME r \in DOMAIN temp_data PROVE FALSE
    OBVIOUS
  <2>1. PICK k \in 1..i : id_list[k] = r  BY DEF Book
  <2>2. k \in 1..Len(id_list) /\ k # i + 1  BY <1>4
  <2> QED  BY <1>4, <2>1, <2>2 DEF Book
<1>6. \A x \in DOMAIN temp_data' : \E k \in 1..i' : id_list'[k] = x
  BY <1>1, <1>3, <1>4 DEF Book
<1>7. \A x \in DOMAIN temp_data' : \E k \in 1..Len(out_list') : out_list'[k].id = x
  <2> SUFFICES ASSUME NEW x \in DOMAIN temp_data'
               PROVE  \E k \in 1..Len(out_list') : out_list'[k].id = x
    OBVIOUS
  <2>1. CASE x = r
    BY <1>2, <1>3, <1>4, <2>1
  <2>2. CASE x \in DOMAIN temp_data
    <3>1. PICK k \in 1..Len(out_list) : out_list[k].id = x  BY <2>2 DEF Book
    <3> QED  BY <1>3, <1>4, <3>1
  <2> QED  BY <1>3, <2>1, <2>2
<1>8. ASSUME NEW k \in 1..Len(out_list')
      PROVE  /\ out_list'[k].id \in DOMAIN temp_data'
             /\ temp_data'[out_list'[k].id] = out_list'[k]
  <2>1. CASE k = Len(out_list) + 1
    BY <1>2, <1>3, <1>5, <2>1
  <2>2. CASE k \in 1..Len(out_list)
    <3>1. out_list[k].id \in DOMAIN temp_data /\ temp_data[out_list[k].id] = out_list[k]
      BY <2>2 DEF Book
    <3> QED  BY <1>3, <2>2, <3>1
  <2> QED  BY <1>3, <1>4, <2>1, <2>2
<1>9. Returned' => robot_data_' = temp_data'
  BY <1>1, <1>3 DEF Returned
<1> QED  BY <1>1, <1>6, <1>7, <1>8, <1>9 DEF Book

LEMMA BookInvariant == Spec => []Book
<1>1. Init => Book
  <2> SUFFICES ASSUME Init PROVE Book
    OBVIOUS
  <2>1. DOMAIN <<>> = {} /\ Len(<<>>) = 0  OBVIOUS
  <2> QED  BY <2>1 DEF Init, Book
<1>2. TypeInv /\ Book /\ [Next]_vars => Book'
  <2> SUFFICES ASSUME TypeInv, Book, [Next]_vars PROVE Book'
    OBVIOUS
  <2>1. CASE UNCHANGED vars
    BY <2>1 DEF vars, Book, Returned
  <2>2. CASE NextFrame
    <3>1. PICK where \in [Robot -> Point], seen \in SUBSET Robot, up \in SUBSET Robot :
            Frame(where, seen, up)
      BY <2>2 DEF NextFrame
    <3>2. PICK ids \in SetToSeqs(up) : id_list' = ids  BY <3>1 DEF Frame
    <3>3. \A j, k \in 1..Len(id_list') : j # k => id_list'[j] # id_list'[k]
      BY <3>2, Enumeration
    <3>4. DOMAIN <<>> = {} /\ Len(<<>>) = 0  OBVIOUS
    <3>5. out_list' = <<>> /\ Len(out_list') = 0 /\ DOMAIN temp_data' = {}
      BY <3>1, <3>4 DEF Frame
    <3> QED  BY <3>3, <3>5 DEF Book
  <2>3. CASE LocateFound \/ LocateLoose
    BY <2>3, KeepBook
  <2>4. CASE LocateLost
    <3>1. i \in Nat  BY DEF TypeInv, TypeOK
    <3> QED  BY <2>4, <3>1, IterationLoses DEF Book, Returned
  <2> QED  BY <2>1, <2>2, <2>3, <2>4 DEF Next
<1> QED  BY <1>1, <1>2, TypeInvariant, PTL DEF Spec

\* At the start of every iteration the entry just pushed is where temp_index says, for
\* this very robot, and when a call returns the history holds exactly the robots that
\* were reported, as they were reported: push, pop and ++temp_index keep in step,
\* whichever robots are hidden, lost or not connected.
THEOREM ListsStayInStep == Spec => []ListAndHistoryAgree
<1>1. TypeInv /\ Book => ListAndHistoryAgree
  <2> SUFFICES ASSUME TypeInv, Book PROVE ListAndHistoryAgree
    OBVIOUS
  <2>1. DOMAIN out_list = 1..Len(out_list)  BY LenProperties DEF TypeInv, TypeOK
  <2>2. DOMAIN temp_data = {out_list[k].id : k \in DOMAIN out_list}
    <3> DEFINE ids == {out_list[k].id : k \in DOMAIN out_list}
    <3>1. ASSUME NEW r \in DOMAIN temp_data PROVE r \in ids
      <4>1. PICK k \in 1..Len(out_list) : out_list[k].id = r  BY DEF Book
      <4> QED  BY <2>1, <4>1, Zenon
    <3>2. ASSUME NEW r \in ids PROVE r \in DOMAIN temp_data
      <4>1. PICK k \in DOMAIN out_list : r = out_list[k].id  BY Zenon
      <4> QED  BY <2>1, <4>1 DEF Book
    <3> QED  BY <3>1, <3>2, Zenon
  <2> QED  BY <2>1, <2>2 DEF Book, TypeInv, ListAndHistoryAgree
<1> QED  BY <1>1, TypeInvariant, BookInvariant, PTL

-----------------------------------------------------------------------------
(* The age of what is reported.                                            *)

\* When the n-th frame has been processed, e is what one marker was loose_count
\* frames before.
SeenBy(e, n) ==
  /\ e.loose_count <= ROBOT_LOOSE_FRAME_COUNT /\ e.loose_count < n
  /\ \E m \in DOMAIN frames[n - e.loose_count] :
       frames[n - e.loose_count][m] = [pos |-> e.pos, theta |-> e.theta]

\* During a call the history is as of the frame before; what is being stored and
\* reported is as of this frame, which is the one in raw_info.
Sightings ==
  /\ ~Returned => /\ Len(frames) > 0 /\ frames[Len(frames)] = raw_info
                  /\ \A r \in DOMAIN robot_data_ : SeenBy(robot_data_[r], Len(frames) - 1)
  /\ Returned => \A r \in DOMAIN robot_data_ : SeenBy(robot_data_[r], Len(frames))
  /\ \A r \in DOMAIN temp_data : SeenBy(temp_data[r], Len(frames))
  /\ \A k \in 1..Len(out_list) : SeenBy(out_list[k], Len(frames))

\* Frames that come do not change those that were.
LEMMA SeenStays ==
  ASSUME NEW n \in Nat, NEW e, e.loose_count \in Nat, SeenBy(e, n),
         \A k \in 1..n : frames'[k] = frames[k]
  PROVE  SeenBy(e, n)'
<1>1. n - e.loose_count \in 1..n  BY DEF SeenBy
<1>2. frames'[n - e.loose_count] = frames[n - e.loose_count]  BY <1>1
<1>3. n' = n /\ e' = e  OBVIOUS
<1> QED  BY <1>2, <1>3 DEF SeenBy

LEMMA KeepSightings ==
  ASSUME TypeInv, TypeInv', Book, Sightings, LocateFound \/ LocateLoose
  PROVE  Sightings'
<1>1. ~Returned /\ UNCHANGED <<raw_info, id_list, frames>>
  BY IterationKeeps
<1>2. PICK e \in Info : /\ Keep(e) /\ e.id = id_list[i + 1] /\ e.theta # Junk
                        /\ FoundNow(e) \/ KnownFrom(e, Known(id_list[i + 1]))
  BY IterationKeeps
<1> DEFINE r == id_list[i + 1]
           n == Len(frames)
<1>3. /\ Len(out_list') = Len(out_list) + 1
      /\ \A k \in 1..Len(out_list) : out_list'[k] = out_list[k]
      /\ out_list'[Len(out_list) + 1] = e
      /\ DOMAIN temp_data' = DOMAIN temp_data \cup {r}
      /\ \A k \in DOMAIN temp_data : temp_data'[k] = temp_data[k]
      /\ r \notin DOMAIN temp_data => temp_data'[r] = e
      /\ i' = i + 1
      /\ robot_data_' = IF i + 1 = Len(id_list) THEN temp_data' ELSE robot_data_
  BY <1>1, <1>2, KeepEffect
<1>4. n \in Nat /\ n > 0 /\ frames[n] = raw_info /\ Len(out_list) \in Nat
  BY <1>1, LenProperties DEF Sightings, TypeInv, TypeOK
<1>5. SeenBy(e, n)
  <2>1. CASE FoundNow(e)
    <3>1. e.loose_count = 0 /\ n - 0 = n /\ ROBOT_LOOSE_FRAME_COUNT \in Nat
      BY <1>4, <2>1, MetricAssumption DEF FoundNow
    <3> QED  BY <1>4, <2>1, <3>1 DEF FoundNow, SeenBy
  <2>2. CASE KnownFrom(e, Known(r))
    <3>1. r \in DOMAIN robot_data_
      <4> SUFFICES ASSUME r \notin DOMAIN robot_data_ PROVE FALSE
        OBVIOUS
      <4>1. Known(r).loose_count = ROBOT_LOOSE_FRAME_COUNT  BY DEF Known
      <4> QED  BY <2>2, <4>1, MetricAssumption DEF KnownFrom
    <3>2. SeenBy(Known(r), n - 1)
      BY <1>1, <3>1 DEF Sightings, Known
    <3>3. /\ Known(r).loose_count \in Nat /\ Known(r).loose_count < ROBOT_LOOSE_FRAME_COUNT
          /\ e.loose_count = Known(r).loose_count + 1
          /\ e.pos = Known(r).pos /\ e.theta = Known(r).theta
      BY <2>2 DEF KnownFrom, Info
    <3>4. n - e.loose_count = (n - 1) - Known(r).loose_count
      BY <1>4, <3>3
    <3>5. e.loose_count <= ROBOT_LOOSE_FRAME_COUNT /\ e.loose_count < n
      BY <1>4, <3>2, <3>3, MetricAssumption DEF SeenBy
    <3> QED  BY <3>2, <3>3, <3>4, <3>5 DEF SeenBy
  <2> QED  BY <1>2, <2>1, <2>2
<1>6. \A x : SeenBy(x, n)' <=> SeenBy(x, n)
  BY <1>1 DEF SeenBy
<1>7. \A x \in DOMAIN temp_data' : SeenBy(temp_data'[x], n)
  <2>1. r \notin DOMAIN temp_data \/ r \in DOMAIN temp_data  OBVIOUS
  <2> QED  BY <1>3, <1>5 DEF Sightings
<1>8. \A k \in 1..Len(out_list') : SeenBy(out_list'[k], n)
  <2> SUFFICES ASSUME NEW k \in 1..Len(out_list') PROVE SeenBy(out_list'[k], n)
    OBVIOUS
  <2>1. CASE k = Len(out_list) + 1
    BY <1>3, <1>5, <2>1
  <2>2. CASE k \in 1..Len(out_list)
    BY <1>3, <2>2 DEF Sightings
  <2> QED  BY <1>3, <1>4, <2>1, <2>2
<1>9. CASE i + 1 = Len(id_list)
  <2>1. Returned' /\ robot_data_' = temp_data'  BY <1>1, <1>3, <1>9 DEF Returned
  <2>2. \A x \in DOMAIN robot_data_' : SeenBy(robot_data_'[x], n)  BY <1>7, <2>1
  <2> QED  BY <1>1, <1>7, <1>8, <2>1, <2>2 DEF Sightings, SeenBy
<1>10. CASE i + 1 # Len(id_list)
  <2>1. ~Returned' /\ robot_data_' = robot_data_  BY <1>1, <1>3, <1>10 DEF Returned
  <2>2. \A x \in DOMAIN robot_data_' : SeenBy(robot_data_'[x], n - 1)
    BY <1>1, <2>1 DEF Sightings
  <2> QED  BY <1>1, <1>4, <1>7, <1>8, <2>1, <2>2 DEF Sightings, SeenBy
<1> QED  BY <1>9, <1>10

\* A frame that no call is made for leaves the history as old as it was; one that is
\* processed makes all of it one frame older.
LEMMA FrameSightings ==
  ASSUME TypeInv, Sightings, Returned,
         NEW where \in [Robot -> Point], NEW seen \in SUBSET Robot, NEW up \in SUBSET Robot,
         Frame(where, seen, up)
  PROVE  Sightings'
<1> DEFINE n == Len(frames)
<1>1. /\ frames \in Seq(Seq(Marker)) /\ n \in Nat /\ robot_data_' = robot_data_
      /\ \A r \in DOMAIN robot_data_ : /\ SeenBy(robot_data_[r], n)
                                       /\ robot_data_[r].loose_count \in Nat
  BY LenProperties DEF TypeInv, TypeOK, Sightings, Frame, Info
<1>2. DOMAIN temp_data' = {} /\ Len(out_list') = 0
  <2>1. DOMAIN <<>> = {} /\ Len(<<>>) = 0  OBVIOUS
  <2> QED  BY <2>1 DEF Frame
<1>3. CASE seen # {} /\ up # {}
  <2>1. frames' = Append(frames, raw_info') /\ i' = 0  BY <1>3 DEF Frame
  <2>2. raw_info' \in Seq(Marker) /\ id_list' \in Seq(Robot)
    BY FrameType DEF TypeInv, TypeOK
  <2>3. /\ Len(frames') = n + 1 /\ frames'[n + 1] = raw_info'
        /\ \A k \in 1..n : frames'[k] = frames[k]
    BY <1>1, <2>1, <2>2, AppendProperties
  <2>4. ~Returned'
    <3>1. PICK ids \in SetToSeqs(up) : id_list' = ids  BY DEF Frame
    <3>2. PICK x \in up : TRUE  BY <1>3
    <3>3. Len(id_list') \in Nat /\ \E k \in 1..Len(id_list') : id_list'[k] = x
      BY <3>1, <3>2, Enumeration
    <3>4. Len(id_list') # 0  BY <3>3
    <3> QED  BY <2>1, <3>4 DEF Returned
  <2>5. ASSUME NEW r \in DOMAIN robot_data_ PROVE SeenBy(robot_data_[r], Len(frames) - 1)'
    <3>1. PICK e : e = robot_data_[r]  OBVIOUS
    <3>2. PICK age \in Nat : age = n  BY <1>1
    <3>3. SeenBy(e, age) /\ e.loose_count \in Nat  BY <1>1, <3>1, <3>2
    <3>4. \A k \in 1..age : frames'[k] = frames[k]  BY <2>3, <3>2
    <3>5. SeenBy(e, age)'  BY <3>3, <3>4, SeenStays
    <3>6. Len(frames') - 1 = age /\ robot_data_'[r] = e  BY <1>1, <2>3, <3>1, <3>2
    <3> QED  BY <3>5, <3>6 DEF SeenBy
  <2> QED  BY <1>1, <1>2, <2>3, <2>4, <2>5 DEF Sightings
<1>4. CASE ~(seen # {} /\ up # {})
  <2>1. frames' = frames /\ i' = Len(id_list')  BY <1>4 DEF Frame
  <2>2. Returned'  BY <2>1 DEF Returned
  <2> QED  BY <1>1, <1>2, <2>1, <2>2 DEF Sightings, SeenBy
<1> QED  BY <1>3, <1>4

\* What is reported of a robot, hidden or not, some marker was exactly loose_count
\* frames ago, and that no longer ago than ROBOT_LOOSE_FRAME_COUNT: never an initial
\* point, an uninitialised heading or a mix of two sightings.
THEOREM ReportsAreSightings == Spec => []ReportedWasSeen
<1>1. Init => Sightings
  <2> SUFFICES ASSUME Init PROVE Sightings
    OBVIOUS
  <2>1. DOMAIN <<>> = {} /\ Len(<<>>) = 0  OBVIOUS
  <2> QED  BY <2>1 DEF Init, Sightings, Returned
<1>2. TypeInv /\ TypeInv' /\ Book /\ Sightings /\ [Next]_vars => Sightings'
  <2> SUFFICES ASSUME TypeInv, TypeInv', Book, Sightings, [Next]_vars PROVE Sightings'
    OBVIOUS
  <2>1. CASE UNCHANGED vars
    BY <2>1 DEF vars, Sightings, SeenBy, Returned
  <2>2. CASE NextFrame
    BY <2>2, FrameSightings DEF NextFrame
  <2>3. CASE LocateFound \/ LocateLoose
    BY <2>3, KeepSightings
  <2>4. CASE LocateLost
    <3>1. /\ ~Returned /\ i' = i + 1
          /\ UNCHANGED <<out_list, temp_data, raw_info, id_list, frames>>
          /\ robot_data_' = IF i + 1 = Len(id_list) THEN temp_data ELSE robot_data_
      BY <2>4, IterationLoses
    <3>2. CASE i + 1 = Len(id_list)
      <4>1. Returned' /\ robot_data_' = temp_data  BY <3>1, <3>2 DEF Returned
      <4> QED  BY <3>1, <4>1 DEF Sightings, SeenBy
    <3>3. CASE i + 1 # Len(id_list)
      <4>1. ~Returned' /\ robot_data_' = robot_data_  BY <3>1, <3>3 DEF Returned
      <4> QED  BY <3>1, <4>1 DEF Sightings, SeenBy
    <3> QED  BY <3>2, <3>3
  <2> QED  BY <2>1, <2>2, <2>3, <2>4 DEF Next
<1>3. TypeInv /\ Sightings => ReportedWasSeen
  <2>1. TypeInv => DOMAIN out_list = 1..Len(out_list)
    BY LenProperties DEF TypeInv, TypeOK
  <2> QED  BY <2>1 DEF Sightings, SeenBy, ReportedWasSeen
<1> QED  BY <1>1, <1>2, <1>3, TypeInvariant, BookInvariant, PTL DEF Spec
=============================================================================
