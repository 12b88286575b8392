----------------------------- MODULE XpiderInfo -----------------------------
(***************************************************************************)
(* The action groups of XpiderInfo (xpider_ctl/xpider_info.cpp): the lists  *)
(* ParseGroupMsg fills, the memory behind their elements, and the runner of *)
(* a group, which the robot's firmware calls with its millisecond clock.    *)
(* The firmware is not under src/: it is assumed to follow the interface,   *)
(* that is to name a group before it runs one, and to leave ClearGroupList   *)
(* and GroupListAdd to ParseGroupMsg, their only caller.                    *)
(***************************************************************************)
EXTENDS LinkedList

CONSTANTS
  Groups,            \* the first of the MAX_GROUP_NUM groups: 0, 1, ...
  Actions,           \* what a message may hold: records of a known id and of time
  Messages,          \* the messages of action groups: a sequence of actions for each
  MaxActions,        \* bound: actions in a group
  MaxLost,           \* bound: data blocks nobody points to any more
  MaxCounted,        \* bound: time Count takes from one action
  CountStep,         \* what Count takes at a time (10)
  ClockSize          \* the millisecond clock counts modulo this (2^32)

Ids == {"idWalk", "idRotate", "idLed", "idEye", "idSpeaker"}

ASSUME InfoAssumption ==
  /\ T = NULL                 \* the lists are of pointers
  /\ MaxActions \in Nat /\ MaxLost \in Nat /\ ClockSize \in Nat \ {0}
  /\ MaxCounted \in Nat /\ CountStep \in Nat \ {0}
  /\ Groups = 0..(Cardinality(Groups) - 1) /\ IsFiniteSet(Groups)
  /\ Cardinality(Groups) * MaxActions <= Cardinality(Cells)    \* the heap does not run out
  /\ \A a \in Actions : a.id \in Ids /\ a.time \in 0..(ClockSize - 1)
  /\ \A m \in Messages : /\ m \in Seq(Seq(Actions)) /\ Len(m) <= Cardinality(Groups)
                         /\ \A k \in DOMAIN m : Len(m[k]) <= MaxActions

VARIABLES
  action_group_list, \* for each group the list of its elements, by pointer
  elements,          \* the heap of GroupElements, by pointer
  blocks,            \* how many data blocks of each id are on the heap
  store_group_num,   \* how many groups the last message had
  running_group_id, running_action_id, action_status,
  clock,             \* the firmware's clock
  elapsed,           \* history: the time since the action was started
  said,              \* history: for each group the actions the last message had for it
  begun,             \* history: the action the runner was started with
  counted            \* history: the time Count has taken from it

listVars == <<action_group_list, elements, blocks, store_group_num>>
runVars == <<running_group_id, running_action_id, action_status>>
historyVars == <<elapsed, said, begun, counted>>
vars == <<listVars, runVars, clock, historyVars>>

Gone == [id |-> "idUnknow", time |-> 0]      \* no element
NoGroup == 255       \* running_group_id before the firmware names one
NoAction == MaxActions + 1     \* 0xff, likewise: beyond the end of every list

Init ==
  /\ action_group_list = [g \in Groups |-> LinkedList]
  /\ elements = [p \in Cells |-> Gone] /\ blocks = [i \in Ids |-> 0]
  /\ store_group_num = 0
  /\ running_group_id = NoGroup /\ running_action_id = NoAction
  /\ action_status = [id |-> "idUnknow", time_counter |-> 0, time_start |-> 0,
                      is_enable |-> FALSE]
  /\ clock = 0 /\ elapsed = 0
  /\ said = [g \in Groups |-> <<>>] /\ begun = Gone /\ counted = 0

-----------------------------------------------------------------------------
(* The lists.  A store is what the lists, the heap and its blocks hold.     *)

Store == [lists |-> action_group_list, elems |-> elements, blks |-> blocks]

PointersOf(list) == {get(list, i) : i \in 0..(list._size - 1)} \ {NULL}

\* Memory given back: the elements pointed to and, the speaker's apart, their data.
Free(s, gone) ==
  [s EXCEPT !.elems = [p \in Cells |-> IF p \in gone THEN Gone ELSE s.elems[p]],
            !.blks = [i \in Ids |-> IF i = "idSpeaker" THEN s.blks[i] ELSE
                        s.blks[i] - Cardinality({p \in gone : s.elems[p].id = i})]]

\* Mutant of ClearGroupList: the loop shifts while it counts up to size().
ClearGroupList_Half(s, g) ==
  LET half == {i \in 0..(s.lists[g]._size - 1) : i % 2 = 0}
  IN  Free([s EXCEPT !.lists[g] = clear(@)], {get(s.lists[g], i) : i \in half})

\* The cache getNode leaves behind goes with clear.
ClearGroupList(s, g) == Free([s EXCEPT !.lists[g] = clear(@)], PointersOf(s.lists[g]))

\* The groups that are stored; a list behind them is not looked at.
ClearGroups(s, stored) ==
  LET cleared[n \in 0..stored] ==
        IF n = 0 THEN s ELSE ClearGroupList(cleared[n - 1], n - 1)
  IN  cleared[stored]

GroupListAdd(s, g, a) ==
  LET p == Min({n \in Cells : s.elems[n] = Gone})
  IN  [s EXCEPT !.lists[g] = add(@, p), !.elems[p] = a, !.blks[a.id] = @ + 1]

FillGroup(s, g, actions) ==
  LET filled[n \in 0..Len(actions)] ==
        IF n = 0 THEN s ELSE GroupListAdd(filled[n - 1], g, actions[n])
  IN  filled[Len(actions)]

\* The groups of a message, numbered as they come.
FillGroups(s, message) ==
  LET filled[n \in 0..Len(message)] ==
        IF n = 0 THEN s ELSE FillGroup(filled[n - 1], n - 1, message[n])
  IN  filled[Len(message)]

\* Data blocks on the heap to which no element points.
Lost(blks, elems, i) == blks[i] - Cardinality({p \in Cells : elems[p].id = i})

\* A message of action groups: the old ones go, the new ones come.  The runner is
\* not told.
ParseGroupMsg(message) ==
  LET s == FillGroups(ClearGroups(Store, store_group_num), message)
  IN  /\ \A i \in Ids : Lost(s.blks, s.elems, i) <= MaxLost
      /\ action_group_list' = s.lists /\ elements' = s.elems /\ blocks' = s.blks
      /\ store_group_num' = Len(message)
      /\ said' = [g \in Groups |-> IF g < Len(message) THEN message[g + 1] ELSE <<>>]
      /\ UNCHANGED <<runVars, clock, elapsed, begun, counted>>

\* ClearAllGroupList clears the lists of all groups; store_group_num stays.
ClearAllGroupList ==
  LET s == ClearGroups(Store, Cardinality(Groups))
  IN  /\ \A i \in Ids : Lost(s.blks, s.elems, i) <= MaxLost
      /\ action_group_list' = s.lists /\ elements' = s.elems /\ blocks' = s.blks
      /\ said' = [g \in Groups |-> <<>>]
      /\ UNCHANGED <<store_group_num, runVars, clock, elapsed, begun, counted>>

-----------------------------------------------------------------------------
(* The runner.                                                             *)

\* *p, for a pointer read from a list.
Element(p) == IF p = NULL THEN Gone ELSE elements[p]
TimeOf(element) == IF element.id = "idSpeaker" THEN 0 ELSE element.time

\* SetCurrentAction(n, true, now).
SetCurrentAction(n) ==
  LET list == action_group_list[running_group_id]
      element == Element(get(list, n))
      runs == list._size > 0 /\ n < list._size
  IN  /\ running_group_id # NoGroup
      /\ running_action_id' = n
      /\ IF runs
           THEN /\ action_status' = [id |-> element.id, time_counter |-> TimeOf(element),
                                     time_start |-> clock, is_enable |-> TRUE]
                /\ action_group_list' = [action_group_list EXCEPT
                                           ![running_group_id] = Got(list, n)]
           ELSE /\ action_status' = [action_status EXCEPT !.is_enable = FALSE]
                /\ UNCHANGED action_group_list
      /\ elapsed' = 0 /\ counted' = 0
      /\ begun' = IF runs THEN element ELSE Gone
      /\ UNCHANGED <<elements, blocks, store_group_num, running_group_id, clock, said>>

\* SetCurrentAction(n, false, now).
StopCurrentAction ==
  /\ action_status' = [action_status EXCEPT !.is_enable = FALSE]
  /\ elapsed' = 0 /\ begun' = Gone /\ counted' = 0
  /\ UNCHANGED <<listVars, running_group_id, running_action_id, clock, said>>

Less(time, taken) == IF time < taken THEN 0 ELSE time - taken

\* Count, for a firmware that counts an action's time down.
Count ==
  /\ counted + CountStep <= MaxCounted
  /\ action_status' = [action_status EXCEPT !.time_counter = Less(@, CountStep)]
  /\ counted' = counted + CountStep
  /\ UNCHANGED <<listVars, running_group_id, running_action_id, clock, elapsed, said, begun>>

getCurrentAction ==
  LET list == action_group_list[running_group_id]
  IN  get(list, running_action_id)
\* getCurrentAction, which remembers the node; behind the end it remembers NULL.
AskCurrentAction ==
  /\ running_group_id # NoGroup
  /\ action_group_list' = [action_group_list EXCEPT
                             ![running_group_id] = Got(@, running_action_id)]
  /\ UNCHANGED <<elements, blocks, store_group_num, runVars, clock, historyVars>>

\* Mutant of ifActionShouldStop: it compares with the time of the end.
ifActionShouldStop_AtEnd(now) ==
  now >= (action_status.time_start + action_status.time_counter) % ClockSize

ifActionShouldStop(now) ==
  (now - action_status.time_start) % ClockSize >= action_status.time_counter

\* The firmware names a group, when it likes: what ifGroupCanRun answers is its
\* affair.
NameGroup(g) ==
  /\ running_group_id' = g
  /\ UNCHANGED <<listVars, running_action_id, action_status, clock, historyVars>>

\* The firmware polls: an action is watched to its end, before the clock has
\* turned once.
Tick ==
  /\ elapsed < ClockSize - 1
  /\ clock' = (clock + 1) % ClockSize
  /\ elapsed' = IF action_status.is_enable THEN elapsed + 1 ELSE elapsed
  /\ UNCHANGED <<listVars, runVars, said, begun, counted>>

Next ==
  \/ \E m \in Messages : ParseGroupMsg(m)
  \/ \E n \in 0..MaxActions : SetCurrentAction(n)
  \/ \E g \in Groups : NameGroup(g)
  \/ ClearAllGroupList \/ StopCurrentAction \/ Count \/ AskCurrentAction \/ Tick

Spec == Init /\ [][Next]_vars

-----------------------------------------------------------------------------

\* On the heap are the elements of the lists, each in one place of one list, one
\* data block for each, and beyond that data of the speaker alone.
OnlySpeakersLeak ==
  LET held == {p \in Cells : elements[p] # Gone}
      places == UNION {{g} \X (0..(action_group_list[g]._size - 1)) : g \in Groups}
      PointerAt(place) == get(action_group_list[place[1]], place[2])
  IN  /\ held = {PointerAt(place) : place \in places}
      /\ \A a, b \in places : PointerAt(a) = PointerAt(b) => a = b
      /\ \A i \in Ids : IF i = "idSpeaker" THEN Lost(blocks, elements, i) >= 0
                        ELSE Lost(blocks, elements, i) = 0

\* Whatever messages replaced the lists under the runner, and whatever getNode
\* remembers of them, the runner is answered the action the last message has in
\* its place, or none.  As long as that is the action it was started with, the
\* status holds its kind, and its time less what was counted.
StatusIsCurrent ==
  running_group_id # NoGroup =>
    LET current == Element(getCurrentAction)
        group == said[running_group_id]
    IN  /\ current = IF running_action_id < Len(group) THEN group[running_action_id + 1]
                      ELSE Gone
        /\ action_status.is_enable /\ current = begun =>
             /\ action_status.id = current.id
             /\ action_status.time_counter = Less(TimeOf(current), counted)

\* The difference of two clock readings is right across the wrap of the clock.
StopsOnTime ==
  action_status.is_enable =>
    (ifActionShouldStop(clock) <=> elapsed >= action_status.time_counter)
=============================================================================
