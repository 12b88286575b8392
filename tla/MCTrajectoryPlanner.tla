------------------------- MODULE MCTrajectoryPlanner -------------------------
(* Robots on a line of length Length.                                        *)
EXTENDS HelloTrajectoryPlanner, SequencesExt

CONSTANT Length

LinePoints == 0..Length
Gap(p, q) == IF p < q THEN q - p ELSE p - q
LineDist == [p \in LinePoints |-> [q \in LinePoints |-> Gap(p, q)]]
\* Not the bearings of a line, but enough of them to meet every quadrant.
SpreadBearing == [p \in LinePoints |-> [q \in LinePoints |-> (3 * p + 5 * q) % CIRCLE]]

\* Every way to place the robots of a set and to give them headings, and
\* every way to choose their targets.
Placed(ids, points, headings) ==
  LET order == SetToSortSeq(ids, <)
  IN  {[k \in DOMAIN order |-> [id |-> order[k], theta |-> th[order[k]], pos |-> at[order[k]]]] :
         at \in [ids -> points], th \in [ids -> headings]}
Aimed(ids, points) ==
  LET order == SetToSortSeq(ids, <)
  IN  {[k \in DOMAIN order |-> [id |-> order[k], pos |-> at[order[k]]]] : at \in [ids -> points]}
CallsOf(seen, wanted, headings) ==
  {[info |-> f, targets |-> t] : f \in Placed(seen, LinePoints, headings),
                                 t \in Aimed(wanted, LinePoints)}

\* The robots located are those with a target: for conflicts all robots have one
\* target, as only the farthest matters; for turns there is one robot at a time.
MatchedCalls ==
  UNION {{[info |-> f, targets |-> t] :
            f \in Placed(ids, LinePoints, {0}),
            t \in UNION {Aimed(ids, {p}) : p \in LinePoints}} : ids \in SUBSET Robot \ {{}}}
    \cup UNION {CallsOf({r}, {r}, 0..(CIRCLE - 1)) : r \in Robot}

\* Any robots located, any with a target.
AllCalls ==
  UNION {CallsOf(seen, wanted, {0}) : seen, wanted \in SUBSET Robot} \ {NoCall}
=============================================================================
