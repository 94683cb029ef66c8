--------------------------- MODULE QuotaEstimator ---------------------------
(***************************************************************************)
(* The pairwise estimator of tools/quota_probe/estimator.py as operators:  *)
(* how the rows of usage.jsonl become crossings (build_crossings) and how  *)
(* pairs of crossings become an interval for the cost of one tick          *)
(* (estimate_interval).                                                    *)
(*                                                                         *)
(* Costs are naturals. An interval bound is a fraction there; here a pair  *)
(* of crossings stays a constraint lo <= dk * tick <= hi, which needs no   *)
(* division, and an interval is the set of the constraints it intersects.  *)
(***************************************************************************)
EXTENDS Integers, Sequences

CONSTANT NoBucket  (* the bucket before the first observation *)

ASSUME BucketAssumption == NoBucket \notin Nat

\* What the readers of usage.jsonl look at in a line: whether it is a JSON object, its
\* status, whether errors is empty, its model, usage, and the window's utilization.
LineFacts ==
  [object : BOOLEAN, served : BOOLEAN, errors : BOOLEAN,
   model  : {"missing", "unknown", "priced"},
   usage  : BOOLEAN,
   util   : {"no quota", "missing", "outside 0 .. 1", "valid"}]

\* build_observations takes a line as a measurement point; any other is an exclusion.
Counts(f) ==
  /\ f.object /\ f.served /\ ~f.errors
  /\ f.model = "priced" /\ f.usage
  /\ f.util = "valid"

\* A crossing of the k-th percent, between two values of the measured cost. The
\* crossings of one row share its line as their group; group 0 is a lone one.
Crossings == [k : Nat, before : Nat, after : Nat, group : Nat]

\* The variables of build_crossings' loop.
Tallies == [previous : Nat \cup {NoBucket}, measured : Nat, crossings : Seq(Crossings)]
NoTally == [previous |-> NoBucket, measured |-> 0, crossings |-> << >>]

\* The crossings that one observation adds.
Crossed(previous, bucket, before, after, line) ==
  [i \in 1 .. bucket - previous |->
     [k      |-> previous + i,
      before |-> before,
      after  |-> after,
      group  |-> IF bucket - previous > 1 THEN line ELSE 0]]

\* Mutant of Tallied: the measured cost starts again when the bucket falls.
TalliedFromZero(t, cost, bucket, line) ==
  IF t.previous = NoBucket
  THEN [t EXCEPT !.previous = bucket]
  ELSE LET before == IF bucket < t.previous THEN 0 ELSE t.measured
           after  == before + cost
       IN [previous  |-> bucket,
           measured  |-> after,
           crossings |-> IF bucket > t.previous
                         THEN t.crossings \o Crossed(t.previous, bucket, before, after, line)
                         ELSE t.crossings]

\* Mutant of Tallied: only rows that cross a percent are measured.
TalliedAtCrossings(t, cost, bucket, line) ==
  IF t.previous = NoBucket \/ bucket <= t.previous
  THEN [t EXCEPT !.previous = bucket]
  ELSE LET after == t.measured + cost
       IN [previous  |-> bucket,
           measured  |-> after,
           crossings |-> t.crossings \o Crossed(t.previous, bucket, t.measured, after, line)]

\* One round of the loop. The first observation only sets the bucket: what was
\* spent before it is part of the unknown starting position.
Tallied(t, cost, bucket, line) ==
  IF t.previous = NoBucket
  THEN [t EXCEPT !.previous = bucket]
  ELSE LET after == t.measured + cost
       IN [previous  |-> bucket,
           measured  |-> after,
           crossings |-> IF bucket > t.previous
                         THEN t.crossings \o Crossed(t.previous, bucket, t.measured, after, line)
                         ELSE t.crossings]

-----------------------------------------------------------------------------
\* The pairs estimate_interval uses: a later crossing of a higher percent, not of
\* the same row.
Paired(a, b) == b.k > a.k /\ ~(a.group # 0 /\ a.group = b.group)

Constraint(a, b) ==
  [lo |-> IF b.before > a.after THEN b.before - a.after ELSE 0,
   hi |-> b.after - a.before,
   dk |-> b.k - a.k]

Pairs(crossings) ==
  {p \in (1 .. Len(crossings)) \X (1 .. Len(crossings)) :
     p[1] < p[2] /\ Paired(crossings[p[1]], crossings[p[2]])}

Constraints(crossings) == {Constraint(crossings[p[1]], crossings[p[2]]) : p \in Pairs(crossings)}

\* Two constraints that no cost of a tick meets.
Disjoint(cs) == \E p, q \in cs : p.lo * q.dk > q.hi * p.dk

\* A constraint with its bounds in order: Interval refuses any other.
Ordered(p) == p.lo <= p.hi

\* estimate_interval returns an interval, and the interval contains tick.
Estimated(cs) == cs # {} /\ ~Disjoint(cs)
Admits(cs, tick) == \A p \in cs : p.lo <= tick * p.dk /\ tick * p.dk <= p.hi

-----------------------------------------------------------------------------
Last(crossings) == crossings[Len(crossings)]

\* Mutant of InWindow: the near edge is measured from the end of the last bracket.
InWindowAfter(crossings, cs, cost) ==
  \A p \in cs : /\ p.lo <= (cost - Last(crossings).after) * p.dk
                /\ (cost - Last(crossings).after) * p.dk <= p.hi

\* boundary_window, once there is an interval: the last crossing's bracket moved on by
\* a tick of any cost the interval admits.
InWindow(crossings, cs, cost) ==
  \A p \in cs : /\ p.lo <= (cost - Last(crossings).before) * p.dk
                /\ (cost - Last(crossings).after) * p.dk <= p.hi

\* A step of this cost from now is no longer than the bulk step, nine tenths of the way
\* to the window's near edge.
InBulk(crossings, cs, now, step) ==
  \E p \in cs : 10 * step * p.dk <= 9 * (p.lo - (now - Last(crossings).before) * p.dk)
=============================================================================
