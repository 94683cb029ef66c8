---------------------------- MODULE CapacityReport ----------------------------
(***************************************************************************)
(* tools/capacity_probe/report.py as operators over a sequence of          *)
(* snapshots, each with the percent (pct) and the cumulative cost (units)  *)
(* of one reading of the metrics: the percent boundaries they bracket, the *)
(* ticks between two clean boundaries.                                     *)
(***************************************************************************)
EXTENDS Integers, Sequences, FiniteSets, FiniteSetsExt

\* prev_bucket: the highest percent so far, a fall does not lower it.
Highest(snaps, i) == Max({snaps[j].pct : j \in 1 .. i})

\* Mutant of Boundary: the first snapshot after the boundary is both its ends.
BoundaryAtPost(snaps, i, k) ==
  [bucket |-> k, pre |-> snaps[i].units, post |-> snaps[i].units,
   coarse |-> snaps[i].pct - Highest(snaps, i - 1) > 1]

\* The boundary k that snapshot i passed, between its cost and the one before it. Of
\* several boundaries in one jump none has a clean bracket.
Boundary(snaps, i, k) ==
  [bucket |-> k, pre |-> snaps[i - 1].units, post |-> snaps[i].units,
   coarse |-> snaps[i].pct - Highest(snaps, i - 1) > 1]

DetectBoundaries(snaps) ==
  UNION {{Boundary(snaps, i, k) : k \in Highest(snaps, i - 1) + 1 .. snaps[i].pct} :
           i \in 2 .. Len(snaps)}

\* Mutant of MeasuredTicks: the anchor is left out once more.
MeasuredTicksNoAnchor(snaps) ==
  LET bs == DetectBoundaries(snaps)
  IN {t \in bs \X bs : /\ t[2].bucket = t[1].bucket + 1 /\ ~t[1].coarse /\ ~t[2].coarse
                       /\ \E b \in bs : b.bucket < t[1].bucket}

\* A tick is a pair of consecutive clean boundaries.
MeasuredTicks(snaps) ==
  LET bs == DetectBoundaries(snaps)
  IN {t \in bs \X bs : t[2].bucket = t[1].bucket + 1 /\ ~t[1].coarse /\ ~t[2].coarse}

\* build_bounds_summary: what bounds.json says of a set of ticks, as sums over them; its
\* averages are these by clean, and the midpoint is twice itself.
BoundsSummary(ticks) ==
  LET low  == SumFunction([t \in ticks |-> t[2].pre - t[1].pre])
      high == SumFunction([t \in ticks |-> t[2].post - t[1].post])
  IN [clean |-> Cardinality(ticks), low |-> low, mid |-> low + high, high |-> high]
=============================================================================
