-------------------------- MODULE CapacityEstimate --------------------------
(***************************************************************************)
(* The delta method of metrics.go: how one observed utilization header     *)
(* moves a window's quotaSnapshot and its capacityEstimator.               *)
(*                                                                         *)
(* Utilization is a natural number of reporting units (percent), cost a    *)
(* natural number of currency units; the float64 rounding of the code is   *)
(* abstracted away, its comparisons and sums are kept.                     *)
(***************************************************************************)
EXTENDS Integers

\* The fields of an event's quota that are estimated, one per rate-limit window.
Windows == {"five_hour", "seven_day"}

Snapshots  == [util : Nat, cost : Nat, set : BOOLEAN, bracketed : BOOLEAN]
Estimators == [cost : Nat, util : Nat]

\* The zero values a fresh gaugeSet starts from.
NoSnapshot  == [util |-> 0, cost |-> 0, set |-> FALSE, bracketed |-> FALSE]
NoEstimator == [cost |-> 0, util |-> 0]

RolledOver(snap, u) == snap.set /\ u < snap.util

\* snap after util and cost were copied into it.
Anchor(u, c, bracketed) ==
  [util |-> u, cost |-> c, set |-> TRUE, bracketed |-> bracketed]

Unchanged(snap, est) == [snap |-> snap, est |-> est, changed |-> FALSE]
Moved(u, c, b, est)  == [snap |-> Anchor(u, c, b), est |-> est, changed |-> FALSE]

\* Mutant of Accumulated: the anchor's cost is not subtracted.
WholeCostCounted(snap, est, u, c) ==
  [snap    |-> Anchor(u, c, TRUE),
   est     |-> [cost |-> est.cost + c, util |-> est.util + (u - snap.util)],
   changed |-> TRUE]

\* Mutant of Accumulated: the cost delta is taken the wrong way round.
DeltaSwapped(snap, est, u, c) ==
  [snap    |-> Anchor(u, c, TRUE),
   est     |-> [cost |-> est.cost + (snap.cost - c),
                util |-> est.util + (u - snap.util)],
   changed |-> TRUE]

Accumulated(snap, est, u, c) ==
  [snap    |-> Anchor(u, c, TRUE),
   est     |-> [cost |-> est.cost + (c - snap.cost),
                util |-> est.util + (u - snap.util)],
   changed |-> TRUE]

\* Mutant of UpdateCapacityEstimate: a rollover discards the estimate too.
RolloverForgets(snap, est, u, c) ==
  IF ~snap.set                        THEN Moved(u, c, FALSE, est)
  ELSE IF RolledOver(snap, u)         THEN Moved(u, c, FALSE, NoEstimator)
  ELSE IF u - snap.util <= 0          THEN Unchanged(snap, est)
  ELSE IF ~snap.bracketed             THEN Moved(u, c, TRUE, est)
  ELSE IF c - snap.cost <= 0          THEN Moved(u, c, TRUE, est)
  ELSE Accumulated(snap, est, u, c)

\* Mutant of UpdateCapacityEstimate: the anchor follows every observation, so the
\* cost between two crossings is dropped.
AnchorFollowsCost(snap, est, u, c) ==
  IF ~snap.set \/ RolledOver(snap, u) THEN Moved(u, c, FALSE, est)
  ELSE IF u - snap.util <= 0          THEN Moved(snap.util, c, snap.bracketed, est)
  ELSE IF ~snap.bracketed             THEN Moved(u, c, TRUE, est)
  ELSE IF c - snap.cost <= 0          THEN Moved(u, c, TRUE, est)
  ELSE Accumulated(snap, est, u, c)

-----------------------------------------------------------------------------
\* updateCapacityEstimate: the snapshot and estimator after observing
\* utilization u at cumulative cost c, and whether the estimator changed.
UpdateCapacityEstimate(snap, est, u, c) ==
  IF ~snap.set \/ RolledOver(snap, u) THEN Moved(u, c, FALSE, est)
  ELSE IF u - snap.util <= 0          THEN Unchanged(snap, est)
  ELSE IF ~snap.bracketed             THEN Moved(u, c, TRUE, est)
  ELSE IF c - snap.cost <= 0          THEN Moved(u, c, TRUE, est)
  ELSE Accumulated(snap, est, u, c)
=============================================================================
