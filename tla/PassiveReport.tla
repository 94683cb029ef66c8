---------------------------- MODULE PassiveReport ----------------------------
(***************************************************************************)
(* estimate_window of tools/capacity_probe/passive-report.py, one round of *)
(* its loop at a time, over the lines of usage.jsonl in the order of their *)
(* time stamps. A line has a cost and the percent (util) of one window.    *)
(* The estimate is cost / moved; the counts of lines and the table of      *)
(* cycles that are printed beside it are left out.                         *)
(***************************************************************************)
EXTENDS Integers

CONSTANT NoPercent  \* there is no utilization: in a line, or before the first one

NoTotals == [cost |-> 0, moved |-> 0, prev |-> NoPercent]

\* Mutant of Walked: a fall counts as movement too.
WalkedBothWays(t, cost, util) ==
  LET known == t.prev # NoPercent /\ util # NoPercent
  IN [cost  |-> t.cost + cost,
      moved |-> t.moved + (IF ~known THEN 0
                           ELSE IF util > t.prev THEN util - t.prev ELSE t.prev - util),
      prev  |-> IF util = NoPercent THEN t.prev ELSE util]

\* The costs are added up, and every rise of the utilization; a fall, be it a rollover or
\* an answer out of order, only changes where the next rise is measured from.
Walked(t, cost, util) ==
  LET known == t.prev # NoPercent /\ util # NoPercent
  IN [cost  |-> t.cost + cost,
      moved |-> t.moved + (IF known /\ util > t.prev THEN util - t.prev ELSE 0),
      prev  |-> IF util = NoPercent THEN t.prev ELSE util]
=============================================================================
