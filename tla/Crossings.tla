------------------------------ MODULE Crossings ------------------------------
(***************************************************************************)
(* tools/capacity_probe/crossings.py and the legacy estimator of           *)
(* validate_crossings.py as operators: how an iteration that advances the  *)
(* utilization becomes crossings, how crossings are rebuilt from the rows  *)
(* of iterations.jsonl, and which costs of a tick the pairs admit.         *)
(*                                                                         *)
(* Token counts are integers. A pair of crossings stays a constraint       *)
(* lo <= dk * cost <= hi, which needs no division. EstimateC is the set of *)
(* the integer costs that all pairs admit.                                 *)
(***************************************************************************)
EXTENDS Integers, Sequences, SequencesExt

\* A line of position-constraints.jsonl: percent k lies between two sums of the units.
CrossingLines == [k : Nat, before : Int, after : Int, iter : Nat, group : Nat]

\* Mutant of BuildCrossings: the percent the iteration started from is a crossing.
BuildCrossingsFromPre(pre, post, before, after, n) ==
  [i \in 1 .. post - pre |->
     [k |-> pre + i - 1, before |-> before, after |-> after, iter |-> n,
      group |-> IF post - pre > 1 THEN n ELSE 0]]

\* One crossing per percent the iteration n passed, all with its bracket; group 0
\* is a crossing that had the iteration to itself.
BuildCrossings(pre, post, before, after, n) ==
  [i \in 1 .. post - pre |->
     [k |-> pre + i, before |-> before, after |-> after, iter |-> n,
      group |-> IF post - pre > 1 THEN n ELSE 0]]

\* write_crossings appends, so that load_crossings finds all of them in order.
WriteCrossings(file, crossings) == file \o crossings

\* A row's percent is below the one before it: the crossings are not rebuilt, it raises
\* ValueError.
Falls(rows, pct) == \E n \in DOMAIN rows : pct[n] < pct[n - 1]

\* The crossings of a run's rows without a fall, whose units are summed from the start of
\* the run. pct[n] is the percent of the snapshot after row n.
DeriveCrossings(rows, pct) ==
  LET Spent(n) == SumFunctionOnSet([i \in DOMAIN rows |-> rows[i].units], 1 .. n)
  IN FlattenSeq([n \in 1 .. Len(rows) |->
       BuildCrossings(pct[n - 1], pct[n], Spent(n - 1), Spent(n), rows[n].iter)])

\* The pairs estimate_C uses: not those of one bracket.
Paired(a, b) == b.k > a.k /\ ~(a.group # 0 /\ a.group = b.group)

Pairs(crossings) ==
  {p \in (DOMAIN crossings) \X (DOMAIN crossings) :
     p[1] < p[2] /\ Paired(crossings[p[1]], crossings[p[2]])}

\* What a pair says of dk ticks, with bounds that the constructor does not order.
Interval(a, b) == [lo |-> b.before - a.after, hi |-> b.after - a.before, dk |-> b.k - a.k]

\* A pair admits a cost c of one tick.
Admits(p, c) == p.lo <= p.dk * c /\ p.dk * c <= p.hi

Intervals(crossings) == {Interval(crossings[p[1]], crossings[p[2]]) : p \in Pairs(crossings)}

EstimateC(crossings, prior) == {c \in prior : \A p \in Intervals(crossings) : Admits(p, c)}

\* intersect finds no cost in both, or the constructor has met reversed bounds: either
\* raises ValueError.
Disjoint(intervals) == \E p, q \in intervals : p.lo * q.dk > q.hi * p.dk

\* Mutant of LegacyMidpoints: the upper end of the bracket, not its middle.
LegacyUppers(crossings) ==
  LET steps == {i \in 1 .. Len(crossings) - 1 : crossings[i + 1].k - crossings[i].k = 1}
  IN {2 * (crossings[i + 1].after - crossings[i].before) : i \in steps}

\* Twice the midpoints of consecutive percents.
LegacyMidpoints(crossings) ==
  LET steps == {i \in 1 .. Len(crossings) - 1 : crossings[i + 1].k - crossings[i].k = 1}
      twice(a, b) == (b.before - a.after) + (b.after - a.before)
  IN {twice(crossings[i], crossings[i + 1]) : i \in steps}

\* What validate_crossings.py works on: the recorded crossings, else the rebuilt ones.
RunCrossings(live, derived) == IF live # << >> THEN live ELSE derived

\* Its gate, with the prior as an interval of one tick. The script exits with an error
\* unless there are crossings, their intervals and the prior meet, and what they meet in
\* overlaps the band of the midpoints, which is 0 .. 0 where no percents are consecutive.
GateOpen(crossings, prior) ==
  LET all  == Intervals(crossings) \cup {prior}
      mids == LegacyMidpoints(crossings)
      band == IF mids = {} THEN {0} ELSE mids
  IN /\ crossings # << >>
     /\ ~Disjoint(all)
     /\ \A p \in all : (\E m \in band : p.dk * m <= 2 * p.hi) /\ (\E m \in band : 2 * p.lo <= p.dk * m)
=============================================================================
