------------------------------ MODULE MCMetrics -----------------------------
(* Small instances of Metrics for TLC.                                     *)
EXTENDS Metrics, TLC

\* Events in which one window moves: the header takes a few values, the other
\* window's header is absent, and the cost is one unit or missing.
FiveHourOnly(u) == [w \in Windows |-> IF w = "five_hour" THEN u ELSE NoUtil]

MCEvent(k, c, u) == [key |-> k, cost |-> c, util |-> u]

\* One priced request per key and observed percentage.
TickEvents == {MCEvent(k, 1, FiveHourOnly(u)) : k \in Keys, u \in 0 .. 2}

AbsentFile == [kind |-> "absent", entries |-> NoEntries]
\* A version 1 file, whose totals are polluted.
OldFile ==
  [kind |-> "old",
   entries |-> [k \in Keys |-> [w \in Windows |-> [cost |-> 3, util |-> 1]]]]

MCFiles == {AbsentFile, OldFile}

Interchangeable == Permutations(Recorders) \cup Permutations(Keys)
=============================================================================
