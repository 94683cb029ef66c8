--------------------------- MODULE MCCalibration ----------------------------
(* Small instances of Calibration for TLC.                                 *)
EXTENDS Calibration

NoTokens == [input |-> 0, output |-> 0, writes |-> 0, reads |-> 0,
             writes5m |-> 0, writes1h |-> 0]

\* A request without a breakdown of its cache writes, dearer than a unit of the short
\* window, and a cheap one with it.
MCRequests ==
  {[model  |-> "claude-haiku-4-5-20251001",
    usage  |-> [NoTokens EXCEPT !.input = 2, !.reads = 20, !.writes = 8],
    charge |-> 400],
   [model  |-> "claude-haiku-4-5-20251001",
    usage  |-> [NoTokens EXCEPT !.writes = 4, !.writes5m = 4],
    charge |-> 100]}

\* A short window and a longer one, as the 5h and 7d windows are.
MCTickCost == [w \in Windows |-> IF w = "five_hour" THEN 300 ELSE 500]

\* Every charge is a multiple of 100, and so is what matters of a position: anywhere in a
\* unit of the short window, at the ends of one of the long.
MCStarts ==
  {[w \in Windows |-> IF w = "five_hour" THEN 100 * i ELSE 100 * j] : i \in 0 .. 2, j \in {0, 4}}

MCEvents == [key : Keys, cost : {100, 400}, util : [Windows -> 0 .. 2 * MaxRecords]]

MCFiles == {[kind |-> "absent", entries |-> NoEntries]}
=============================================================================
