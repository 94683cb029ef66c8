------------------------------ MODULE MCScrape ------------------------------
(* Small instances of Scrape for TLC.                                      *)
EXTENDS Scrape

CONSTANT FirstKey  (* the key in use; the other one appears late *)

MCEvent(k, c, util) == [key |-> k, cost |-> c, util |-> util]
FiveHourOnly(u) == [w \in Windows |-> IF w = "five_hour" THEN u ELSE NoUtil]

\* The first key crosses ticks of one window. The other has responses of the other
\* kinds: no usage but both windows, a model without a price and no quota.
MCEvents ==
  {MCEvent(FirstKey, 1, FiveHourOnly(u)) : u \in 0 .. 2}
  \cup {MCEvent(k, c, [w \in Windows |-> IF c = NoUsage THEN 1 ELSE NoUtil]) :
          k \in Keys \ {FirstKey}, c \in {NoUsage, Unpriced}}

MCFiles == {[kind |-> "absent", entries |-> NoEntries]}
=============================================================================
