------------------------------ MODULE QuotaRun ------------------------------
(***************************************************************************)
(* A measurement run as the estimator sees it: an upstream that charges    *)
(* each request against a window and reports whole percents, requests in   *)
(* flight through the proxy, the rows they leave in usage.jsonl, and the   *)
(* estimate over the rows so far. measure.py computes the estimate from    *)
(* the whole log after every request; the log only grows, so one round of  *)
(* build_crossings per row gives the same.                                 *)
(***************************************************************************)
EXTENDS QuotaEstimator, FiniteSets

CONSTANTS
  Prices,       (* what a request may cost                               *)
  TickCost,     (* the true cost of one percent, which a run estimates   *)
  Full,         (* the percents of a window                              *)
  MaxInFlight,  (* how many requests Claude Code has open at once        *)
  MaxRequests,  (* bound: requests                                       *)
  MaxResets,    (* bound: rollovers of the window                        *)
  MaxCuts       (* bound: answers that break off or carry no usage       *)

ASSUME RunAssumption ==
  /\ Prices \subseteq Nat
  /\ TickCost \in Nat \ {0} /\ Full \in Nat \ {0}
  /\ MaxInFlight \in Nat /\ MaxRequests \in Nat
  /\ MaxResets \in Nat /\ MaxCuts \in Nat

VARIABLES
  served,    (* what the upstream has charged in the current window      *)
  inFlight,  (* the requests that were charged and have no row yet       *)
  tally,     (* build_crossings over the rows so far                     *)
  requests,  (* history: requests so far                                 *)
  resets,    (* history: rollovers so far                                *)
  cuts,      (* history: broken answers so far                           *)
  faithful   (* history: every row so far was whole, in the order of the *)
             (* charges, and of one window                               *)

runVars == <<served, inFlight, tally, requests, resets, cuts, faithful>>

\* A row of usage.jsonl; from is history, what was charged before the request.
Rows == [line : Nat \ {0}, cost : Prices, bucket : Nat, from : Nat]

RunTypeOK ==
  /\ served \in Nat
  /\ inFlight \subseteq Rows
  /\ tally \in Tallies
  /\ requests \in Nat /\ resets \in Nat /\ cuts \in Nat
  /\ faithful \in BOOLEAN

Bucket(total) == total \div TickCost

\* A run starts anywhere in a window.
Init ==
  /\ served \in 0 .. Full * TickCost
  /\ inFlight = {}
  /\ tally = NoTally
  /\ requests = 0 /\ resets = 0 /\ cuts = 0
  /\ faithful = TRUE

\* The upstream charges a request that the window has room for and reports the
\* utilization after it. Requests are numbered; the number stands for the line.
Serve(p) ==
  /\ requests < MaxRequests
  /\ Cardinality(inFlight) < MaxInFlight
  /\ served + p <= Full * TickCost
  /\ requests' = requests + 1
  /\ served' = served + p
  /\ inFlight' = inFlight \cup
       {[line |-> requests + 1, cost |-> p, bucket |-> Bucket(served + p), from |-> served]}
  /\ UNCHANGED <<tally, resets, cuts, faithful>>

\* A row that Counts: status 200, no errors, a priced model, the window's utilization.
LogRow(row) ==
  /\ inFlight' = inFlight \ {row}
  /\ tally' = Tallied(tally, row.cost, row.bucket, row.line)
  /\ faithful' = (faithful /\ \A other \in inFlight : row.line <= other.line)
  /\ UNCHANGED <<served, requests, resets, cuts>>

\* The answer breaks off or lacks usage: its row has errors and is excluded, the
\* upstream's charge stays.
LogExcluded(row) ==
  /\ cuts < MaxCuts
  /\ cuts' = cuts + 1
  /\ inFlight' = inFlight \ {row}
  /\ faithful' = FALSE
  /\ UNCHANGED <<served, tally, requests, resets>>

Rollover ==
  /\ resets < MaxResets
  /\ resets' = resets + 1
  /\ served' = 0
  /\ faithful' = FALSE
  /\ UNCHANGED <<inFlight, tally, requests, cuts>>

\* The driver stops, or the window is used up.
Ended == inFlight = {} /\ UNCHANGED runVars

Next ==
  \/ \E p \in Prices : Serve(p)
  \/ \E row \in inFlight : LogRow(row) \/ LogExcluded(row)
  \/ Rollover
  \/ Ended

RunSpec == Init /\ [][Next]_runVars

-----------------------------------------------------------------------------
Sound == LET cs == Constraints(tally.crossings)
         IN Estimated(cs) => Admits(cs, TickCost)

\* The interval a run reports contains the true cost of a tick, whatever the
\* starting position in the window was and however many requests are open at once,
\* as long as the rows are whole, in the order of the charges, and of one window; and
\* the pairwise constraints of such a run never contradict one another, so that two
\* crossings of different rows always yield an interval (estimator.py:336-339
\* returns none when they do).
IntervalSound == faithful => Sound /\ ~Disjoint(Constraints(tally.crossings))

\* Every pair of crossings makes an interval with its bounds in order, whatever
\* order the rows come in, through rollovers and broken answers: the constructor of
\* Interval (estimator.py:29-33) raises for any other, outside estimate_interval's
\* try, and that ends the whole measurement.
PairsAreIntervals == \A p \in Constraints(tally.crossings) : Ordered(p)

\* Where the next percent is crossed, as a value of the measured cost.
NextBoundary == tally.measured + (TickCost - (served % TickCost))

\* The driver's steering aims at the right place: with every row landed, the window in
\* which it expects the next percent (measure.py:172-191) holds the point where it is
\* crossed, and a bulk step never reaches that point (measure.py:194-222), so only a
\* fine step can cross it; whatever pairs the interval was made of, after steps over
\* several percents too.
BoundaryForeseen ==
  LET crossings == tally.crossings
      cs == Constraints(crossings)
  IN faithful /\ inFlight = {} /\ Estimated(cs) =>
       /\ InWindow(crossings, cs, NextBoundary)
       /\ ~InBulk(crossings, cs, tally.measured, NextBoundary - tally.measured)
=============================================================================
