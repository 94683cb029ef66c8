---------------------------- MODULE Calibration -----------------------------
(***************************************************************************)
(* Metrics fed by an upstream that meters every request: what the running  *)
(* estimate is worth. The upstream charges a request, reports the integer  *)
(* utilization of each window including that charge, and resets a window   *)
(* when it rolls over (the API of anthropic.go's headers; the repository's *)
(* stand-in for it is cmd/mock-anthropic). The answer reaches Record later,*)
(* so two requests in flight may be recorded in the other order.           *)
(***************************************************************************)
EXTENDS Metrics, FiniteSets
INSTANCE Pricing WITH NoCost <- Unpriced
INSTANCE PassiveReport WITH NoPercent <- NoUtil

CONSTANTS
  Requests,  (* a request's model, its usage, and what it is charged      *)
  Starts,    (* where in a unit of each window the proxy may be started   *)
  TickCost,  (* cost of one reported unit of utilization, by window       *)
  MaxResets  (* bound: window rollovers                                   *)

\* The models are in every table, and RequestCost is the upstream's price: writes of
\* which a response gives no breakdown are one-hour writes. A breakdown adds up. There is
\* a dearest request, which may cost many units.
ASSUME MeterAssumption ==
  /\ Requests \subseteq [model : DOMAIN PassivePricing, usage : Usages, charge : Nat \ {0}]
  /\ \A q \in Requests : /\ q.charge = RequestCost(q.model, q.usage)
                         /\ q.usage.writes5m + q.usage.writes1h \in {0, q.usage.writes}
  /\ NoEvent \notin [key : Keys, request : Requests, util : [Windows -> Nat]]
  /\ TickCost \in [Windows -> Nat \ {0}]
  /\ \E d \in Requests : \A q \in Requests : q.charge <= d.charge
  /\ Starts \subseteq [Windows -> Nat]
  /\ \A start \in Starts, w \in Windows : start[w] < TickCost[w]
  /\ MaxResets \in Nat

VARIABLES
  served,    (* what the upstream has charged in the current window        *)
  answer,    (* a response on its way to Record                            *)
  owed,      (* a recorder's event that is not in usage.jsonl yet          *)
  passive,   (* what passive-report.py makes of usage.jsonl, by window     *)
  runs,      (* history: window-runs begun, by key and window              *)
  resets     (* history: window rollovers so far                           *)

meter == <<served, answer, owed, passive, runs, resets>>
calVars == <<vars, meter>>

Zeros == [k \in Keys |-> [w \in Windows |-> 0]]

\* The proxy is started in the middle of a window: the position inside the
\* current unit of utilization is unknown.
CalInit ==
  /\ Init
  /\ served \in [Keys -> Starts]
  /\ answer = [r \in Recorders |-> NoEvent]
  /\ owed = answer
  /\ passive = [w \in Windows |-> NoTotals]
  /\ runs = Zeros
  /\ resets = 0

\* The headers report whole units.
Utilization(total) == [w \in Windows |-> total[w] \div TickCost[w]]

\* The upstream charges a request and answers with the utilization after it.
Serve(r, k, q) ==
  /\ pc[r] = "idle" /\ answer[r] = NoEvent /\ owed[r] = NoEvent
  /\ LET total == [w \in Windows |-> served[k][w] + q.charge]
     IN /\ served' = [served EXCEPT ![k] = total]
        /\ answer' = [answer EXCEPT ![r] =
                        [key |-> k, request |-> q, util |-> Utilization(total)]]
  /\ UNCHANGED <<vars, owed, passive, runs, resets>>

Priced(a) ==
  [key |-> a.key, cost |-> RequestCost(a.request.model, a.request.usage), util |-> a.util]

\* The response has been read to its end and Record is called with the event.
Deliver(r) ==
  /\ answer[r] # NoEvent
  /\ Begin(r, Priced(answer[r]))
  /\ answer' = [answer EXCEPT ![r] = NoEvent]
  /\ owed' = [owed EXCEPT ![r] = answer[r]]
  /\ UNCHANGED <<served, passive, runs, resets>>

\* Record has returned and the event becomes a line of usage.jsonl.
WriteLine(r) ==
  /\ pc[r] = "idle" /\ owed[r] # NoEvent
  /\ LET q == owed[r].request
         c == PassiveCost(q.model, q.usage)
     IN passive' = [w \in Windows |-> Walked(passive[w], c, owed[r].util[w])]
  /\ owed' = [owed EXCEPT ![r] = NoEvent]
  /\ UNCHANGED <<vars, served, answer, runs, resets>>

\* A step of Record; the history follows what the second critical section does.
Observe(r) ==
  /\ UpdateEstimates(r)
  /\ LET k == Key(r)
         old(w) == snap[k][w]
         Begins(w) == ~old(w).set \/ RolledOver(old(w), event[r].util[w])
     IN runs' = [runs EXCEPT ![k] =
                   [w \in Windows |-> IF Begins(w) THEN @[w] + 1 ELSE @[w]]]
  /\ UNCHANGED <<served, answer, owed, passive, resets>>

OtherStep(r) ==
  /\ \/ AddCost(r)
     \/ StoreGauges(r)
     \/ ReadEstimates(r)
     \/ OpenTruncated(r)
     \/ WriteEstimates(r)
     \/ WriteFails(r)
  /\ UNCHANGED meter

\* A window rolls over upstream.
Rollover(k, w) ==
  /\ resets < MaxResets
  /\ resets' = resets + 1
  /\ served' = [served EXCEPT ![k][w] = 0]
  /\ UNCHANGED <<vars, answer, owed, passive, runs>>

\* The process dies: responses on their way are lost, the charges stay.
Crash ==
  /\ Restart
  /\ answer' = [r \in Recorders |-> NoEvent]
  /\ owed' = answer'
  /\ UNCHANGED <<served, passive, runs, resets>>

CalFinished ==
  /\ \A r \in Recorders : answer[r] # NoEvent
  /\ Finished
  /\ UNCHANGED meter

CalNext ==
  \/ \E r \in Recorders, k \in Keys, q \in Requests : Serve(r, k, q)
  \/ \E r \in Recorders : Deliver(r) \/ WriteLine(r) \/ Observe(r) \/ OtherStep(r)
  \/ \E k \in Keys, w \in Windows : Rollover(k, w)
  \/ Crash
  \/ CalFinished

CalSpec == CalInit /\ [][CalNext]_calVars

-----------------------------------------------------------------------------
Distance(a, b) == IF a < b THEN b - a ELSE a - b
MaxCharge == CHOOSE c \in {q.charge : q \in Requests} : \A q \in Requests : q.charge <= c

\* A window may be reset and be back at its percent, or beyond it, when the next request has
\* been charged, if a request may cost that much. No fall of the utilization shows such a
\* rollover (metrics.go:227-233), and what was charged before it goes into the interval
\* without its percents.
Unseen(w) == IF MaxCharge < TickCost[w] THEN 0 ELSE MaxCharge + TickCost[w] - 1

\* The estimate is calibrated: over any number of ticks the accumulated cost and
\* the accumulated utilization (metrics.go:277-278) stay within one request's
\* overshoot, per window-run, of the upstream's true price of a unit, and within what
\* the rollovers hide. An error does not grow with the ticks, because the measured
\* intervals share endpoints that lie just after a crossing (metrics.go:266-268).
Calibrated ==
  \A k \in Keys, w \in Windows :
    Distance(est[k][w].cost, TickCost[w] * est[k][w].util)
      <= runs[k][w] * (MaxCharge - 1) + resets * Unseen(w)

\* The passive report amortises its noise (passive-report.py:159-161): what it adds up
\* and the movement it sees differ by less than a unit at each end of a window's stretch
\* and the requests whose lines a crash left out, however many units are crossed; and
\* its own price table, which takes every cache write for a one-hour write
\* (passive-report.py:36, 53), overstates the cost of a unit by a factor of at most 8/5.
PassiveAmortised ==
  \A w \in Windows :
    LET charged == TickCost[w] * passive[w].moved
    IN /\ charged - passive[w].cost
            <= TickCost[w] - 1 + restarts * Cardinality(Recorders) * MaxCharge
       /\ 5 * passive[w].cost <= 8 * (charged + (1 + resets) * (TickCost[w] - 1 + MaxCharge))
=============================================================================
