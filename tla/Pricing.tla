------------------------------- MODULE Pricing -------------------------------
(***************************************************************************)
(* What a request costs, by the three price tables of the repository: the  *)
(* proxy's RequestCost (anthropic.go), the quota probe's request_cost      *)
(* (estimator.py) and request_cost_usd of passive-report.py.               *)
(*                                                                         *)
(* A cost is a natural number of twentieths of a microdollar, in which     *)
(* every multiplier is whole. The estimator divides by ten and speaks of   *)
(* opus cache-write tokens: its unit is 200 of these.                      *)
(***************************************************************************)
EXTENDS Integers

CONSTANT NoCost  \* the cost of a request whose model is not in the table

\* Tokens of a response; the breakdown of cache_creation by TTL may be absent.
Usages == [input : Nat, output : Nat, writes : Nat, reads : Nat, writes5m : Nat, writes1h : Nat]

\* $ per million tokens.
Price(in, out) == [input |-> in, output |-> out]

\* What the tokens of a request come to at a price p and multipliers m of the base input
\* price, in twentieths.
Weighted(p, m, input, writes5m, writes1h, reads, output) ==
  p.input * (20 * input + m.write5m * writes5m + m.write1h * writes1h + m.read * reads)
    + p.output * 20 * output

-----------------------------------------------------------------------------
(* anthropic.go                                                            *)

ModelPricing ==
  [model \in {"claude-haiku-4-5-20251001", "claude-sonnet-4-6", "claude-opus-4-6",
              "claude-opus-4-7", "claude-opus-4-8"} |->
     CASE model = "claude-haiku-4-5-20251001" -> Price(1, 5)
       [] model = "claude-sonnet-4-6" -> Price(3, 15)
       [] model = "claude-opus-4-6" -> Price(5, 25)
       [] model = "claude-opus-4-7" -> Price(5, 25)
       [] model = "claude-opus-4-8" -> Price(5, 25)]

\* 1.25, 2 and 0.1 times the base price.
Multipliers == [write5m |-> 25, write1h |-> 40, read |-> 2]

\* RequestCost: writes without a breakdown count as one-hour writes.
RequestCost(model, u) ==
  IF model \notin DOMAIN ModelPricing THEN NoCost
  ELSE Weighted(ModelPricing[model], Multipliers, u.input, u.writes5m,
                IF u.writes5m = 0 /\ u.writes1h = 0 THEN u.writes ELSE u.writes1h,
                u.reads, u.output)

-----------------------------------------------------------------------------
(* estimator.py                                                            *)

\* MODEL_PRICING, a table of its own that is to mirror the first.
EstimatorPricing ==
  [model \in {"claude-haiku-4-5-20251001", "claude-sonnet-4-6", "claude-opus-4-6",
              "claude-opus-4-7", "claude-opus-4-8"} |->
     CASE model = "claude-haiku-4-5-20251001" -> Price(1, 5)
       [] model = "claude-sonnet-4-6" -> Price(3, 15)
       [] model = "claude-opus-4-6" -> Price(5, 25)
       [] model = "claude-opus-4-7" -> Price(5, 25)
       [] model = "claude-opus-4-8" -> Price(5, 25)]

\* CACHE_WRITE_5M_MULTIPLIER, CACHE_WRITE_1H_MULTIPLIER, CACHE_READ_MULTIPLIER.
EstimatorMultipliers == [write5m |-> 25, write1h |-> 40, read |-> 2]

\* number: an absent count, or one that is not a number, is 0.
Number(count) == IF count \in Nat THEN count ELSE 0

\* request_cost.
EstimatorCost(model, u) ==
  LET writes5m == Number(u.writes5m)
      writes1h == Number(u.writes1h)
  IN IF model \notin DOMAIN EstimatorPricing THEN NoCost
     ELSE Weighted(EstimatorPricing[model], EstimatorMultipliers, Number(u.input), writes5m,
                   IF writes5m = 0 /\ writes1h = 0 THEN Number(u.writes) ELSE writes1h,
                   Number(u.reads), Number(u.output))

-----------------------------------------------------------------------------
(* passive-report.py                                                       *)

\* Its MODEL_PRICING lacks the newest model.
PassivePricing ==
  [model \in {"claude-haiku-4-5-20251001", "claude-sonnet-4-6", "claude-opus-4-6",
              "claude-opus-4-7"} |->
     CASE model = "claude-haiku-4-5-20251001" -> Price(1, 5)
       [] model = "claude-sonnet-4-6" -> Price(3, 15)
       [] model = "claude-opus-4-6" -> Price(5, 25)
       [] model = "claude-opus-4-7" -> Price(5, 25)]

\* CACHE_WRITE_MULT and CACHE_READ_MULT: there is one price for every cache write.
PassiveMultipliers == [write5m |-> 40, write1h |-> 40, read |-> 2]

\* request_cost_usd: every cache write counts as a one-hour write.
PassiveCost(model, u) ==
  IF model \notin DOMAIN PassivePricing THEN NoCost
  ELSE Weighted(PassivePricing[model], PassiveMultipliers, u.input, 0, u.writes,
                u.reads, u.output)
=============================================================================
