-------------------------- MODULE CalibrationProofs --------------------------
(***************************************************************************)
(* What the estimates of metrics.go and of passive-report.py are worth,    *)
(* for every meter: every price of a unit, every set of requests with a    *)
(* dearest one, every number of them, of rollovers, of crashes and of      *)
(* failed writes; and what the three price tables have to do with one      *)
(* another, for all models and token counts.                               *)
(***************************************************************************)
EXTENDS Calibration, Sums, TLAPS

-----------------------------------------------------------------------------
(* Prices.                                                                 *)

\* The estimator's table is the proxy's; the report's is a part of it, with its prices.
LEMMA TablePrices ==
  /\ \A model \in DOMAIN ModelPricing :
       ModelPricing[model] \in {Price(1, 5), Price(3, 15), Price(5, 25)}
  /\ DOMAIN EstimatorPricing = DOMAIN ModelPricing
  /\ \A model \in DOMAIN ModelPricing : EstimatorPricing[model] = ModelPricing[model]
  /\ DOMAIN PassivePricing \subseteq DOMAIN ModelPricing
  /\ \A model \in DOMAIN PassivePricing : PassivePricing[model] = ModelPricing[model]
<1> DEFINE older == {"claude-haiku-4-5-20251001", "claude-sonnet-4-6", "claude-opus-4-6",
                     "claude-opus-4-7"}
<1>1. /\ DOMAIN ModelPricing = older \cup {"claude-opus-4-8"}
      /\ DOMAIN EstimatorPricing = older \cup {"claude-opus-4-8"}
      /\ DOMAIN PassivePricing = older
  BY DEF ModelPricing, EstimatorPricing, PassivePricing
<1>2. ASSUME NEW model \in older \cup {"claude-opus-4-8"}
      PROVE  /\ ModelPricing[model] \in {Price(1, 5), Price(3, 15), Price(5, 25)}
             /\ EstimatorPricing[model] = ModelPricing[model]
             /\ model \in older => PassivePricing[model] = ModelPricing[model]
  <2>1. CASE model = "claude-haiku-4-5-20251001"
    BY <2>1 DEF ModelPricing, EstimatorPricing, PassivePricing
  <2>2. CASE model = "claude-sonnet-4-6"
    BY <2>2 DEF ModelPricing, EstimatorPricing, PassivePricing
  <2>3. CASE model = "claude-opus-4-6"
    BY <2>3 DEF ModelPricing, EstimatorPricing, PassivePricing
  <2>4. CASE model = "claude-opus-4-7"
    BY <2>4 DEF ModelPricing, EstimatorPricing, PassivePricing
  <2>5. CASE model = "claude-opus-4-8"
    BY <2>5 DEF ModelPricing, EstimatorPricing, PassivePricing
  <2> QED BY <1>2, <2>1, <2>2, <2>3, <2>4, <2>5
<1> QED BY <1>1, <1>2

\* The estimator's own table, multipliers and rules (estimator.py:66-85, 197-219) price a
\* request as the proxy does (anthropic.go:160-206), models that are in no table and absent
\* breakdowns included.
THEOREM OnePrice ==
  ASSUME NEW model, NEW u \in Usages
  PROVE  EstimatorCost(model, u) = RequestCost(model, u)
<1>1. /\ Number(u.input) = u.input /\ Number(u.output) = u.output
      /\ Number(u.writes) = u.writes /\ Number(u.reads) = u.reads
      /\ Number(u.writes5m) = u.writes5m /\ Number(u.writes1h) = u.writes1h
  BY DEF Number, Usages
<1>2. CASE model \notin DOMAIN ModelPricing
  BY <1>2, TablePrices DEF EstimatorCost, RequestCost
<1>3. CASE model \in DOMAIN ModelPricing
  <2>1. EstimatorPricing[model] = ModelPricing[model] /\ model \in DOMAIN EstimatorPricing
    BY <1>3, TablePrices
  <2>2. EstimatorMultipliers = Multipliers
    BY DEF EstimatorMultipliers, Multipliers
  <2> QED BY <1>1, <1>3, <2>1, <2>2 DEF EstimatorCost, RequestCost
<1> QED BY <1>2, <1>3

\* The breakdown of the cache writes adds up to their total, or there is none.
Whole(u) == u.writes5m + u.writes1h \in {0, u.writes}

\* passive-report.py, which prices every cache write at the one-hour rate, never
\* understates a request, and overstates it by no more than the ratio of the two rates:
\* the factor PassiveAmortised allows for.
THEOREM PassiveOverstates ==
  ASSUME NEW model \in DOMAIN PassivePricing, NEW u \in Usages, Whole(u)
  PROVE  /\ RequestCost(model, u) <= PassiveCost(model, u)
         /\ 5 * PassiveCost(model, u) <= 8 * RequestCost(model, u)
<1> DEFINE price == ModelPricing[model]
           writes1h == IF u.writes5m = 0 /\ u.writes1h = 0 THEN u.writes ELSE u.writes1h
<1>1. price \in {Price(1, 5), Price(3, 15), Price(5, 25)}
  BY TablePrices
<1>2. /\ RequestCost(model, u)
           = Weighted(price, Multipliers, u.input, u.writes5m, writes1h, u.reads, u.output)
      /\ PassiveCost(model, u)
           = Weighted(price, PassiveMultipliers, u.input, 0, u.writes, u.reads, u.output)
  BY TablePrices DEF RequestCost, PassiveCost
<1>3. /\ u.input \in Nat /\ u.output \in Nat /\ u.reads \in Nat
      /\ u.writes \in Nat /\ u.writes5m \in Nat /\ writes1h \in Nat
      /\ u.writes5m + writes1h = u.writes
  BY DEF Usages, Whole
<1> HIDE DEF price, writes1h
<1> DEFINE more == u.writes5m
<1>4. ASSUME NEW in \in Nat, NEW out \in Nat, price = [input |-> in, output |-> out],
             <<in, out>> \in {<<1, 5>>, <<3, 15>>, <<5, 25>>}
      PROVE  /\ Weighted(price, Multipliers, u.input, u.writes5m, writes1h, u.reads, u.output)
                  <= Weighted(price, PassiveMultipliers, u.input, 0, u.writes, u.reads, u.output)
             /\ 5 * Weighted(price, PassiveMultipliers, u.input, 0, u.writes, u.reads, u.output)
                  <= 8 * Weighted(price, Multipliers, u.input, u.writes5m, writes1h, u.reads,
                                  u.output)
  <2>1. CASE in = 1 /\ out = 5
    BY <1>3, <1>4, <2>1 DEF Weighted, Multipliers, PassiveMultipliers
  <2>2. CASE in = 3 /\ out = 15
    BY <1>3, <1>4, <2>2 DEF Weighted, Multipliers, PassiveMultipliers
  <2>3. CASE in = 5 /\ out = 25
    BY <1>3, <1>4, <2>3 DEF Weighted, Multipliers, PassiveMultipliers
  <2> QED BY <1>4, <2>1, <2>2, <2>3
<1> QED BY <1>1, <1>2, <1>4 DEF Price

\* The report's price of a request is a number, at least that of the proxy.
LEMMA PassiveNat ==
  ASSUME NEW model \in DOMAIN PassivePricing, NEW u \in Usages
  PROVE  PassiveCost(model, u) \in Nat
<1>1. /\ ModelPricing[model] \in {Price(1, 5), Price(3, 15), Price(5, 25)}
      /\ PassivePricing[model] = ModelPricing[model]
  BY TablePrices
<1>2. PICK in, out : ModelPricing[model] = [input |-> in, output |-> out] /\ in \in {1, 3, 5}
                     /\ out \in {5, 15, 25}
  BY <1>1 DEF Price
<1>3. PassiveCost(model, u)
        = in * (20 * u.input + 40 * 0 + 40 * u.writes + 2 * u.reads) + out * 20 * u.output
  BY <1>1, <1>2 DEF PassiveCost, Weighted, PassiveMultipliers
<1>4. PICK a \in Nat : a = 20 * u.input + 40 * 0 + 40 * u.writes + 2 * u.reads
  BY DEF Usages
<1>5. in * a \in Nat /\ out * 20 * u.output \in Nat
  BY <1>2 DEF Usages
<1> QED BY <1>3, <1>4, <1>5

-----------------------------------------------------------------------------
(* The running estimate, for numbers. A request costs at most m, a percent *)
(* t; a rollover that no answer showed may add x, and z is what all of     *)
(* them may have added.                                                    *)

Near(x, b) == 0 - b <= x /\ x <= b

\* What the estimate is off by.
Bias(e, t) == e.cost - t * e.util

\* The recorded cost c is in the percent of the anchor, q being the cost of the window that
\* was not recorded.
Stands(q, s, c, t) == t * s.util <= q + c /\ q + c < t * s.util + t /\ s.cost <= c

\* How far behind its percent an anchor lies.
Behind(q, s, t) == (q + s.cost) - t * s.util

\* Every window-run has added at most an overshoot, m - 1, and the current one the difference
\* between that of its last anchor and that of its first, f; but for what unseen rollovers
\* added, y.
Balanced(q, s, e, n, y, t, m) ==
  IF ~s.set THEN Near(Bias(e, t), n * (m - 1) + y)
  ELSE /\ n \in Nat \ {0}
       /\ IF ~s.bracketed THEN Near(Bias(e, t), (n - 1) * (m - 1) + y)
          ELSE /\ s.util # 0 /\ Near(Bias(e, t), n * (m - 1) + y)
               /\ \E f \in 0 .. m - 1 :
                    Near(Bias(e, t) - (Behind(q, s, t) - f), (n - 1) * (m - 1) + y)

\* No request is under way: the window holds what was recorded since q, or it was reset.
Settled(p, s, e, n, c, t, m, x, z) ==
  \E q \in Int, y \in Nat :
    /\ Balanced(q, s, e, n, y, t, m)
    /\ y <= z
    /\ s.set => /\ Stands(q, s, c, t)
                /\ p = q + c \/ (p = 0 /\ y + x <= z)

\* One is, which is charged g and answered with u; c is recorded without it. The window was
\* at pos after it, and i is what the rollovers up to then may have added.
Flying(p, u, g, s, e, n, c, t, m, x, z) ==
  \E q \in Int, pos \in Nat, y \in Nat, i \in Nat :
    /\ Balanced(q, s, e, n, y, t, m)
    /\ t * u <= pos /\ pos < t * u + t
    /\ (p = pos /\ i <= z) \/ (p = 0 /\ i + x <= z)
    /\ ~s.set => i = y
    /\ s.set => /\ Stands(q, s, c, t)
                /\ (pos = (q + c) + g /\ i = y) \/ (pos = g /\ i = y + x)

\* Multiples of a positive number: what the solvers do not find on their own.
LEMMA Multiples ==
  ASSUME NEW t \in Nat \ {0}, NEW a \in Int, NEW b \in Int
  PROVE  /\ t * a \in Int /\ t * b \in Int
         /\ a < b => t * a + t <= t * b
         /\ t * (b - a) = t * b - t * a
         /\ t * (a + b) = t * a + t * b
         /\ a \in Nat => t * a \in Nat
<1>1. t * a \in Int /\ t * b \in Int
  OBVIOUS
<1>2. t * (b - a) = t * b - t * a
  OBVIOUS
<1>3. ASSUME a < b PROVE t * a + t <= t * b
  <2>1. PICK d \in Nat : b = (a + 1) + d
    <3>1. b - (a + 1) \in Nat /\ b = (a + 1) + (b - (a + 1))
      BY <1>3
    <3> QED
      BY <3>1
  <2>2. t * d \in Nat
    OBVIOUS
  <2>3. t * ((a + 1) + d) = (t * a + t) + t * d
    OBVIOUS
  <2> QED
    BY <1>1, <2>1, <2>2, <2>3
<1>4. t * (a + b) = t * a + t * b
  OBVIOUS
<1>5. a \in Nat => t * a \in Nat
  OBVIOUS
<1> QED
  BY <1>1, <1>2, <1>3, <1>4, <1>5

\* A larger bound.
LEMMA NearGrows ==
  ASSUME NEW a \in Int, NEW b \in Int, NEW d \in Int, b <= d, Near(a, b)
  PROVE  Near(a, d)
  BY DEF Near

\* What the bounds are built from are numbers.
LEMMA BoundsAre ==
  ASSUME NEW m \in Nat \ {0}, NEW n \in Nat, NEW y \in Nat
  PROVE  /\ n * (m - 1) \in Nat /\ n * (m - 1) + y \in Nat
         /\ n # 0 => (n - 1) * (m - 1) \in Nat /\ n * (m - 1) = (n - 1) * (m - 1) + (m - 1)
         /\ (n + 1) * (m - 1) = n * (m - 1) + (m - 1)
<1>1. n * (m - 1) \in Nat
  OBVIOUS
<1>2. (n + 1) * (m - 1) = n * (m - 1) + (m - 1)
  OBVIOUS
<1>3. ASSUME n # 0
      PROVE  (n - 1) * (m - 1) \in Nat /\ n * (m - 1) = (n - 1) * (m - 1) + (m - 1)
  <2>1. PICK d \in Nat : n = d + 1
    <3>1. n - 1 \in Nat /\ n = (n - 1) + 1
      BY <1>3
    <3> QED
      BY <3>1
  <2>2. d * (m - 1) \in Nat /\ (d + 1) * (m - 1) = d * (m - 1) + (m - 1) /\ (d + 1) - 1 = d
    OBVIOUS
  <2> QED
    BY <2>1, <2>2
<1> QED
  BY <1>1, <1>2, <1>3

\* The error of an estimate is a number.
LEMMA BiasType ==
  ASSUME NEW e \in Estimators, NEW t \in Nat \ {0}
  PROVE  Bias(e, t) \in Int
<1>1. e.cost \in Nat /\ e.util \in Nat
  BY DEF Estimators
<1>2. t * e.util \in Int
  BY <1>1, Multiples
<1> QED
  BY <1>1, <1>2 DEF Bias

\* So whatever happened, no window-run has added more than an overshoot.
LEMMA BalancedBound ==
  ASSUME NEW t \in Nat \ {0}, NEW m \in Nat \ {0}, NEW s \in Snapshots, NEW e \in Estimators,
         NEW n \in Nat, NEW q \in Int, NEW y \in Nat, Balanced(q, s, e, n, y, t, m)
  PROVE  Near(Bias(e, t), n * (m - 1) + y)
<1>1. CASE s.set /\ ~s.bracketed
  <2>1. n # 0 /\ Near(Bias(e, t), (n - 1) * (m - 1) + y)
    BY <1>1 DEF Balanced
  <2>2. PICK a \in Nat, d \in Nat : a = n * (m - 1) /\ d = (n - 1) * (m - 1) /\ a = d + (m - 1)
    BY <2>1, BoundsAre
  <2>3. d + y <= a + y /\ d + y \in Int /\ a + y \in Int
    BY <2>2
  <2>4. Near(Bias(e, t), a + y)
    BY <2>1, <2>2, <2>3, BiasType, NearGrows
  <2> QED
    BY <2>2, <2>4
<1> QED
  BY <1>1 DEF Balanced

\* Whether or not a request is under way.
LEMMA BoundOfEither ==
  ASSUME NEW t \in Nat \ {0}, NEW m \in Nat \ {0}, NEW s \in Snapshots, NEW e \in Estimators,
         NEW n \in Nat, NEW p, NEW u, NEW g, NEW c, NEW x \in Nat, NEW z \in Nat,
         Settled(p, s, e, n, c, t, m, x, z) \/ Flying(p, u, g, s, e, n, c, t, m, x, z)
  PROVE  Near(Bias(e, t), n * (m - 1) + z)
<1>1. PICK q \in Int, y \in Nat : Balanced(q, s, e, n, y, t, m) /\ y <= z
  <2>1. CASE Settled(p, s, e, n, c, t, m, x, z)
    BY <2>1 DEF Settled
  <2>2. CASE Flying(p, u, g, s, e, n, c, t, m, x, z)
    <3>1. PICK q \in Int, pos \in Nat, y \in Nat, i \in Nat :
            /\ Balanced(q, s, e, n, y, t, m)
            /\ (p = pos /\ i <= z) \/ (p = 0 /\ i + x <= z)
            /\ ~s.set => i = y
            /\ s.set => (pos = (q + c) + g /\ i = y) \/ (pos = g /\ i = y + x)
      BY <2>2 DEF Flying
    <3>2. i <= z
      BY <3>1
    <3>3. i = y \/ i = y + x
      BY <3>1 DEF Snapshots
    <3>4. y <= z
      BY <3>2, <3>3
    <3> QED
      BY <3>1, <3>4
  <2> QED
    BY <2>1, <2>2
<1>2. PICK a \in Nat : a = n * (m - 1)
  BY BoundsAre
<1>3. Near(Bias(e, t), a + y)
  BY <1>1, <1>2, BalancedBound
<1>4. a + y <= a + z /\ a + y \in Int /\ a + z \in Int
  BY <1>1
<1>5. Near(Bias(e, t), a + z)
  BY <1>3, <1>4, BiasType, NearGrows
<1> QED
  BY <1>2, <1>5

\* A window that is reset, or another one.
LEMMA ResetKeeps ==
  ASSUME NEW t, NEW m, NEW s, NEW e, NEW n, NEW p, NEW u, NEW g, NEW c, NEW x \in Nat,
         NEW z \in Nat
  PROVE  /\ Settled(p, s, e, n, c, t, m, x, z) => /\ Settled(0, s, e, n, c, t, m, x, z + x)
                                                  /\ Settled(p, s, e, n, c, t, m, x, z + x)
         /\ Flying(p, u, g, s, e, n, c, t, m, x, z)
              => /\ Flying(0, u, g, s, e, n, c, t, m, x, z + x)
                 /\ Flying(p, u, g, s, e, n, c, t, m, x, z + x)
<1>1. ASSUME Settled(p, s, e, n, c, t, m, x, z)
      PROVE  Settled(0, s, e, n, c, t, m, x, z + x) /\ Settled(p, s, e, n, c, t, m, x, z + x)
  <2>1. PICK q \in Int, y \in Nat :
          /\ Balanced(q, s, e, n, y, t, m)
          /\ y <= z
          /\ s.set => /\ Stands(q, s, c, t)
                      /\ p = q + c \/ (p = 0 /\ y + x <= z)
    BY <1>1 DEF Settled
  <2>2. y <= z + x /\ y + x <= z + x
    BY <2>1
  <2> QED
    BY <2>1, <2>2 DEF Settled
<1>2. ASSUME Flying(p, u, g, s, e, n, c, t, m, x, z)
      PROVE  /\ Flying(0, u, g, s, e, n, c, t, m, x, z + x)
             /\ Flying(p, u, g, s, e, n, c, t, m, x, z + x)
  <2>1. PICK q \in Int, pos \in Nat, y \in Nat, i \in Nat :
          /\ Balanced(q, s, e, n, y, t, m)
          /\ t * u <= pos /\ pos < t * u + t
          /\ (p = pos /\ i <= z) \/ (p = 0 /\ i + x <= z)
          /\ ~s.set => i = y
          /\ s.set => /\ Stands(q, s, c, t)
                      /\ (pos = (q + c) + g /\ i = y) \/ (pos = g /\ i = y + x)
    BY <1>2 DEF Flying
  <2>2. i + x <= z + x /\ i <= z + x
    BY <2>1
  <2> QED
    BY <2>1, <2>2 DEF Flying
<1> QED
  BY <1>1, <1>2

\* A request is served.
LEMMA ServeKeeps ==
  ASSUME NEW t \in Nat \ {0}, NEW m, NEW s, NEW e, NEW n, NEW p \in Nat, NEW g \in Nat,
         NEW c \in Nat, NEW x \in Nat, NEW z \in Nat, Settled(p, s, e, n, c, t, m, x, z)
  PROVE  Flying(p + g, (p + g) \div t, g, s, e, n, c, t, m, x, z)
<1>1. PICK q \in Int, y \in Nat :
        /\ Balanced(q, s, e, n, y, t, m)
        /\ y <= z
        /\ s.set => /\ Stands(q, s, c, t)
                    /\ p = q + c \/ (p = 0 /\ y + x <= z)
  BY DEF Settled
<1>2. PICK pos \in Nat, u \in Nat : pos = p + g /\ u = pos \div t
  <2>1. p + g \in Nat /\ (p + g) \div t \in Nat
    OBVIOUS
  <2> QED
    BY <2>1
<1>3. t * u <= pos /\ pos < t * u + t
  BY <1>2
<1>4. PICK i \in Nat : /\ i <= z
                       /\ ~s.set => i = y
                       /\ s.set => (pos = (q + c) + g /\ i = y) \/ (pos = g /\ i = y + x)
  <2>1. CASE s.set => p = q + c
    BY <1>1, <1>2, <2>1
  <2>2. CASE s.set /\ p = 0 /\ y + x <= z
    <3>1. y + x \in Nat /\ pos = g
      BY <1>2, <2>2
    <3> QED
      BY <2>2, <3>1
  <2> QED
    BY <1>1, <2>1, <2>2
<1>5. Flying(pos, u, g, s, e, n, c, t, m, x, z)
  BY <1>1, <1>3, <1>4 DEF Flying
<1> QED
  BY <1>2, <1>5

\* A new process begins with what an estimate was worth.
LEMMA AnewKeeps ==
  ASSUME NEW t, NEW m, NEW e, NEW n, NEW p, NEW c, NEW x, NEW z \in Nat,
         Near(Bias(e, t), n * (m - 1) + z)
  PROVE  Settled(p, NoSnapshot, e, n, c, t, m, x, z)
<1>1. ~NoSnapshot.set
  BY DEF NoSnapshot
<1>2. Balanced(0, NoSnapshot, e, n, z, t, m)
  BY <1>1, Zenon DEF Balanced
<1>3. 0 \in Int /\ z <= z
  OBVIOUS
<1> QED
  BY <1>1, <1>2, <1>3, Zenon DEF Settled

\* An anchor that begins a window-run.
LEMMA AnchorKeeps ==
  ASSUME NEW t \in Nat \ {0}, NEW m \in Nat \ {0}, NEW e \in Estimators, NEW n \in Nat,
         NEW p, NEW c \in Nat, NEW u \in Nat, NEW pos \in Nat, NEW x \in Nat, NEW z \in Nat,
         NEW y \in Nat, y <= z, p = pos \/ (p = 0 /\ y + x <= z),
         t * u <= pos, pos < t * u + t, Near(Bias(e, t), n * (m - 1) + y)
  PROVE  Settled(p, Anchor(u, c, FALSE), e, n + 1, c, t, m, x, z)
<1> DEFINE s == Anchor(u, c, FALSE)
<1>1. s.set /\ ~s.bracketed /\ s.util = u /\ s.cost = c
  BY DEF Anchor
<1> HIDE DEF s
<1>2. PICK q \in Int : q + c = pos
  <2>1. pos - c \in Int /\ (pos - c) + c = pos
    OBVIOUS
  <2> QED
    BY <2>1
<1>3. n + 1 \in Nat \ {0} /\ (n + 1) - 1 = n
  OBVIOUS
<1>4. Balanced(q, s, e, n + 1, y, t, m)
  BY <1>1, <1>3 DEF Balanced
<1>5. Stands(q, s, c, t) /\ (p = q + c \/ (p = 0 /\ y + x <= z))
  BY <1>1, <1>2 DEF Stands
<1>6. Settled(p, s, e, n + 1, c, t, m, x, z)
  BY <1>4, <1>5 DEF Settled
<1> QED
  BY <1>6 DEF s

\* What a tick adds: the new anchor lies behind its percent by less than a request.
LEMMA TickKeeps ==
  ASSUME NEW t \in Nat \ {0}, NEW m \in Nat \ {0}, NEW s \in Snapshots, s.set,
         NEW e \in Estimators, NEW n \in Nat \ {0}, NEW c \in Nat, NEW u \in Nat, NEW y \in Nat,
         NEW q \in Int, NEW o \in Int, o = (q + c) - t * u, o \in 0 .. m - 1, u > s.util,
         c > s.cost, Balanced(q, s, e, n, y, t, m)
  PROVE  /\ ~s.bracketed => Balanced(q, Anchor(u, c, TRUE), e, n, y, t, m)
         /\ s.bracketed => Balanced(q, Anchor(u, c, TRUE), Accumulated(s, e, u, c).est, n, y, t, m)
<1> DEFINE new == Anchor(u, c, TRUE)
<1>1. new.set /\ new.bracketed /\ new.util = u /\ new.cost = c
  BY DEF Anchor
<1> HIDE DEF new
<1>2. Behind(q, new, t) = o /\ u # 0
  BY <1>1 DEF Behind, Snapshots
<1>3. PICK a \in Nat, d \in Nat : a = n * (m - 1) /\ d = (n - 1) * (m - 1) /\ a = d + (m - 1)
  BY BoundsAre
<1>4. ASSUME ~s.bracketed PROVE Balanced(q, new, e, n, y, t, m)
  <2>1. Near(Bias(e, t), d + y)
    BY <1>3, <1>4 DEF Balanced
  <2>2. Near(Bias(e, t) - (o - o), d + y)
    <3>1. Bias(e, t) \in Int
      BY BiasType
    <3>2. Bias(e, t) - (o - o) = Bias(e, t)
      BY <3>1
    <3> QED
      BY <2>1, <3>2
  <2>3. Near(Bias(e, t), a + y)
    <3>1. d + y <= a + y /\ d + y \in Int /\ a + y \in Int
      BY <1>3
    <3> QED
      BY <2>1, <3>1, BiasType, NearGrows
  <2> QED
    BY <1>1, <1>2, <1>3, <2>2, <2>3 DEF Balanced
<1>5. ASSUME s.bracketed PROVE Balanced(q, new, Accumulated(s, e, u, c).est, n, y, t, m)
  <2>1. PICK f \in 0 .. m - 1, h \in Int :
          h = Behind(q, s, t) /\ Near(Bias(e, t) - (h - f), d + y)
    <3>1. Behind(q, s, t) \in Int
      <4>1. s.cost \in Nat /\ t * s.util \in Int
        BY Multiples DEF Snapshots
      <4> QED
        BY <4>1 DEF Behind
    <3> QED
      BY <1>3, <1>5, <3>1 DEF Balanced
  <2>2. s.util \in Nat /\ s.cost \in Nat /\ e.cost \in Nat /\ e.util \in Nat
    BY DEF Snapshots, Estimators
  <2>3. PICK v, k : v = s.util /\ k = s.cost
    OBVIOUS
  <2>4. v \in Nat /\ k \in Nat /\ u > v /\ c > k
    BY <2>2, <2>3
  <2>5. PICK tv \in Int, tu \in Int : tv = t * v /\ tu = t * u
    BY <2>4, Multiples
  <2>6. h = (q + k) - tv /\ o = (q + c) - tu
    BY <2>1, <2>3, <2>5 DEF Behind
  <2> DEFINE f2 == Accumulated(s, e, u, c).est
  <2>7. f2.cost = e.cost + (c - k) /\ f2.util = e.util + (u - v)
    BY <2>3 DEF Accumulated
  <2> HIDE DEF f2
  <2>8. t * (e.util + (u - v)) = t * e.util + (tu - tv)
    <3>1. t * (u - v) = tu - tv /\ u - v \in Int
      BY <2>4, <2>5, Multiples
    <3>2. t * (e.util + (u - v)) = t * e.util + t * (u - v)
      BY <2>2, <3>1, Multiples
    <3> QED
      BY <3>1, <3>2
  <2>9. PICK te \in Int, ec \in Nat : te = t * e.util /\ ec = e.cost
    BY <2>2, Multiples
  <2>10. Bias(f2, t) = (ec + (c - k)) - (te + (tu - tv)) /\ Bias(e, t) = ec - te
    BY <2>7, <2>8, <2>9 DEF Bias
  <2>11. PICK b \in Int : b = Bias(f2, t)
    BY <2>4, <2>5, <2>9, <2>10
  <2>12. b - (o - f) = Bias(e, t) - (h - f)
    BY <2>1, <2>4, <2>5, <2>6, <2>9, <2>10, <2>11
  <2>13. Near(b - (o - f), d + y)
    BY <2>1, <2>12
  <2>14. Near(b, a + y)
    BY <1>3, <2>1, <2>13 DEF Near
  <2>15. Balanced(q, new, f2, n, y, t, m)
    BY <1>1, <1>2, <1>3, <2>11, <2>13, <2>14 DEF Balanced
  <2> QED
    BY <2>15 DEF f2
<1> QED
  BY <1>4, <1>5 DEF new

\* A rollover that no answer showed: one request brought the window, which had been reset,
\* to the percent of the anchor or beyond. It shifts the window's unrecorded cost by less
\* than the request and a percent.
LEMMA UnseenKeeps ==
  ASSUME NEW t \in Nat \ {0}, NEW m \in Nat \ {0}, NEW s \in Snapshots, s.set,
         NEW e \in Estimators, NEW n \in Nat \ {0}, NEW b \in Nat, NEW c \in Nat,
         NEW g \in 1 .. m, b + g = c, NEW y \in Nat, NEW x \in Nat, t <= m => x = m + t - 1,
         NEW q \in Int, Stands(q, s, b, t), t * s.util <= g, Balanced(q, s, e, n, y, t, m)
  PROVE  Balanced(g - c, s, e, n, y + x, t, m)
<1>1. PICK a \in Nat, d \in Nat : a = n * (m - 1) /\ d = (n - 1) * (m - 1)
  BY BoundsAre
<1>2. PICK l \in Int : l = Bias(e, t)
  BY BiasType
<1>3. CASE ~s.bracketed
  <2>1. Near(l, d + y)
    BY <1>1, <1>2, <1>3 DEF Balanced
  <2>2. Near(l, d + (y + x))
    BY <1>1, <2>1 DEF Near
  <2> QED
    BY <1>1, <1>2, <1>3, <2>2 DEF Balanced
<1>4. CASE s.bracketed
  <2>1. PICK f \in 0 .. m - 1 :
          /\ s.util # 0 /\ Near(l, a + y)
          /\ Near(l - (Behind(q, s, t) - f), d + y)
    BY <1>1, <1>2, <1>4 DEF Balanced
  <2>2. PICK v \in Nat, k \in Nat, tv \in Nat : v = s.util /\ k = s.cost /\ tv = t * v
    <3>1. s.util \in Nat /\ s.cost \in Nat /\ t * s.util \in Nat
      BY Multiples DEF Snapshots
    <3> QED
      BY <3>1
  <2>3. t <= tv
    <3>1. t * 0 + t <= t * v /\ t * 0 = 0
      BY <2>1, <2>2, Multiples
    <3> QED
      BY <2>2, <3>1
  <2>4. x = m + t - 1 /\ tv <= m
    BY <2>2, <2>3
  <2>5. tv <= q + b /\ q + b < tv + t
    BY <2>2 DEF Stands
  <2>6. PICK h \in Int, p \in Int : /\ h = Behind(q, s, t) /\ h = (q + k) - tv
                                    /\ p = Behind(g - c, s, t) /\ p = ((g - c) + k) - tv
    BY <2>2 DEF Behind
  <2>7. Near(l - (p - f), d + (y + x))
    <3>1. h - p = q + b
      BY <2>2, <2>6
    <3>2. PICK w \in Int : w = l - (h - f) /\ l - (p - f) = w + (q + b)
      BY <2>1, <2>6, <3>1
    <3>3. 0 <= q + b /\ q + b <= x
      BY <2>2, <2>4, <2>5
    <3>4. Near(w, d + y)
      BY <2>1, <2>6, <3>2
    <3>5. Near(w + (q + b), d + (y + x))
      BY <1>1, <3>3, <3>4 DEF Near
    <3> QED
      BY <3>2, <3>5
  <2>8. Near(l, a + (y + x))
    BY <1>1, <2>1 DEF Near
  <2> QED
    BY <1>1, <1>2, <1>4, <2>1, <2>6, <2>7, <2>8 DEF Balanced
<1> QED
  BY <1>3, <1>4

Runs(s, u, n) == IF ~s.set \/ RolledOver(s, u) THEN n + 1 ELSE n

\* An answer is observed, its charge being part of the recorded cost by now.
LEMMA ObserveKeeps ==
  ASSUME NEW t \in Nat \ {0}, NEW m \in Nat \ {0}, NEW s \in Snapshots,
         NEW e \in Estimators, NEW n \in Nat, NEW p, NEW c \in Nat, NEW b \in Nat, NEW u \in Nat,
         NEW g \in 1 .. m, b + g = c, NEW x \in Nat, t <= m => x = m + t - 1, NEW z \in Nat,
         Flying(p, u, g, s, e, n, b, t, m, x, z),
         NEW R, R = UpdateCapacityEstimate(s, e, u, c)
  PROVE  Settled(p, R.snap, R.est, Runs(s, u, n), c, t, m, x, z)
<1>1. PICK q \in Int, pos \in Nat, y \in Nat, i \in Nat :
        /\ Balanced(q, s, e, n, y, t, m)
        /\ t * u <= pos /\ pos < t * u + t
        /\ (p = pos /\ i <= z) \/ (p = 0 /\ i + x <= z)
        /\ ~s.set => i = y
        /\ s.set => /\ Stands(q, s, b, t)
                    /\ (pos = (q + b) + g /\ i = y) \/ (pos = g /\ i = y + x)
  BY DEF Flying
<1>2. s.util \in Nat /\ s.cost \in Nat /\ s.set \in BOOLEAN /\ s.bracketed \in BOOLEAN
  BY DEF Snapshots
<1>3. PICK tu \in Nat, ta \in Nat : tu = t * u /\ ta = t * s.util
  BY <1>2, Multiples
<1>4. CASE ~s.set \/ RolledOver(s, u)
  <2>1. R.snap = Anchor(u, c, FALSE) /\ R.est = e /\ Runs(s, u, n) = n + 1
    BY <1>4 DEF UpdateCapacityEstimate, Moved, Runs
  <2>2. Near(Bias(e, t), n * (m - 1) + y)
    BY <1>1, BalancedBound
  <2>3. y <= i
    BY <1>1, <1>2
  <2>4. y <= z /\ (p = pos \/ (p = 0 /\ y + x <= z))
    BY <1>1, <2>3
  <2>5. Settled(p, Anchor(u, c, FALSE), e, n + 1, c, t, m, x, z)
    BY <1>1, <2>2, <2>4, AnchorKeeps
  <2> QED
    BY <2>1, <2>5
<1>5. CASE s.set /\ ~(u < s.util)
  <2>1. Runs(s, u, n) = n /\ n \in Nat \ {0}
    BY <1>1, <1>5 DEF Runs, RolledOver, Balanced
  <2>2. ta <= q + b /\ q + b < ta + t /\ s.cost <= b
    BY <1>1, <1>3, <1>5 DEF Stands
  <2>3. ta <= tu /\ (u > s.util => ta + t <= tu)
    <3>1. u > s.util => ta + t <= tu
      BY <1>2, <1>3, Multiples
    <3> QED
      BY <1>2, <1>3, <1>5, <3>1
  \* The window's unrecorded cost, as this answer shows it.
  <2>4. PICK r \in Int :
          /\ Balanced(r, s, e, n, i, t, m) /\ pos = r + c
          /\ u > s.util => pos - tu \in 0 .. m - 1
    <3>1. CASE pos = (q + b) + g /\ i = y
      <4>1. pos = q + c
        BY <3>1
      <4>2. u > s.util => pos - tu \in 0 .. m - 1
        BY <1>1, <1>3, <2>2, <2>3, <3>1
      <4> QED
        BY <1>1, <3>1, <4>1, <4>2
    <3>2. CASE pos = g /\ i = y + x
      <4>1. t * s.util <= g
        BY <1>1, <1>3, <2>3, <3>2
      <4>2. Balanced(g - c, s, e, n, y + x, t, m)
        BY <1>1, <1>5, <2>1, <4>1, UnseenKeeps
      <4>3. g - c \in Int /\ pos = (g - c) + c
        BY <3>2
      <4>4. u > s.util => pos - tu \in 0 .. m - 1
        BY <1>1, <1>3, <2>3, <3>2
      <4> QED
        BY <3>2, <4>2, <4>3, <4>4
    <3> QED
      BY <1>1, <1>5, <3>1, <3>2
  <2>5. i <= z /\ (p = r + c \/ (p = 0 /\ i + x <= z))
    BY <1>1, <2>4
  <2>6. CASE u = s.util
    <3>1. R.snap = s /\ R.est = e
      <4>1. s.set /\ ~RolledOver(s, u) /\ u - s.util <= 0
        BY <1>2, <1>5, <2>6 DEF RolledOver
      <4> QED
        BY <4>1 DEF UpdateCapacityEstimate, Unchanged
    <3>2. Stands(r, s, c, t)
      <4>1. s.cost <= c
        BY <1>2, <2>2
      <4> QED
        BY <1>1, <2>4, <2>6, <4>1 DEF Stands
    <3> QED
      BY <2>1, <2>4, <2>5, <3>1, <3>2 DEF Settled
  <2>7. CASE u > s.util
    <3>1. c > s.cost
      BY <1>2, <2>2
    <3>2. PICK o \in Int : o = (r + c) - t * u /\ o \in 0 .. m - 1
      BY <1>3, <2>4, <2>7
    <3>3. /\ ~s.bracketed => Balanced(r, Anchor(u, c, TRUE), e, n, i, t, m)
          /\ s.bracketed
               => Balanced(r, Anchor(u, c, TRUE), Accumulated(s, e, u, c).est, n, i, t, m)
      BY <1>5, <2>1, <2>4, <2>7, <3>1, <3>2, TickKeeps
    <3>4. ASSUME NEW f, Balanced(r, Anchor(u, c, TRUE), f, n, i, t, m)
          PROVE  Settled(p, Anchor(u, c, TRUE), f, n, c, t, m, x, z)
      <4>1. Anchor(u, c, TRUE).set /\ Anchor(u, c, TRUE).util = u /\ Anchor(u, c, TRUE).cost = c
        BY DEF Anchor
      <4>2. tu <= r + c /\ r + c < tu + t /\ c <= c
        BY <1>1, <1>3, <2>4
      <4>3. Stands(r, Anchor(u, c, TRUE), c, t)
        BY <1>3, <4>1, <4>2 DEF Stands
      <4> QED
        BY <2>5, <3>4, <4>1, <4>3 DEF Settled
    <3>5. ~RolledOver(s, u) /\ s.set /\ ~(u - s.util <= 0)
      BY <1>2, <1>5, <2>7 DEF RolledOver
    <3>6. CASE ~s.bracketed
      <4>1. R.snap = Anchor(u, c, TRUE) /\ R.est = e
        BY <3>5, <3>6 DEF UpdateCapacityEstimate, Moved
      <4> QED
        BY <2>1, <3>3, <3>4, <3>6, <4>1
    <3>7. CASE s.bracketed
      <4>1. ~(c - s.cost <= 0)
        BY <1>2, <3>1
      <4>2. R.snap = Anchor(u, c, TRUE) /\ R.est = Accumulated(s, e, u, c).est
        BY <3>5, <3>7, <4>1 DEF UpdateCapacityEstimate, Accumulated
      <4> QED
        BY <2>1, <3>3, <3>4, <3>7, <4>2
    <3> QED
      BY <3>6, <3>7
  <2> QED
    BY <1>2, <1>5, <2>6, <2>7
<1> QED
  BY <1>4, <1>5 DEF RolledOver

-----------------------------------------------------------------------------
(* Types.                                                                  *)

Answers == [key : Keys, request : Requests, util : [Windows -> Nat]]

\* Charges are whole.
CalTypes ==
  /\ pc \in [Recorders -> Steps]
  /\ event \in [Recorders -> {Priced(a) : a \in Answers} \cup {NoEvent}]
  /\ cost \in [Keys -> Nat]
  /\ snap \in [Keys -> [Windows -> Snapshots]]
  /\ est \in Entries
  /\ file \in Files
  /\ image \in [Recorders -> Entries]
  /\ served \in [Keys -> [Windows -> Nat]]
  /\ answer \in [Recorders -> Answers \cup {NoEvent}]
  /\ owed \in [Recorders -> Answers \cup {NoEvent}]
  /\ runs \in [Keys -> [Windows -> Nat]]
  /\ resets \in Nat

\* A recorder records the event it owes a line for, and has no answer then.
Handling ==
  \A r \in Recorders :
    /\ pc[r] # "idle" => owed[r] \in Answers /\ event[r] = Priced(owed[r])
    /\ answer[r] # NoEvent => pc[r] = "idle" /\ owed[r] = NoEvent

CalTyped == CalTypes /\ Handling

\* There is a dearest request.
LEMMA Charges ==
  /\ MaxCharge \in Nat \ {0}
  /\ \A q \in Requests : q.charge \in 1 .. MaxCharge
  /\ \A w \in Windows : TickCost[w] \in Nat \ {0}
<1>1. /\ \A q \in Requests : q.charge \in Nat \ {0}
      /\ \A w \in Windows : TickCost[w] \in Nat \ {0}
  BY MeterAssumption
<1> DEFINE C == {q.charge : q \in Requests}
<1>2. PICK d \in C : \A q \in Requests : q.charge <= d
  BY MeterAssumption
<1>3. MaxCharge \in C /\ \A q \in Requests : q.charge <= MaxCharge
  BY <1>2, Zenon DEF MaxCharge
<1>4. PICK h \in Requests : MaxCharge = h.charge
  BY <1>3
<1> QED
  BY <1>1, <1>3, <1>4

\* What rollovers that no answer showed may have added.
Leeway(w) == resets * Unseen(w)

\* That is a number, and none where no request reaches over a percent.
LEMMA LeewayIs ==
  ASSUME NEW w \in Windows, resets \in Nat
  PROVE  /\ Unseen(w) \in Nat /\ Leeway(w) \in Nat
         /\ TickCost[w] <= MaxCharge => Unseen(w) = MaxCharge + TickCost[w] - 1
         /\ (resets + 1) * Unseen(w) = Leeway(w) + Unseen(w)
<1>1. MaxCharge \in Nat \ {0} /\ TickCost[w] \in Nat \ {0}
  BY Charges
<1>2. /\ Unseen(w) \in Nat
      /\ TickCost[w] <= MaxCharge => Unseen(w) = MaxCharge + TickCost[w] - 1
  BY <1>1 DEF Unseen
<1>3. PICK x \in Nat : x = Unseen(w)
  BY <1>2
<1>4. resets * x \in Nat /\ (resets + 1) * x = resets * x + x
  OBVIOUS
<1> QED
  BY <1>2, <1>3, <1>4 DEF Leeway

\* What Record is called with is the answer, at the upstream's price.
LEMMA PricedIs ==
  ASSUME NEW a \in Answers
  PROVE  /\ a \in Answers /\ a # NoEvent
         /\ Priced(a).key = a.key /\ Priced(a).util = a.util
         /\ Priced(a).cost = a.request.charge
         /\ a.key \in Keys /\ a.request \in Requests /\ a.util \in [Windows -> Nat]
         /\ a.request.charge \in 1 .. MaxCharge
<1>1. a # NoEvent
  BY MeterAssumption DEF Answers
<1>2. a.key \in Keys /\ a.request \in Requests /\ a.util \in [Windows -> Nat]
  BY DEF Answers
<1>3. a.request.charge = RequestCost(a.request.model, a.request.usage)
  BY <1>2, MeterAssumption
<1> QED
  BY <1>1, <1>2, <1>3, Charges DEF Priced

\* Every subtraction in updateCapacityEstimate is guarded.
LEMMA UpdateTypes ==
  ASSUME NEW s \in Snapshots, NEW e \in Estimators, NEW u \in Nat, NEW c \in Nat
  PROVE  /\ UpdateCapacityEstimate(s, e, u, c).snap \in Snapshots
         /\ UpdateCapacityEstimate(s, e, u, c).est \in Estimators
  BY DEF UpdateCapacityEstimate, RolledOver, Moved, Unchanged, Accumulated, Anchor,
         Snapshots, Estimators

\* The values that a process starts with.
LEMMA ZerosTyped ==
  /\ NoSnapshot \in Snapshots
  /\ NoEstimator \in Estimators
  /\ NoEntries \in Entries
  /\ TornFile \in Files
  BY DEF NoSnapshot, NoEstimator, NoEntries, TornFile, Snapshots, Estimators, Entries, Files

\* So is what it reads back.
LEMMA LoadedTyped ==
  ASSUME NEW f \in Files
  PROVE  Loaded(f) \in Entries
  BY ZerosTyped DEF Loaded, Files

\* What the second critical section computes.
LEMMA ObservedIs ==
  ASSUME CalTyped, NEW r \in Recorders, pc[r] = "estimate", NEW w \in Windows
  PROVE  LET k == Key(r)
             R == UpdateCapacityEstimate(snap[k][w], est[k][w], owed[r].util[w], cost[k])
         IN /\ k = owed[r].key /\ k \in Keys
            /\ owed[r].util[w] \in Nat /\ event[r].util[w] = owed[r].util[w]
            /\ snap[k][w] \in Snapshots /\ est[k][w] \in Estimators /\ cost[k] \in Nat
            /\ Estimated(r, w) = R
            /\ R.snap \in Snapshots /\ R.est \in Estimators
<1>1. owed[r] \in Answers /\ event[r] = Priced(owed[r])
  BY DEF CalTyped, Handling
<1>2. Key(r) = owed[r].key /\ Key(r) \in Keys
  BY <1>1, PricedIs DEF Key
<1>3. owed[r].util[w] \in Nat /\ event[r].util[w] = owed[r].util[w]
  BY <1>1, PricedIs
<1>4. event[r].util[w] # NoUtil
  BY <1>3, MarkersAssumption
<1>5. snap[Key(r)][w] \in Snapshots /\ est[Key(r)][w] \in Estimators /\ cost[Key(r)] \in Nat
  BY <1>2 DEF CalTyped, CalTypes, Entries
<1>6. Estimated(r, w)
        = UpdateCapacityEstimate(snap[Key(r)][w], est[Key(r)][w], owed[r].util[w], cost[Key(r)])
  BY <1>3, <1>4 DEF Estimated
<1> QED
  BY <1>2, <1>3, <1>5, <1>6, UpdateTypes

\* The types hold at the start.
LEMMA CalTypedInit == CalInit => CalTyped
<1> SUFFICES ASSUME CalInit PROVE CalTyped
  OBVIOUS
<1>1. file \in Files
  BY FilesAssumption DEF CalInit, Init
<1>2. CalTypes
  BY <1>1, LoadedTyped, ZerosTyped, MeterAssumption
     DEF CalInit, Init, FreshProcess, CalTypes, Steps, Entries, Zeros
<1>3. Handling
  BY DEF CalInit, Init, FreshProcess, Handling
<1> QED
  BY <1>2, <1>3 DEF CalTyped

\* And every step keeps them.
LEMMA CalTypedNext == CalTyped /\ [CalNext]_calVars => CalTyped'
<1> SUFFICES ASSUME CalTyped, [CalNext]_calVars PROVE CalTyped'
  OBVIOUS
<1> USE DEF CalTyped
<1>1. ASSUME NEW r \in Recorders, NEW k \in Keys, NEW q \in Requests, Serve(r, k, q)
      PROVE  CalTyped'
  <2> DEFINE total == [w \in Windows |-> served[k][w] + q.charge]
             a == [key |-> k, request |-> q, util |-> Utilization(total)]
  <2>1. \A w \in Windows : total[w] \in Nat /\ TickCost[w] \in Nat \ {0}
    BY MeterAssumption DEF CalTypes
  <2>2. total \in [Windows -> Nat]
    BY <2>1
  <2>3. Utilization(total) \in [Windows -> Nat]
    BY <2>1 DEF Utilization
  <2>4. a \in Answers
    BY <2>3 DEF Answers
  <2>5. /\ served' = [served EXCEPT ![k] = total] /\ answer' = [answer EXCEPT ![r] = a]
        /\ pc[r] = "idle" /\ owed[r] = NoEvent
    BY <1>1 DEF Serve
  <2> HIDE DEF total, a
  <2>6. UNCHANGED <<pc, event, cost, snap, est, file, image, owed, runs, resets>>
    BY <1>1 DEF Serve, vars, shared, local
  <2>7. CalTypes'
    BY <2>2, <2>4, <2>5, <2>6 DEF CalTypes
  <2>8. Handling'
    BY <2>5, <2>6 DEF CalTypes, Handling
  <2> QED
    BY <2>7, <2>8
<1>2. ASSUME NEW r \in Recorders, Deliver(r) PROVE CalTyped'
  <2>1. /\ answer[r] # NoEvent /\ pc[r] = "idle" /\ pc' = [pc EXCEPT ![r] = "cost"]
        /\ event' = [event EXCEPT ![r] = Priced(answer[r])]
        /\ answer' = [answer EXCEPT ![r] = NoEvent]
        /\ owed' = [owed EXCEPT ![r] = answer[r]]
    BY <1>2 DEF Deliver, Begin, Goto
  <2>2. UNCHANGED <<cost, snap, est, file, image, served, runs, resets>>
    BY <1>2 DEF Deliver, Begin
  <2>3. answer[r] \in Answers
    BY <2>1 DEF CalTypes
  <2>4. CalTypes'
    BY <2>1, <2>2, <2>3 DEF CalTypes, Steps
  <2>5. Handling'
    BY <2>1, <2>3 DEF CalTypes, Handling
  <2> QED
    BY <2>4, <2>5
<1>3. ASSUME NEW r \in Recorders, WriteLine(r) PROVE CalTyped'
  <2>1. pc[r] = "idle" /\ owed' = [owed EXCEPT ![r] = NoEvent]
    BY <1>3 DEF WriteLine
  <2>2. UNCHANGED <<pc, event, cost, snap, est, file, image, served, answer, runs, resets>>
    BY <1>3 DEF WriteLine, vars, shared, local
  <2>3. CalTypes'
    BY <2>1, <2>2 DEF CalTypes
  <2>4. Handling'
    BY <2>1, <2>2 DEF CalTypes, Handling
  <2> QED
    BY <2>3, <2>4
<1>4. ASSUME NEW r \in Recorders, Observe(r) PROVE CalTyped'
  <2> DEFINE k == Key(r)
  <2>1. pc[r] = "estimate"
    BY <1>4 DEF Observe, UpdateEstimates
  <2>2. k \in Keys /\ \A w \in Windows :
                        Estimated(r, w).snap \in Snapshots /\ Estimated(r, w).est \in Estimators
    <3>1. "five_hour" \in Windows
      BY DEF Windows
    <3> QED
      BY <2>1, <3>1, ObservedIs
  <2>3. /\ snap' = [snap EXCEPT ![k] = [w \in Windows |-> Estimated(r, w).snap]]
        /\ est' = [est EXCEPT ![k] = [w \in Windows |-> Estimated(r, w).est]]
    BY <1>4 DEF Observe, UpdateEstimates
  <2>4. \/ pc' = [pc EXCEPT ![r] = "read"] /\ UNCHANGED <<event, image>>
        \/ /\ pc' = [pc EXCEPT ![r] = "idle"] /\ event' = [event EXCEPT ![r] = NoEvent]
           /\ image' = [image EXCEPT ![r] = NoEntries]
    BY <1>4 DEF Observe, UpdateEstimates, Goto, Return
  <2>5. UNCHANGED <<cost, file, served, answer, owed, resets>>
    BY <1>4 DEF Observe, UpdateEstimates
  <2>6. runs' \in [Keys -> [Windows -> Nat]]
    <3>1. PICK D : runs' = [runs EXCEPT ![k] = [w \in Windows |-> IF D[w] THEN @[w] + 1 ELSE @[w]]]
      <4> DEFINE D == [w \in Windows |-> ~snap[k][w].set \/ RolledOver(snap[k][w], event[r].util[w])]
      <4>1. runs' = [runs EXCEPT ![k] = [w \in Windows |-> IF D[w] THEN @[w] + 1 ELSE @[w]]]
        BY <1>4 DEF Observe
      <4> QED
        BY <4>1
    <3>2. [w \in Windows |-> IF D[w] THEN runs[k][w] + 1 ELSE runs[k][w]] \in [Windows -> Nat]
      BY <2>2 DEF CalTypes
    <3> QED
      BY <3>1, <3>2 DEF CalTypes
  <2> HIDE DEF k
  <2>7. [w \in Windows |-> Estimated(r, w).snap] \in [Windows -> Snapshots]
        /\ [w \in Windows |-> Estimated(r, w).est] \in [Windows -> Estimators]
    BY <2>2
  <2>8. snap' \in [Keys -> [Windows -> Snapshots]] /\ est' \in Entries
    BY <2>3, <2>7 DEF CalTypes, Entries
  <2>9. /\ pc' \in [Recorders -> Steps] /\ image' \in [Recorders -> Entries]
        /\ event' \in [Recorders -> {Priced(a) : a \in Answers} \cup {NoEvent}]
    <3>1. pc' \in [Recorders -> Steps]
      BY <2>4 DEF CalTypes, Steps
    <3>2. image' \in [Recorders -> Entries]
      BY <2>4, ZerosTyped DEF CalTypes
    <3>3. event' \in [Recorders -> {Priced(a) : a \in Answers} \cup {NoEvent}]
      BY <2>4 DEF CalTypes
    <3> QED
      BY <3>1, <3>2, <3>3
  <2>10. CalTypes'
    BY <2>5, <2>6, <2>8, <2>9 DEF CalTypes
  <2>11. Handling'
    BY <2>1, <2>4, <2>5 DEF CalTypes, Handling
  <2> QED
    BY <2>10, <2>11
<1>5. ASSUME NEW r \in Recorders, OtherStep(r) PROVE CalTyped'
  <2>1. UNCHANGED <<served, answer, owed, runs, resets>>
    BY <1>5 DEF OtherStep, meter
  <2>2. pc[r] # "idle"
    BY <1>5 DEF OtherStep, AddCost, StoreGauges, ReadEstimates, OpenTruncated, WriteEstimates,
                WriteFails
  <2>3. Key(r) \in Keys
    BY <2>2, PricedIs DEF Handling, Key
  <2>4. CASE AddCost(r)
    <3>1. pc' = [pc EXCEPT ![r] = "gauges"] /\ UNCHANGED <<event, snap, est, file, image>>
      BY <2>4 DEF AddCost, Goto
    <3>2. cost' \in [Keys -> Nat]
      BY <2>3, <2>4 DEF AddCost, CalTypes
    <3> QED
      BY <2>1, <2>2, <3>1, <3>2 DEF CalTypes, Handling, Steps
  <2>5. CASE StoreGauges(r)
    <3>1. /\ \/ pc' = [pc EXCEPT ![r] = "estimate"] /\ UNCHANGED <<event, image>>
             \/ /\ pc' = [pc EXCEPT ![r] = "idle"] /\ event' = [event EXCEPT ![r] = NoEvent]
                /\ image' = [image EXCEPT ![r] = NoEntries]
          /\ UNCHANGED <<cost, snap, est, file>>
      BY <2>5 DEF StoreGauges, Goto, Return
    <3> QED
      <4>1. pc' \in [Recorders -> Steps]
        BY <3>1 DEF CalTypes, Steps
      <4>2. CalTypes'
        BY <2>1, <3>1, <4>1, ZerosTyped DEF CalTypes
      <4>3. Handling'
        BY <2>1, <2>2, <3>1 DEF CalTypes, Handling
      <4> QED
        BY <4>2, <4>3
  <2>6. CASE ReadEstimates(r)
    <3>1. pc' = [pc EXCEPT ![r] = "open"] /\ UNCHANGED <<cost, event, snap, est, file>>
      BY <2>6 DEF ReadEstimates, Goto, shared
    <3>2. image' = [image EXCEPT ![r] = [ReadBack EXCEPT ![Key(r)] = est[Key(r)]]]
      BY <2>6 DEF ReadEstimates
    <3>3. ReadBack \in Entries /\ est \in Entries
      BY LoadedTyped DEF ReadBack, CalTypes
    <3>4. [ReadBack EXCEPT ![Key(r)] = est[Key(r)]] \in Entries
      BY <2>3, <3>3 DEF Entries
    <3>5. image' \in [Recorders -> Entries]
      BY <3>2, <3>4 DEF CalTypes
    <3> QED
      BY <2>1, <2>2, <3>1, <3>5 DEF CalTypes, Handling, Steps
  <2>7. CASE OpenTruncated(r)
    <3>1. /\ pc' = [pc EXCEPT ![r] = "write"] /\ UNCHANGED <<cost, event, snap, est, image>>
          /\ file' = TornFile
      BY <2>7 DEF OpenTruncated, Goto, shared
    <3> QED
      BY <2>1, <2>2, <3>1, ZerosTyped DEF CalTypes, Handling, Steps
  <2>8. CASE WriteEstimates(r) \/ WriteFails(r)
    <3>1. /\ pc' = [pc EXCEPT ![r] = "idle"] /\ event' = [event EXCEPT ![r] = NoEvent]
          /\ image' = [image EXCEPT ![r] = NoEntries]
          /\ UNCHANGED <<cost, snap, est>>
          /\ file' \in {Saved(image[r]), TornFile, file}
      BY <2>8 DEF WriteEstimates, WriteFails, Return
    <3>2. file' \in Files
      BY <3>1, ZerosTyped DEF CalTypes, Saved, Files
    <3> QED
      BY <2>1, <2>2, <3>1, <3>2, ZerosTyped DEF CalTypes, Handling, Steps
  <2> QED
    BY <1>5, <2>4, <2>5, <2>6, <2>7, <2>8 DEF OtherStep
<1>6. ASSUME NEW k \in Keys, NEW w \in Windows, Rollover(k, w) PROVE CalTyped'
  <2>1. /\ served' = [served EXCEPT ![k][w] = 0]
        /\ UNCHANGED <<pc, event, cost, snap, est, file, image, answer, owed, runs>>
        /\ resets' = resets + 1
    BY <1>6 DEF Rollover, vars, shared, local
  <2> QED
    BY <2>1 DEF CalTypes, Handling
<1>7. ASSUME Crash PROVE CalTyped'
  <2>1. /\ cost' = [k \in Keys |-> 0]
        /\ snap' = [k \in Keys |-> [w \in Windows |-> NoSnapshot]]
        /\ est' = Loaded(file)
        /\ pc' = [r \in Recorders |-> "idle"]
        /\ event' = [r \in Recorders |-> NoEvent]
        /\ image' = [r \in Recorders |-> NoEntries]
        /\ answer' = [r \in Recorders |-> NoEvent]
        /\ owed' = answer'
    BY <1>7 DEF Crash, Restart
  <2>2. UNCHANGED <<file, served, runs, resets>>
    BY <1>7 DEF Crash, Restart
  <2>3. CalTypes'
    BY <2>1, <2>2, ZerosTyped, LoadedTyped DEF CalTypes, Steps
  <2>4. Handling'
    BY <2>1 DEF Handling
  <2> QED
    BY <2>3, <2>4
<1>8. ASSUME UNCHANGED calVars PROVE CalTyped'
  <2>1. UNCHANGED <<pc, event, cost, snap, est, file, image, served, answer, owed, runs, resets>>
    BY <1>8 DEF calVars, vars, shared, local, meter
  <2> QED
    BY <2>1 DEF CalTypes, Handling
<1>9. CalFinished => UNCHANGED calVars
  BY DEF CalFinished, Finished, calVars
<1> QED
  BY <1>1, <1>2, <1>3, <1>4, <1>5, <1>6, <1>7, <1>8, <1>9 DEF CalNext

-----------------------------------------------------------------------------
(* The running estimate is calibrated.                                     *)

\* Requests are served and recorded one at a time.
Alone == \E r \in Recorders : Recorders = {r}

\* A request of key k has been charged, and the second critical section has not seen it.
InFlight(r, k) ==
  /\ answer[r] # NoEvent \/ pc[r] \in {"cost", "gauges", "estimate"}
  /\ k = IF answer[r] # NoEvent THEN answer[r].key ELSE owed[r].key

Carried(r) == IF answer[r] # NoEvent THEN answer[r] ELSE owed[r]

\* The part of the recorded cost that is the request's own.
Recorded(r) == IF pc[r] \in {"gauges", "estimate"} THEN Carried(r).request.charge ELSE 0

Tracked(r, k, w) ==
  IF InFlight(r, k)
  THEN \E b \in Nat :
         /\ b + Recorded(r) = cost[k]
         /\ Flying(served[k][w], Carried(r).util[w], Carried(r).request.charge,
                   snap[k][w], est[k][w], runs[k][w], b, TickCost[w], MaxCharge,
                   Unseen(w), Leeway(w))
  ELSE Settled(served[k][w], snap[k][w], est[k][w], runs[k][w], cost[k], TickCost[w], MaxCharge,
               Unseen(w), Leeway(w))

Tracks == \A r \in Recorders, k \in Keys, w \in Windows : Tracked(r, k, w)

\* An estimator of a window was within the bound, and the bound only grows.
Sound(e, k, w) == Near(Bias(e[k][w], TickCost[w]), runs[k][w] * (MaxCharge - 1) + Leeway(w))
AllSound(e) == \A k \in Keys, w \in Windows : Sound(e, k, w)

\* So is what is on disk, or on its way there.
Stored ==
  /\ file.kind = "ok" => AllSound(file.entries)
  /\ \A r \in Recorders : pc[r] \in {"open", "write"} => AllSound(image[r])

CalInv == CalTyped /\ Tracks /\ Stored

\* An estimate of nothing is exact.
LEMMA EmptySound ==
  ASSUME CalTyped
  PROVE  AllSound(NoEntries)
<1> SUFFICES ASSUME NEW k \in Keys, NEW w \in Windows PROVE Sound(NoEntries, k, w)
  BY DEF AllSound
<1>1. NoEntries[k][w] = NoEstimator
  BY DEF NoEntries
<1>2. TickCost[w] \in Nat \ {0} /\ MaxCharge \in Nat \ {0} /\ runs[k][w] \in Nat
  BY Charges DEF CalTyped, CalTypes
<1>3. Bias(NoEstimator, TickCost[w]) = 0
  BY <1>2 DEF Bias, NoEstimator
<1>4. runs[k][w] * (MaxCharge - 1) + Leeway(w) \in Nat
  <2>1. Leeway(w) \in Nat
    BY LeewayIs DEF CalTyped, CalTypes
  <2> QED
    BY <1>2, <2>1, BoundsAre
<1>5. Near(0, runs[k][w] * (MaxCharge - 1) + Leeway(w))
  BY <1>4 DEF Near
<1> QED
  BY <1>1, <1>3, <1>5 DEF Sound

\* What memory holds is within the bound.
LEMMA MemorySound ==
  ASSUME Alone, CalInv
  PROVE  AllSound(est)
<1> SUFFICES ASSUME NEW k \in Keys, NEW w \in Windows PROVE Sound(est, k, w)
  BY DEF AllSound
<1>1. PICK r \in Recorders : TRUE
  BY DEF Alone
<1>2. Tracked(r, k, w)
  BY DEF CalInv, Tracks
<1>3. /\ snap[k][w] \in Snapshots /\ est[k][w] \in Estimators /\ runs[k][w] \in Nat
      /\ TickCost[w] \in Nat \ {0} /\ MaxCharge \in Nat \ {0}
      /\ Unseen(w) \in Nat /\ Leeway(w) \in Nat
  BY Charges, LeewayIs DEF CalInv, CalTyped, CalTypes, Entries
<1>4. CASE InFlight(r, k)
  <2>1. PICK b \in Nat :
          Flying(served[k][w], Carried(r).util[w], Carried(r).request.charge,
                 snap[k][w], est[k][w], runs[k][w], b, TickCost[w], MaxCharge,
                 Unseen(w), Leeway(w))
    BY <1>2, <1>4 DEF Tracked
  <2>2. Near(Bias(est[k][w], TickCost[w]), runs[k][w] * (MaxCharge - 1) + Leeway(w))
    BY <1>3, <2>1, BoundOfEither
  <2> QED
    BY <2>2 DEF Sound
<1>5. CASE ~InFlight(r, k)
  <2>1. Settled(served[k][w], snap[k][w], est[k][w], runs[k][w], cost[k], TickCost[w], MaxCharge,
                Unseen(w), Leeway(w))
    BY <1>2, <1>5 DEF Tracked
  <2>2. Near(Bias(est[k][w], TickCost[w]), runs[k][w] * (MaxCharge - 1) + Leeway(w))
    BY <1>3, <2>1, BoundOfEither
  <2> QED
    BY <2>2 DEF Sound
<1> QED
  BY <1>4, <1>5

\* What the next process reads back was within the bound.
LEMMA LoadedSound ==
  ASSUME CalInv
  PROVE  AllSound(Loaded(file))
  BY EmptySound DEF CalInv, Stored, Loaded

\* A bound that holds goes on holding.
LEMMA SoundStays ==
  ASSUME CalTyped, NEW e, e \in Entries, AllSound(e), runs' \in [Keys -> [Windows -> Nat]],
         \A k \in Keys, w \in Windows : runs[k][w] <= runs'[k][w],
         resets' \in {resets, resets + 1}
  PROVE  \A k \in Keys, w \in Windows :
           Near(Bias(e[k][w], TickCost[w]), runs'[k][w] * (MaxCharge - 1) + Leeway(w)')
<1> SUFFICES ASSUME NEW k \in Keys, NEW w \in Windows
             PROVE  Near(Bias(e[k][w], TickCost[w]), runs'[k][w] * (MaxCharge - 1) + Leeway(w)')
  OBVIOUS
<1>1. PICK n \in Nat, p \in Nat : n = runs[k][w] /\ p = runs'[k][w] /\ n <= p
  <2>1. runs[k][w] \in Nat /\ runs'[k][w] \in Nat /\ runs[k][w] <= runs'[k][w]
    BY DEF CalTyped, CalTypes
  <2> QED
    BY <2>1
<1>2. PICK m \in Nat : m = MaxCharge - 1
  BY Charges
<1>3. PICK a \in Nat, b \in Nat : a = n * m /\ b = p * m /\ a <= b
  <2>1. PICK d \in Nat : p = n + d
    <3>1. p - n \in Nat /\ p = n + (p - n)
      BY <1>1
    <3> QED
      BY <3>1
  <2>2. n * m \in Nat /\ d * m \in Nat /\ (n + d) * m = n * m + d * m
    OBVIOUS
  <2> QED
    BY <2>1, <2>2
<1>4. PICK y \in Nat, z \in Nat : y = Leeway(w) /\ z = Leeway(w)' /\ y <= z
  <2>1. /\ Leeway(w) \in Nat /\ Unseen(w) \in Nat
        /\ (resets + 1) * Unseen(w) = Leeway(w) + Unseen(w)
    BY LeewayIs DEF CalTyped, CalTypes
  <2>2. Leeway(w)' = Leeway(w) \/ Leeway(w)' = Leeway(w) + Unseen(w)
    BY <2>1 DEF Leeway
  <2> QED
    BY <2>1, <2>2
<1>5. PICK x \in Int : x = Bias(e[k][w], TickCost[w])
  <2>1. e[k][w] \in Estimators
    BY DEF Entries
  <2> QED
    BY <2>1, Charges, BiasType
<1>6. Near(x, a + y)
  BY <1>1, <1>2, <1>3, <1>4, <1>5 DEF AllSound, Sound
<1>7. Near(x, b + z)
  <2>1. a <= b /\ y <= z
    BY <1>3, <1>4
  <2>2. a + y <= b + z /\ a + y \in Int /\ b + z \in Int
    BY <2>1
  <2> QED
    BY <1>6, <2>2, NearGrows
<1> QED
  BY <1>1, <1>2, <1>3, <1>4, <1>5, <1>7

\* The invariant holds at the start.
LEMMA CalInvInit == CalInit => CalInv
<1> SUFFICES ASSUME CalInit PROVE CalInv
  OBVIOUS
<1>1. CalTyped
  BY CalTypedInit
<1>2. file.kind # "ok" /\ est = NoEntries /\ \A r \in Recorders : pc[r] = "idle" /\ answer[r] = NoEvent
  BY FilesAssumption DEF CalInit, Init, FreshProcess, Loaded
<1>3. AllSound(est)
  BY <1>1, <1>2, EmptySound
<1>4. Tracks
  <2> SUFFICES ASSUME NEW r \in Recorders, NEW k \in Keys, NEW w \in Windows PROVE Tracked(r, k, w)
    BY DEF Tracks
  <2>1. ~InFlight(r, k)
    BY <1>2 DEF InFlight
  <2>2. snap[k][w] = NoSnapshot
    BY DEF CalInit, Init, FreshProcess
  <2>3. Near(Bias(est[k][w], TickCost[w]), runs[k][w] * (MaxCharge - 1) + Leeway(w))
    BY <1>3 DEF AllSound, Sound
  <2>4. Settled(served[k][w], NoSnapshot, est[k][w], runs[k][w], cost[k], TickCost[w], MaxCharge,
                Unseen(w), Leeway(w))
    <3>1. Leeway(w) \in Nat
      BY <1>1, LeewayIs DEF CalTyped, CalTypes
    <3> QED
      BY <2>3, <3>1, AnewKeeps
  <2> QED
    BY <2>1, <2>2, <2>4 DEF Tracked
<1>5. Stored
  BY <1>2 DEF Stored
<1> QED
  BY <1>1, <1>4, <1>5 DEF CalInv

\* Nothing that Tracked speaks of changes, or something that is not in flight stays so.
LEMMA TrackedStays ==
  ASSUME NEW r \in Recorders, NEW k \in Keys, NEW w \in Windows, Tracked(r, k, w),
         UNCHANGED <<served, snap, est, runs, resets>>, cost'[k] = cost[k],
         \/ ~InFlight(r, k) /\ ~InFlight(r, k)'
         \/ UNCHANGED <<pc, answer, owed>>
  PROVE  Tracked(r, k, w)'
<1>1. CASE ~InFlight(r, k) /\ ~InFlight(r, k)'
  <2>1. Settled(served[k][w], snap[k][w], est[k][w], runs[k][w], cost[k], TickCost[w], MaxCharge,
                Unseen(w), Leeway(w))
    BY <1>1 DEF Tracked
  <2>2. Settled(served[k][w], snap[k][w], est[k][w], runs[k][w], cost[k], TickCost[w], MaxCharge,
                Unseen(w), Leeway(w))'
    BY <2>1 DEF Settled, Balanced, Stands, Behind, Bias, Near, Leeway
  <2> QED
    BY <1>1, <2>2 DEF Tracked
<1>2. CASE UNCHANGED <<pc, answer, owed>> /\ InFlight(r, k)
  <2>1. InFlight(r, k)' /\ Carried(r)' = Carried(r) /\ Recorded(r)' = Recorded(r)
    BY <1>2 DEF InFlight, Recorded, Carried
  <2>2. PICK b \in Nat :
          /\ b + Recorded(r) = cost[k]
          /\ Flying(served[k][w], Carried(r).util[w], Carried(r).request.charge,
                    snap[k][w], est[k][w], runs[k][w], b, TickCost[w], MaxCharge,
                    Unseen(w), Leeway(w))
    BY <1>2 DEF Tracked
  <2>3. Leeway(w)' = Leeway(w)
    BY DEF Leeway
  <2>4. \E d \in Nat :
          /\ d + Recorded(r)' = cost'[k]
          /\ Flying(served'[k][w], Carried(r)'.util[w], Carried(r)'.request.charge,
                    snap'[k][w], est'[k][w], runs'[k][w], d, TickCost[w], MaxCharge,
                    Unseen(w), Leeway(w)')
    BY <2>1, <2>2, <2>3
  <2> QED
    BY <2>1, <2>4 DEF Tracked, Flying, Balanced, Stands, Behind, Bias, Near, Leeway
<1>3. UNCHANGED <<pc, answer, owed>> => InFlight(r, k)' = InFlight(r, k)
  BY DEF InFlight
<1> QED
  BY <1>1, <1>2, <1>3

\* What is stored stays sound.
LEMMA StoredStays ==
  ASSUME CalInv, CalTyped', \A k \in Keys, w \in Windows : runs[k][w] <= runs'[k][w],
         resets' \in {resets, resets + 1},
         file'.kind = "ok" => AllSound(file'.entries),
         \A r \in Recorders : pc'[r] \in {"open", "write"} => AllSound(image'[r])
  PROVE  Stored'
<1>1. runs' \in [Keys -> [Windows -> Nat]] /\ file' \in Files /\ image' \in [Recorders -> Entries]
  BY DEF CalTyped, CalTypes
<1>2. ASSUME file'.kind = "ok" PROVE AllSound(file.entries)'
  <2>1. file'.entries \in Entries
    BY <1>1 DEF Files
  <2>2. \A k \in Keys, w \in Windows :
          Near(Bias(file'.entries[k][w], TickCost[w]),
               runs'[k][w] * (MaxCharge - 1) + Leeway(w)')
    BY <1>1, <1>2, <2>1, SoundStays DEF CalInv
  <2> QED
    BY <2>2 DEF AllSound, Sound, Bias, Near, Leeway
<1>3. ASSUME NEW r \in Recorders, pc'[r] \in {"open", "write"} PROVE AllSound(image[r])'
  <2>1. image'[r] \in Entries /\ AllSound(image'[r])
    BY <1>1, <1>3
  <2>2. \A k \in Keys, w \in Windows :
          Near(Bias(image'[r][k][w], TickCost[w]),
               runs'[k][w] * (MaxCharge - 1) + Leeway(w)')
    BY <1>1, <2>1, SoundStays DEF CalInv
  <2> QED
    BY <2>2 DEF AllSound, Sound, Bias, Near, Leeway
<1> QED
  BY <1>2, <1>3 DEF Stored

\* Steps that leave the file and the images as they are.
LEMMA StoredSame ==
  ASSUME CalInv, CalTyped', UNCHANGED <<file, runs>>, resets' \in {resets, resets + 1},
         \A r \in Recorders : pc'[r] \in {"open", "write"} => image'[r] = image[r] /\ pc'[r] = pc[r]
  PROVE  Stored'
<1>1. \A k \in Keys, w \in Windows : runs[k][w] <= runs'[k][w]
  BY DEF CalInv, CalTyped, CalTypes
<1>2. file'.kind = "ok" => AllSound(file'.entries)
  <2>1. file' = file
    OBVIOUS
  <2>2. file.kind = "ok" => AllSound(file.entries)
    BY DEF CalInv, Stored
  <2> QED
    BY <2>1, <2>2
<1>3. \A r \in Recorders : pc'[r] \in {"open", "write"} => AllSound(image'[r])
  <2> SUFFICES ASSUME NEW r \in Recorders, pc'[r] \in {"open", "write"} PROVE AllSound(image'[r])
    OBVIOUS
  <2>1. PICK e : e = image[r] /\ image'[r] = e
    OBVIOUS
  <2>2. AllSound(e)
    BY <2>1 DEF CalInv, Stored
  <2> QED
    BY <2>1, <2>2
<1> QED
  BY <1>1, <1>2, <1>3, StoredStays

\* A request is charged: it is in flight.
LEMMA ServeCal ==
  ASSUME CalInv, CalTyped', NEW r \in Recorders, Recorders = {r}, NEW k \in Keys, NEW q \in Requests,
         Serve(r, k, q)
  PROVE  CalInv'
<1> DEFINE total == [w \in Windows |-> served[k][w] + q.charge]
           a == [key |-> k, request |-> q, util |-> Utilization(total)]
<1>1. /\ pc[r] = "idle" /\ answer[r] = NoEvent /\ owed[r] = NoEvent
      /\ served' = [served EXCEPT ![k] = total] /\ answer' = [answer EXCEPT ![r] = a]
  BY DEF Serve
<1>2. UNCHANGED <<pc, cost, snap, est, file, image, owed, runs, resets>>
  BY DEF Serve, vars, shared, local
<1>3. \A w \in Windows : /\ total[w] = served[k][w] + q.charge /\ total[w] \in Nat
                         /\ a.util[w] = total[w] \div TickCost[w]
  BY Charges DEF CalInv, CalTyped, CalTypes, Utilization
<1>4. a.key = k /\ a.request = q /\ a # NoEvent
  <2>1. a \in Answers
    <3>1. \A w \in Windows : TickCost[w] \in Nat \ {0}
      BY Charges
    <3> HIDE DEF total
    <3>2. \A w \in Windows : total[w] \div TickCost[w] \in Nat
      BY <1>3, <3>1
    <3> QED
      BY <3>2 DEF Answers, Utilization
  <2> QED
    BY <2>1, PricedIs
<1> HIDE DEF total, a
<1>5. Tracks'
  <2> SUFFICES ASSUME NEW j \in Keys, NEW w \in Windows PROVE Tracked(r, j, w)'
    BY DEF Tracks
  <2>1. ~InFlight(r, j) /\ (InFlight(r, j)' <=> j = k)
    BY <1>1, <1>2, <1>4 DEF InFlight, CalInv, CalTyped, CalTypes
  <2>2. Tracked(r, j, w)
    BY DEF CalInv, Tracks
  <2>3. CASE j # k
    <3>1. served'[j] = served[j]
      BY <1>1, <2>3 DEF CalInv, CalTyped, CalTypes
    <3>2. Settled(served[j][w], snap[j][w], est[j][w], runs[j][w], cost[j], TickCost[w], MaxCharge,
                  Unseen(w), Leeway(w))
      BY <2>1, <2>2 DEF Tracked
    <3>3. Settled(served'[j][w], snap'[j][w], est'[j][w], runs'[j][w], cost'[j], TickCost[w], MaxCharge,
                  Unseen(w), Leeway(w)')
      BY <1>2, <3>1, <3>2 DEF Leeway
    <3> QED
      BY <2>1, <2>3, <3>3 DEF Tracked, Settled, Balanced, Stands, Behind, Bias, Near, Leeway
  <2>4. CASE j = k
    <3>1. PICK x, c, g, s, e, n :
            /\ x \in Nat /\ c \in Nat /\ g \in Nat /\ x = served[k][w] /\ c = cost[k] /\ g = q.charge
            /\ s = snap[k][w] /\ e = est[k][w] /\ n = runs[k][w]
      <4>1. served[k][w] \in Nat /\ cost[k] \in Nat /\ q.charge \in Nat
        BY Charges DEF CalInv, CalTyped, CalTypes
      <4> QED
        BY <4>1
    <3>2. Settled(x, s, e, n, c, TickCost[w], MaxCharge, Unseen(w), Leeway(w))
      BY <2>1, <2>2, <2>4, <3>1 DEF Tracked
    <3>3. TickCost[w] \in Nat \ {0} /\ Unseen(w) \in Nat /\ Leeway(w) \in Nat
      BY Charges, LeewayIs DEF CalInv, CalTyped, CalTypes
    <3>4. Flying(x + g, (x + g) \div TickCost[w], g, s, e, n, c, TickCost[w], MaxCharge,
                 Unseen(w), Leeway(w))
      BY <3>1, <3>2, <3>3, ServeKeeps
    <3>5. answer'[r] = a
      BY <1>1 DEF CalInv, CalTyped, CalTypes
    <3>6. Carried(r)' = a /\ Recorded(r)' = 0
      BY <1>1, <1>2, <1>4, <3>5 DEF Carried, Recorded
    <3>7. served'[k][w] = x + g /\ a.util[w] = (x + g) \div TickCost[w] /\ a.request.charge = g
      BY <1>1, <1>3, <1>4, <3>1 DEF CalInv, CalTyped, CalTypes
    <3>8. snap'[k][w] = s /\ est'[k][w] = e /\ runs'[k][w] = n /\ cost'[k] = c /\ c + 0 = c
      BY <1>2, <3>1
    <3>9. \E b \in Nat :
            /\ b + Recorded(r)' = cost'[k]
            /\ Flying(served'[k][w], Carried(r)'.util[w], Carried(r)'.request.charge,
                      snap'[k][w], est'[k][w], runs'[k][w], b, TickCost[w], MaxCharge,
                      Unseen(w), Leeway(w)')
      <4>1. Leeway(w)' = Leeway(w)
        BY <1>2 DEF Leeway
      <4> QED
        BY <3>1, <3>4, <3>6, <3>7, <3>8, <4>1
    <3> QED
      <4>1. InFlight(r, j)'
        BY <2>1, <2>4
      <4> QED
        BY <2>4, <3>9, <4>1 DEF Tracked, Flying, Balanced, Stands, Behind, Bias, Near, Leeway
  <2> QED
    BY <2>3, <2>4
<1>6. Stored'
  BY <1>2, StoredSame
<1> QED
  BY <1>5, <1>6 DEF CalInv

\* The answer that was on its way is recorded; its line is written.
LEMMA CarryCal ==
  ASSUME CalInv, CalTyped', NEW r \in Recorders, Recorders = {r}, Deliver(r) \/ WriteLine(r)
  PROVE  CalInv'
<1>1. CASE Deliver(r)
  <2>1. /\ answer[r] # NoEvent /\ pc[r] = "idle" /\ pc' = [pc EXCEPT ![r] = "cost"]
        /\ answer' = [answer EXCEPT ![r] = NoEvent]
        /\ owed' = [owed EXCEPT ![r] = answer[r]]
    BY <1>1 DEF Deliver, Begin, Goto
  <2>2. UNCHANGED <<cost, snap, est, file, image, served, runs, resets>>
    BY <1>1 DEF Deliver, Begin
  <2>3. /\ pc'[r] = "cost" /\ answer'[r] = NoEvent /\ owed'[r] = answer[r]
    BY <2>1 DEF CalInv, CalTyped, CalTypes
  <2>4. \A k : InFlight(r, k)' <=> InFlight(r, k)
    BY <2>1, <2>3 DEF InFlight
  <2>5. Carried(r)' = Carried(r) /\ Recorded(r)' = 0 /\ Recorded(r) = 0
    BY <2>1, <2>3 DEF Carried, Recorded
  <2>6. \A k \in Keys, w \in Windows : Tracked(r, k, w) => Tracked(r, k, w)'
    BY <2>2, <2>4, <2>5 DEF Tracked, Settled, Flying, Leeway
  <2>7. Tracks'
    BY <2>6 DEF CalInv, Tracks
  <2>8. Stored'
    BY <2>2, <2>3, StoredSame
  <2> QED
    BY <2>7, <2>8 DEF CalInv
<1>2. CASE WriteLine(r)
  <2>1. pc[r] = "idle" /\ owed[r] # NoEvent /\ owed' = [owed EXCEPT ![r] = NoEvent]
    BY <1>2 DEF WriteLine
  <2>2. UNCHANGED <<pc, cost, snap, est, file, image, served, answer, runs, resets>>
    BY <1>2 DEF WriteLine, vars, shared, local
  <2>3. answer[r] = NoEvent
    BY <2>1 DEF CalInv, CalTyped, Handling
  <2>4. \A k : ~InFlight(r, k) /\ ~InFlight(r, k)'
    BY <2>1, <2>2, <2>3 DEF InFlight
  <2>5. Tracks'
    BY <2>2, <2>4, TrackedStays DEF CalInv, Tracks
  <2>6. Stored'
    BY <2>2, StoredSame
  <2> QED
    BY <2>5, <2>6 DEF CalInv
<1> QED
  BY <1>1, <1>2

\* A window is reset upstream.
LEMMA RolloverCal ==
  ASSUME CalInv, CalTyped', NEW k \in Keys, NEW w \in Windows, Rollover(k, w)
  PROVE  CalInv'
<1>1. /\ served' = [served EXCEPT ![k][w] = 0]
      /\ UNCHANGED <<pc, cost, snap, est, file, image, answer, owed, runs>>
      /\ resets' = resets + 1
  BY DEF Rollover, vars, shared, local
<1>2. Tracks'
  <2> SUFFICES ASSUME NEW r \in Recorders, NEW j \in Keys, NEW v \in Windows PROVE Tracked(r, j, v)'
    BY DEF Tracks
  <2>1. Tracked(r, j, v)
    BY DEF CalInv, Tracks
  <2>2. served'[j][v] \in {served[j][v], 0}
    BY <1>1 DEF CalInv, CalTyped, CalTypes
  <2>3. InFlight(r, j)' <=> InFlight(r, j)
    BY <1>1 DEF InFlight
  <2>4. Carried(r)' = Carried(r) /\ Recorded(r)' = Recorded(r)
    BY <1>1 DEF Carried, Recorded
  <2>5. /\ Leeway(v)' = Leeway(v) + Unseen(v)
        /\ Leeway(v) \in Nat /\ Unseen(v) \in Nat
    BY <1>1, LeewayIs DEF Leeway, CalInv, CalTyped, CalTypes
  <2>6. CASE InFlight(r, j)
    <3>1. PICK b \in Nat :
            /\ b + Recorded(r) = cost[j]
            /\ Flying(served[j][v], Carried(r).util[v], Carried(r).request.charge,
                      snap[j][v], est[j][v], runs[j][v], b, TickCost[v], MaxCharge,
                      Unseen(v), Leeway(v))
      BY <2>1, <2>6 DEF Tracked
    <3>2. Flying(served'[j][v], Carried(r).util[v], Carried(r).request.charge,
                 snap[j][v], est[j][v], runs[j][v], b, TickCost[v], MaxCharge,
                 Unseen(v), Leeway(v)')
      BY <2>2, <2>5, <3>1, ResetKeeps
    <3>3. \E d \in Nat :
            /\ d + Recorded(r)' = cost'[j]
            /\ Flying(served'[j][v], Carried(r)'.util[v], Carried(r)'.request.charge,
                      snap'[j][v], est'[j][v], runs'[j][v], d, TickCost[v], MaxCharge,
                      Unseen(v), Leeway(v)')
      BY <1>1, <2>4, <3>1, <3>2
    <3> QED
      BY <2>3, <2>6, <3>3 DEF Tracked, Flying, Balanced, Stands, Behind, Bias, Near, Leeway
  <2>7. CASE ~InFlight(r, j)
    <3>1. Settled(served[j][v], snap[j][v], est[j][v], runs[j][v], cost[j], TickCost[v], MaxCharge,
                  Unseen(v), Leeway(v))
      BY <2>1, <2>7 DEF Tracked
    <3>2. Settled(served'[j][v], snap[j][v], est[j][v], runs[j][v], cost[j], TickCost[v], MaxCharge,
                  Unseen(v), Leeway(v)')
      BY <2>2, <2>5, <3>1, ResetKeeps
    <3>3. Settled(served'[j][v], snap'[j][v], est'[j][v], runs'[j][v], cost'[j], TickCost[v], MaxCharge,
                  Unseen(v), Leeway(v)')
      BY <1>1, <3>2
    <3> QED
      BY <2>3, <2>7, <3>3 DEF Tracked, Settled, Balanced, Stands, Behind, Bias, Near, Leeway
  <2> QED
    BY <2>6, <2>7
<1>3. Stored'
  BY <1>1, StoredSame
<1> QED
  BY <1>2, <1>3 DEF CalInv

\* The process dies, and the next one reads the file.
LEMMA CrashCal ==
  ASSUME CalInv, CalTyped', Crash
  PROVE  CalInv'
<1>1. /\ cost' = [k \in Keys |-> 0]
      /\ snap' = [k \in Keys |-> [w \in Windows |-> NoSnapshot]]
      /\ est' = Loaded(file)
      /\ pc' = [r \in Recorders |-> "idle"]
      /\ answer' = [r \in Recorders |-> NoEvent]
      /\ UNCHANGED <<file, served, runs, resets>>
  BY DEF Crash, Restart
<1>2. AllSound(Loaded(file))
  BY LoadedSound
<1>3. Tracks'
  <2> SUFFICES ASSUME NEW r \in Recorders, NEW k \in Keys, NEW w \in Windows PROVE Tracked(r, k, w)'
    BY DEF Tracks
  <2>1. ~InFlight(r, k)'
    BY <1>1 DEF InFlight
  <2>2. PICK e, n : e = est'[k][w] /\ n = runs'[k][w]
    OBVIOUS
  <2>3. Near(Bias(e, TickCost[w]), n * (MaxCharge - 1) + Leeway(w)')
    BY <1>1, <1>2, <2>2 DEF AllSound, Sound, Leeway
  <2>4. Settled(served'[k][w], NoSnapshot, e, n, cost'[k], TickCost[w], MaxCharge,
                Unseen(w), Leeway(w)')
    <3>1. Leeway(w)' \in Nat
      BY <1>1, LeewayIs DEF Leeway, CalInv, CalTyped, CalTypes
    <3> QED
      BY <2>3, <3>1, AnewKeeps
  <2>5. Settled(served'[k][w], snap'[k][w], est'[k][w], runs'[k][w], cost'[k], TickCost[w], MaxCharge,
                Unseen(w), Leeway(w)')
    BY <1>1, <2>2, <2>4
  <2> QED
    BY <2>1, <2>5 DEF Tracked, Settled, Balanced, Stands, Behind, Bias, Near, Leeway
<1>4. Stored'
  BY <1>1, StoredSame
<1> QED
  BY <1>3, <1>4 DEF CalInv

\* The second critical section sees the answer.
LEMMA ObserveCal ==
  ASSUME CalInv, CalTyped', NEW r \in Recorders, Recorders = {r}, Observe(r)
  PROVE  CalInv'
<1> DEFINE k == Key(r)
<1>1. pc[r] = "estimate" /\ answer[r] = NoEvent /\ Carried(r) = owed[r] /\ owed[r] \in Answers
      /\ Recorded(r) = owed[r].request.charge
  <2>1. pc[r] = "estimate"
    BY DEF Observe, UpdateEstimates
  <2>2. answer[r] = NoEvent /\ owed[r] \in Answers
    BY <2>1 DEF CalInv, CalTyped, Handling
  <2> QED
    BY <2>1, <2>2 DEF Carried, Recorded
<1>2. /\ k = owed[r].key /\ k \in Keys
      /\ \A w \in Windows :
           LET R == UpdateCapacityEstimate(snap[k][w], est[k][w], owed[r].util[w], cost[k])
           IN /\ owed[r].util[w] \in Nat /\ event[r].util[w] = owed[r].util[w]
              /\ snap[k][w] \in Snapshots /\ est[k][w] \in Estimators /\ cost[k] \in Nat
              /\ Estimated(r, w) = R
  <2>1. "five_hour" \in Windows
    BY DEF Windows
  <2> QED
    BY <1>1, <2>1, ObservedIs DEF CalInv
<1>3. /\ snap' = [snap EXCEPT ![k] = [w \in Windows |-> Estimated(r, w).snap]]
      /\ est' = [est EXCEPT ![k] = [w \in Windows |-> Estimated(r, w).est]]
      /\ UNCHANGED <<cost, file, served, answer, owed, resets>>
      /\ \/ pc' = [pc EXCEPT ![r] = "read"]
         \/ pc' = [pc EXCEPT ![r] = "idle"]
  BY DEF Observe, UpdateEstimates, Goto, Return
<1>4. runs' = [runs EXCEPT ![k] = [w \in Windows |->
                 IF ~snap[k][w].set \/ RolledOver(snap[k][w], event[r].util[w])
                 THEN @[w] + 1 ELSE @[w]]]
  BY DEF Observe
<1> HIDE DEF k
<1>5. \A j : (InFlight(r, j) <=> j = k) /\ ~InFlight(r, j)'
  BY <1>1, <1>2, <1>3 DEF InFlight, CalInv, CalTyped, CalTypes
<1>6. ASSUME NEW w \in Windows
      PROVE  runs'[k][w] = Runs(snap[k][w], owed[r].util[w], runs[k][w])
  BY <1>2, <1>4 DEF CalInv, CalTyped, CalTypes, Runs
<1>7. \A j \in Keys : j # k => snap'[j] = snap[j] /\ est'[j] = est[j] /\ runs'[j] = runs[j]
  BY <1>2, <1>3, <1>4 DEF CalInv, CalTyped, CalTypes, Entries
<1>8. Tracks'
  <2> SUFFICES ASSUME NEW j \in Keys, NEW w \in Windows PROVE Tracked(r, j, w)'
    BY DEF Tracks
  <2>1. Tracked(r, j, w)
    BY DEF CalInv, Tracks
  <2>2. Settled(served'[j][w], snap'[j][w], est'[j][w], runs'[j][w], cost'[j], TickCost[w], MaxCharge,
                Unseen(w), Leeway(w)')
    <3>1. CASE j # k
      <4>1. Settled(served[j][w], snap[j][w], est[j][w], runs[j][w], cost[j], TickCost[w], MaxCharge,
                    Unseen(w), Leeway(w))
        BY <1>5, <2>1, <3>1 DEF Tracked
      <4> QED
        BY <1>3, <1>7, <3>1, <4>1 DEF Leeway
    <3>2. CASE j = k
      <4>1. PICK b \in Nat :
              /\ b + owed[r].request.charge = cost[k]
              /\ Flying(served[k][w], owed[r].util[w], owed[r].request.charge,
                        snap[k][w], est[k][w], runs[k][w], b, TickCost[w], MaxCharge,
                        Unseen(w), Leeway(w))
        BY <1>1, <1>5, <2>1, <3>2 DEF Tracked
      <4>2. PICK x, s, e, n, c, u, g :
              /\ x = served[k][w] /\ s = snap[k][w] /\ e = est[k][w] /\ n = runs[k][w]
              /\ c = cost[k] /\ u = owed[r].util[w] /\ g = owed[r].request.charge
        OBVIOUS
      <4>3. n \in Nat
        BY <1>2, <4>2 DEF CalInv, CalTyped, CalTypes
      <4>4. s \in Snapshots /\ e \in Estimators /\ c \in Nat /\ u \in Nat
        BY <1>2, <4>2
      <4>5. g \in 1 .. MaxCharge
        BY <1>1, <4>2, PricedIs
      <4>6. /\ TickCost[w] \in Nat \ {0} /\ MaxCharge \in Nat \ {0}
            /\ Unseen(w) \in Nat /\ Leeway(w) \in Nat
            /\ TickCost[w] <= MaxCharge => Unseen(w) = MaxCharge + TickCost[w] - 1
        BY Charges, LeewayIs DEF CalInv, CalTyped, CalTypes
      <4>7. PICK R : R = UpdateCapacityEstimate(s, e, u, c)
        OBVIOUS
      <4>8. b + g = c /\ Flying(x, u, g, s, e, n, b, TickCost[w], MaxCharge,
                                Unseen(w), Leeway(w))
        BY <4>1, <4>2
      <4>9. Settled(x, R.snap, R.est, Runs(s, u, n), c, TickCost[w], MaxCharge,
                    Unseen(w), Leeway(w))
        BY <4>3, <4>4, <4>5, <4>6, <4>7, <4>8, ObserveKeeps
      <4>10. Estimated(r, w) = R
        BY <1>2, <4>2, <4>7
      <4>11. snap'[k][w] = R.snap /\ est'[k][w] = R.est
        BY <1>2, <1>3, <4>10 DEF CalInv, CalTyped, CalTypes, Entries
      <4>12. runs'[k][w] = Runs(s, u, n)
        BY <1>6, <4>2
      <4> QED
        BY <1>3, <3>2, <4>2, <4>9, <4>11, <4>12 DEF Leeway
    <3> QED
      BY <3>1, <3>2
  <2> QED
    BY <1>5, <2>2 DEF Tracked, Settled, Balanced, Stands, Behind, Bias, Near, Leeway
<1>9. Stored'
  <2>1. \A j \in Keys, w \in Windows : runs[j][w] <= runs'[j][w]
    <3> SUFFICES ASSUME NEW j \in Keys, NEW w \in Windows PROVE runs[j][w] <= runs'[j][w]
      OBVIOUS
    <3>1. runs[j][w] \in Nat
      BY DEF CalInv, CalTyped, CalTypes
    <3>2. CASE j = k
      BY <1>6, <3>1, <3>2 DEF Runs
    <3>3. CASE j # k
      BY <1>7, <3>1, <3>3
    <3> QED
      BY <3>2, <3>3
  <2>2. pc'[r] \notin {"open", "write"}
    BY <1>3 DEF CalInv, CalTyped, CalTypes
  <2>3. file'.kind = "ok" => AllSound(file'.entries)
    <3>1. file.kind = "ok" => AllSound(file.entries)
      BY DEF CalInv, Stored
    <3>2. file' = file
      BY <1>3
    <3> QED
      BY <3>1, <3>2
  <2> QED
    BY <1>3, <2>1, <2>2, <2>3, StoredStays
<1> QED
  BY <1>8, <1>9 DEF CalInv

\* The other steps of Record.
LEMMA OtherCal ==
  ASSUME Alone, CalInv, CalTyped', NEW r \in Recorders, Recorders = {r}, OtherStep(r)
  PROVE  CalInv'
<1>1. UNCHANGED <<served, answer, owed, runs, resets>>
  BY DEF OtherStep, meter
<1>2. /\ pc[r] # "idle" /\ answer[r] = NoEvent /\ owed[r] \in Answers
      /\ event[r] = Priced(owed[r]) /\ Carried(r) = owed[r]
  <2>1. pc[r] # "idle"
    BY DEF OtherStep, AddCost, StoreGauges, ReadEstimates, OpenTruncated, WriteEstimates,
           WriteFails
  <2> QED
    BY <2>1 DEF CalInv, CalTyped, Handling, Carried
<1>3. /\ Key(r) = owed[r].key /\ Key(r) \in Keys
      /\ event[r].cost = owed[r].request.charge /\ owed[r].request.charge \in Nat
      /\ \A w \in Windows : event[r].util[w] \in Nat
  BY <1>2, PricedIs DEF Key
<1>4. \A j \in Keys, w \in Windows : runs[j][w] <= runs'[j][w]
  BY <1>1 DEF CalInv, CalTyped, CalTypes
<1>5. CASE AddCost(r)
  <2>1. event[r].cost # Unpriced /\ event[r].cost # NoUsage
    BY <1>3, MarkersAssumption
  <2>2. /\ pc[r] = "cost" /\ pc' = [pc EXCEPT ![r] = "gauges"]
        /\ cost' = [cost EXCEPT ![Key(r)] = @ + event[r].cost]
        /\ UNCHANGED <<event, snap, est, file, image>>
    BY <1>5, <2>1 DEF AddCost, Goto
  <2>3. pc'[r] = "gauges"
    BY <2>2 DEF CalInv, CalTyped, CalTypes
  <2>4. \A j : InFlight(r, j)' <=> InFlight(r, j)
    BY <1>1, <1>2, <2>2, <2>3 DEF InFlight
  <2>5. Carried(r)' = owed[r] /\ Recorded(r) = 0 /\ Recorded(r)' = owed[r].request.charge
    BY <1>1, <1>2, <2>2, <2>3 DEF Carried, Recorded
  <2>6. ASSUME NEW j \in Keys, NEW w \in Windows PROVE Tracked(r, j, w)'
    <3>1. Tracked(r, j, w)
      BY DEF CalInv, Tracks
    <3>2. CASE j # Key(r)
      <4>1. ~InFlight(r, j)
        BY <1>2, <1>3, <3>2 DEF InFlight
      <4>2. cost'[j] = cost[j]
        BY <2>2, <3>2 DEF CalInv, CalTyped, CalTypes
      <4> QED
        BY <1>1, <2>2, <2>4, <3>1, <4>1, <4>2, TrackedStays
    <3>3. CASE j = Key(r)
      <4>1. InFlight(r, j)
        BY <1>2, <1>3, <2>2, <3>3 DEF InFlight
      <4>2. PICK b \in Nat :
              /\ b + 0 = cost[j]
              /\ Flying(served[j][w], owed[r].util[w], owed[r].request.charge,
                        snap[j][w], est[j][w], runs[j][w], b, TickCost[w], MaxCharge,
                        Unseen(w), Leeway(w))
        BY <1>2, <2>5, <3>1, <4>1 DEF Tracked
      <4>3. cost'[j] = cost[j] + owed[r].request.charge
        BY <1>3, <2>2, <3>3 DEF CalInv, CalTyped, CalTypes
      <4>4. cost'[j] = b + owed[r].request.charge
        BY <4>2, <4>3
      <4>5. \E d \in Nat :
              /\ d + Recorded(r)' = cost'[j]
              /\ Flying(served'[j][w], Carried(r)'.util[w], Carried(r)'.request.charge,
                        snap'[j][w], est'[j][w], runs'[j][w], d, TickCost[w], MaxCharge,
                        Unseen(w), Leeway(w)')
        BY <1>1, <2>2, <2>5, <4>2, <4>4 DEF Leeway
      <4> QED
        BY <2>4, <4>1, <4>5 DEF Tracked, Flying, Balanced, Stands, Behind, Bias, Near, Leeway
    <3> QED
      BY <3>2, <3>3
  <2>7. Tracks'
    BY <2>6 DEF Tracks
  <2>8. Stored'
    BY <1>1, <2>2, <2>3, StoredSame
  <2> QED
    BY <2>7, <2>8 DEF CalInv
<1>6. CASE StoreGauges(r)
  <2>1. ~(\A w \in Windows : event[r].util[w] = NoUtil)
    <3>1. "five_hour" \in Windows
      BY DEF Windows
    <3> QED
      BY <1>3, <3>1, MarkersAssumption
  <2>2. /\ pc[r] = "gauges" /\ pc' = [pc EXCEPT ![r] = "estimate"]
        /\ UNCHANGED <<cost, event, snap, est, file, image>>
    BY <1>6, <2>1 DEF StoreGauges, Goto, history
  <2>3. pc'[r] = "estimate"
    BY <2>2 DEF CalInv, CalTyped, CalTypes
  <2>4. \A j : InFlight(r, j)' <=> InFlight(r, j)
    BY <1>1, <1>2, <2>2, <2>3 DEF InFlight
  <2>5. Carried(r)' = Carried(r) /\ Recorded(r)' = Recorded(r)
    BY <1>1, <1>2, <2>2, <2>3 DEF Carried, Recorded
  <2>6. \A j \in Keys, w \in Windows : Tracked(r, j, w) => Tracked(r, j, w)'
    BY <1>1, <2>2, <2>4, <2>5 DEF Tracked, Settled, Flying, Leeway
  <2>7. Tracks'
    BY <2>6 DEF CalInv, Tracks
  <2>8. Stored'
    BY <1>1, <2>2, <2>3, StoredSame
  <2> QED
    BY <2>7, <2>8 DEF CalInv
<1>7. CASE ReadEstimates(r) \/ OpenTruncated(r) \/ WriteEstimates(r) \/ WriteFails(r)
  <2>1. /\ pc[r] \in {"read", "open", "write"} /\ pc'[r] \in {"open", "write", "idle"}
        /\ UNCHANGED <<cost, snap, est>>
    BY <1>7 DEF ReadEstimates, OpenTruncated, WriteEstimates, WriteFails, Goto, Return, shared,
                CalInv, CalTyped, CalTypes
  <2>2. \A j : ~InFlight(r, j) /\ ~InFlight(r, j)'
    BY <1>1, <1>2, <2>1 DEF InFlight
  <2>3. Tracks'
    BY <1>1, <2>1, <2>2, TrackedStays DEF CalInv, Tracks
  <2>4. CASE ReadEstimates(r)
    <3>1. /\ image' = [image EXCEPT ![r] = [ReadBack EXCEPT ![Key(r)] = est[Key(r)]]]
          /\ UNCHANGED file
      BY <2>4 DEF ReadEstimates
    <3>2. PICK l : l = ReadBack
      OBVIOUS
    <3>3. image'[r] = [l EXCEPT ![Key(r)] = est[Key(r)]]
      BY <3>1, <3>2 DEF CalInv, CalTyped, CalTypes
    <3>4. l \in Entries /\ AllSound(l)
      BY <3>2, LoadedSound, LoadedTyped DEF ReadBack, CalInv, CalTyped, CalTypes
    <3>5. AllSound(est)
      BY MemorySound
    <3>6. \A j \in Keys : image'[r][j] \in {l[j], est[j]}
      BY <3>3, <3>4 DEF Entries
    <3>7. AllSound(image'[r])
      <4> SUFFICES ASSUME NEW j \in Keys, NEW w \in Windows PROVE Sound(image'[r], j, w)
        BY DEF AllSound
      <4>1. PICK i : i = image'[r]
        OBVIOUS
      <4>2. Sound(l, j, w) /\ Sound(est, j, w)
        BY <3>4, <3>5 DEF AllSound
      <4>3. Sound(i, j, w)
        <5>1. i[j] = l[j] \/ i[j] = est[j]
          BY <3>6, <4>1
        <5> QED
          BY <4>2, <5>1 DEF Sound
      <4> QED
        BY <4>1, <4>3
    <3>8. Stored'
      BY <1>1, <1>4, <3>1, <3>7, StoredStays DEF CalInv, Stored
    <3> QED
      BY <2>3, <3>8 DEF CalInv
  <2>5. CASE OpenTruncated(r)
    <3>1. file' = TornFile /\ UNCHANGED image /\ pc[r] = "open"
      BY <2>5 DEF OpenTruncated
    <3>2. AllSound(image'[r])
      <4>1. PICK i : i = image[r] /\ i = image'[r]
        BY <3>1
      <4>2. AllSound(i)
        BY <3>1, <4>1 DEF CalInv, Stored
      <4> QED
        BY <4>1, <4>2
    <3>3. file'.kind # "ok"
      BY <3>1 DEF TornFile
    <3>4. Stored'
      BY <1>1, <1>4, <3>2, <3>3, StoredStays
    <3> QED
      BY <2>3, <3>4 DEF CalInv
  <2>6. CASE WriteEstimates(r) \/ WriteFails(r)
    <3>1. pc'[r] = "idle"
      BY <2>6 DEF WriteEstimates, WriteFails, Return, CalInv, CalTyped, CalTypes
    <3>2. \/ file' = Saved(image[r]) /\ pc[r] = "write"
          \/ file' = TornFile
          \/ file' = file
      BY <2>6 DEF WriteEstimates, WriteFails
    <3>3. file'.kind = "ok" => AllSound(file'.entries)
      <4>1. CASE file' = Saved(image[r]) /\ pc[r] = "write"
        <5>1. PICK i : i = image[r]
          OBVIOUS
        <5>2. AllSound(i)
          BY <4>1, <5>1 DEF CalInv, Stored
        <5>3. file'.entries = i
          BY <4>1, <5>1 DEF Saved
        <5> QED
          BY <5>2, <5>3
      <4>2. CASE file' = TornFile
        BY <4>2 DEF TornFile
      <4>3. CASE file' = file
        <5>1. file.kind = "ok" => AllSound(file.entries)
          BY DEF CalInv, Stored
        <5> QED
          BY <4>3, <5>1
      <4> QED
        BY <3>2, <4>1, <4>2, <4>3
    <3>4. Stored'
      BY <1>1, <1>4, <3>1, <3>3, StoredStays
    <3> QED
      BY <2>3, <3>4 DEF CalInv
  <2> QED
    BY <1>7, <2>4, <2>5, <2>6
<1> QED
  BY <1>5, <1>6, <1>7 DEF OtherStep

\* Every step keeps the invariant.
LEMMA CalInvNext == Alone /\ CalInv /\ [CalNext]_calVars => CalInv'
<1> SUFFICES ASSUME Alone, CalInv, [CalNext]_calVars PROVE CalInv'
  OBVIOUS
<1>1. CalTyped'
  BY CalTypedNext DEF CalInv
<1>2. PICK p \in Recorders : Recorders = {p}
  BY DEF Alone
<1>3. \A r \in Recorders : Recorders = {r}
  BY <1>2
<1>4. ASSUME NEW r \in Recorders, NEW k \in Keys, NEW q \in Requests, Serve(r, k, q) PROVE CalInv'
  BY <1>1, <1>3, <1>4, ServeCal
<1>5. ASSUME NEW r \in Recorders, Deliver(r) \/ WriteLine(r) \/ Observe(r) \/ OtherStep(r)
      PROVE  CalInv'
  BY <1>1, <1>3, <1>5, CarryCal, ObserveCal, OtherCal
<1>6. ASSUME NEW k \in Keys, NEW w \in Windows, Rollover(k, w) PROVE CalInv'
  BY <1>1, <1>6, RolloverCal
<1>7. Crash => CalInv'
  BY <1>1, CrashCal
<1>8. ASSUME UNCHANGED calVars PROVE CalInv'
  <2>1. UNCHANGED <<pc, event, cost, snap, est, file, image, served, answer, owed, runs, resets>>
    BY <1>8 DEF calVars, vars, shared, local, meter
  <2>2. Tracks'
    BY <2>1, TrackedStays DEF CalInv, Tracks
  <2>3. Stored'
    BY <1>1, <2>1, StoredSame
  <2> QED
    BY <1>1, <2>2, <2>3 DEF CalInv
<1>9. CalFinished => UNCHANGED calVars
  BY DEF CalFinished, Finished, calVars
<1> QED
  BY <1>4, <1>5, <1>6, <1>7, <1>8, <1>9 DEF CalNext

\* Where one request is recorded after another, for any number of keys, of crashes and
\* of failed writes, and whether a request moves the utilization by no percent, by one or by
\* many, Calibrated holds: no interval that updateCapacityEstimate adds (metrics.go:261-281)
\* is off by more than the overshoots at its ends, and these cancel, but for a window that
\* was reset and is back where it was before an answer shows it.
THEOREM EstimateIsCalibrated == Alone /\ CalSpec => []Calibrated
<1>1. ASSUME Alone, CalInv PROVE Calibrated
  <2> SUFFICES ASSUME NEW k \in Keys, NEW w \in Windows
               PROVE  Distance(est[k][w].cost, TickCost[w] * est[k][w].util)
                        <= runs[k][w] * (MaxCharge - 1) + Leeway(w)
    BY DEF Calibrated, Leeway
  <2>1. Near(Bias(est[k][w], TickCost[w]), runs[k][w] * (MaxCharge - 1) + Leeway(w))
    BY <1>1, MemorySound DEF AllSound, Sound
  <2>2. est[k][w] \in Estimators /\ TickCost[w] \in Nat \ {0} /\ MaxCharge \in Nat \ {0}
        /\ runs[k][w] \in Nat /\ Leeway(w) \in Nat
    BY <1>1, Charges, LeewayIs DEF CalInv, CalTyped, CalTypes, Entries
  <2>3. PICK c, t, b : c = est[k][w].cost /\ t = TickCost[w] * est[k][w].util
                       /\ b = runs[k][w] * (MaxCharge - 1) + Leeway(w)
    OBVIOUS
  <2>4. c \in Nat /\ t \in Nat /\ b \in Int
    <3>1. est[k][w].util \in Nat /\ est[k][w].cost \in Nat
      BY <2>2 DEF Estimators
    <3>2. TickCost[w] * est[k][w].util \in Nat
      BY <2>2, <3>1, Multiples
    <3>3. runs[k][w] * (MaxCharge - 1) + Leeway(w) \in Nat
      BY <2>2, BoundsAre
    <3> QED
      BY <2>3, <3>1, <3>2, <3>3
  <2>5. 0 - b <= c - t /\ c - t <= b
    BY <2>1, <2>3 DEF Near, Bias
  <2>6. Distance(c, t) <= b
    BY <2>4, <2>5 DEF Distance
  <2> QED
    BY <2>3, <2>6
<1>2. Alone /\ CalInv /\ [CalNext]_calVars => CalInv'
  BY CalInvNext
<1>3. ASSUME Alone PROVE CalSpec => []Calibrated
  <2>1. CalInit => CalInv
    BY CalInvInit
  <2>2. CalInv /\ [CalNext]_calVars => CalInv'
    BY <1>2, <1>3
  <2>3. CalInv => Calibrated
    BY <1>1, <1>3
  <2> QED
    BY <2>1, <2>2, <2>3, PTL DEF CalSpec
<1> QED
  BY <1>3

-----------------------------------------------------------------------------
(* The passive report, for numbers.                                        *)

Totals == [cost : Nat, moved : Nat, prev : Nat \cup {NoUtil}]

\* Position x of a window lies in percent u.
Lies(u, x, t) == t * u <= x /\ x < t * u + t

\* What the movement has been paid for, b: what the report adds up, and what was lost. At
\* position x it leaves room for the movement to the percent that x lies in.
Under(x, p, b, t) ==
  \E v \in Nat :
    /\ Lies(v, x, t) /\ t * p.moved + (x - t * v) <= b
    /\ p.prev # NoUtil => t * p.moved + (x - t * p.prev) <= b

\* A request of charge g is answered with u, and its line is not written.
UnderFlying(x, u, g, p, b, t) ==
  \E pos \in Nat :
    /\ t * p.moved <= b
    /\ Lies(u, pos, t) /\ x \in {pos, 0} /\ t * p.moved + (pos - t * u) <= b + g
    /\ p.prev # NoUtil => t * p.moved + (pos - t * p.prev) <= b + g

\* A later position lies in no earlier percent.
LEMMA PercentsOrdered ==
  ASSUME NEW t \in Nat \ {0}, NEW u \in Nat, NEW v \in Nat, NEW x \in Nat, NEW y \in Nat,
         x <= y, Lies(u, x, t), Lies(v, y, t)
  PROVE  u <= v
<1>1. v < u => t * v + t <= t * u
  BY Multiples
<1>2. t * u \in Nat /\ t * v \in Nat
  BY Multiples
<1> QED
  BY <1>1, <1>2 DEF Lies

\* The numbers of a total.
LEMMA TotalsAre ==
  ASSUME NEW p \in Totals, NEW t \in Nat \ {0}
  PROVE  /\ p.cost \in Nat /\ p.moved \in Nat /\ t * p.moved \in Nat
         /\ p.prev # NoUtil => p.prev \in Nat /\ t * p.prev \in Nat
<1>1. p.cost \in Nat /\ p.moved \in Nat /\ (p.prev # NoUtil => p.prev \in Nat)
  BY DEF Totals
<1> QED
  BY <1>1, Multiples

\* A request is charged.
LEMMA UnderServe ==
  ASSUME NEW t \in Nat \ {0}, NEW p \in Totals, NEW b \in Nat, NEW x \in Nat, NEW g \in Nat,
         Under(x, p, b, t)
  PROVE  UnderFlying(x + g, (x + g) \div t, g, p, b, t)
<1>1. PICK v \in Nat : /\ Lies(v, x, t) /\ t * p.moved + (x - t * v) <= b
                       /\ p.prev # NoUtil => t * p.moved + (x - t * p.prev) <= b
  BY DEF Under
<1>2. PICK pos \in Nat, u \in Nat : pos = x + g /\ u = pos \div t
  <2>1. x + g \in Nat /\ (x + g) \div t \in Nat
    OBVIOUS
  <2> QED
    BY <2>1
<1>3. Lies(u, pos, t)
  BY <1>2 DEF Lies
<1>4. v <= u
  BY <1>1, <1>2, <1>3, PercentsOrdered
<1>5. t * v <= t * u /\ t * v \in Nat /\ t * u \in Nat
  <2>1. v < u => t * v + t <= t * u
    BY Multiples
  <2> QED
    BY <1>4, <2>1, Multiples
<1>6. PICK pm : pm = t * p.moved
  OBVIOUS
<1>7. pm \in Nat /\ (p.prev # NoUtil => t * p.prev \in Nat)
  BY <1>6, TotalsAre
<1>8. pm + (pos - t * u) <= b + g
  BY <1>1, <1>2, <1>5, <1>6, <1>7
<1>9. ASSUME p.prev # NoUtil PROVE pm + (pos - t * p.prev) <= b + g
  <2>1. PICK d : d = t * p.prev
    OBVIOUS
  <2>2. d \in Nat /\ pm + (x - d) <= b
    BY <1>1, <1>6, <1>7, <1>9, <2>1
  <2>3. pm + (pos - d) <= b + g
    BY <1>2, <1>7, <2>2
  <2> QED
    BY <2>1, <2>3
<1>10. pm <= b
  BY <1>1, <1>5, <1>6, <1>7 DEF Lies
<1>11. UnderFlying(pos, u, g, p, b, t)
  BY <1>3, <1>6, <1>8, <1>9, <1>10 DEF UnderFlying
<1> QED
  BY <1>2, <1>11

\* The line is written: the movement is paid for by what the report adds.
LEMMA UnderLine ==
  ASSUME NEW t \in Nat \ {0}, NEW p \in Totals, NEW b \in Nat, NEW x \in Nat, NEW g \in Nat,
         NEW u \in Nat, NEW c \in Nat, g <= c, UnderFlying(x, u, g, p, b, t)
  PROVE  Under(x, Walked(p, c, u), b + c, t)
<1> DEFINE q == Walked(p, c, u)
<1>1. u # NoUtil
  BY MarkersAssumption
<1>2. PICK pos \in Nat :
        /\ Lies(u, pos, t) /\ x \in {pos, 0} /\ t * p.moved + (pos - t * u) <= b + g
        /\ p.prev # NoUtil => t * p.moved + (pos - t * p.prev) <= b + g
  BY DEF UnderFlying
<1>3. PICK pm, tu, qm : pm = t * p.moved /\ tu = t * u /\ qm = t * q.moved
  OBVIOUS
<1>4. pm \in Nat /\ tu \in Nat /\ (p.prev # NoUtil => p.prev \in Nat /\ t * p.prev \in Nat)
      /\ p.moved \in Nat
  BY <1>3, TotalsAre, Multiples
<1>5. q.prev = u
  BY <1>1 DEF Walked
<1>6. qm \in Nat /\ qm + (pos - tu) <= b + g
  <2>1. CASE p.prev # NoUtil /\ u > p.prev
    <3>1. q.moved = p.moved + (u - p.prev)
      BY <1>1, <2>1 DEF Walked
    <3>2. PICK a \in Nat, d \in Nat : a = p.prev /\ d = t * a
      BY <1>4, <2>1
    <3>3. t * (u - a) = tu - d /\ u - a \in Nat
      BY <1>3, <2>1, <3>2, Multiples
    <3>4. qm = pm + (tu - d)
      <4>1. t * (p.moved + (u - a)) = t * p.moved + t * (u - a)
        BY <1>4, <3>3, Multiples
      <4> QED
        BY <1>3, <3>1, <3>2, <3>3, <4>1
    <3>5. pm + (pos - d) <= b + g
      BY <1>2, <1>3, <2>1, <3>2
    <3>6. tu - d \in Nat
      BY <2>1, <3>2, <3>3, Multiples
    <3> QED
      BY <1>4, <3>2, <3>4, <3>5, <3>6
  <2>2. CASE ~(p.prev # NoUtil /\ u > p.prev)
    <3>1. q.moved = p.moved
      <4>1. q.moved = p.moved + 0
        BY <2>2 DEF Walked
      <4> QED
        BY <1>4, <4>1
    <3> QED
      BY <1>2, <1>3, <1>4, <3>1
  <2> QED
    BY <2>1, <2>2
<1> HIDE DEF q
<1>7. tu <= pos /\ pos < tu + t
  BY <1>2, <1>3 DEF Lies
<1>8. CASE x = pos
  <2>1. qm + (x - tu) <= b + c
    BY <1>4, <1>6, <1>8
  <2>2. Lies(u, x, t)
    BY <1>2, <1>8
  <2> QED
    BY <1>3, <1>5, <2>1, <2>2 DEF Under, q
<1>9. CASE x = 0
  <2>1. t * 0 = 0
    OBVIOUS
  <2>2. Lies(0, x, t)
    BY <1>9, <2>1 DEF Lies
  <2>3. qm + (x - 0) <= b + c /\ qm + (x - tu) <= b + c
    BY <1>4, <1>6, <1>7, <1>9
  <2>4. 0 \in Nat /\ qm + (x - t * 0) <= b + c
    BY <2>1, <2>3
  <2>5. Under(x, q, b + c, t)
    BY <1>3, <1>5, <2>2, <2>3, <2>4 DEF Under
  <2> QED
    BY <2>5 DEF q
<1> QED
  BY <1>2, <1>8, <1>9

\* The window is reset; more is lost; what was under way is lost.
LEMMA UnderOthers ==
  ASSUME NEW t \in Nat \ {0}, NEW p \in Totals, NEW b \in Nat, NEW x \in Nat, NEW g \in Nat,
         NEW u \in Nat, NEW m \in Nat
  PROVE  /\ Under(x, p, b, t) => Under(0, p, b, t) /\ Under(x, p, b + m, t)
         /\ UnderFlying(x, u, g, p, b, t) => UnderFlying(0, u, g, p, b, t)
         /\ UnderFlying(x, u, g, p, b, t) /\ g <= m => Under(x, p, b + m, t)
<1>1. PICK pm : pm = t * p.moved
  OBVIOUS
<1>2. pm \in Nat /\ (p.prev # NoUtil => t * p.prev \in Nat)
  BY <1>1, TotalsAre
<1>3. PICK d \in Int : p.prev # NoUtil => d = t * p.prev
  <2>1. 0 \in Int
    OBVIOUS
  <2>2. CASE p.prev = NoUtil
    BY <2>1, <2>2
  <2>3. CASE p.prev # NoUtil
    BY <1>2, <2>3
  <2> QED
    BY <2>2, <2>3
<1>4. t * 0 = 0 /\ 0 \in Nat /\ Lies(0, 0, t)
  BY DEF Lies
<1>5. ASSUME NEW y \in Nat, NEW v \in Nat, NEW a \in Nat, Lies(v, y, t), pm + (y - t * v) <= a,
             p.prev # NoUtil => pm + (y - d) <= a
      PROVE  Under(0, p, a, t)
  <2>1. t * v <= y /\ t * v \in Nat
    BY <1>5, Multiples DEF Lies
  <2>2. pm + (0 - 0) <= a /\ (p.prev # NoUtil => pm + (0 - d) <= a)
    BY <1>2, <1>5, <2>1
  <2>3. pm + (0 - t * 0) <= a
    BY <1>4, <2>2
  <2> QED
    BY <1>1, <1>3, <1>4, <2>2, <2>3 DEF Under
<1>6. ASSUME NEW y \in Nat, NEW v \in Nat, NEW a \in Nat, NEW e \in Nat, Lies(v, y, t),
             pm + (y - t * v) <= a, p.prev # NoUtil => pm + (y - d) <= a, a <= e
      PROVE  Under(y, p, e, t)
  <2>1. t * v \in Nat
    BY Multiples
  <2>2. pm + (y - t * v) <= e /\ (p.prev # NoUtil => pm + (y - d) <= e)
    BY <1>2, <1>6, <2>1
  <2> QED
    BY <1>1, <1>3, <1>6, <2>2 DEF Under
<1>7. ASSUME Under(x, p, b, t) PROVE Under(0, p, b, t) /\ Under(x, p, b + m, t)
  <2>1. PICK v \in Nat : /\ Lies(v, x, t) /\ pm + (x - t * v) <= b
                         /\ p.prev # NoUtil => pm + (x - d) <= b
    BY <1>1, <1>3, <1>7 DEF Under
  <2>2. b + m \in Nat /\ b <= b + m
    OBVIOUS
  <2> QED
    BY <1>5, <1>6, <2>1, <2>2
<1>8. ASSUME UnderFlying(x, u, g, p, b, t) PROVE UnderFlying(0, u, g, p, b, t)
  BY <1>8 DEF UnderFlying
<1>9. ASSUME UnderFlying(x, u, g, p, b, t), g <= m PROVE Under(x, p, b + m, t)
  <2>1. PICK pos \in Nat : /\ Lies(u, pos, t) /\ x \in {pos, 0} /\ pm + (pos - t * u) <= b + g
                           /\ p.prev # NoUtil => pm + (pos - d) <= b + g
    BY <1>1, <1>3, <1>9 DEF UnderFlying
  <2>2. b + m \in Nat /\ b + g \in Nat /\ b + g <= b + m
    BY <1>9
  <2>3. Under(pos, p, b + m, t)
    BY <1>6, <2>1, <2>2
  <2>4. PICK v \in Nat : /\ Lies(v, pos, t) /\ pm + (pos - t * v) <= b + m
                         /\ p.prev # NoUtil => pm + (pos - d) <= b + m
    BY <1>1, <1>3, <2>3 DEF Under
  <2>5. Under(0, p, b + m, t)
    BY <1>5, <2>2, <2>4
  <2> QED
    BY <2>1, <2>3, <2>5
<1> QED
  BY <1>7, <1>8, <1>9

\* What the report adds up has been moved for, but for a unit and a request in every stretch
\* between rollovers: z is where the last line of this one stood.
Rolled(n, p, t, m) == 5 * p.cost <= 8 * (t * p.moved + n * ((t - 1) + m))

Fresh(z, n, p, t, m) ==
  /\ p.prev # NoUtil /\ Lies(p.prev, z, t)
  /\ 5 * p.cost <= 8 * ((t * p.moved + (z - t * p.prev)) + (m + n * ((t - 1) + m)))

Over(x, p, h, t, m) ==
  \E n \in 0 .. h :
    Rolled(n, p, t, m) \/ \E z \in Nat : z <= x /\ Fresh(z, n, p, t, m)

\* The window was reset since the request under way was charged only if h counts it.
OverFlying(x, u, g, p, h, t, m) ==
  \E n \in 0 .. h, pos \in Nat :
    /\ x = pos \/ (x = 0 /\ n < h)
    /\ Lies(u, pos, t)
    /\ Rolled(n, p, t, m) \/ \E z \in Nat : z + g <= pos /\ Fresh(z, n, p, t, m)

\* What the stretches between rollovers are allowed.
LEMMA Slack ==
  ASSUME NEW t \in Nat \ {0}, NEW m \in Nat \ {0}, NEW n \in Nat
  PROVE  /\ n * ((t - 1) + m) \in Nat
         /\ (n + 1) * ((t - 1) + m) = n * ((t - 1) + m) + ((t - 1) + m)
<1>1. PICK k \in Nat : k = (t - 1) + m
  <2>1. (t - 1) + m \in Nat
    OBVIOUS
  <2> QED
    BY <2>1
<1>2. n * k \in Nat /\ (n + 1) * k = n * k + k
  OBVIOUS
<1> QED
  BY <1>1, <1>2

\* A rollover closes a stretch.
LEMMA FreshRolls ==
  ASSUME NEW t \in Nat \ {0}, NEW m \in Nat \ {0}, NEW n \in Nat, NEW p \in Totals,
         NEW z \in Nat, Fresh(z, n, p, t, m)
  PROVE  Rolled(n + 1, p, t, m)
<1>1. PICK pc1, pm, d, k, k1 :
        /\ pc1 = p.cost /\ pm = t * p.moved /\ d = t * p.prev
        /\ k = n * ((t - 1) + m) /\ k1 = (n + 1) * ((t - 1) + m)
  OBVIOUS
<1>2. p.prev # NoUtil
  BY DEF Fresh
<1>3. pc1 \in Nat /\ pm \in Nat /\ d \in Nat /\ k \in Nat /\ k1 = k + ((t - 1) + m)
  BY <1>1, <1>2, Slack, TotalsAre
<1>4. d <= z /\ z < d + t /\ 5 * pc1 <= 8 * ((pm + (z - d)) + (m + k))
  BY <1>1 DEF Fresh, Lies
<1>5. 5 * pc1 <= 8 * (pm + k1)
  BY <1>3, <1>4
<1> QED
  BY <1>1, <1>5 DEF Rolled

\* A request is charged.
LEMMA OverServe ==
  ASSUME NEW t \in Nat \ {0}, NEW m, NEW h \in Nat, NEW p, NEW x \in Nat, NEW g \in Nat,
         Over(x, p, h, t, m)
  PROVE  OverFlying(x + g, (x + g) \div t, g, p, h, t, m)
<1>1. PICK n \in 0 .. h : Rolled(n, p, t, m) \/ \E z \in Nat : z <= x /\ Fresh(z, n, p, t, m)
  BY DEF Over
<1>2. PICK pos \in Nat, u \in Nat : pos = x + g /\ u = pos \div t
  <2>1. x + g \in Nat /\ (x + g) \div t \in Nat
    OBVIOUS
  <2> QED
    BY <2>1
<1>3. Lies(u, pos, t)
  BY <1>2 DEF Lies
<1>4. \A z \in Nat : z <= x => z + g <= pos
  BY <1>2
<1>5. Rolled(n, p, t, m) \/ \E z \in Nat : z + g <= pos /\ Fresh(z, n, p, t, m)
  BY <1>1, <1>4
<1>6. OverFlying(pos, u, g, p, h, t, m)
  BY <1>3, <1>5 DEF OverFlying
<1> QED
  BY <1>2, <1>6

\* The line is written: what it adds is moved for, but for a unit and a request.
LEMMA OverLine ==
  ASSUME NEW t \in Nat \ {0}, NEW m \in Nat \ {0}, NEW h \in Nat, NEW p \in Totals, NEW x \in Nat,
         NEW g \in 1 .. m, NEW u \in Nat, NEW c \in Nat, 5 * c <= 8 * g,
         OverFlying(x, u, g, p, h, t, m)
  PROVE  Over(x, Walked(p, c, u), h, t, m)
<1> DEFINE q == Walked(p, c, u)
<1>1. u # NoUtil
  BY MarkersAssumption
<1>2. PICK n \in 0 .. h, pos \in Nat :
        /\ x = pos \/ (x = 0 /\ n < h)
        /\ Lies(u, pos, t)
        /\ Rolled(n, p, t, m) \/ \E z \in Nat : z + g <= pos /\ Fresh(z, n, p, t, m)
  BY DEF OverFlying
<1>3. PICK cost1, pm, tu, qm, k :
        /\ cost1 = p.cost /\ pm = t * p.moved /\ tu = t * u /\ qm = t * q.moved
        /\ k = n * ((t - 1) + m)
  OBVIOUS
<1>4. /\ cost1 \in Nat /\ pm \in Nat /\ tu \in Nat /\ k \in Nat /\ p.moved \in Nat
      /\ p.prev # NoUtil => p.prev \in Nat /\ t * p.prev \in Nat
  BY <1>3, TotalsAre, Multiples, Slack
<1>5. q.prev = u /\ q.cost = cost1 + c
  BY <1>1, <1>3 DEF Walked
<1>6. tu <= pos /\ pos < tu + t
  BY <1>2, <1>3 DEF Lies
<1>7. CASE p.prev # NoUtil /\ u > p.prev
  <2>1. q.moved = p.moved + (u - p.prev)
    BY <1>1, <1>7 DEF Walked
  <2>2. PICK a \in Nat, d \in Nat : a = p.prev /\ d = t * a
    BY <1>4, <1>7
  <2>3. t * (u - a) = tu - d /\ u - a \in Nat /\ tu - d \in Nat
    BY <1>3, <1>7, <2>2, Multiples
  <2>4. qm = pm + (tu - d)
    <3>1. t * (p.moved + (u - a)) = t * p.moved + t * (u - a)
      BY <1>4, <2>3, Multiples
    <3> QED
      BY <1>3, <2>1, <2>2, <2>3, <3>1
  <2>5. 5 * (cost1 + c) <= 8 * ((qm + (pos - tu)) + (m + k))
    <3>1. CASE Rolled(n, p, t, m)
      <4>1. 5 * cost1 <= 8 * (pm + k)
        BY <1>3, <3>1 DEF Rolled
      <4> QED
        BY <1>4, <1>6, <2>2, <2>3, <2>4, <4>1
    <3>2. ASSUME NEW z \in Nat, z + g <= pos, Fresh(z, n, p, t, m)
          PROVE  5 * (cost1 + c) <= 8 * ((qm + (pos - tu)) + (m + k))
      <4>1. 5 * cost1 <= 8 * ((pm + (z - d)) + (m + k))
        BY <1>3, <2>2, <3>2 DEF Fresh
      <4> QED
        BY <1>4, <1>6, <2>2, <2>3, <2>4, <3>2, <4>1
    <3> QED
      BY <1>2, <3>1, <3>2
  <2> HIDE DEF q
  <2>6. Fresh(pos, n, q, t, m)
    BY <1>1, <1>2, <1>3, <1>5, <2>5 DEF Fresh
  <2>7. CASE x = pos
    <3>1. Over(x, q, h, t, m)
      BY <2>6, <2>7 DEF Over
    <3> QED
      BY <3>1 DEF q
  <2>8. CASE x = 0 /\ n < h
    <3>1. q \in Totals
      BY <1>4, <1>5, <1>3, <2>1, <2>2, <2>3 DEF Totals, q, Walked
    <3>2. Rolled(n + 1, q, t, m) /\ n + 1 \in 0 .. h
      BY <1>2, <2>6, <2>8, <3>1, FreshRolls
    <3>3. Over(x, q, h, t, m)
      BY <3>2 DEF Over
    <3> QED
      BY <3>3 DEF q
  <2> QED
    BY <1>2, <2>7, <2>8
<1>8. CASE ~(p.prev # NoUtil /\ u > p.prev)
  <2>1. q.moved = p.moved
    <3>1. q.moved = p.moved + 0
      BY <1>8 DEF Walked
    <3> QED
      BY <1>4, <3>1
  <2>2. qm = pm
    BY <1>3, <2>1
  <2>3. 5 * (cost1 + c) <= 8 * ((qm + (pos - tu)) + (m + k))
    <3>1. CASE Rolled(n, p, t, m)
      <4>1. 5 * cost1 <= 8 * (pm + k)
        BY <1>3, <3>1 DEF Rolled
      <4> QED
        BY <1>4, <1>6, <2>2, <4>1
    <3>2. ASSUME NEW z \in Nat, z + g <= pos, Fresh(z, n, p, t, m)
          PROVE  5 * (cost1 + c) <= 8 * ((qm + (pos - tu)) + (m + k))
      <4>1. PICK a \in Nat, d \in Nat : a = p.prev /\ d = t * a
        BY <1>4, <3>2 DEF Fresh
      <4>2. 5 * cost1 <= 8 * ((pm + (z - d)) + (m + k))
        BY <1>3, <3>2, <4>1 DEF Fresh
      <4>3. a = u
        <5>1. Lies(a, z, t) /\ z <= pos
          BY <3>2, <4>1 DEF Fresh
        <5>2. a <= u
          BY <1>2, <5>1, PercentsOrdered
        <5>3. ~(u > a)
          BY <1>8, <3>2, <4>1 DEF Fresh
        <5> QED
          BY <4>1, <5>2, <5>3
      <4>4. d = tu
        BY <1>3, <4>1, <4>3
      <4> QED
        BY <1>4, <1>6, <2>2, <3>2, <4>1, <4>2, <4>4
    <3> QED
      BY <1>2, <3>1, <3>2
  <2>4. q \in Totals
    BY <1>3, <1>4, <1>5, <2>1 DEF Totals, Walked
  <2> HIDE DEF q
  <2>5. Fresh(pos, n, q, t, m)
    BY <1>1, <1>2, <1>3, <1>5, <2>3 DEF Fresh
  <2>6. CASE x = pos
    <3>1. Over(x, q, h, t, m)
      BY <2>5, <2>6 DEF Over
    <3> QED
      BY <3>1 DEF q
  <2>7. CASE x = 0 /\ n < h
    <3>1. Rolled(n + 1, q, t, m) /\ n + 1 \in 0 .. h
      BY <1>2, <2>4, <2>5, <2>7, FreshRolls
    <3>2. Over(x, q, h, t, m)
      BY <3>1 DEF Over
    <3> QED
      BY <3>2 DEF q
  <2> QED
    BY <1>2, <2>6, <2>7
<1> QED
  BY <1>7, <1>8

\* More rollovers elsewhere; one here; what was under way is lost.
LEMMA OverOthers ==
  ASSUME NEW t \in Nat \ {0}, NEW m \in Nat \ {0}, NEW h \in Nat, NEW p \in Totals,
         NEW x \in Nat, NEW g \in Nat, NEW u \in Nat
  PROVE  /\ Over(x, p, h, t, m) => Over(x, p, h + 1, t, m) /\ Over(0, p, h + 1, t, m)
         /\ OverFlying(x, u, g, p, h, t, m)
              => /\ OverFlying(x, u, g, p, h + 1, t, m) /\ OverFlying(0, u, g, p, h + 1, t, m)
                 /\ Over(x, p, h, t, m)
<1>1. \A n \in 0 .. h : n \in Nat /\ n \in 0 .. h + 1 /\ n + 1 \in 0 .. h + 1 /\ n < h + 1
  OBVIOUS
<1>2. \A n \in 0 .. h : n < h => n + 1 \in 0 .. h
  OBVIOUS
<1>3. ASSUME Over(x, p, h, t, m) PROVE Over(x, p, h + 1, t, m) /\ Over(0, p, h + 1, t, m)
  <2>1. PICK n \in 0 .. h : Rolled(n, p, t, m) \/ \E z \in Nat : z <= x /\ Fresh(z, n, p, t, m)
    BY <1>3 DEF Over
  <2>2. Over(x, p, h + 1, t, m)
    BY <1>1, <2>1 DEF Over
  <2>3. Rolled(n, p, t, m) \/ Rolled(n + 1, p, t, m)
    BY <1>1, <2>1, FreshRolls
  <2>4. Over(0, p, h + 1, t, m)
    BY <1>1, <2>3 DEF Over
  <2> QED
    BY <2>2, <2>4
<1>4. ASSUME OverFlying(x, u, g, p, h, t, m)
      PROVE  /\ OverFlying(x, u, g, p, h + 1, t, m) /\ OverFlying(0, u, g, p, h + 1, t, m)
             /\ Over(x, p, h, t, m)
  <2>1. PICK n \in 0 .. h, pos \in Nat :
          /\ x = pos \/ (x = 0 /\ n < h)
          /\ Lies(u, pos, t)
          /\ Rolled(n, p, t, m) \/ \E z \in Nat : z + g <= pos /\ Fresh(z, n, p, t, m)
    BY <1>4 DEF OverFlying
  <2>2. OverFlying(x, u, g, p, h + 1, t, m) /\ OverFlying(0, u, g, p, h + 1, t, m)
    BY <1>1, <2>1 DEF OverFlying
  <2>3. CASE Rolled(n, p, t, m)
    BY <2>2, <2>3 DEF Over
  <2>4. ASSUME NEW z \in Nat, z + g <= pos, Fresh(z, n, p, t, m) PROVE Over(x, p, h, t, m)
    <3>1. CASE x = pos
      <4>1. z <= x
        BY <2>4, <3>1
      <4> QED
        BY <2>4, <4>1 DEF Over
    <3>2. CASE x = 0 /\ n < h
      <4>1. Rolled(n + 1, p, t, m) /\ n + 1 \in 0 .. h
        BY <1>1, <1>2, <2>4, <3>2, FreshRolls
      <4> QED
        BY <4>1 DEF Over
    <3> QED
      BY <2>1, <3>1, <3>2
  <2> QED
    BY <2>1, <2>2, <2>3, <2>4
<1> QED
  BY <1>3, <1>4

-----------------------------------------------------------------------------
(* The passive report amortises its noise.                                 *)

\* The report's totals stay numbers.
LEMMA WalkedType ==
  ASSUME NEW p \in Totals, NEW c \in Nat, NEW u \in Nat, u # NoUtil
  PROVE  Walked(p, c, u) \in Totals /\ Walked(p, c, u).cost = p.cost + c
  BY DEF Totals, Walked

\* One organization behind one upstream.
OneKey == \E k \in Keys : Keys = {k}

\* A request of r has been charged, and its line is not in the log.
Unlogged(r) == answer[r] # NoEvent \/ owed[r] # NoEvent

\* What the report adds up, and what crashes took away from it.
Paid(w) == TickCost[w] - 1 + passive[w].cost + restarts * MaxCharge

Amortised(r, k, w) ==
  LET t == TickCost[w]
      a == Carried(r)
  IN IF Unlogged(r)
     THEN /\ UnderFlying(served[k][w], a.util[w], a.request.charge, passive[w], Paid(w), t)
          /\ OverFlying(served[k][w], a.util[w], a.request.charge, passive[w], resets, t, MaxCharge)
     ELSE /\ Under(served[k][w], passive[w], Paid(w), t)
          /\ Over(served[k][w], passive[w], resets, t, MaxCharge)

LogTyped ==
  /\ CalTyped
  /\ passive \in [Windows -> Totals]
  /\ restarts \in Nat /\ resets \in Nat

LogInv == LogTyped /\ \A r \in Recorders, k \in Keys, w \in Windows : Amortised(r, k, w)

\* The numbers of the bound.
LEMMA PaidIs ==
  ASSUME LogTyped, NEW w \in Windows
  PROVE  /\ TickCost[w] \in Nat \ {0} /\ MaxCharge \in Nat \ {0}
         /\ passive[w] \in Totals /\ passive[w].cost \in Nat
         /\ restarts * MaxCharge \in Nat /\ Paid(w) \in Nat
         /\ (restarts + 1) * MaxCharge = restarts * MaxCharge + MaxCharge
<1>1. TickCost[w] \in Nat \ {0} /\ MaxCharge \in Nat \ {0} /\ restarts \in Nat
      /\ passive[w] \in Totals
  BY Charges DEF LogTyped
<1>2. passive[w].cost \in Nat
  BY <1>1 DEF Totals
<1>3. restarts * MaxCharge \in Nat
      /\ (restarts + 1) * MaxCharge = restarts * MaxCharge + MaxCharge
  BY <1>1
<1>4. PICK l \in Nat : l = restarts * MaxCharge
  BY <1>3
<1>5. Paid(w) \in Nat
  BY <1>1, <1>2, <1>4 DEF Paid
<1> QED
  BY <1>1, <1>2, <1>3, <1>5

\* The types of the log go on holding.
LEMMA LogTypedNext == LogTyped /\ [CalNext]_calVars => LogTyped'
<1> SUFFICES ASSUME LogTyped, [CalNext]_calVars PROVE LogTyped'
  OBVIOUS
<1>1. CalTyped'
  BY CalTypedNext DEF LogTyped
<1>2. ASSUME UNCHANGED <<passive, restarts, resets>> PROVE LogTyped'
  BY <1>1, <1>2 DEF LogTyped
<1>3. ASSUME NEW r \in Recorders, NEW k \in Keys, NEW q \in Requests, Serve(r, k, q) PROVE LogTyped'
  BY <1>2, <1>3 DEF Serve, vars, history
<1>4. ASSUME NEW r \in Recorders, Deliver(r) \/ Observe(r) PROVE LogTyped'
  BY <1>2, <1>4 DEF Deliver, Begin, Observe, UpdateEstimates, history
<1>5. ASSUME NEW r \in Recorders, OtherStep(r) PROVE LogTyped'
  <2>1. UNCHANGED <<passive, resets>>
    BY <1>5 DEF OtherStep, meter
  <2>2. UNCHANGED restarts
    BY <1>5 DEF OtherStep, AddCost, StoreGauges, ReadEstimates, OpenTruncated, WriteEstimates,
                WriteFails, history
  <2> QED
    BY <1>2, <2>1, <2>2
<1>6. ASSUME NEW r \in Recorders, WriteLine(r) PROVE LogTyped'
  <2>1. UNCHANGED <<restarts, resets>>
    BY <1>6 DEF WriteLine, vars, history
  <2>2. owed[r] \in Answers
    BY <1>6 DEF WriteLine, LogTyped, CalTyped, CalTypes
  <2>3. passive' = [w \in Windows |-> Walked(passive[w],
                     PassiveCost(owed[r].request.model, owed[r].request.usage), owed[r].util[w])]
    BY <1>6 DEF WriteLine
  <2>4. PassiveCost(owed[r].request.model, owed[r].request.usage) \in Nat
    <3>1. /\ owed[r].request.model \in DOMAIN PassivePricing /\ owed[r].request.usage \in Usages
      BY <2>2, PricedIs, MeterAssumption
    <3> QED
      BY <3>1, PassiveNat
  <2>5. passive' \in [Windows -> Totals]
    <3> SUFFICES ASSUME NEW w \in Windows,
                        NEW c \in Nat, c = PassiveCost(owed[r].request.model, owed[r].request.usage)
                 PROVE  Walked(passive[w], c, owed[r].util[w]) \in Totals
      BY <2>3, <2>4
    <3>1. owed[r].util[w] \in Nat /\ owed[r].util[w] # NoUtil
      BY <2>2, PricedIs, MarkersAssumption
    <3>2. passive[w] \in Totals
      BY DEF LogTyped
    <3> QED
      BY <3>1, <3>2, WalkedType
  <2> QED
    BY <1>1, <2>1, <2>5 DEF LogTyped
<1>7. ASSUME NEW k \in Keys, NEW w \in Windows, Rollover(k, w) PROVE LogTyped'
  BY <1>1, <1>7 DEF Rollover, LogTyped, vars, history
<1>8. Crash => LogTyped'
  BY <1>1 DEF Crash, Restart, LogTyped
<1>9. UNCHANGED calVars \/ CalFinished => LogTyped'
  BY <1>2 DEF CalFinished, Finished, calVars, vars, history, meter
<1> QED
  BY <1>3, <1>4, <1>5, <1>6, <1>7, <1>8, <1>9 DEF CalNext

\* The proxy is started in the middle of a unit, with an empty log.
LEMMA LogInvInit == CalInit => LogInv
<1> SUFFICES ASSUME CalInit PROVE LogInv
  OBVIOUS
<1>1. LogTyped
  <2>1. NoTotals \in Totals
    BY DEF NoTotals, Totals
  <2> QED
    BY <2>1, CalTypedInit DEF LogTyped, CalInit, Init
<1>2. ASSUME NEW r \in Recorders, NEW k \in Keys, NEW w \in Windows PROVE Amortised(r, k, w)
  <2>1. ~Unlogged(r)
    BY <1>2 DEF CalInit, Unlogged
  <2>2. passive[w] = NoTotals /\ restarts = 0 /\ resets = 0
    BY DEF CalInit, Init
  <2>3. PICK x \in Nat, t \in Nat \ {0}, m \in Nat \ {0} :
          x = served[k][w] /\ t = TickCost[w] /\ m = MaxCharge
    <3>1. served[k][w] \in Nat /\ TickCost[w] \in Nat \ {0} /\ MaxCharge \in Nat \ {0}
      BY <1>1, Charges DEF LogTyped, CalTyped, CalTypes
    <3> QED
      BY <3>1
  <2>4. x < t
    BY <2>3, MeterAssumption DEF CalInit
  <2>5. Paid(w) = t - 1
    <3>1. 0 * m = 0
      OBVIOUS
    <3> QED
      BY <2>2, <2>3, <3>1 DEF Paid, NoTotals
  <2>6. t * 0 = 0
    OBVIOUS
  <2>7. Under(x, NoTotals, t - 1, t)
    <3>1. Lies(0, x, t) /\ t * 0 + (x - t * 0) <= t - 1
      BY <2>4, <2>6 DEF Lies
    <3>2. NoTotals.prev = NoUtil /\ NoTotals.moved = 0
      BY DEF NoTotals
    <3> QED
      BY <3>1, <3>2 DEF Under
  <2>8. Over(x, NoTotals, 0, t, m)
    <3>1. 0 * ((t - 1) + m) = 0
      OBVIOUS
    <3>2. Rolled(0, NoTotals, t, m)
      BY <2>6, <3>1 DEF Rolled, NoTotals
    <3>3. 0 \in 0 .. 0
      OBVIOUS
    <3> QED
      BY <3>2, <3>3 DEF Over
  <2> QED
    BY <2>1, <2>2, <2>3, <2>5, <2>7, <2>8 DEF Amortised
<1> QED
  BY <1>1, <1>2 DEF LogInv

\* The movement is paid for, whether or not a line is owed.
LEMMA UnderBound ==
  ASSUME NEW t \in Nat \ {0}, NEW p \in Totals, NEW b \in Nat, NEW x \in Nat, NEW u, NEW g,
         Under(x, p, b, t) \/ UnderFlying(x, u, g, p, b, t)
  PROVE  t * p.moved <= b
<1>1. CASE Under(x, p, b, t)
  <2>1. PICK v \in Nat : Lies(v, x, t) /\ t * p.moved + (x - t * v) <= b
    BY <1>1 DEF Under
  <2>2. t * v <= x /\ t * v \in Nat /\ t * p.moved \in Nat
    BY <2>1, Multiples, TotalsAre DEF Lies
  <2> QED
    BY <2>1, <2>2
<1>2. CASE UnderFlying(x, u, g, p, b, t)
  BY <1>2 DEF UnderFlying
<1> QED
  BY <1>1, <1>2

\* And it pays for what the report adds up.
LEMMA OverBound ==
  ASSUME NEW t \in Nat \ {0}, NEW m \in Nat \ {0}, NEW h \in Nat, NEW p \in Totals,
         NEW x \in Nat, NEW u, NEW g, Over(x, p, h, t, m) \/ OverFlying(x, u, g, p, h, t, m)
  PROVE  5 * p.cost <= 8 * (t * p.moved + (1 + h) * ((t - 1) + m))
<1>1. PICK n \in 0 .. h : Rolled(n, p, t, m) \/ \E z \in Nat : Fresh(z, n, p, t, m)
  BY DEF Over, OverFlying
<1>2. PICK a \in 0 .. 1 + h : Rolled(a, p, t, m)
  <2>1. n \in Nat /\ n \in 0 .. 1 + h /\ n + 1 \in 0 .. 1 + h
    OBVIOUS
  <2>2. Rolled(n, p, t, m) \/ Rolled(n + 1, p, t, m)
    BY <1>1, <2>1, FreshRolls
  <2> QED
    BY <2>1, <2>2
<1>3. PICK k \in Nat \ {0} : k = (t - 1) + m
  <2>1. (t - 1) + m \in Nat \ {0}
    OBVIOUS
  <2> QED
    BY <2>1
<1>4. k * a <= k * (1 + h) /\ k * a \in Nat /\ k * (1 + h) \in Nat
  <2>1. a \in Nat /\ 1 + h \in Nat /\ (a < 1 + h \/ a = 1 + h)
    OBVIOUS
  <2>2. k * a \in Nat /\ k * (1 + h) \in Nat /\ (a < 1 + h => k * a + k <= k * (1 + h))
    BY <2>1, Multiples
  <2> QED
    BY <2>1, <2>2
<1>5. a * k = k * a /\ (1 + h) * k = k * (1 + h)
  OBVIOUS
<1>6. PICK pm, c, ka, kh : pm = t * p.moved /\ c = p.cost /\ ka = a * k /\ kh = (1 + h) * k
  OBVIOUS
<1>7. pm \in Nat /\ c \in Nat /\ ka \in Nat /\ kh \in Nat /\ ka <= kh
  BY <1>4, <1>5, <1>6, TotalsAre
<1>8. 5 * c <= 8 * (pm + ka)
  BY <1>2, <1>3, <1>6 DEF Rolled
<1>9. 5 * c <= 8 * (pm + kh)
  BY <1>7, <1>8
<1> QED
  BY <1>3, <1>6, <1>9

\* The steps of Record, which do not touch what Amortised speaks of.
LEMMA AmortisedStays ==
  ASSUME NEW r, NEW k, NEW w, Amortised(r, k, w),
         UNCHANGED <<served, passive, restarts, resets>>,
         Unlogged(r)' <=> Unlogged(r), Unlogged(r) => Carried(r)' = Carried(r)
  PROVE  Amortised(r, k, w)'
  BY DEF Amortised, Paid, UnderFlying, OverFlying, Under, Over

\* A request is charged and answered.
LEMMA ServeLog ==
  ASSUME LogInv, NEW r \in Recorders, Recorders = {r}, NEW k \in Keys, Keys = {k},
         NEW q \in Requests, Serve(r, k, q), NEW w \in Windows
  PROVE  Amortised(r, k, w)'
<1> DEFINE total == [v \in Windows |-> served[k][v] + q.charge]
           a == [key |-> k, request |-> q, util |-> Utilization(total)]
<1>1. /\ answer[r] = NoEvent /\ owed[r] = NoEvent
      /\ served' = [served EXCEPT ![k] = total] /\ answer' = [answer EXCEPT ![r] = a]
  BY DEF Serve
<1>2. UNCHANGED <<passive, restarts, resets>>
  BY DEF Serve, vars, history
<1>3. PICK x \in Nat, g \in Nat, t \in Nat \ {0} :
        x = served[k][w] /\ g = q.charge /\ t = TickCost[w]
  <2>1. served[k][w] \in Nat /\ q.charge \in Nat /\ TickCost[w] \in Nat \ {0}
    BY Charges DEF LogInv, LogTyped, CalTyped, CalTypes
  <2> QED
    BY <2>1
<1>4. a.util[w] = (x + g) \div t /\ a.request.charge = g
  BY <1>3 DEF Utilization
<1>5. a # NoEvent
  <2>1. \A v \in Windows : total[v] \in Nat /\ TickCost[v] \in Nat \ {0}
    BY Charges DEF LogInv, LogTyped, CalTyped, CalTypes
  <2> HIDE DEF total
  <2>2. \A v \in Windows : total[v] \div TickCost[v] \in Nat
    <3>1. \A y \in Nat, z \in Nat \ {0} : y \div z \in Nat
      OBVIOUS
    <3> QED
      BY <2>1, <3>1, Zenon
  <2>3. a \in Answers
    BY <2>2 DEF Answers, Utilization
  <2> QED
    BY <2>3, PricedIs
<1>6. served'[k][w] = x + g
  BY <1>1, <1>3 DEF LogInv, LogTyped, CalTyped, CalTypes
<1> HIDE DEF total, a
<1>7. answer'[r] = a
  BY <1>1 DEF LogInv, LogTyped, CalTyped, CalTypes
<1>8. Unlogged(r)' /\ Carried(r)' = a /\ ~Unlogged(r)
  BY <1>1, <1>5, <1>7 DEF Unlogged, Carried
<1>9. PICK b, p, h : b = Paid(w) /\ p = passive[w] /\ h = resets
  OBVIOUS
<1>10. b \in Nat /\ p \in Totals /\ h \in Nat
  BY <1>9, PaidIs DEF LogInv, LogTyped
<1>11. Under(x, p, b, t) /\ Over(x, p, h, t, MaxCharge)
  BY <1>3, <1>8, <1>9 DEF LogInv, Amortised
<1>12. /\ UnderFlying(x + g, (x + g) \div t, g, p, b, t)
       /\ OverFlying(x + g, (x + g) \div t, g, p, h, t, MaxCharge)
  BY <1>10, <1>11, UnderServe, OverServe
<1>13. Paid(w)' = b /\ passive'[w] = p /\ resets' = h
  BY <1>2, <1>9 DEF Paid
<1>14. /\ UnderFlying(served'[k][w], Carried(r)'.util[w], Carried(r)'.request.charge, passive'[w],
                      Paid(w)', TickCost[w])
       /\ OverFlying(served'[k][w], Carried(r)'.util[w], Carried(r)'.request.charge, passive'[w],
                     resets', TickCost[w], MaxCharge)
  BY <1>3, <1>4, <1>6, <1>8, <1>12, <1>13
<1> QED
  BY <1>8, <1>14 DEF Amortised, UnderFlying, OverFlying

\* Its line is written.
LEMMA LineLog ==
  ASSUME LogInv, NEW r \in Recorders, Recorders = {r}, NEW k \in Keys, Keys = {k}, WriteLine(r),
         NEW w \in Windows
  PROVE  Amortised(r, k, w)'
<1>1. owed[r] # NoEvent /\ owed' = [owed EXCEPT ![r] = NoEvent]
      /\ UNCHANGED <<served, answer, restarts, resets>>
  BY DEF WriteLine, vars, history
<1>2. owed[r] \in Answers /\ answer[r] = NoEvent
  BY <1>1 DEF LogInv, LogTyped, CalTyped, CalTypes, Handling
<1>3. passive' = [v \in Windows |-> Walked(passive[v],
                    PassiveCost(owed[r].request.model, owed[r].request.usage), owed[r].util[v])]
  BY DEF WriteLine
<1>4. ~Unlogged(r)' /\ Unlogged(r) /\ Carried(r) = owed[r]
  BY <1>1, <1>2 DEF Unlogged, Carried, LogInv, LogTyped, CalTyped, CalTypes
<1>5. PICK x, u, g, p, b, h, t, c :
        /\ x = served[k][w] /\ u = owed[r].util[w] /\ g = owed[r].request.charge
        /\ p = passive[w] /\ b = Paid(w) /\ h = resets /\ t = TickCost[w]
        /\ c = PassiveCost(owed[r].request.model, owed[r].request.usage)
  OBVIOUS
<1>6. x \in Nat /\ p \in Totals /\ b \in Nat /\ h \in Nat /\ t \in Nat \ {0}
      /\ MaxCharge \in Nat \ {0}
  BY <1>5, PaidIs DEF LogInv, LogTyped, CalTyped, CalTypes
<1>7. u \in Nat /\ g \in 1 .. MaxCharge
  BY <1>2, <1>5, PricedIs
<1>8. c \in Nat /\ g <= c /\ 5 * c <= 8 * g
  <2>1. PICK q \in Requests : q = owed[r].request
    BY <1>2, PricedIs
  <2>2. /\ q.model \in DOMAIN PassivePricing /\ q.usage \in Usages /\ Whole(q.usage)
        /\ q.charge = RequestCost(q.model, q.usage)
    BY MeterAssumption DEF Whole
  <2>3. PassiveCost(q.model, q.usage) \in Nat
    BY <2>2, PassiveNat
  <2>4. RequestCost(q.model, q.usage) <= PassiveCost(q.model, q.usage)
        /\ 5 * PassiveCost(q.model, q.usage) <= 8 * RequestCost(q.model, q.usage)
    BY <2>2, PassiveOverstates
  <2> QED
    BY <1>5, <2>1, <2>2, <2>3, <2>4
<1>9. UnderFlying(x, u, g, p, b, t) /\ OverFlying(x, u, g, p, h, t, MaxCharge)
  BY <1>4, <1>5 DEF LogInv, Amortised
<1>10. Under(x, Walked(p, c, u), b + c, t) /\ Over(x, Walked(p, c, u), h, t, MaxCharge)
  <2>1. Under(x, Walked(p, c, u), b + c, t)
    <3>1. g \in Nat
      BY <1>6, <1>7
    <3> QED
      BY <1>6, <1>7, <1>8, <1>9, <3>1, UnderLine
  <2>2. Over(x, Walked(p, c, u), h, t, MaxCharge)
    BY <1>6, <1>7, <1>8, <1>9, OverLine
  <2> QED
    BY <2>1, <2>2
<1>11. passive'[w] = Walked(p, c, u) /\ Walked(p, c, u).cost = p.cost + c
  BY <1>3, <1>5, <1>6, <1>7, <1>8, WalkedType, MarkersAssumption
<1>12. Paid(w)' = b + c
  <2>1. PICK l \in Nat, d \in Nat : l = restarts * MaxCharge /\ d = p.cost
    BY <1>5, PaidIs DEF LogInv
  <2>2. b = t - 1 + d + l
    BY <1>5, <2>1 DEF Paid
  <2>3. Paid(w)' = t - 1 + (d + c) + l
    BY <1>1, <1>5, <1>11, <2>1 DEF Paid
  <2> QED
    BY <1>6, <1>8, <2>1, <2>2, <2>3
<1>13. /\ Under(served'[k][w], passive'[w], Paid(w)', TickCost[w])
       /\ Over(served'[k][w], passive'[w], resets', TickCost[w], MaxCharge)
  BY <1>1, <1>5, <1>10, <1>11, <1>12
<1> QED
  BY <1>4, <1>13 DEF Amortised, Under, Over

\* A window is reset upstream.
LEMMA RolloverLog ==
  ASSUME LogInv, NEW r \in Recorders, NEW k \in Keys, NEW j \in Keys, NEW v \in Windows,
         Rollover(j, v), NEW w \in Windows
  PROVE  Amortised(r, k, w)'
<1>1. /\ served' = [served EXCEPT ![j][v] = 0] /\ resets' = resets + 1
      /\ UNCHANGED <<answer, owed, passive, restarts>>
  BY DEF Rollover, vars, history
<1>2. served'[k][w] \in {served[k][w], 0}
  BY <1>1 DEF LogInv, LogTyped, CalTyped, CalTypes
<1>3. PICK x, y, p, b, h, t : 
        /\ x = served[k][w] /\ y = served'[k][w] /\ p = passive[w] /\ b = Paid(w)
        /\ h = resets /\ t = TickCost[w]
  OBVIOUS
<1>4. x \in Nat /\ p \in Totals /\ b \in Nat /\ h \in Nat /\ t \in Nat \ {0}
      /\ MaxCharge \in Nat \ {0} /\ y \in {x, 0}
  BY <1>2, <1>3, PaidIs DEF LogInv, LogTyped, CalTyped, CalTypes
<1>5. /\ passive'[w] = p /\ Paid(w)' = b /\ resets' = h + 1
      /\ Unlogged(r)' = Unlogged(r) /\ Carried(r)' = Carried(r)
  BY <1>1, <1>3 DEF Paid, Unlogged, Carried
<1>6. Amortised(r, k, w)
  BY DEF LogInv
<1>7. CASE Unlogged(r)
  <2>1. PICK u \in Nat, g \in Nat : u = Carried(r).util[w] /\ g = Carried(r).request.charge
    <3>1. Carried(r) \in Answers
      BY <1>7 DEF Unlogged, Carried, LogInv, LogTyped, CalTyped, CalTypes
    <3>2. Carried(r).util[w] \in Nat /\ Carried(r).request.charge \in Nat
      BY <3>1, PricedIs, Charges
    <3> QED
      BY <3>2
  <2>2. UnderFlying(x, u, g, p, b, t) /\ OverFlying(x, u, g, p, h, t, MaxCharge)
    BY <1>3, <1>6, <1>7, <2>1 DEF Amortised
  <2>3. UnderFlying(0, u, g, p, b, t)
    BY <1>4, <2>2, UnderOthers
  <2>4. OverFlying(x, u, g, p, h + 1, t, MaxCharge) /\ OverFlying(0, u, g, p, h + 1, t, MaxCharge)
    BY <1>4, <2>2, OverOthers
  <2>5. UnderFlying(y, u, g, p, b, t) /\ OverFlying(y, u, g, p, h + 1, t, MaxCharge)
    BY <1>4, <2>2, <2>3, <2>4
  <2>6. Unlogged(r)'
    BY <1>5, <1>7
  <2>7. /\ UnderFlying(served'[k][w], Carried(r)'.util[w], Carried(r)'.request.charge,
                       passive'[w], Paid(w)', TickCost[w])
        /\ OverFlying(served'[k][w], Carried(r)'.util[w], Carried(r)'.request.charge,
                      passive'[w], resets', TickCost[w], MaxCharge)
    BY <1>3, <1>5, <2>1, <2>5
  <2> QED
    BY <2>6, <2>7 DEF Amortised, UnderFlying, OverFlying
<1>8. CASE ~Unlogged(r)
  <2>1. Under(x, p, b, t) /\ Over(x, p, h, t, MaxCharge)
    BY <1>3, <1>6, <1>8 DEF Amortised
  <2>2. Under(0, p, b, t)
    BY <1>4, <2>1, UnderOthers
  <2>3. Over(x, p, h + 1, t, MaxCharge) /\ Over(0, p, h + 1, t, MaxCharge)
    BY <1>4, <2>1, OverOthers
  <2>4. Under(y, p, b, t) /\ Over(y, p, h + 1, t, MaxCharge)
    BY <1>4, <2>1, <2>2, <2>3
  <2>5. ~Unlogged(r)'
    BY <1>5, <1>8
  <2>6. /\ Under(served'[k][w], passive'[w], Paid(w)', TickCost[w])
        /\ Over(served'[k][w], passive'[w], resets', TickCost[w], MaxCharge)
    BY <1>3, <1>5, <2>4
  <2> QED
    BY <2>5, <2>6 DEF Amortised, Under, Over
<1> QED
  BY <1>7, <1>8

\* The line is lost.
LEMMA CrashLog ==
  ASSUME LogInv, NEW r \in Recorders, NEW k \in Keys, Crash, NEW w \in Windows
  PROVE  Amortised(r, k, w)'
<1>1. /\ answer' = [s \in Recorders |-> NoEvent] /\ owed' = answer'
      /\ restarts' = restarts + 1 /\ UNCHANGED <<served, passive, resets>>
  BY DEF Crash, Restart
<1>2. ~Unlogged(r)'
  BY <1>1 DEF Unlogged
<1>3. PICK x, p, b, h, t : 
        /\ x = served[k][w] /\ p = passive[w] /\ b = Paid(w) /\ h = resets /\ t = TickCost[w]
  OBVIOUS
<1>4. x \in Nat /\ p \in Totals /\ b \in Nat /\ h \in Nat /\ t \in Nat \ {0}
      /\ MaxCharge \in Nat \ {0}
  BY <1>3, PaidIs DEF LogInv, LogTyped, CalTyped, CalTypes
<1>5. Paid(w)' = b + MaxCharge
  <2>1. PICK l \in Nat, d \in Nat : l = restarts * MaxCharge /\ d = p.cost
    BY <1>3, PaidIs DEF LogInv
  <2>2. (restarts + 1) * MaxCharge = l + MaxCharge
    BY <2>1, PaidIs DEF LogInv
  <2>3. b = t - 1 + d + l
    BY <1>3, <2>1 DEF Paid
  <2>4. Paid(w)' = t - 1 + d + (l + MaxCharge)
    BY <1>1, <1>3, <2>1, <2>2 DEF Paid
  <2> QED
    BY <1>4, <2>1, <2>3, <2>4
<1>6. Under(x, p, b + MaxCharge, t) /\ Over(x, p, h, t, MaxCharge)
  <2>1. Amortised(r, k, w)
    BY DEF LogInv
  <2>2. CASE Unlogged(r)
    <3>1. PICK u \in Nat, g \in Nat : /\ u = Carried(r).util[w] /\ g = Carried(r).request.charge
                                      /\ g <= MaxCharge
      <4>1. Carried(r) \in Answers
        BY <2>2 DEF Unlogged, Carried, LogInv, LogTyped, CalTyped, CalTypes
      <4>2. /\ Carried(r).util[w] \in Nat /\ Carried(r).request.charge \in Nat
            /\ Carried(r).request.charge <= MaxCharge
        BY <4>1, PricedIs, Charges
      <4> QED
        BY <4>2
    <3>2. UnderFlying(x, u, g, p, b, t) /\ OverFlying(x, u, g, p, h, t, MaxCharge)
      BY <1>3, <2>1, <2>2, <3>1 DEF Amortised
    <3>3. Under(x, p, b + MaxCharge, t)
      BY <1>4, <3>1, <3>2, UnderOthers
    <3>4. Over(x, p, h, t, MaxCharge)
      BY <1>4, <3>2, OverOthers
    <3> QED
      BY <3>3, <3>4
  <2>3. CASE ~Unlogged(r)
    <3>1. Under(x, p, b, t) /\ Over(x, p, h, t, MaxCharge)
      BY <1>3, <2>1, <2>3 DEF Amortised
    <3>2. Under(x, p, b + MaxCharge, t)
      BY <1>4, <3>1, UnderOthers
    <3> QED
      BY <3>1, <3>2
  <2> QED
    BY <2>2, <2>3
<1>7. /\ Under(served'[k][w], passive'[w], Paid(w)', TickCost[w])
      /\ Over(served'[k][w], passive'[w], resets', TickCost[w], MaxCharge)
  BY <1>1, <1>3, <1>5, <1>6
<1> QED
  BY <1>2, <1>7 DEF Amortised, Under, Over

\* Every step keeps the invariant.
LEMMA LogInvNext == Alone /\ OneKey /\ LogInv /\ [CalNext]_calVars => LogInv'
<1> SUFFICES ASSUME Alone, OneKey, LogInv, [CalNext]_calVars PROVE LogInv'
  OBVIOUS
<1>1. LogTyped'
  BY LogTypedNext DEF LogInv
<1>2. \A r \in Recorders : Recorders = {r}
  <2>1. PICK p \in Recorders : Recorders = {p}
    BY DEF Alone
  <2> QED
    BY <2>1
<1>3. \A k \in Keys : Keys = {k}
  <2>1. PICK j \in Keys : Keys = {j}
    BY DEF OneKey
  <2> QED
    BY <2>1
<1> SUFFICES ASSUME NEW r \in Recorders, NEW k \in Keys, NEW w \in Windows
             PROVE  Amortised(r, k, w)'
  BY <1>1 DEF LogInv
<1>4. Recorders = {r} /\ Keys = {k} /\ Amortised(r, k, w)
  BY <1>2, <1>3 DEF LogInv
<1>5. ASSUME NEW q \in Requests, Serve(r, k, q) PROVE Amortised(r, k, w)'
  BY <1>4, <1>5, ServeLog
<1>6. ASSUME Deliver(r) PROVE Amortised(r, k, w)'
  <2>1. /\ answer[r] # NoEvent
        /\ answer' = [answer EXCEPT ![r] = NoEvent]
        /\ owed' = [owed EXCEPT ![r] = answer[r]]
        /\ UNCHANGED <<served, passive, restarts, resets>>
    BY <1>6 DEF Deliver, Begin
  <2>2. answer'[r] = NoEvent /\ owed'[r] = answer[r]
    BY <2>1 DEF LogInv, LogTyped, CalTyped, CalTypes
  <2>3. Unlogged(r) /\ Unlogged(r)' /\ Carried(r)' = Carried(r)
    BY <2>1, <2>2 DEF Unlogged, Carried
  <2> QED
    BY <1>4, <2>1, <2>3, AmortisedStays
<1>7. ASSUME WriteLine(r) PROVE Amortised(r, k, w)'
  BY <1>4, <1>7, LineLog
<1>8. ASSUME UNCHANGED <<served, answer, owed, passive, restarts, resets>> PROVE Amortised(r, k, w)'
  <2>1. Unlogged(r)' = Unlogged(r) /\ Carried(r)' = Carried(r)
    BY <1>8 DEF Unlogged, Carried
  <2> QED
    BY <1>4, <1>8, <2>1, AmortisedStays
<1>9. ASSUME Observe(r) PROVE Amortised(r, k, w)'
  BY <1>8, <1>9 DEF Observe, UpdateEstimates, history
<1>10. ASSUME OtherStep(r) PROVE Amortised(r, k, w)'
  <2>1. UNCHANGED <<served, answer, owed, passive, resets>>
    BY <1>10 DEF OtherStep, meter
  <2>2. UNCHANGED restarts
    BY <1>10 DEF OtherStep, AddCost, StoreGauges, ReadEstimates, OpenTruncated, WriteEstimates,
                 WriteFails, history
  <2> QED
    BY <1>8, <2>1, <2>2
<1>11. ASSUME NEW v \in Windows, Rollover(k, v) PROVE Amortised(r, k, w)'
  BY <1>11, RolloverLog
<1>12. Crash => Amortised(r, k, w)'
  BY CrashLog
<1>13. UNCHANGED calVars \/ CalFinished => Amortised(r, k, w)'
  BY <1>8 DEF CalFinished, Finished, calVars, vars, history, meter
<1>14. \A s \in Recorders : s = r
  BY <1>4
<1>15. \A j \in Keys : j = k
  BY <1>4
<1>16. \/ \E q \in Requests : Serve(r, k, q)
       \/ Deliver(r) \/ WriteLine(r) \/ Observe(r) \/ OtherStep(r)
       \/ \E v \in Windows : Rollover(k, v)
       \/ Crash \/ CalFinished \/ UNCHANGED calVars
  BY <1>14, <1>15, Zenon DEF CalNext
<1> QED
  BY <1>5, <1>6, <1>7, <1>9, <1>10, <1>11, <1>12, <1>13, <1>16

\* Where one organization's requests are recorded one after another, for any number of
\* them, of rollovers and of crashes, PassiveAmortised holds: what passive-report.py adds
\* up (passive-report.py:159-161) and the movement that it sees are paid for by one another,
\* but for a unit and a request in every stretch between rollovers.
THEOREM ReportAmortises == Alone /\ OneKey /\ CalSpec => []PassiveAmortised
<1>1. ASSUME Alone, OneKey, LogInv PROVE PassiveAmortised
  <2>1. PICK r \in Recorders : Recorders = {r}
    BY <1>1 DEF Alone
  <2>2. Cardinality(Recorders) = 1
    BY <2>1, FS_Singleton
  <2>3. PICK k \in Keys : TRUE
    BY <1>1 DEF OneKey
  <2> SUFFICES ASSUME NEW w \in Windows
               PROVE  LET charged == TickCost[w] * passive[w].moved
                      IN /\ charged - passive[w].cost
                              <= TickCost[w] - 1 + restarts * Cardinality(Recorders) * MaxCharge
                         /\ 5 * passive[w].cost
                              <= 8 * (charged + (1 + resets) * (TickCost[w] - 1 + MaxCharge))
    BY DEF PassiveAmortised
  <2>4. PICK x, p, b, h, t, m :
          /\ x = served[k][w] /\ p = passive[w] /\ b = Paid(w) /\ h = resets /\ t = TickCost[w]
          /\ m = MaxCharge
    OBVIOUS
  <2>5. x \in Nat /\ p \in Totals /\ b \in Nat /\ h \in Nat /\ t \in Nat \ {0} /\ m \in Nat \ {0}
    BY <1>1, <2>4, PaidIs DEF LogInv, LogTyped, CalTyped, CalTypes
  <2>6. PICK l : l = restarts * m
    OBVIOUS
  <2>7. l \in Nat /\ restarts * 1 * m = l /\ restarts \in Nat
    BY <1>1, <2>4, <2>6, PaidIs DEF LogInv, LogTyped
  <2>8. Amortised(r, k, w)
    BY <1>1 DEF LogInv
  <2>9. t * p.moved <= b
    BY <2>4, <2>5, <2>8, UnderBound DEF Amortised
  <2>10. 5 * p.cost <= 8 * (t * p.moved + (1 + h) * ((t - 1) + m))
    BY <2>4, <2>5, <2>8, OverBound DEF Amortised
  <2>11. PICK pm, c : pm = t * p.moved /\ c = p.cost
    OBVIOUS
  <2>12. pm \in Nat /\ c \in Nat
    BY <2>5, <2>11, TotalsAre
  <2>13. b = t - 1 + c + l
    BY <2>4, <2>6, <2>11 DEF Paid
  <2>14. pm - c <= t - 1 + l
    BY <2>5, <2>7, <2>9, <2>11, <2>12, <2>13
  <2>15. 5 * c <= 8 * (pm + (1 + h) * (t - 1 + m))
    BY <2>10, <2>11
  <2> QED
    BY <2>2, <2>4, <2>7, <2>11, <2>14, <2>15
<1>2. Alone /\ OneKey /\ LogInv /\ [CalNext]_calVars => LogInv'
  BY LogInvNext
<1>3. ASSUME Alone, OneKey PROVE CalSpec => []PassiveAmortised
  <2>1. CalInit => LogInv
    BY LogInvInit
  <2>2. LogInv /\ [CalNext]_calVars => LogInv'
    BY <1>2, <1>3
  <2>3. LogInv => PassiveAmortised
    BY <1>1, <1>3
  <2> QED
    BY <2>1, <2>2, <2>3, PTL DEF CalSpec
<1> QED
  BY <1>3
=============================================================================
