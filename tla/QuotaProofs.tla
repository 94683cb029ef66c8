----------------------------- MODULE QuotaProofs -----------------------------
(***************************************************************************)
(* What a measurement guarantees for every set of prices, every cost of a  *)
(* tick, every starting position, every number of requests, attempts,      *)
(* failures and iterations, and every behaviour of the upstream: the       *)
(* pairwise estimate of a faithful run is sound, its interval is in order  *)
(* and its steering safe; the driver gives up in time, gives the estimator *)
(* a faithful log, and fits its prompts to what single calls cost.         *)
(***************************************************************************)
EXTENDS QuotaDriver, Sums, SequenceTheorems, TLAPS

(***************************************************************************)
(* The estimate of a run (QuotaRun).                                       *)
(***************************************************************************)

\* The k-th percent was crossed between the two ends of the bracket: start is what
\* the upstream had charged when the measured cost was 0.
Positioned(c, start) ==
  /\ start + c.before < c.k * TickCost
  /\ c.k * TickCost <= start + c.after

AllPositioned(crossings, start) ==
  \A i \in 1 .. Len(crossings) : Positioned(crossings[i], start)

\* The upstream's position at the last row, when the run started at start.
At(start) == start + tally.measured

\* The requests in flight lead from the last row's position to the upstream's.
Chained(start) ==
  /\ inFlight = {} => served = At(start)
  /\ \A a, b \in inFlight : a.line = b.line => a = b
  /\ \A row \in inFlight :
       /\ row.bucket = Bucket(row.from + row.cost)
       /\ row.line <= requests
       /\ (\A other \in inFlight : row.line <= other.line) => row.from = At(start)
       /\ row.line = requests => served = row.from + row.cost
       /\ row.line < requests =>
            \E next \in inFlight : next.line = row.line + 1 /\ next.from = row.from + row.cost

\* The last bucket is the one of the last row's position, and every crossing lies
\* in its bracket.
Balanced(start) ==
  /\ tally.previous # NoBucket => tally.previous = Bucket(At(start))
  /\ tally.previous = NoBucket => tally.measured = 0 /\ tally.crossings = << >>
  /\ AllPositioned(tally.crossings, start)

RunInv == RunTypeOK /\ (faithful => \E start \in Nat : Chained(start) /\ Balanced(start))

-----------------------------------------------------------------------------
(* Arithmetic.                                                             *)

LEMMA DivBounds ==
  ASSUME NEW n \in Nat, NEW c \in Nat \ {0}
  PROVE  /\ n \div c \in Nat
         /\ c * (n \div c) <= n
         /\ n < c * (n \div c + 1)
  BY SMT

LEMMA TimesMonotone ==
  ASSUME NEW m \in Nat, NEW n \in Nat, NEW c \in Nat, m <= n
  PROVE  m * c <= n * c
  BY SMT

LEMMA TimesDistributes ==
  ASSUME NEW m \in Nat, NEW n \in Nat, NEW c \in Nat
  PROVE  (n - m) * c = n * c - m * c
  BY SMT

\* A percent between the bucket before and the bucket after lies between the
\* charges before and after.
LEMMA BetweenBuckets ==
  ASSUME NEW x \in Nat, NEW y \in Nat, NEW k \in Nat, Bucket(x) < k, k <= Bucket(y)
  PROVE  x < k * TickCost /\ k * TickCost <= y
<1> USE RunAssumption
<1>1. Bucket(x) \in Nat /\ x < TickCost * (Bucket(x) + 1)
  BY DivBounds DEF Bucket
<1>2. Bucket(y) \in Nat /\ TickCost * Bucket(y) <= y
  BY DivBounds DEF Bucket
<1>3. (Bucket(x) + 1) * TickCost <= k * TickCost
  BY <1>1, TimesMonotone
<1>4. k * TickCost <= Bucket(y) * TickCost
  BY <1>2, TimesMonotone
<1> QED BY <1>1, <1>2, <1>3, <1>4

-----------------------------------------------------------------------------
(* The estimator.                                                          *)

\* Two positioned crossings bound the cost of a tick, wherever the run started.
LEMMA PairBounds ==
  ASSUME NEW a \in Crossings, NEW b \in Crossings, NEW start \in Nat,
         Positioned(a, start), Positioned(b, start), b.k > a.k
  PROVE  LET p == Constraint(a, b)
         IN /\ p.lo \in Nat /\ p.hi \in Int /\ p.dk \in Nat
            /\ p.lo <= TickCost * p.dk
            /\ TickCost * p.dk <= p.hi
<1>1. TickCost \in Nat /\ a.k \in Nat /\ b.k \in Nat
  BY RunAssumption DEF Crossings
<1>2. (b.k - a.k) * TickCost = b.k * TickCost - a.k * TickCost
  BY <1>1, TimesDistributes
<1>3. TickCost * (b.k - a.k) = (b.k - a.k) * TickCost
  BY <1>1
<1>4. TickCost * (b.k - a.k) \in Nat /\ a.k * TickCost \in Nat /\ b.k * TickCost \in Nat
  BY <1>1
<1> QED BY <1>1, <1>2, <1>3, <1>4 DEF Constraint, Positioned, Crossings

\* Constraints that admit one cost of a tick do not contradict each other.
LEMMA AdmittedTogether ==
  ASSUME NEW tick \in Nat,
         NEW lo \in Nat, NEW dk \in Nat, NEW hi \in Int, NEW ek \in Nat,
         lo <= tick * dk, tick * ek <= hi
  PROVE  lo * ek <= hi * dk
<1>1. lo * ek <= (tick * dk) * ek
  BY TimesMonotone
<1>2. hi \in Nat
  BY SMT
<1>3. (tick * ek) * dk <= hi * dk
  BY <1>2, TimesMonotone
<1>4. (tick * dk) * ek = (tick * ek) * dk
  BY SMT
<1> QED BY <1>1, <1>2, <1>3, <1>4

\* What the invariant says of the crossings is what the two properties need.
LEMMA PositionedIsSound ==
  ASSUME RunTypeOK, NEW start \in Nat, AllPositioned(tally.crossings, start)
  PROVE  Sound /\ ~Disjoint(Constraints(tally.crossings))
<1> DEFINE cs == Constraints(tally.crossings)
<1>1. \A p \in cs : /\ p.lo \in Nat /\ p.hi \in Int /\ p.dk \in Nat
                    /\ p.lo <= TickCost * p.dk
                    /\ TickCost * p.dk <= p.hi
  <2> TAKE p \in cs
  <2>1. PICK ij \in Pairs(tally.crossings) :
          p = Constraint(tally.crossings[ij[1]], tally.crossings[ij[2]])
    BY DEF Constraints
  <2>2. /\ ij[1] \in 1 .. Len(tally.crossings) /\ ij[2] \in 1 .. Len(tally.crossings)
        /\ Paired(tally.crossings[ij[1]], tally.crossings[ij[2]])
    BY <2>1 DEF Pairs
  <2>3. tally.crossings[ij[1]] \in Crossings /\ tally.crossings[ij[2]] \in Crossings
    BY <2>2, ElementOfSeq DEF RunTypeOK, Tallies
  <2> HIDE DEF cs
  <2> QED BY <2>1, <2>2, <2>3, PairBounds DEF Paired, AllPositioned
<1>2. Sound
  BY <1>1 DEF Sound, Admits
<1>3. \A p, q \in cs : ~(p.lo * q.dk > q.hi * p.dk)
  <2> TAKE p, q \in cs
  <2> HIDE DEF cs
  <2>1. p.lo * q.dk <= q.hi * p.dk
    BY <1>1, AdmittedTogether, RunAssumption
  <2>2. p.lo * q.dk \in Int /\ q.hi * p.dk \in Int
    BY <1>1
  <2> QED BY <2>1, <2>2
<1>4. ~Disjoint(cs)
  BY <1>3 DEF Disjoint
<1> QED BY <1>2, <1>4

\* A function on an initial segment of the naturals is a sequence of that length.
LEMMA FunctionIsSeq ==
  ASSUME NEW S, NEW n \in Nat, NEW g \in [1 .. n -> S]
  PROVE  g \in Seq(S) /\ Len(g) = n
<1>1. g \in Seq(S)
  BY SeqDef, Zenon
<1>2. Len(g) \in Nat /\ DOMAIN g = 1 .. Len(g)
  BY <1>1, LenProperties
<1>3. DOMAIN g = 1 .. n
  OBVIOUS
<1> QED BY <1>1, <1>2, <1>3

\* What a row that moves the bucket adds: one crossing per percent, all with the
\* row's bracket.
Brackets(new, previous, bucket, low, high) ==
  /\ new \in Seq(Crossings)
  /\ Len(new) = bucket - previous
  /\ \A i \in 1 .. Len(new) : /\ new[i].k = previous + i
                              /\ new[i].before = low
                              /\ new[i].after = high

LEMMA CrossedBrackets ==
  ASSUME NEW previous \in Nat, NEW bucket \in Nat, NEW low \in Nat, NEW high \in Nat,
         NEW line \in Nat, bucket > previous
  PROVE  Brackets(Crossed(previous, bucket, low, high, line), previous, bucket, low, high)
<1> DEFINE n == bucket - previous
           f(i) == [k      |-> previous + i,
                    before |-> low,
                    after  |-> high,
                    group  |-> IF bucket - previous > 1 THEN line ELSE 0]
           new == Crossed(previous, bucket, low, high, line)
<1>1. n \in Nat /\ new = [i \in 1 .. n |-> f(i)]
  BY DEF Crossed
<1>2. \A i \in 1 .. n : f(i) \in Crossings
  BY DEF Crossings
<1>3. new \in [1 .. n -> Crossings]
  BY <1>1, <1>2
<1> HIDE DEF new
<1>4. new \in Seq(Crossings) /\ Len(new) = n
  BY <1>1, <1>3, FunctionIsSeq
<1>5. \A i \in 1 .. n : new[i] = f(i)
  BY <1>1
<1>6. \A i \in 1 .. n : f(i).k = previous + i /\ f(i).before = low /\ f(i).after = high
  OBVIOUS
<1>7. \A i \in 1 .. Len(new) : /\ new[i].k = previous + i
                               /\ new[i].before = low
                               /\ new[i].after = high
  BY <1>4, <1>5, <1>6
<1> QED BY <1>1, <1>4, <1>7 DEF new, Brackets

\* A tally stays a tally.
LEMMA TalliedType ==
  ASSUME NEW t \in Tallies, NEW cost \in Nat, NEW bucket \in Nat, NEW line \in Nat
  PROVE  Tallied(t, cost, bucket, line) \in Tallies
<1>1. CASE t.previous = NoBucket
  BY <1>1 DEF Tallied, Tallies
<1>2. CASE t.previous # NoBucket
  <2>1. t.previous \in Nat /\ t.measured \in Nat /\ t.measured + cost \in Nat
        /\ t.crossings \in Seq(Crossings)
    BY <1>2 DEF Tallies
  <2>2. CASE bucket > t.previous
    <3> DEFINE new == Crossed(t.previous, bucket, t.measured, t.measured + cost, line)
    <3>1. new \in Seq(Crossings)
      BY <2>1, <2>2, CrossedBrackets DEF Brackets
    <3>2. t.crossings \o new \in Seq(Crossings)
      BY <2>1, <3>1, ConcatProperties
    <3> QED BY <1>2, <2>1, <2>2, <3>2 DEF Tallied, Tallies
  <2>3. CASE ~(bucket > t.previous)
    BY <1>2, <2>1, <2>3 DEF Tallied, Tallies
  <2> QED BY <2>2, <2>3
<1> QED BY <1>1, <1>2

\* A row that accounts for what the upstream charged since the last one adds
\* positioned crossings only.
LEMMA TalliedPositions ==
  ASSUME NEW t \in Tallies, NEW row \in Rows, NEW start \in Nat,
         row.bucket = Bucket(start + t.measured + row.cost),
         t.previous = Bucket(start + t.measured),
         AllPositioned(t.crossings, start),
         t.previous # NoBucket
  PROVE  LET u == Tallied(t, row.cost, row.bucket, row.line)
         IN /\ u.previous = Bucket(start + u.measured)
            /\ u.measured = t.measured + row.cost
            /\ AllPositioned(u.crossings, start)
<1>0. PICK u, cost, bucket, line :
        /\ u = Tallied(t, cost, bucket, line)
        /\ cost = row.cost /\ bucket = row.bucket /\ line = row.line
  OBVIOUS
<1> DEFINE x == start + t.measured
           y == start + t.measured + cost
           new == Crossed(t.previous, bucket, t.measured, t.measured + cost, line)
<1>1. /\ t.measured \in Nat /\ t.measured + cost \in Nat /\ x \in Nat /\ y \in Nat
      /\ t.crossings \in Seq(Crossings) /\ start + (t.measured + cost) = y
      /\ cost \in Nat /\ line \in Nat
  <2>1. t.measured \in Nat /\ t.crossings \in Seq(Crossings)
    BY DEF Tallies
  <2>2. cost \in Nat /\ line \in Nat
    BY <1>0, RunAssumption DEF Rows
  <2> QED
    BY <2>1, <2>2
<1>2. bucket = Bucket(y) /\ bucket \in Nat /\ t.previous \in Nat
  BY <1>0, <1>1, DivBounds, RunAssumption DEF Bucket
<1>3. u.previous = bucket /\ u.measured = t.measured + cost
  BY <1>0 DEF Tallied
<1>4. AllPositioned(u.crossings, start)
  <2>1. CASE bucket > t.previous
    <3>1. Brackets(new, t.previous, bucket, t.measured, t.measured + cost)
      BY <1>1, <1>2, <2>1, CrossedBrackets
    <3>2. u.crossings = t.crossings \o new
      BY <1>0, <2>1 DEF Tallied
    <3>3. \A i \in 1 .. Len(new) : Positioned(new[i], start)
      <4> SUFFICES ASSUME NEW i \in 1 .. Len(new) PROVE Positioned(new[i], start)
        OBVIOUS
      <4>1. new[i].k \in Nat /\ Bucket(x) < new[i].k /\ new[i].k <= Bucket(y)
        BY <1>2, <2>1, <3>1 DEF Brackets
      <4>2. x < new[i].k * TickCost /\ new[i].k * TickCost <= y
        BY <1>1, <4>1, BetweenBuckets
      <4> QED BY <1>1, <3>1, <4>2 DEF Positioned, Brackets
    <3> HIDE DEF new
    <3>4. new \in Seq(Crossings)
      BY <3>1 DEF Brackets
    <3>5. /\ Len(u.crossings) = Len(t.crossings) + Len(new)
          /\ \A i \in 1 .. Len(t.crossings) + Len(new) :
               u.crossings[i] = IF i <= Len(t.crossings) THEN t.crossings[i]
                                                         ELSE new[i - Len(t.crossings)]
      <4> DEFINE c == t.crossings \o new
      <4>1. /\ Len(c) = Len(t.crossings) + Len(new)
            /\ \A i \in 1 .. Len(t.crossings) + Len(new) :
                 c[i] = IF i <= Len(t.crossings) THEN t.crossings[i]
                                                 ELSE new[i - Len(t.crossings)]
        BY <1>1, <3>4, ConcatProperties
      <4> QED BY <3>2, <4>1
    <3>6. Len(t.crossings) \in Nat /\ Len(new) \in Nat
      BY <1>1, <3>4, LenProperties
    <3> QED
      <4> SUFFICES ASSUME NEW i \in 1 .. Len(u.crossings)
                   PROVE  Positioned(u.crossings[i], start)
        BY DEF AllPositioned
      <4>1. CASE i <= Len(t.crossings)
        BY <3>5, <3>6, <4>1 DEF AllPositioned
      <4>2. CASE ~(i <= Len(t.crossings))
        <5>1. i - Len(t.crossings) \in 1 .. Len(new)
          BY <3>5, <3>6, <4>2
        <5>2. u.crossings[i] = new[i - Len(t.crossings)]
          BY <3>5, <3>6, <4>2
        <5> QED BY <3>3, <5>1, <5>2
      <4> QED BY <4>1, <4>2
  <2>2. CASE ~(bucket > t.previous)
    BY <1>0, <2>2 DEF Tallied
  <2> QED BY <2>1, <2>2
<1> QED BY <1>0, <1>1, <1>3, <1>4

-----------------------------------------------------------------------------
(* The invariant.                                                          *)

LEMMA RunTypeNext ==
  ASSUME RunTypeOK, [Next]_runVars
  PROVE  RunTypeOK'
<1>1. ASSUME NEW p \in Prices, Serve(p) PROVE RunTypeOK'
  <2>1. p \in Nat /\ served \in Nat /\ requests \in Nat /\ Bucket(served + p) \in Nat
    BY RunAssumption, DivBounds DEF RunTypeOK, Bucket
  <2> QED BY <1>1, <2>1 DEF Serve, RunTypeOK, Rows
<1>2. ASSUME NEW row \in inFlight, LogRow(row) PROVE RunTypeOK'
  <2>1. row.cost \in Nat /\ row.bucket \in Nat /\ row.line \in Nat /\ tally \in Tallies
    BY RunAssumption DEF RunTypeOK, Rows
  <2>2. tally' \in Tallies /\ faithful' \in BOOLEAN
    BY <1>2, <2>1, TalliedType DEF LogRow
  <2> QED BY <1>2, <2>2 DEF LogRow, RunTypeOK
<1>3. ASSUME NEW row \in inFlight, LogExcluded(row) PROVE RunTypeOK'
  <2>1. faithful' \in BOOLEAN
    BY <1>3, Zenon DEF LogExcluded
  <2> QED BY <1>3, <2>1 DEF LogExcluded, RunTypeOK
<1>4. ASSUME Rollover PROVE RunTypeOK'
  <2>1. faithful' \in BOOLEAN
    BY <1>4, Zenon DEF Rollover
  <2> QED BY <1>4, <2>1 DEF Rollover, RunTypeOK
<1>5. ASSUME UNCHANGED runVars PROVE RunTypeOK'
  BY <1>5 DEF runVars, RunTypeOK
<1> QED BY <1>1, <1>2, <1>3, <1>4, <1>5 DEF Next, Ended

LEMMA RunInvInit == Init => RunInv
<1> SUFFICES ASSUME Init PROVE RunInv
  OBVIOUS
<1>1. served \in Nat
  BY RunAssumption DEF Init
<1>2. RunTypeOK
  BY <1>1 DEF Init, RunTypeOK, NoTally, Tallies
<1>3. Chained(served) /\ Balanced(served)
  BY <1>1 DEF Init, Chained, Balanced, At, NoTally, AllPositioned
<1> QED BY <1>1, <1>2, <1>3 DEF RunInv

\* A new request continues the chain.
LEMMA ServePreserves ==
  ASSUME RunInv, NEW p \in Prices, Serve(p)
  PROVE  RunInv'
<1> DEFINE new == [line |-> requests + 1, cost |-> p,
                   bucket |-> Bucket(served + p), from |-> served]
<1>1. /\ p \in Nat /\ served \in Nat /\ requests \in Nat /\ Bucket(served + p) \in Nat
      /\ inFlight \subseteq Rows
  BY RunAssumption, DivBounds DEF RunInv, RunTypeOK, Bucket
<1>2. new \in Rows /\ inFlight' = inFlight \cup {new}
  BY <1>1 DEF Serve, Rows
<1>3. requests' = requests + 1 /\ served' = served + p /\ UNCHANGED <<tally, faithful>>
  BY DEF Serve
<1>4. RunTypeOK'
  BY <1>1, <1>2 DEF RunInv, RunTypeOK, Serve
<1>5. ASSUME faithful PROVE \E s \in Nat : Chained(s)' /\ Balanced(s)'
  <2>1. PICK start \in Nat : Chained(start) /\ Balanced(start)
    BY <1>5 DEF RunInv
  <2>2. \A row \in inFlight : row.line \in Nat /\ row.line <= requests /\ row.line < new.line
    BY <1>1, <2>1 DEF Chained, Rows
  <2>3. \A a, b \in inFlight' : a.line = b.line => a = b
    <3> SUFFICES ASSUME NEW a \in inFlight', NEW b \in inFlight', a.line = b.line
                 PROVE  a = b
      OBVIOUS
    <3> HIDE DEF new
    <3>1. CASE a \in inFlight /\ b \in inFlight
      BY <2>1, <3>1 DEF Chained
    <3>2. CASE a = new \/ b = new
      BY <1>1, <1>2, <2>2, <3>2 DEF Rows
    <3> QED BY <1>2, <3>1, <3>2
  <2>4. ASSUME NEW row \in inFlight, \A other \in inFlight' : row.line <= other.line
        PROVE  row.from = At(start)
    BY <1>2, <2>1, <2>4 DEF Chained
  <2>5. ASSUME \A other \in inFlight' : new.line <= other.line
        PROVE  served = At(start)
    <3>1. inFlight = {}
      BY <1>1, <1>2, <2>2, <2>5
    <3> QED BY <2>1, <3>1 DEF Chained
  <2>6. ASSUME NEW row \in inFlight
        PROVE  \E next \in inFlight' : next.line = row.line + 1 /\ next.from = row.from + row.cost
    <3>1. CASE row.line = requests
      <4>1. served = row.from + row.cost
        BY <2>1, <3>1 DEF Chained
      <4>2. new \in inFlight' /\ new.line = row.line + 1 /\ new.from = row.from + row.cost
        BY <1>2, <3>1, <4>1
      <4> QED BY <4>2
    <3>2. CASE row.line < requests
      BY <1>2, <2>1, <3>2 DEF Chained
    <3> QED BY <1>1, <2>2, <3>1, <3>2
  <2>7. Chained(start)'
    <3>1. ASSUME NEW row \in inFlight'
          PROVE  /\ row.bucket = Bucket(row.from + row.cost)
                 /\ row.line <= requests'
                 /\ (\A other \in inFlight' : row.line <= other.line) => row.from = At(start)
                 /\ row.line = requests' => served' = row.from + row.cost
                 /\ row.line < requests' =>
                      \E next \in inFlight' :
                        next.line = row.line + 1 /\ next.from = row.from + row.cost
      <4>1. CASE row \in inFlight
        <5>1. row.bucket = Bucket(row.from + row.cost) /\ row.line <= requests
          BY <2>1, <4>1 DEF Chained
        <5>2. row.line \in Nat /\ row.line <= requests' /\ row.line # requests'
          BY <1>1, <1>3, <2>2, <4>1
        <5> QED BY <2>4, <2>6, <4>1, <5>1, <5>2
      <4>2. CASE row = new
        <5>1. /\ row.bucket = Bucket(row.from + row.cost)
              /\ row.line = requests'
              /\ served' = row.from + row.cost
              /\ row.from = served
          BY <1>3, <4>2
        <5> QED BY <1>1, <1>3, <2>5, <4>2, <5>1
      <4> QED BY <1>2, <4>1, <4>2
    <3>2. inFlight' # {}
      BY <1>2
    <3> QED BY <1>3, <2>3, <3>1, <3>2 DEF Chained, At, Bucket
  <2>8. Balanced(start)'
    BY <1>3, <2>1 DEF Balanced, At, Bucket, Positioned, AllPositioned
  <2> QED BY <2>7, <2>8
<1> QED BY <1>3, <1>4, <1>5 DEF RunInv

\* The row of the oldest request in flight takes the tally to its position.
LEMMA OldestRowBalances ==
  ASSUME RunTypeOK, NEW row \in Rows, LogRow(row), NEW start \in Nat, Balanced(start),
         row.from = At(start), row.bucket = Bucket(row.from + row.cost)
  PROVE  \E s \in Nat : Balanced(s)' /\ At(s)' = row.from + row.cost
<1>1. /\ row.cost \in Nat /\ row.bucket \in Nat /\ row.line \in Nat
      /\ tally \in Tallies /\ tally.measured \in Nat
  BY RunAssumption DEF RunTypeOK, Rows, Tallies
<1>2. tally' = Tallied(tally, row.cost, row.bucket, row.line)
  BY DEF LogRow
<1>3. row.bucket = Bucket(start + tally.measured + row.cost)
  BY DEF At
<1>4. CASE tally.previous = NoBucket
  <2>1. tally.measured = 0 /\ tally.crossings = << >>
    BY <1>4 DEF Balanced
  <2>2. tally' = [tally EXCEPT !.previous = row.bucket]
    BY <1>2, <1>4 DEF Tallied
  <2>3. tally'.previous = row.bucket /\ tally'.measured = 0 /\ tally'.crossings = << >>
    BY <1>1, <2>1, <2>2 DEF Tallies
  <2>4. row.bucket # NoBucket
    BY <1>1, BucketAssumption
  <2>5. start + row.cost \in Nat /\ row.from + row.cost = start + row.cost + 0
        /\ row.bucket = Bucket(start + row.cost + 0)
    BY <1>1, <1>3, <2>1 DEF At
  <2>6. Balanced(start + row.cost)' /\ At(start + row.cost)' = row.from + row.cost
    BY <2>3, <2>4, <2>5 DEF Balanced, At, Bucket, AllPositioned
  <2> QED BY <2>5, <2>6
<1>5. CASE tally.previous # NoBucket
  <2>1. tally.previous = Bucket(start + tally.measured) /\ AllPositioned(tally.crossings, start)
    BY <1>5 DEF Balanced, At
  <2>2. /\ tally'.previous = Bucket(start + tally'.measured)
        /\ tally'.measured = tally.measured + row.cost
        /\ AllPositioned(tally'.crossings, start)
    BY <1>1, <1>2, <1>3, <1>5, <2>1, TalliedPositions
  <2>3. tally'.previous # NoBucket
    BY <1>1, <2>2, BucketAssumption, DivBounds, RunAssumption DEF Bucket
  <2>4. Balanced(start)'
    BY <2>2, <2>3 DEF Balanced, At, Bucket, Positioned, AllPositioned
  <2>5. At(start)' = row.from + row.cost
    BY <1>1, <2>2 DEF At
  <2> QED BY <2>4, <2>5
<1> QED BY <1>4, <1>5

LEMMA LogRowPreserves ==
  ASSUME RunInv, NEW row \in inFlight, LogRow(row)
  PROVE  RunInv'
<1>1. /\ row \in Rows /\ row.cost \in Nat /\ row.bucket \in Nat /\ row.line \in Nat
      /\ tally \in Tallies /\ inFlight \subseteq Rows /\ requests \in Nat
  BY RunAssumption DEF RunInv, RunTypeOK, Rows
<1>2. inFlight' = inFlight \ {row} /\ UNCHANGED <<served, requests>>
  BY DEF LogRow
<1>3. tally' \in Tallies /\ faithful' \in BOOLEAN
  BY <1>1, TalliedType DEF LogRow
<1>4. RunTypeOK'
  BY <1>2, <1>3 DEF RunInv, RunTypeOK, LogRow
<1>5. ASSUME faithful' PROVE \E s \in Nat : Chained(s)' /\ Balanced(s)'
  <2>1. faithful /\ \A other \in inFlight : row.line <= other.line
    BY <1>5 DEF LogRow
  <2>2. PICK start \in Nat : Chained(start) /\ Balanced(start)
    BY <2>1 DEF RunInv
  <2>3. row.from = At(start) /\ row.bucket = Bucket(row.from + row.cost)
    BY <2>1, <2>2 DEF Chained
  <2>4. PICK s \in Nat : Balanced(s)' /\ At(s)' = row.from + row.cost
    BY <1>1, <2>2, <2>3, OldestRowBalances DEF RunInv
  <2>5. \A other \in inFlight' : /\ other \in inFlight /\ other.line \in Nat
                                 /\ row.line < other.line /\ other.line <= requests
    <3> SUFFICES ASSUME NEW other \in inFlight'
                 PROVE  /\ other \in inFlight /\ other.line \in Nat
                        /\ row.line < other.line /\ other.line <= requests
      OBVIOUS
    <3>1. other \in inFlight /\ other # row
      BY <1>2
    <3>2. other.line # row.line /\ other.line <= requests
      BY <2>2, <3>1 DEF Chained
    <3>3. other.line \in Nat /\ row.line <= other.line
      BY <1>1, <2>1, <3>1 DEF Rows
    <3> QED BY <1>1, <3>1, <3>2, <3>3
  <2>6. ASSUME inFlight' = {} PROVE served' = At(s)'
    <3>1. ~(row.line < requests)
      <4> SUFFICES ASSUME row.line < requests PROVE FALSE
        OBVIOUS
      <4>1. PICK next \in inFlight : next.line = row.line + 1
        BY <2>2 DEF Chained
      <4>2. next # row
        BY <1>1, <4>1
      <4> QED BY <1>2, <2>6, <4>2
    <3>2. row.line = requests
      BY <1>1, <2>2, <3>1 DEF Chained
    <3> QED BY <1>2, <2>2, <2>4, <3>2 DEF Chained
  <2>7. ASSUME NEW other \in inFlight', \A third \in inFlight' : other.line <= third.line
        PROVE  other.from = At(s)'
    <3>1. row.line < requests
      BY <1>1, <2>5
    <3>2. PICK next \in inFlight : next.line = row.line + 1 /\ next.from = row.from + row.cost
      BY <2>2, <3>1 DEF Chained
    <3>3. next \in inFlight'
      BY <1>1, <1>2, <3>2
    <3>4. other.line = next.line
      BY <1>1, <2>5, <2>7, <3>2, <3>3
    <3>5. other = next
      BY <2>2, <2>5, <3>2, <3>4 DEF Chained
    <3> QED BY <2>4, <3>2, <3>5
  <2>8. ASSUME NEW other \in inFlight', other.line < requests
        PROVE  \E next \in inFlight' :
                 next.line = other.line + 1 /\ next.from = other.from + other.cost
    <3>1. PICK next \in inFlight : next.line = other.line + 1
                                   /\ next.from = other.from + other.cost
      BY <2>2, <2>5, <2>8 DEF Chained
    <3>2. next # row
      BY <1>1, <2>5, <3>1
    <3> QED BY <1>2, <3>1, <3>2
  <2>9. ASSUME NEW other \in inFlight'
        PROVE  /\ other.bucket = Bucket(other.from + other.cost)
               /\ other.line <= requests
               /\ other.line = requests => served = other.from + other.cost
    BY <2>2, <2>5 DEF Chained
  <2>10. \A a, b \in inFlight' : a.line = b.line => a = b
    BY <2>2, <2>5 DEF Chained
  <2>11. Chained(s)'
    BY <1>2, <2>6, <2>7, <2>8, <2>9, <2>10 DEF Chained, Bucket
  <2> QED BY <2>4, <2>11
<1> QED BY <1>4, <1>5 DEF RunInv

LEMMA RunInvNext ==
  ASSUME RunInv, [Next]_runVars
  PROVE  RunInv'
<1>1. RunTypeOK'
  BY RunTypeNext DEF RunInv
<1>2. ASSUME NEW p \in Prices, Serve(p) PROVE RunInv'
  BY <1>2, ServePreserves
<1>3. ASSUME NEW row \in inFlight, LogRow(row) PROVE RunInv'
  BY <1>3, LogRowPreserves
<1>4. ASSUME (\E row \in inFlight : LogExcluded(row)) \/ Rollover PROVE RunInv'
  <2>1. faithful' = FALSE
    BY <1>4 DEF LogExcluded, Rollover
  <2> QED BY <1>1, <2>1, Zenon DEF RunInv
<1>5. ASSUME UNCHANGED runVars PROVE RunInv'
  BY <1>5 DEF runVars, RunInv, RunTypeOK, Chained, Balanced, At, Bucket, Positioned,
              AllPositioned
<1> QED BY <1>1, <1>2, <1>3, <1>4, <1>5 DEF Next, Ended

\* Every run keeps RunInv.
THEOREM RunInductive == RunSpec => []RunInv
<1>1. Init => RunInv
  BY RunInvInit
<1>2. RunInv /\ [Next]_runVars => RunInv'
  BY RunInvNext
<1> QED BY <1>1, <1>2, PTL DEF RunSpec

\* The interval a faithful run reports contains the true cost of a tick: pairing two
\* crossings does cancel the usage from before the run (estimate_interval), for any
\* number of requests in flight, and the pairs never contradict each other.
THEOREM EstimateIsSound == RunSpec => []IntervalSound
<1>1. RunInv => IntervalSound
  BY PositionedIsSound DEF RunInv, Balanced, IntervalSound
<1> QED BY <1>1, RunInductive, PTL

-----------------------------------------------------------------------------
(* The steering.                                                           *)

\* The last crossing is of the last row's percent.
Led(t) == t.crossings # << >> => Last(t.crossings).k = t.previous

SteerInv == RunInv /\ (faithful => Led(tally))

LEMMA BucketMonotone ==
  ASSUME NEW x \in Nat, NEW y \in Nat, x <= y
  PROVE  Bucket(x) \in Nat /\ Bucket(y) \in Nat /\ Bucket(x) <= Bucket(y)
<1> USE RunAssumption
<1>1. Bucket(x) \in Nat /\ TickCost * Bucket(x) <= x
  BY DivBounds DEF Bucket
<1>2. Bucket(y) \in Nat /\ y < TickCost * (Bucket(y) + 1)
  BY DivBounds DEF Bucket
<1>3. SUFFICES ASSUME Bucket(y) + 1 <= Bucket(x) PROVE FALSE
  BY <1>1, <1>2
<1>4. (Bucket(y) + 1) * TickCost <= Bucket(x) * TickCost
  BY <1>1, <1>2, <1>3, TimesMonotone
<1> QED BY <1>1, <1>2, <1>4

\* A row that does not lower the percent leaves the last crossing at it.
LEMMA TalliedLeads ==
  ASSUME NEW t \in Tallies, NEW cost \in Nat, NEW bucket \in Nat, NEW line \in Nat,
         Led(t), t.previous = NoBucket => t.crossings = << >>,
         t.previous # NoBucket => t.previous <= bucket
  PROVE  Led(Tallied(t, cost, bucket, line))
<1> DEFINE new == Crossed(t.previous, bucket, t.measured, t.measured + cost, line)
<1>1. t.measured \in Nat /\ t.measured + cost \in Nat /\ t.crossings \in Seq(Crossings)
  BY DEF Tallies
<1>2. CASE t.previous = NoBucket
  BY <1>1, <1>2 DEF Tallied, Led, Tallies
<1>3. CASE t.previous # NoBucket /\ ~(bucket > t.previous)
  <2>1. t.previous = bucket
    BY <1>3 DEF Tallies
  <2> QED BY <1>3, <2>1 DEF Tallied, Led
<1>4. CASE t.previous # NoBucket /\ bucket > t.previous
  <2>1. t.previous \in Nat
    BY <1>4 DEF Tallies
  <2>2. Brackets(new, t.previous, bucket, t.measured, t.measured + cost)
    BY <1>1, <1>4, <2>1, CrossedBrackets
  <2> HIDE DEF new
  <2>3. /\ new \in Seq(Crossings) /\ Len(new) = bucket - t.previous /\ Len(new) \in Nat \ {0}
        /\ Len(t.crossings) \in Nat
    BY <1>1, <1>4, <2>1, <2>2, LenProperties DEF Brackets
  <2> DEFINE c == t.crossings \o new
             m == Len(t.crossings)
  <2>4. Len(c) = m + Len(new) /\ c[Len(c)] = new[Len(new)]
    <3>1. /\ Len(c) = m + Len(new)
          /\ \A i \in 1 .. m + Len(new) : c[i] = IF i <= m THEN t.crossings[i] ELSE new[i - m]
      <4>1. t.crossings \in Seq(Crossings) /\ new \in Seq(Crossings)
        BY <1>1, <2>3
      <4> QED BY <4>1, ConcatProperties
    <3> HIDE DEF c, m
    <3>2. m \in Nat /\ Len(new) \in Nat \ {0}
      BY <2>3 DEF m
    <3>3. Len(c) \in 1 .. m + Len(new) /\ ~(Len(c) <= m) /\ Len(c) - m = Len(new)
      BY <3>1, <3>2
    <3> QED BY <3>1, <3>3
  <2>5. new[Len(new)].k = bucket
    <3>1. Len(new) \in 1 .. Len(new)
      BY <2>3
    <3>2. new[Len(new)].k = t.previous + Len(new)
      BY <2>2, <3>1 DEF Brackets
    <3> QED BY <2>1, <2>3, <3>2
  <2>6. /\ Tallied(t, cost, bucket, line).previous = bucket
        /\ Tallied(t, cost, bucket, line).crossings = t.crossings \o new
    BY <1>4 DEF Tallied, new
  <2> QED BY <2>4, <2>5, <2>6 DEF Led, Last
<1> QED BY <1>2, <1>3, <1>4

LEMMA SteerInvNext ==
  ASSUME SteerInv, [Next]_runVars
  PROVE  SteerInv'
<1>1. RunInv'
  BY RunInvNext DEF SteerInv
<1>2. ASSUME NEW row \in inFlight, LogRow(row), faithful' PROVE Led(tally')
  <2>1. faithful /\ (\A other \in inFlight : row.line <= other.line)
    BY <1>2 DEF LogRow
  <2>2. PICK start \in Nat : Chained(start) /\ Balanced(start)
    BY <2>1 DEF SteerInv, RunInv
  <2>3. row.from = At(start) /\ row.bucket = Bucket(row.from + row.cost)
    BY <2>1, <2>2 DEF Chained
  <2>4. /\ row.cost \in Nat /\ row.bucket \in Nat /\ row.line \in Nat
        /\ tally \in Tallies /\ At(start) \in Nat
    <3>1. row \in Rows /\ tally \in Tallies
      BY DEF SteerInv, RunInv, RunTypeOK
    <3>2. tally.measured \in Nat
      BY <3>1 DEF Tallies
    <3>3. row.cost \in Nat /\ row.bucket \in Nat /\ row.line \in Nat
      BY <3>1, RunAssumption DEF Rows
    <3> QED BY <3>1, <3>2, <3>3 DEF At
  <2>5. Bucket(At(start)) <= row.bucket
    BY <2>3, <2>4, BucketMonotone
  <2>6. Led(tally)
    BY <2>1 DEF SteerInv
  <2>7. Led(Tallied(tally, row.cost, row.bucket, row.line))
    BY <2>2, <2>4, <2>5, <2>6, TalliedLeads DEF Balanced
  <2> QED BY <1>2, <2>7 DEF LogRow
<1>3. ASSUME UNCHANGED <<tally, faithful>>, faithful' PROVE Led(tally')
  BY <1>3 DEF SteerInv, Led
<1>4. ASSUME faithful' PROVE Led(tally')
  BY <1>2, <1>3, <1>4 DEF Next, Ended, Serve, LogExcluded, Rollover, runVars
<1> QED BY <1>1, <1>4 DEF SteerInv, Led, Last

LEMMA DivMod ==
  ASSUME NEW n \in Nat, NEW c \in Nat \ {0}
  PROVE  /\ n % c \in Nat /\ n % c < c
         /\ n = c * (n \div c) + (n % c)
         /\ n \div c \in Nat
  BY SMT

\* Where the next percent is, in the upstream's units.
LEMMA NextBoundaryAt ==
  ASSUME NEW start \in Nat, RunTypeOK, served = At(start)
  PROVE  /\ NextBoundary = Bucket(served) * TickCost + TickCost - start
         /\ tally.measured < NextBoundary
<1>1. tally.measured \in Nat /\ served \in Nat /\ served = start + tally.measured
  BY DEF RunTypeOK, Tallies, At
<1>2. /\ served % TickCost \in Nat /\ served % TickCost < TickCost
      /\ served = TickCost * (served \div TickCost) + (served % TickCost)
      /\ served \div TickCost \in Nat
  BY <1>1, RunAssumption, DivMod
<1>3. /\ TickCost \in Nat /\ Bucket(served) * TickCost \in Nat
      /\ Bucket(served) * TickCost = TickCost * (served \div TickCost)
  BY <1>2, RunAssumption DEF Bucket
<1> DEFINE whole == Bucket(served) * TickCost
           rest  == served % TickCost
<1>4. /\ NextBoundary = tally.measured + (TickCost - rest)
      /\ served = whole + rest /\ whole \in Nat /\ rest \in Nat /\ rest < TickCost
  BY <1>2, <1>3 DEF NextBoundary
<1>5. TickCost \in Nat
  BY RunAssumption
<1> HIDE DEF whole, rest
<1>6. start + tally.measured = whole + rest
  BY <1>1, <1>4
<1>7. NextBoundary = whole + TickCost - start /\ tally.measured < NextBoundary
  BY <1>1, <1>4, <1>5, <1>6
<1> QED BY <1>7 DEF whole

\* A constraint that admits the tick holds for what is at least or at most a tick away.
LEMMA Nearer ==
  ASSUME NEW tick \in Nat, NEW dk \in Nat, NEW lo \in Nat, NEW hi \in Int,
         lo <= tick * dk, tick * dk <= hi,
         NEW far \in Int, NEW near \in Int, tick <= far, near <= tick
  PROVE  lo <= far * dk /\ near * dk <= hi
<1>1. far * dk = tick * dk + (far - tick) * dk /\ (far - tick) * dk \in Nat
  BY SMT
<1>2. near * dk = tick * dk - (tick - near) * dk /\ (tick - near) * dk \in Nat
  BY SMT
<1>3. tick * dk \in Nat /\ far * dk \in Int /\ near * dk \in Int
  BY SMT
<1> QED BY <1>1, <1>2, <1>3

\* Nine tenths of less than a distance are less than the distance.
LEMMA Undershoot ==
  ASSUME NEW tick \in Nat, NEW dk \in Nat \ {0}, NEW lo \in Nat, lo <= tick * dk,
         NEW gone \in Int, NEW stride \in Nat \ {0}, tick - gone < stride
  PROVE  ~(10 * stride * dk <= 9 * (lo - gone * dk))
<1>1. (tick - gone) * dk = tick * dk - gone * dk /\ tick * dk \in Nat /\ gone * dk \in Int
  BY SMT
<1>2. stride * dk = (tick - gone) * dk + (stride - (tick - gone)) * dk
      /\ (stride - (tick - gone)) * dk \in Nat /\ (tick - gone) * dk \in Int
  BY SMT
<1>3. stride * dk \in Nat /\ stride * dk >= 1 /\ 10 * stride * dk = 10 * (stride * dk)
  BY SMT
<1> QED BY <1>1, <1>2, <1>3

\* The driver knows where the next percent is, and never jumps it in a bulk step, in
\* every faithful run.
THEOREM SteeringIsSafe == RunSpec => []BoundaryForeseen
<1>1. Init => SteerInv
  BY RunInvInit DEF SteerInv, Init, NoTally, Led
<1>2. SteerInv /\ [Next]_runVars => SteerInv'
  BY SteerInvNext
<1>3. SteerInv => BoundaryForeseen
  <2> SUFFICES ASSUME SteerInv, faithful, inFlight = {},
                      Estimated(Constraints(tally.crossings))
               PROVE  /\ InWindow(tally.crossings, Constraints(tally.crossings), NextBoundary)
                      /\ ~InBulk(tally.crossings, Constraints(tally.crossings),
                                 tally.measured, NextBoundary - tally.measured)
    BY DEF BoundaryForeseen
  <2> DEFINE cs == Constraints(tally.crossings)
             last == Last(tally.crossings)
  <2>1. PICK start \in Nat : Chained(start) /\ Balanced(start)
    BY DEF SteerInv, RunInv
  <2>2. /\ served = At(start) /\ tally \in Tallies /\ tally.measured \in Nat
        /\ tally.crossings \in Seq(Crossings) /\ RunTypeOK /\ TickCost \in Nat \ {0}
    BY <2>1, RunAssumption DEF Chained, SteerInv, RunInv, RunTypeOK, Tallies
  <2>3. PICK ij \in Pairs(tally.crossings) : TRUE
    BY DEF Estimated, Constraints
  <2>4. Len(tally.crossings) \in Nat \ {0} /\ tally.crossings # << >>
    BY <2>2, <2>3, LenProperties DEF Pairs
  <2>5. last \in Crossings /\ Positioned(last, start)
    BY <2>1, <2>2, <2>4, ElementOfSeq DEF Last, Balanced, AllPositioned
  <2>6. last.k = Bucket(served)
    BY <2>1, <2>2, <2>4 DEF SteerInv, Led, Balanced
  <2>7. \A p \in cs : /\ p.lo \in Nat /\ p.hi \in Int /\ p.dk \in Nat \ {0}
                      /\ p.lo <= TickCost * p.dk
                      /\ TickCost * p.dk <= p.hi
    <3> TAKE p \in cs
    <3>1. PICK pr \in Pairs(tally.crossings) :
            p = Constraint(tally.crossings[pr[1]], tally.crossings[pr[2]])
      BY DEF Constraints
    <3>2. /\ pr[1] \in 1 .. Len(tally.crossings) /\ pr[2] \in 1 .. Len(tally.crossings)
          /\ Paired(tally.crossings[pr[1]], tally.crossings[pr[2]])
      BY <3>1 DEF Pairs
    <3>3. tally.crossings[pr[1]] \in Crossings /\ tally.crossings[pr[2]] \in Crossings
      BY <2>2, <3>2, ElementOfSeq
    <3>4. p.dk # 0
      <4>1. PICK a, b \in Crossings : p = Constraint(a, b) /\ b.k > a.k
        BY <3>1, <3>2, <3>3 DEF Paired
      <4> QED BY <4>1 DEF Constraint, Crossings
    <3>5. /\ Positioned(tally.crossings[pr[1]], start)
          /\ Positioned(tally.crossings[pr[2]], start)
      BY <2>1, <3>2 DEF Balanced, AllPositioned
    <3> HIDE DEF cs
    <3> QED BY <3>1, <3>2, <3>3, <3>4, <3>5, PairBounds DEF Paired
  <2>8. /\ NextBoundary = last.k * TickCost + TickCost - start
        /\ tally.measured < NextBoundary
    BY <2>2, <2>6, NextBoundaryAt
  <2>9. /\ last.k \in Nat /\ last.before \in Nat /\ last.after \in Nat
        /\ last.k * TickCost \in Nat
        /\ start + last.before < last.k * TickCost
        /\ last.k * TickCost <= start + last.after
    BY <2>2, <2>5 DEF Crossings, Positioned
  <2> HIDE DEF cs, last
  <2>10. /\ NextBoundary \in Int
         /\ TickCost <= NextBoundary - last.before
         /\ NextBoundary - last.after <= TickCost
         /\ NextBoundary - tally.measured \in Nat \ {0}
         /\ TickCost - (tally.measured - last.before) < NextBoundary - tally.measured
    <3>1. PICK kt \in Nat : kt = last.k * TickCost
      BY <2>9
    <3>2. NextBoundary = kt + TickCost - start /\ start + last.before < kt /\ kt <= start + last.after
      BY <2>8, <2>9, <3>1
    <3>3. TickCost \in Nat /\ tally.measured \in Nat
      BY <2>2
    <3> QED BY <2>8, <2>9, <3>2, <3>3
  <2>11. ASSUME NEW p \in cs
         PROVE  /\ p.lo <= (NextBoundary - last.before) * p.dk
                /\ (NextBoundary - last.after) * p.dk <= p.hi
    <3>1. PICK far, near \in Int : far = NextBoundary - last.before /\ near = NextBoundary - last.after
      BY <2>9, <2>10
    <3>2. /\ p.lo \in Nat /\ p.hi \in Int /\ p.dk \in Nat /\ TickCost \in Nat
          /\ p.lo <= TickCost * p.dk /\ TickCost * p.dk <= p.hi
      BY <2>2, <2>7
    <3>3. TickCost <= far /\ near <= TickCost
      BY <2>10, <3>1
    <3>4. p.lo <= far * p.dk /\ near * p.dk <= p.hi
      BY <3>2, <3>3, Nearer
    <3> QED BY <3>1, <3>4
  <2>12. ASSUME NEW p \in cs
         PROVE  ~(10 * (NextBoundary - tally.measured) * p.dk
                    <= 9 * (p.lo - (tally.measured - last.before) * p.dk))
    <3>1. PICK gone \in Int : gone = tally.measured - last.before
      BY <2>2, <2>9
    <3>2. PICK ahead \in Nat \ {0} : ahead = NextBoundary - tally.measured
      BY <2>10
    <3>3. ~(10 * ahead * p.dk <= 9 * (p.lo - gone * p.dk))
      BY <2>2, <2>7, <2>10, <3>1, <3>2, Undershoot
    <3>4. 10 * (NextBoundary - tally.measured) * p.dk = 10 * ahead * p.dk
      BY <3>2
    <3>5. (tally.measured - last.before) * p.dk = gone * p.dk
      BY <3>1
    <3> QED BY <3>3, <3>4, <3>5
  <2> QED BY <2>11, <2>12 DEF InWindow, InBulk, cs, last
<1> QED BY <1>1, <1>2, <1>3, PTL DEF RunSpec
-----------------------------------------------------------------------------
(* The order of the crossings.                                             *)

\* The crossings stand in the order in which their brackets open, every bracket has its
\* ends in order, and none of them reaches past what is measured.
InOrder(t) ==
  /\ \A i \in 1 .. Len(t.crossings) :
       t.crossings[i].before <= t.crossings[i].after /\ t.crossings[i].after <= t.measured
  /\ \A i, j \in 1 .. Len(t.crossings) :
       i < j => t.crossings[i].before <= t.crossings[j].before

\* A row keeps the order, whatever its percent is: the measured cost never falls.
LEMMA TalliedInOrder ==
  ASSUME NEW t \in Tallies, NEW cost \in Nat, NEW bucket \in Nat, NEW line \in Nat,
         InOrder(t)
  PROVE  InOrder(Tallied(t, cost, bucket, line))
<1> DEFINE after == t.measured + cost
           new == Crossed(t.previous, bucket, t.measured, after, line)
           u == Tallied(t, cost, bucket, line)
           m == Len(t.crossings)
<1>1. /\ t.measured \in Nat /\ after \in Nat /\ t.crossings \in Seq(Crossings) /\ m \in Nat
      /\ \A i \in 1 .. m : t.crossings[i].before \in Nat /\ t.crossings[i].after \in Nat
  <2>1. t.measured \in Nat /\ t.crossings \in Seq(Crossings)
    BY DEF Tallies
  <2>2. \A i \in 1 .. m : t.crossings[i] \in Crossings
    BY <2>1, ElementOfSeq
  <2>3. m \in Nat
    BY <2>1, LenProperties
  <2>4. \A c \in Crossings : c.before \in Nat /\ c.after \in Nat
    BY DEF Crossings
  <2>5. \A i \in 1 .. m : t.crossings[i].before \in Nat /\ t.crossings[i].after \in Nat
    BY <2>2, <2>4
  <2>6. after \in Nat
    BY <2>1
  <2> QED BY <2>1, <2>3, <2>5, <2>6
<1>2. CASE t.previous = NoBucket
  BY <1>2 DEF Tallied, InOrder, Tallies
<1>3. CASE t.previous # NoBucket /\ ~(bucket > t.previous)
  <2>1. u.crossings = t.crossings /\ u.measured = after
    BY <1>3 DEF Tallied
  <2> HIDE DEF u
  <2>2. t.measured <= after
    BY <1>1
  <2> HIDE DEF after
  <2>3. InOrder(u)
    BY <1>1, <2>1, <2>2 DEF InOrder
  <2> QED BY <2>3 DEF u
<1>4. CASE t.previous # NoBucket /\ bucket > t.previous
  <2>1. t.previous \in Nat
    BY <1>4 DEF Tallies
  <2>2. Brackets(new, t.previous, bucket, t.measured, after)
    BY <1>1, <1>4, <2>1, CrossedBrackets
  <2>3. u.crossings = t.crossings \o new /\ u.measured = after
    BY <1>4 DEF Tallied
  <2>4. t.measured <= after
    BY <1>1
  <2> HIDE DEF new, u, after
  <2>5. /\ new \in Seq(Crossings) /\ Len(new) \in Nat
        /\ \A i \in 1 .. Len(new) : new[i].before = t.measured /\ new[i].after = after
    BY <2>2, LenProperties DEF Brackets
  <2>6. /\ Len(u.crossings) = m + Len(new)
        /\ \A i \in 1 .. m + Len(new) :
             u.crossings[i] = IF i <= m THEN t.crossings[i] ELSE new[i - m]
    <3>1. t.crossings \in Seq(Crossings) /\ new \in Seq(Crossings)
      BY <1>1, <2>5
    <3> QED BY <2>3, <3>1, ConcatProperties
  <2> HIDE DEF m
  <2>7. \A i \in 1 .. Len(u.crossings) :
          \/ i \in 1 .. m /\ u.crossings[i] = t.crossings[i]
          \/ /\ i > m
             /\ u.crossings[i].before = t.measured /\ u.crossings[i].after = after
    <3> TAKE i \in 1 .. Len(u.crossings)
    <3>1. CASE i <= m
      BY <1>1, <2>5, <2>6, <3>1
    <3>2. CASE ~(i <= m)
      <4>1. i - m \in 1 .. Len(new) /\ u.crossings[i] = new[i - m] /\ i > m
        BY <1>1, <2>5, <2>6, <3>2
      <4> QED BY <2>5, <4>1
    <3> QED BY <3>1, <3>2
  <2>8. /\ \A i \in 1 .. m : /\ t.crossings[i].before <= t.crossings[i].after
                             /\ t.crossings[i].after <= t.measured
        /\ \A i, j \in 1 .. m : i < j => t.crossings[i].before <= t.crossings[j].before
    BY DEF InOrder, m
  <2>9. \A i \in 1 .. Len(u.crossings) :
          u.crossings[i].before <= u.crossings[i].after /\ u.crossings[i].after <= u.measured
    <3> TAKE i \in 1 .. Len(u.crossings)
    <3>1. CASE i \in 1 .. m /\ u.crossings[i] = t.crossings[i]
      <4>1. t.crossings[i].before <= t.crossings[i].after /\ t.crossings[i].after <= t.measured
        BY <2>8, <3>1
      <4>2. t.crossings[i].after \in Nat
        BY <1>1, <3>1
      <4>3. t.crossings[i].after <= after
        BY <1>1, <2>4, <4>1, <4>2
      <4> QED BY <2>3, <3>1, <4>1, <4>3
    <3>2. CASE u.crossings[i].before = t.measured /\ u.crossings[i].after = after
      BY <1>1, <2>3, <2>4, <3>2
    <3> QED BY <2>7, <3>1, <3>2
  <2>10. ASSUME NEW i \in 1 .. Len(u.crossings), NEW j \in 1 .. Len(u.crossings), i < j
         PROVE  u.crossings[i].before <= u.crossings[j].before
    <3>1. Len(u.crossings) \in Nat
      BY <1>1, <2>5, <2>6
    <3>2. CASE i \in 1 .. m /\ j \in 1 .. m
      <4>0. ~(i > m) /\ ~(j > m)
        BY <1>1, <3>2
      <4>1. u.crossings[i] = t.crossings[i] /\ u.crossings[j] = t.crossings[j]
        BY <2>7, <4>0
      <4>2. t.crossings[i].before <= t.crossings[j].before
        BY <2>8, <2>10, <3>2
      <4> QED BY <4>1, <4>2
    <3>3. CASE i \in 1 .. m /\ j > m
      <4>1. u.crossings[i] = t.crossings[i]
        BY <2>7, <3>3, <1>1
      <4>2. u.crossings[j].before = t.measured
        BY <2>7, <3>3, <1>1
      <4>3. PICK b, a \in Nat : b = t.crossings[i].before /\ a = t.crossings[i].after
        BY <1>1, <3>3
      <4>4. b <= a /\ a <= t.measured
        BY <2>8, <3>3, <4>3
      <4>5. b <= t.measured
        BY <1>1, <4>4
      <4> QED BY <4>1, <4>2, <4>3, <4>5
    <3>4. CASE i > m
      <4>1. j > m
        BY <1>1, <2>10, <3>1, <3>4
      <4>2. u.crossings[i].before = t.measured /\ u.crossings[j].before = t.measured
        BY <1>1, <2>7, <3>4, <4>1
      <4> QED BY <1>1, <4>2
    <3> QED BY <1>1, <2>7, <3>1, <3>2, <3>3, <3>4
  <2>11. InOrder(u)
    BY <2>9, <2>10 DEF InOrder
  <2> QED BY <2>11 DEF u
<1> QED BY <1>2, <1>3, <1>4

\* Two crossings in order make an interval with its bounds in order.
LEMMA PairInOrder ==
  ASSUME NEW a \in Crossings, NEW b \in Crossings,
         a.before <= a.after, b.before <= b.after, a.before <= b.before
  PROVE  Ordered(Constraint(a, b))
<1>1. /\ a.before \in Nat /\ a.after \in Nat /\ b.before \in Nat /\ b.after \in Nat
      /\ Constraint(a, b).lo = IF b.before > a.after THEN b.before - a.after ELSE 0
      /\ Constraint(a, b).hi = b.after - a.before
  BY DEF Crossings, Constraint
<1> QED BY <1>1 DEF Ordered

OrderInv == RunTypeOK /\ InOrder(tally)

LEMMA OrderInvNext ==
  ASSUME OrderInv, [Next]_runVars
  PROVE  OrderInv'
<1>1. RunTypeOK'
  BY RunTypeNext DEF OrderInv
<1>2. ASSUME NEW row \in inFlight, LogRow(row) PROVE InOrder(tally')
  <2>1. row.cost \in Nat /\ row.bucket \in Nat /\ row.line \in Nat /\ tally \in Tallies
    BY RunAssumption DEF OrderInv, RunTypeOK, Rows
  <2> QED BY <1>2, <2>1, TalliedInOrder DEF LogRow, OrderInv
<1>3. ASSUME UNCHANGED tally PROVE InOrder(tally')
  BY <1>3 DEF OrderInv
<1>4. InOrder(tally')
  BY <1>2, <1>3 DEF Next, Ended, Serve, LogExcluded, Rollover, runVars
<1> QED BY <1>1, <1>4 DEF OrderInv, InOrder

\* The constructor of Interval never raises on a pair of crossings, so no row ends a
\* measurement this way: not after a rollover, a broken answer or an overtaken row,
\* where the run is no longer faithful and its estimate is worth nothing.
THEOREM PairsMakeIntervals == RunSpec => []PairsAreIntervals
<1>1. Init => OrderInv
  <2> SUFFICES ASSUME Init PROVE OrderInv
    OBVIOUS
  <2>1. RunTypeOK
    BY RunInvInit DEF RunInv
  <2> QED BY <2>1 DEF Init, OrderInv, InOrder, NoTally
<1>2. OrderInv /\ [Next]_runVars => OrderInv'
  BY OrderInvNext
<1>3. OrderInv => PairsAreIntervals
  <2> SUFFICES ASSUME OrderInv, NEW p \in Constraints(tally.crossings) PROVE Ordered(p)
    BY DEF PairsAreIntervals
  <2> DEFINE c == tally.crossings
  <2>1. PICK ij \in Pairs(c) : p = Constraint(c[ij[1]], c[ij[2]])
    BY DEF Constraints
  <2>2. ij[1] \in 1 .. Len(c) /\ ij[2] \in 1 .. Len(c) /\ ij[1] < ij[2]
    BY DEF Pairs
  <2>3. c[ij[1]] \in Crossings /\ c[ij[2]] \in Crossings
    <3>1. c \in Seq(Crossings)
      BY DEF OrderInv, RunTypeOK, Tallies
    <3> QED BY <2>2, <3>1, ElementOfSeq
  <2> QED BY <2>1, <2>2, <2>3, PairInOrder DEF OrderInv, InOrder
<1> QED BY <1>1, <1>2, <1>3, PTL DEF RunSpec

-----------------------------------------------------------------------------
(***************************************************************************)
(* The driver (QuotaDriver).                                               *)
(***************************************************************************)

\* The driver has no call open.
BetweenCalls == {"iterate", "call", "retry", "sample", "estimate"}

\* Attempts of the current iteration are counted on top of the failed iterations'.
Calling == {"call", "running", "waiting"}

\* The types the arguments below need.
Typed ==
  /\ RunTypeOK
  /\ step \in Steps
  /\ blocks \in Blocks \cup {0}
  /\ log \in Seq(Lines)
  /\ iter \in Nat /\ attempt \in Nat /\ attemptBefore \in Nat
  /\ failures \in Nat /\ streak \in Nat
  /\ asClaimed \in BOOLEAN /\ sent \in BOOLEAN

\* The attempts of n iterations in which every attempt failed.
Failed(n) == n * MaxCallAttempts

\* The streak is what the two counters of the code amount to.
Counted ==
  /\ iter = 0 => failures = 0
  /\ step = "prime" => streak = 0 /\ attempt = 0 /\ iter = 0
  /\ step = "iterate" =>
       streak = Failed(failures) /\ failures < MaxConsecutiveFailures
  /\ step \in Calling \cup {"retry"} =>
       /\ streak = Failed(failures) + attempt
       /\ failures < MaxConsecutiveFailures
       /\ attempt <= MaxCallAttempts
  /\ step \in Calling \cup {"sample", "estimate"} => attempt < MaxCallAttempts
  /\ step \in {"sample", "estimate"} => streak = 0
  /\ step = "estimate" => failures = 0
  /\ step \in {"done", "died"} => GivesUpInTime

\* One request at a time, and it has landed before the next call.
OneAtATime ==
  /\ faithful
  /\ \A a, b \in inFlight : a = b
  /\ step \in BetweenCalls => inFlight = {}
  /\ step = "prime" /\ ~sent => inFlight = {}
  /\ step = "running" /\ ~sent => inFlight = {} /\ ServedSince(attemptBefore) = {}
  /\ step \in {"running", "waiting"} /\ ServedSince(attemptBefore) # {} => inFlight = {}

\* Failed attempts left nothing behind, and the rows are whole and of one window.
Tidy == asClaimed /\ resets = 0 /\ cuts = 0

DriverInv == Typed /\ Counted /\ (Tidy => OneAtATime)

-----------------------------------------------------------------------------
(* The driver's traffic is that of a run.                                  *)

LEMMA DriverStepsStutter ==
  ASSUME DriverStep
  PROVE  UNCHANGED runVars
  BY DEF DriverStep, Measuring, Primed, BeginIteration, StartClaude,
           ClaudeSucceeds, ClaudeFails,
         AttemptFails, EventLands, WaitExpires, Retry, Sample, Estimate

\* What the driver asks for has a price of the run.
LEMMA PromptIsPriced ==
  ASSUME blocks \in Blocks \cup {0}
  PROVE  Tokens(blocks) \in Prices
  BY DriverAssumption

LEMMA DriverNextIsNext ==
  ASSUME blocks \in Blocks \cup {0}, [DriverNext]_allVars
  PROVE  [Next]_runVars
<1>1. CASE DriverStep
  BY <1>1, DriverStepsStutter
<1>2. CASE Charge
  BY <1>2, PromptIsPriced DEF Charge, Next
<1>3. CASE WriteServed
  BY <1>3 DEF WriteServed, Next
<1>4. CASE WriteExcluded
  BY <1>4 DEF WriteExcluded, Next
<1>5. CASE WindowResets
  BY <1>5 DEF WindowResets, Next
<1>6. CASE Refuse \/ WriteRefused \/ Stopped \/ UNCHANGED allVars
  BY <1>6 DEF Refuse, WriteRefused, Stopped, allVars
<1> QED BY <1>1, <1>2, <1>3, <1>4, <1>5, <1>6 DEF DriverNext, Traffic

-----------------------------------------------------------------------------
(* Types.                                                                  *)

LEMMA TypedInit == DriverInit => Typed
<1> SUFFICES ASSUME DriverInit PROVE Typed
  OBVIOUS
<1>1. RunTypeOK
  BY RunInvInit DEF DriverInit, RunInv
<1>2. log \in Seq(Lines)
  BY DEF DriverInit
<1> QED BY <1>1, <1>2 DEF DriverInit, Typed, Steps

\* Whether a line is sampled is a truth value.
LEMMA ExcludedLinesTyped == ExcludedLines \subseteq BOOLEAN
BY DEF ExcludedLines, Sampled, LineFacts

LEMMA TypedNext ==
  ASSUME Typed, [DriverNext]_allVars
  PROVE  Typed'
<1>1. RunTypeOK'
  BY DriverNextIsNext, RunTypeNext DEF Typed
<1>2. Len(log) \in Nat /\ 0 \in Nat
  BY LenProperties DEF Typed
<1>3. /\ step \in Steps /\ blocks \in Blocks \cup {0} /\ log \in Seq(Lines)
      /\ iter \in Nat /\ attempt \in Nat /\ attemptBefore \in Nat
      /\ failures \in Nat /\ streak \in Nat /\ asClaimed \in BOOLEAN /\ sent \in BOOLEAN
  BY DEF Typed
<1>4. inFlight \subseteq Rows
  BY DEF Typed, RunTypeOK
<1>5. ASSUME NEW line \in Lines, log' = Append(log, line), UNCHANGED driverVars
      PROVE  Typed'
  <2>1. log' \in Seq(Lines)
    BY <1>3, <1>5, AppendProperties
  <2> QED BY <1>1, <1>3, <1>5, <2>1 DEF Typed, driverVars
<1>6. CASE Charge
  BY <1>1, <1>3, <1>6 DEF Charge, logVars, Typed
<1>7. CASE WriteServed
  <2>1. PICK row \in inFlight :
          log' = Append(log, [tokens |-> row.cost, served |-> TRUE, request |-> row.line])
    BY <1>7 DEF WriteServed
  <2>2. [tokens |-> row.cost, served |-> TRUE, request |-> row.line] \in Lines
    BY <1>4, RunAssumption DEF Rows, Lines
  <2> QED BY <1>5, <1>7, <2>1, <2>2 DEF WriteServed
<1>8. CASE WriteExcluded
  <2>1. PICK row \in inFlight, sampled \in ExcludedLines :
          log' = Append(log, [tokens  |-> IF sampled THEN row.cost ELSE 0,
                             served  |-> sampled,
                             request |-> row.line])
    BY <1>8 DEF WriteExcluded
  <2>2. row.cost \in Nat /\ row.line \in Nat
    BY <1>4, RunAssumption DEF Rows
  <2>3. [tokens |-> IF sampled THEN row.cost ELSE 0, served |-> sampled, request |-> row.line]
          \in Lines
    BY <2>2, ExcludedLinesTyped DEF Lines
  <2> QED BY <1>5, <1>8, <2>1, <2>3 DEF WriteExcluded
<1>9. CASE WriteRefused
  <2>1. [tokens |-> 0, served |-> FALSE, request |-> 0] \in Lines
    BY DEF Lines
  <2> QED BY <1>5, <1>9, <2>1 DEF WriteRefused
<1>10. CASE Refuse \/ WindowResets \/ Stopped \/ UNCHANGED allVars
  BY <1>1, <1>3, <1>10 DEF Refuse, WindowResets, Stopped, allVars, driverVars, logVars, Typed
<1>11. CASE Primed
  BY <1>1, <1>3, <1>11 DEF Primed, AllLanded, Steps, logVars, Typed
<1>12. CASE BeginIteration
  BY <1>1, <1>2, <1>3, <1>12 DEF BeginIteration, SizeFor, Steps, logVars, Typed
<1>13. CASE StartClaude
  BY <1>1, <1>2, <1>3, <1>13 DEF StartClaude, Steps, logVars, Typed
<1>14. CASE ClaudeSucceeds
  BY <1>1, <1>3, <1>14 DEF ClaudeSucceeds, Steps, logVars, Typed
<1>15. ASSUME AttemptFails PROVE Typed'
  BY <1>1, <1>3, <1>15 DEF AttemptFails, AllLanded, Steps, logVars, Typed
<1>16. CASE EventLands
  BY <1>1, <1>3, <1>16 DEF EventLands, Steps, logVars, Typed
<1>17. CASE Retry
  BY <1>1, <1>3, <1>17 DEF Retry, NextIteration, Steps, logVars, Typed
<1>18. CASE Sample
  BY <1>1, <1>3, <1>18 DEF Sample, AfterSuccess, Steps, logVars, Typed
<1>19. CASE Estimate
  BY <1>1, <1>3, <1>19 DEF Estimate, NextIteration, Steps, logVars, Typed
<1> QED
  BY <1>6, <1>7, <1>8, <1>9, <1>10, <1>11, <1>12, <1>13, <1>14, <1>15, <1>16, <1>17, <1>18,
     <1>19 DEF DriverNext, DriverStep, Measuring, Traffic, ClaudeFails, WaitExpires

-----------------------------------------------------------------------------
(* Giving up.                                                              *)

\* The arithmetic of failed iterations.
LEMMA FailedIterations ==
  ASSUME NEW n \in Nat
  PROVE  /\ Failed(0) = 0 /\ Failed(1) = MaxCallAttempts
         /\ Failed(n) \in Nat
         /\ Failed(n + 1) = Failed(n) + MaxCallAttempts
         /\ n < MaxConsecutiveFailures =>
              Failed(n) + MaxCallAttempts <= Failed(MaxConsecutiveFailures)
         /\ MaxCallAttempts <= Failed(MaxConsecutiveFailures)
         /\ 0 <= Failed(MaxConsecutiveFailures)
<1> USE DEF Failed
<1>1. MaxCallAttempts \in Nat /\ MaxConsecutiveFailures \in Nat /\ MaxConsecutiveFailures >= 1
  BY DriverAssumption
<1>2. Failed(n + 1) = Failed(n) + MaxCallAttempts
  BY <1>1
<1>3. n < MaxConsecutiveFailures => Failed(n + 1) <= Failed(MaxConsecutiveFailures)
  BY <1>1, TimesMonotone
<1>4. Failed(1) <= Failed(MaxConsecutiveFailures)
  BY <1>1, TimesMonotone
<1>5. Failed(0) = 0 /\ Failed(1) = MaxCallAttempts /\ Failed(n) \in Nat
  BY <1>1
<1> QED BY <1>1, <1>2, <1>3, <1>4, <1>5

LEMMA CountedInit == DriverInit => Counted
  BY DEF DriverInit, Counted, Calling

LEMMA CountedNext ==
  ASSUME Typed, Counted, [DriverNext]_allVars
  PROVE  Counted'
<1>1. /\ MaxCallAttempts \in Nat /\ MaxConsecutiveFailures \in Nat
      /\ MaxCallAttempts >= 1 /\ MaxConsecutiveFailures >= 1
  BY DriverAssumption
<1>2. /\ iter \in Nat /\ attempt \in Nat /\ failures \in Nat /\ streak \in Nat
      /\ step \in Steps
  BY DEF Typed
<1>3. /\ Failed(0) = 0 /\ Failed(1) = MaxCallAttempts
      /\ Failed(failures) \in Nat
      /\ Failed(failures + 1) = Failed(failures) + MaxCallAttempts
      /\ failures < MaxConsecutiveFailures =>
           Failed(failures) + MaxCallAttempts <= Failed(MaxConsecutiveFailures)
      /\ MaxCallAttempts <= Failed(MaxConsecutiveFailures)
      /\ 0 <= Failed(MaxConsecutiveFailures)
  BY <1>2, FailedIterations
<1>4. /\ streak' <= Failed(MaxConsecutiveFailures)
      /\ step' = "died" /\ attempt' = MaxCallAttempts =>
           streak' = IF iter' = 0 THEN Failed(1) ELSE Failed(MaxConsecutiveFailures)
      => GivesUpInTime'
  BY DEF GivesUpInTime, Failed
<1> USE DEF Counted, Calling
<1>5. CASE UNCHANGED <<step, iter, attempt, failures, streak>>
  BY <1>5 DEF GivesUpInTime
<1>6. CASE Primed
  BY <1>1, <1>3, <1>4, <1>6 DEF Primed
<1>7. CASE BeginIteration
  BY <1>1, <1>3, <1>7 DEF BeginIteration
<1>8. CASE StartClaude
  BY <1>8 DEF StartClaude
<1>9. CASE ClaudeSucceeds
  BY <1>9 DEF ClaudeSucceeds
<1>10. ASSUME step \in Calling, AttemptFails PROVE Counted'
  BY <1>1, <1>2, <1>3, <1>10 DEF AttemptFails
<1>11. CASE EventLands
  BY <1>11 DEF EventLands
<1>12. CASE Retry
  <2>1. CASE attempt < MaxCallAttempts
    BY <1>2, <1>12, <2>1 DEF Retry
  <2>2. CASE attempt = MaxCallAttempts /\ iter = 0
    BY <1>1, <1>3, <1>4, <1>12, <2>2 DEF Retry
  <2>3. CASE attempt = MaxCallAttempts /\ iter > 0
    <3>1. /\ failures' = failures + 1 /\ failures < MaxConsecutiveFailures
          /\ UNCHANGED <<attempt, streak>>
          /\ streak = Failed(failures) + MaxCallAttempts
      BY <1>1, <1>12, <2>3 DEF Retry
    <3>2. streak = Failed(failures') /\ streak <= Failed(MaxConsecutiveFailures)
      BY <1>3, <3>1
    <3>3. CASE failures' >= MaxConsecutiveFailures
      <4>1. failures' = MaxConsecutiveFailures /\ step' = "died" /\ iter' = iter
        BY <1>1, <1>2, <1>12, <2>3, <3>1, <3>3 DEF Retry
      <4> QED BY <1>2, <1>4, <2>3, <3>1, <3>2, <4>1
    <3>4. CASE ~(failures' >= MaxConsecutiveFailures)
      <4>1. /\ failures' < MaxConsecutiveFailures /\ iter' > 0
            /\ step' \in {"done", "iterate"}
        BY <1>1, <1>2, <1>12, <2>3, <3>1, <3>4 DEF Retry, NextIteration
      <4> QED BY <1>2, <1>4, <3>1, <3>2, <4>1
    <3> QED BY <3>3, <3>4
  <2> QED BY <1>12, <2>1, <2>2, <2>3 DEF Retry
<1>13. CASE Sample
  BY <1>3, <1>13 DEF Sample, AfterSuccess
<1>14. CASE Estimate
  <2>1. /\ streak' = 0 /\ failures' = 0 /\ attempt' < MaxCallAttempts
        /\ step' \in {"died", "done", "iterate"}
    BY <1>14 DEF Estimate, NextIteration
  <2> QED BY <1>1, <1>2, <1>3, <1>4, <2>1
<1>15. Traffic \/ Stopped \/ UNCHANGED allVars => UNCHANGED <<step, iter, attempt, failures, streak>>
  BY DEF Traffic, Charge, Refuse, WriteServed, WriteExcluded, WriteRefused, WindowResets,
         Stopped, allVars, driverVars
<1> QED
  BY <1>5, <1>6, <1>7, <1>8, <1>9, <1>10, <1>11, <1>12, <1>13, <1>14, <1>15
     DEF DriverNext, DriverStep, Measuring, ClaudeFails, WaitExpires

-----------------------------------------------------------------------------
(* The order of the log.                                                   *)

\* A line that is not served is none of the served lines.
LEMMA UnservedLine ==
  ASSUME Typed, NEW line \in Lines, ~line.served, log' = Append(log, line),
         attemptBefore' = attemptBefore
  PROVE  ServedSince(attemptBefore)' = ServedSince(attemptBefore)
<1>1. /\ DOMAIN log = 1 .. Len(log) /\ DOMAIN log' = 1 .. Len(log) + 1
      /\ Len(log) \in Nat
      /\ log'[Len(log) + 1] = line
      /\ \A i \in 1 .. Len(log) : log'[i] = log[i]
  BY AppendProperties, LenProperties DEF Typed
<1> QED BY <1>1 DEF ServedSince, Since

LEMMA OrderInit == DriverInit => OneAtATime
  BY DEF DriverInit, Init, OneAtATime, BetweenCalls

\* Only the first request of a call goes in flight while none is.
LEMMA ChargeKeepsOrder ==
  ASSUME Typed, OneAtATime, Charge
  PROVE  OneAtATime'
<1>1. inFlight = {} /\ OneAtATime /\ step \in {"prime", "running"} /\ sent'
  BY DEF Charge, OneAtATime
<1>2. UNCHANGED <<step, attemptBefore, log, faithful>>
  BY DEF Charge, Serve, logVars
<1>3. \A a, b \in inFlight' : a = b
  BY <1>1 DEF Charge, Serve
<1>4. step = "running" => ServedSince(attemptBefore)' = {}
  BY <1>1, <1>2 DEF Charge, OneAtATime, ServedSince, Since
<1> QED BY <1>1, <1>2, <1>3, <1>4 DEF OneAtATime, BetweenCalls

\* The only request in flight is the oldest, and none is left when it has its row.
LEMMA WriteServedKeepsOrder ==
  ASSUME Typed, OneAtATime, WriteServed
  PROVE  OneAtATime'
<1>1. PICK row \in inFlight : LogRow(row)
  BY DEF WriteServed
<1>2. inFlight' = {}
  BY <1>1 DEF LogRow, OneAtATime
<1>3. row.line <= row.line /\ \A other \in inFlight : other = row
  BY <1>1 DEF OneAtATime, Typed, RunTypeOK, Rows
<1>4. faithful'
  BY <1>1, <1>3, Zenon DEF LogRow, OneAtATime
<1>5. UNCHANGED <<step, sent>>
  BY DEF WriteServed, driverVars
<1>6. ~(step = "running" /\ ~sent)
  BY <1>1 DEF OneAtATime
<1> QED BY <1>2, <1>4, <1>5, <1>6 DEF OneAtATime

\* What an attempt leaves when it ends as the driver's comment has it.
LEMMA CallsEndLanded ==
  ASSUME Typed, OneAtATime, AttemptFails \/ EventLands \/ Primed, asClaimed',
         step' \in BetweenCalls
  PROVE  inFlight = {}
<1>1. CASE AttemptFails
  BY <1>1 DEF AttemptFails, AllLanded
<1>2. CASE EventLands
  <2>1. step = "waiting" /\ \A i \in Since(attemptBefore) : log[i].served
    BY <1>2 DEF EventLands
  <2>2. PICK i \in Since(attemptBefore) : TRUE
    BY <1>2, LenProperties DEF EventLands, NewLine, Since, Typed
  <2>3. i \in ServedSince(attemptBefore)
    BY <2>1, <2>2 DEF ServedSince
  <2> QED BY <2>1, <2>3 DEF OneAtATime
<1>3. CASE Primed
  BY <1>3 DEF Primed, AllLanded, BetweenCalls
<1> QED BY <1>1, <1>2, <1>3

\* A run that is tidy after a step was tidy before it, and the step broke no answer
\* off and reset no window.
LEMMA TidyBefore ==
  ASSUME Typed, [DriverNext]_allVars, Tidy'
  PROVE  Tidy /\ ~WriteExcluded /\ ~WindowResets
<1>1. resets \in Nat /\ cuts \in Nat /\ resets' = 0 /\ cuts' = 0 /\ asClaimed'
  BY DEF Typed, RunTypeOK, Tidy
<1>2. ~WriteExcluded
  <2>1. WriteExcluded => cuts' = cuts + 1
    BY DEF WriteExcluded, LogExcluded
  <2> QED BY <1>1, <2>1
<1>3. ~WindowResets
  BY <1>1 DEF WindowResets, Rollover
<1>4. resets = resets' /\ cuts = cuts'
  <2>1. CASE DriverStep
    BY <2>1, DriverStepsStutter DEF runVars
  <2>2. CASE Traffic
    BY <2>2, <1>2, <1>3 DEF Traffic, Charge, Serve, Refuse, WriteServed, LogRow, WriteRefused,
                            runVars
  <2> QED BY <2>1, <2>2 DEF DriverNext, Stopped, allVars, runVars
<1>5. asClaimed
  <2>1. CASE DriverStep
    BY <2>1, <1>1 DEF DriverStep, Measuring, Primed, BeginIteration, StartClaude,
             ClaudeSucceeds,
                      ClaudeFails, AttemptFails, EventLands, WaitExpires, Retry, Sample, Estimate
  <2>2. CASE Traffic
    BY <2>2, <1>1 DEF Traffic, Charge, Refuse, WriteServed, WriteExcluded, WriteRefused,
                      WindowResets, driverVars
  <2> QED BY <1>1, <2>1, <2>2 DEF DriverNext, Stopped, allVars, driverVars
<1> QED BY <1>1, <1>2, <1>3, <1>4, <1>5 DEF Tidy


\* The driver's own steps touch no request; a call starts when none is open.
LEMMA DriverStepKeepsOrder ==
  ASSUME Typed, OneAtATime, DriverStep, asClaimed'
  PROVE  OneAtATime'
<1>1. UNCHANGED <<inFlight, faithful, log>>
  BY DriverStepsStutter
     DEF runVars, logVars, DriverStep, Measuring, Primed, BeginIteration, StartClaude,
              ClaudeSucceeds,
         ClaudeFails, AttemptFails, EventLands, WaitExpires, Retry, Sample, Estimate
<1>2. CASE StartClaude
  <2>1. inFlight = {} /\ step' = "running"
    BY <1>2 DEF StartClaude, OneAtATime, BetweenCalls
  <2>2. ServedSince(attemptBefore)' = {}
    BY <1>1, <1>2, LenProperties DEF StartClaude, ServedSince, Since, Typed
  <2> QED BY <1>1, <2>1, <2>2 DEF OneAtATime, BetweenCalls
<1>3. CASE ClaudeSucceeds
  <2>1. ServedSince(attemptBefore)' = ServedSince(attemptBefore)
    BY <1>1, <1>3 DEF ClaudeSucceeds, ServedSince, Since
  <2> QED BY <1>1, <1>3, <2>1 DEF ClaudeSucceeds, OneAtATime, BetweenCalls
<1>4. CASE AttemptFails \/ EventLands \/ Primed
  <2>1. step' \in BetweenCalls => inFlight = {}
    BY <1>4, CallsEndLanded
  <2>2. step' \notin {"prime", "running", "waiting"}
    BY <1>4 DEF AttemptFails, EventLands, Primed
  <2> QED BY <1>1, <2>1, <2>2 DEF OneAtATime
<1>5. CASE BeginIteration \/ Retry \/ Sample \/ Estimate
  <2>1. inFlight = {}
    BY <1>5 DEF BeginIteration, Retry, Sample, Estimate, OneAtATime, BetweenCalls
  <2>2. step' \notin {"prime", "running", "waiting"}
    BY <1>5 DEF BeginIteration, Retry, Sample, Estimate, NextIteration
  <2> QED BY <1>1, <2>1, <2>2 DEF OneAtATime
<1> QED BY <1>2, <1>3, <1>4, <1>5 DEF DriverStep, Measuring, ClaudeFails, WaitExpires

LEMMA OrderNext ==
  ASSUME Typed, Tidy => OneAtATime, [DriverNext]_allVars, Tidy'
  PROVE  OneAtATime'
<1>1. OneAtATime /\ ~WriteExcluded /\ ~WindowResets /\ asClaimed'
  BY TidyBefore DEF Tidy
<1>2. CASE DriverStep
  BY <1>1, <1>2, DriverStepKeepsOrder
<1>3. CASE Charge
  BY <1>1, <1>3, ChargeKeepsOrder
<1>4. CASE WriteServed
  BY <1>1, <1>4, WriteServedKeepsOrder
<1>5. CASE WriteRefused
  <2>1. [tokens |-> 0, served |-> FALSE, request |-> 0] \in Lines
    BY DEF Lines
  <2>2. ServedSince(attemptBefore)' = ServedSince(attemptBefore)
    BY <1>5, <2>1, UnservedLine DEF WriteRefused, driverVars
  <2> QED BY <1>1, <1>5, <2>2 DEF WriteRefused, runVars, driverVars, OneAtATime
<1>6. CASE Refuse \/ Stopped \/ UNCHANGED allVars
  BY <1>1, <1>6 DEF Refuse, Stopped, allVars, runVars, driverVars, logVars, OneAtATime,
                    ServedSince, Since
<1> QED BY <1>1, <1>2, <1>3, <1>4, <1>5, <1>6 DEF DriverNext, Traffic

-----------------------------------------------------------------------------
(* The results.                                                            *)

\* Every run of the driver keeps DriverInv.
THEOREM DriverInductive == DriverSpec => []DriverInv
<1>1. DriverInit => DriverInv
  BY TypedInit, CountedInit, OrderInit DEF DriverInv
<1>2. DriverInv /\ [DriverNext]_allVars => DriverInv'
  BY TypedNext, CountedNext, OrderNext DEF DriverInv
<1> QED BY <1>1, <1>2, PTL DEF DriverSpec

\* The driver gives up after MAX_CONSECUTIVE_FAILURES iterations of MAX_CALL_ATTEMPTS
\* failed attempts each, in a row, and never before (measure.py:650-663), for every
\* value of the two.
THEOREM GivesUp == DriverSpec => []GivesUpInTime
<1>1. DriverInv => GivesUpInTime
  <2> SUFFICES ASSUME DriverInv PROVE GivesUpInTime
    OBVIOUS
  <2>1. /\ failures \in Nat /\ attempt \in Nat /\ streak \in Nat /\ step \in Steps
        /\ MaxCallAttempts \in Nat
    BY DriverAssumption DEF DriverInv, Typed
  <2>2. CASE step \in {"done", "died"}
    BY <2>2 DEF DriverInv, Counted
  <2>3. CASE step \notin {"done", "died"}
    <3>1. \/ streak = 0
          \/ /\ streak \in Failed(failures) .. Failed(failures) + MaxCallAttempts
             /\ failures < MaxConsecutiveFailures
      <4>1. Failed(failures) \in Nat
        BY <2>1, FailedIterations
      <4> QED BY <2>1, <2>3, <4>1 DEF DriverInv, Counted, Calling, Steps
    <3>2. streak <= Failed(MaxConsecutiveFailures)
      <4>1. /\ Failed(failures) \in Nat /\ Failed(MaxConsecutiveFailures) \in Nat
            /\ failures < MaxConsecutiveFailures =>
                 Failed(failures) + MaxCallAttempts <= Failed(MaxConsecutiveFailures)
        BY <2>1, FailedIterations, DriverAssumption
      <4> QED BY <2>1, <3>1, <4>1
    <3> QED BY <2>3, <3>2 DEF GivesUpInTime, Failed
  <2> QED BY <2>2, <2>3
<1> QED BY <1>1, DriverInductive, PTL

\* A driver whose failed attempts leave nothing behind writes the log that the
\* estimator needs: whole rows in the order of the charges (measure.py:437-440).
THEOREM OrderIsKept == DriverSpec => []OrderKept
<1>1. DriverInv => OrderKept
  BY DEF DriverInv, Tidy, OneAtATime, OrderKept
<1> QED BY <1>1, DriverInductive, PTL

\* A measurement is a run: whatever the driver does, the traffic it causes is one that
\* QuotaRun allows.
THEOREM DriverIsARun == DriverSpec => RunSpec
<1>1. DriverInit => Init
  BY DEF DriverInit
<1>2. DriverInv /\ [DriverNext]_allVars => [Next]_runVars
  BY DriverNextIsNext DEF DriverInv, Typed
<1> QED BY <1>1, <1>2, DriverInductive, PTL DEF DriverSpec, RunSpec

\* So the interval it reports contains the true cost of a tick whenever its failed
\* attempts left nothing behind, no answer broke off and the window did not reset.
THEOREM MeasurementIsSound == DriverSpec => [](Tidy => Sound)
<1>1. OrderKept /\ IntervalSound => (Tidy => Sound)
  BY DEF OrderKept, IntervalSound, Tidy
<1>2. RunSpec => []IntervalSound
  BY EstimateIsSound
<1> QED BY <1>1, <1>2, OrderIsKept, DriverIsARun, PTL

-----------------------------------------------------------------------------
(* The line through samples that lie on a line.                            *)

\* How far the sums of k points are from those of one value.
LEMMA SquaresExceed ==
  ASSUME NEW k \in Nat, NEW X \in Nat, NEW Q \in Nat, NEW b \in Nat, NEW x \in Nat,
         Q + k * (x * x) >= 2 * (x * X)
  PROVE  /\ (Q + b * b) + (k + 1) * (x * x) >= 2 * (x * (X + b))
         /\ b # x \/ Q + k * (x * x) > 2 * (x * X) =>
              (Q + b * b) + (k + 1) * (x * x) > 2 * (x * (X + b))
<1>1. /\ (k + 1) * (x * x) = k * (x * x) + x * x
      /\ 2 * (x * (X + b)) = 2 * (x * X) + 2 * (x * b)
  OBVIOUS
<1>2. b * b + x * x - 2 * (x * b) = (b - x) * (b - x)
  OBVIOUS
<1>3. (b - x) * (b - x) >= 0 /\ (b # x => (b - x) * (b - x) > 0)
  <2>1. \A d \in Int : d * d >= 0 /\ (d # 0 => d * d > 0)
    OBVIOUS
  <2>2. b - x \in Int /\ (b # x => b - x # 0)
    OBVIOUS
  <2> QED BY <2>1, <2>2
<1>4. /\ k * (x * x) \in Int /\ x * x \in Int /\ x * X \in Int /\ x * b \in Int /\ b * b \in Int
      /\ (b - x) * (b - x) \in Int
  OBVIOUS
<1> QED BY <1>1, <1>2, <1>3, <1>4

\* One more point, in the numerator of the variance.
LEMMA VarianceStep ==
  ASSUME NEW k \in Nat, NEW X \in Nat, NEW Q \in Nat, NEW b \in Nat
  PROVE  (k + 1) * (Q + b * b) - (X + b) * (X + b)
           = (k * Q - X * X) + (Q + k * (b * b) - 2 * (b * X))
<1>1. (k + 1) * (Q + b * b) = k * Q + k * (b * b) + Q + b * b
  OBVIOUS
<1>2. (X + b) * (X + b) = X * X + 2 * (b * X) + b * b
  OBVIOUS
<1>4. /\ k * Q \in Int /\ X * X \in Int /\ k * (b * b) \in Int /\ b * X \in Int /\ b * b \in Int
  OBVIOUS
<1> QED BY <1>1, <1>2, <1>4

\* A prompt has so many tokens.
LEMMA TokensType ==
  ASSUME NEW b \in Nat
  PROVE  Tokens(b) \in Nat /\ Tokens(b) = HeaderTokens + b * BlockTokens
<1>1. HeaderTokens \in Nat /\ BlockTokens \in Nat
  BY DriverAssumption
<1> QED BY <1>1 DEF Tokens

\* Calls of b[i] blocks that cost y[i], q and p the squares and products of a fit.
Points(N, b, y, q, p) ==
  \A i \in 1 .. N :
    /\ b[i] \in Nat
    /\ y[i] = Tokens(b[i])
    /\ q[i] = b[i] * b[i]
    /\ p[i] = b[i] * y[i]

\* The sums of such calls satisfy what a line through them does.
OnALine(N, b, y, q, p) ==
  LET X == SumFunctionOnSet(b, 1 .. N)
      Q == SumFunctionOnSet(q, 1 .. N)
  IN /\ X \in Nat /\ Q \in Nat
     /\ SumFunctionOnSet(y, 1 .. N) = N * HeaderTokens + X * BlockTokens
     /\ SumFunctionOnSet(p, 1 .. N) = X * HeaderTokens + Q * BlockTokens
     /\ N * Q - X * X >= 0
     /\ (\E i, j \in 1 .. N : b[i] # b[j]) => N * Q - X * X > 0

\* Calls of b[i] blocks that cost y[i], over the first k of them.
LEMMA PointsOnALine ==
  ASSUME NEW N \in Nat, NEW b, NEW y, NEW q, NEW p, Points(N, b, y, q, p)
  PROVE  OnALine(N, b, y, q, p)
<1>0. /\ \A i \in 1 .. N : b[i] \in Nat
      /\ \A i \in 1 .. N : y[i] = Tokens(b[i])
      /\ \A i \in 1 .. N : q[i] = b[i] * b[i]
      /\ \A i \in 1 .. N : p[i] = b[i] * y[i]
  BY DEF Points
<1> USE <1>0
<1> DEFINE X(k) == SumFunctionOnSet(b, 1 .. k)
           Y(k) == SumFunctionOnSet(y, 1 .. k)
           Q(k) == SumFunctionOnSet(q, 1 .. k)
           P(k) == SumFunctionOnSet(p, 1 .. k)
           Line(k) == /\ X(k) \in Nat /\ Q(k) \in Nat
                      /\ Y(k) = k * HeaderTokens + X(k) * BlockTokens
                      /\ P(k) = X(k) * HeaderTokens + Q(k) * BlockTokens
           Far(k) == \A x \in Nat :
                       /\ Q(k) + k * (x * x) >= 2 * (x * X(k))
                       /\ (\E i \in 1 .. k : b[i] # x) => Q(k) + k * (x * x) > 2 * (x * X(k))
           Apart(k) == /\ k * Q(k) - X(k) * X(k) >= 0
                       /\ (\E i, j \in 1 .. k : b[i] # b[j]) => k * Q(k) - X(k) * X(k) > 0
           Good == {k \in Nat : k <= N => Line(k) /\ Far(k) /\ Apart(k)}
<1>1. HeaderTokens \in Nat /\ BlockTokens \in Nat
  BY DriverAssumption
<1>2. 0 \in Good
  <2>1. 1 .. 0 = {}
    OBVIOUS
  <2>2. X(0) = 0 /\ Y(0) = 0 /\ Q(0) = 0 /\ P(0) = 0
    BY <2>1, SumEmpty
  <2> HIDE DEF X, Y, Q, P
  <2>3. Line(0)
    BY <1>1, <2>2
  <2>4. Far(0)
    <3>1. \A x \in Nat : 0 + 0 * (x * x) = 0 /\ 2 * (x * 0) = 0
      OBVIOUS
    <3> QED BY <2>1, <2>2, <3>1
  <2>5. Apart(0)
    <3>1. 0 * 0 - 0 * 0 = 0
      OBVIOUS
    <3> QED BY <2>1, <2>2, <3>1
  <2> QED BY <2>3, <2>4, <2>5
<1>3. ASSUME NEW k \in Good \cap Nat PROVE k + 1 \in Good
  <2> SUFFICES ASSUME k + 1 <= N PROVE Line(k + 1) /\ Far(k + 1) /\ Apart(k + 1)
    OBVIOUS
  <2>1. Line(k) /\ Far(k) /\ Apart(k)
    OBVIOUS
  <2>2. \A i \in 1 .. k + 1 : /\ i \in 1 .. N /\ b[i] \in Nat
                             /\ y[i] \in Nat /\ q[i] \in Nat /\ p[i] \in Nat
    <3>1. \A i \in 1 .. k + 1 : i \in 1 .. N
      OBVIOUS
    <3>2. ASSUME NEW i \in 1 .. N
          PROVE  b[i] \in Nat /\ y[i] \in Nat /\ q[i] \in Nat /\ p[i] \in Nat
      <4>1. PICK u \in Nat : u = b[i]
        OBVIOUS
      <4>2. PICK v \in Nat : v = y[i]
        BY <4>1, TokensType
      <4>3. u * u \in Nat /\ u * v \in Nat
        OBVIOUS
      <4> QED BY <4>1, <4>2, <4>3
    <3> QED BY <3>1, <3>2
  <2>3. X(k + 1) = X(k) + b[k + 1]
    BY <2>2, SumLast
  <2>4. Y(k + 1) = Y(k) + y[k + 1]
    BY <2>2, SumLast
  <2>5. Q(k + 1) = Q(k) + q[k + 1]
    BY <2>2, SumLast
  <2>6. P(k + 1) = P(k) + p[k + 1]
    BY <2>2, SumLast
  <2> HIDE DEF X, Y, Q, P, Good
  <2>7. k \in Nat /\ X(k) \in Nat /\ Q(k) \in Nat
    BY <2>1
  <2>8. PICK c \in Nat : /\ b[k + 1] = c /\ y[k + 1] = HeaderTokens + c * BlockTokens
                         /\ q[k + 1] = c * c /\ p[k + 1] = c * (HeaderTokens + c * BlockTokens)
    <3>1. k + 1 \in 1 .. N /\ b[k + 1] \in Nat
      BY <2>2
    <3> QED BY <3>1 DEF Tokens
  <2>9. Line(k + 1)
    <3>1. X(k + 1) \in Nat /\ Q(k + 1) \in Nat
      BY <2>3, <2>5, <2>7, <2>8
    <3>2. /\ (k + 1) * HeaderTokens = k * HeaderTokens + HeaderTokens
          /\ (X(k) + c) * BlockTokens = X(k) * BlockTokens + c * BlockTokens
          /\ (X(k) + c) * HeaderTokens = X(k) * HeaderTokens + c * HeaderTokens
          /\ (Q(k) + c * c) * BlockTokens = Q(k) * BlockTokens + (c * c) * BlockTokens
          /\ c * (HeaderTokens + c * BlockTokens) = c * HeaderTokens + (c * c) * BlockTokens
      BY <1>1, <2>7
    <3>3. /\ k * HeaderTokens \in Int /\ X(k) * BlockTokens \in Int /\ c * BlockTokens \in Int
          /\ X(k) * HeaderTokens \in Int /\ c * HeaderTokens \in Int
          /\ Q(k) * BlockTokens \in Int /\ (c * c) * BlockTokens \in Int
      BY <1>1, <2>7
    <3>4. Y(k + 1) = (k + 1) * HeaderTokens + X(k + 1) * BlockTokens
      BY <1>1, <2>1, <2>3, <2>4, <2>8, <3>2, <3>3
    <3>5. P(k + 1) = X(k + 1) * HeaderTokens + Q(k + 1) * BlockTokens
      BY <1>1, <2>1, <2>3, <2>5, <2>6, <2>8, <3>2, <3>3
    <3> QED BY <3>1, <3>4, <3>5
  <2>10. Far(k + 1)
    <3> SUFFICES ASSUME NEW x \in Nat
                 PROVE  /\ Q(k + 1) + (k + 1) * (x * x) >= 2 * (x * X(k + 1))
                        /\ (\E i \in 1 .. k + 1 : b[i] # x) =>
                             Q(k + 1) + (k + 1) * (x * x) > 2 * (x * X(k + 1))
      OBVIOUS
    <3>1. /\ Q(k) + k * (x * x) >= 2 * (x * X(k))
          /\ (\E i \in 1 .. k : b[i] # x) => Q(k) + k * (x * x) > 2 * (x * X(k))
      BY <2>1
    <3>2. /\ (Q(k) + c * c) + (k + 1) * (x * x) >= 2 * (x * (X(k) + c))
          /\ c # x \/ Q(k) + k * (x * x) > 2 * (x * X(k)) =>
               (Q(k) + c * c) + (k + 1) * (x * x) > 2 * (x * (X(k) + c))
      BY <2>7, <3>1, SquaresExceed
    <3>3. (\E i \in 1 .. k + 1 : b[i] # x) => c # x \/ \E i \in 1 .. k : b[i] # x
      BY <2>7, <2>8
    <3> QED BY <2>3, <2>5, <2>8, <3>1, <3>2, <3>3
  <2>11. Apart(k + 1)
    <3> DEFINE old == k * Q(k) - X(k) * X(k)
               far == Q(k) + k * (c * c)
               near == 2 * (c * X(k))
    <3>5. (k + 1) * Q(k + 1) - X(k + 1) * X(k + 1) = old + (far - near)
      BY <2>3, <2>5, <2>7, <2>8, VarianceStep
    <3>2. old \in Int /\ far \in Int /\ near \in Int
      BY <2>7
    <3>3. far >= near /\ ((\E i \in 1 .. k : b[i] # c) => far > near)
      BY <2>1, <2>7
    <3>4. old >= 0 /\ ((\E i, j \in 1 .. k : b[i] # b[j]) => old > 0)
      BY <2>1
    <3> HIDE DEF old, far, near
    <3>6. old + (far - near) >= 0
      BY <3>2, <3>3, <3>4
    <3>7. (\E i, j \in 1 .. k + 1 : b[i] # b[j]) => old + (far - near) > 0
      <4> SUFFICES ASSUME NEW i \in 1 .. k + 1, NEW j \in 1 .. k + 1, b[i] # b[j]
                   PROVE  old + (far - near) > 0
        OBVIOUS
      <4>1. \/ i \in 1 .. k /\ b[i] # c
            \/ j \in 1 .. k /\ b[j] # c
            \/ i \in 1 .. k /\ j \in 1 .. k
        BY <2>7, <2>8
      <4>2. far > near \/ old > 0
        BY <3>3, <3>4, <4>1
      <4> QED BY <3>2, <3>3, <3>4, <4>2
    <3> QED BY <3>5, <3>6, <3>7
  <2> QED BY <2>9, <2>10, <2>11
<1> HIDE DEF Good
<1>4. Nat \subseteq Good
  BY <1>2, <1>3, NaturalsByInduction
<1>5. Line(N) /\ Apart(N)
  BY <1>4 DEF Good
<1> HIDE <1>0
<1> QED BY <1>5, Zenon DEF OnALine

-----------------------------------------------------------------------------
(* The samples.                                                            *)

\* An iteration is under way.
Open == {"call", "running", "waiting", "retry", "sample"}

\* Where the samples' share of the log ends.
SampledTo == IF step \in Open THEN before ELSE Len(log)

\* The served lines after the priming call's that are in the samples.
Shared(n) == {i \in ServedSince(1) : i <= n}

Bounded ==
  /\ iter <= MaxIters
  /\ before \in 0 .. Len(log) /\ attemptBefore \in 0 .. Len(log)
  /\ attempt <= MaxCallAttempts /\ failures <= MaxConsecutiveFailures
  /\ sent => requests > 0
  /\ samples \in Seq([blocks : Blocks \cup {0}, observed : Nat])
  /\ totalBlocks \in Nat
  /\ abandoned \subseteq 1 .. requests
  /\ refused \in Nat /\ refusals \in 0 .. MaxRefusals

\* The traffic of the current call, and what it has left in the log.
OneCall ==
  /\ \A a, b \in inFlight : a = b
  /\ \A row \in inFlight : row.cost = Tokens(blocks)
  /\ step \notin {"prime", "running", "waiting"} => inFlight = {} /\ refused = 0
  /\ step = "prime" =>
       /\ refused = 0
       /\ Len(log) = (IF sent /\ inFlight = {} THEN 1 ELSE 0)
       /\ ~sent => inFlight = {}
  /\ step # "prime" => Len(log) > 0
  /\ step \in Open =>
       /\ before > 0
       /\ \A i \in ServedSince(before) : log[i].tokens = Tokens(blocks)
       /\ \A i, j \in ServedSince(before) : i = j
  /\ step \in {"call", "retry"} => ServedSince(before) = {}
  /\ step \in {"running", "waiting"} =>
       /\ before <= attemptBefore
       /\ \A i \in ServedSince(before) : i > attemptBefore
       /\ ServedSince(before) # {} => inFlight = {} /\ sent
       /\ ~sent => inFlight = {}
  /\ step = "sample" => ServedSince(before) # {}

\* The samples are the calls, and account for the lines before the current iteration.
Accounted ==
  /\ \A i \in DOMAIN samples : samples[i].observed = Tokens(samples[i].blocks)
  /\ totalBlocks = BlockSum
  /\ SampleSum = TokensOf(Shared(SampledTo))

\* The estimator has measured the tokens of the served lines, the priming call's aside.
Measured ==
  /\ tally.previous = NoBucket => tally.measured = 0
  /\ cuts = 0 => IF tally.previous = NoBucket THEN Len(log) = 0
                 ELSE Len(log) > 0 /\ tally.measured = TokensOf(ServedSince(1))

\* Nothing was refused, or cut to a line that is not served.
Quiet == refused = 0 /\ \A i \in DOMAIN log : log[i].served

\* A run in which failed attempts have left nothing behind so far, nor the priming call.
Claimed == asClaimed /\ step # "died" /\ (step = "prime" => Quiet)

CallInv == OneCall /\ Accounted /\ Measured

LEMMA BoundedInit == DriverInit => Bounded
<1> SUFFICES ASSUME DriverInit PROVE Bounded
  OBVIOUS
<1>1. samples \in Seq([blocks : Blocks \cup {0}, observed : Nat])
  BY DEF DriverInit
<1>2. MaxIters \in Nat /\ MaxRefusals \in Nat /\ MaxCallAttempts \in Nat /\ MaxConsecutiveFailures \in Nat
  BY DriverAssumption
<1>3. Len(log) = 0
  BY DEF DriverInit
<1> QED BY <1>1, <1>2, <1>3 DEF DriverInit, Bounded

\* A line is added to the log.
LEMMA LineAdded ==
  ASSUME Typed, NEW line \in Lines, log' = Append(log, line)
  PROVE  /\ Len(log) \in Nat /\ Len(log') = Len(log) + 1
         /\ DOMAIN log = 1 .. Len(log) /\ DOMAIN log' = 1 .. Len(log) + 1
         /\ log'[Len(log) + 1] = line
         /\ \A i \in 1 .. Len(log) : log'[i] = log[i] /\ log[i] \in Lines
         /\ log' \in Seq(Lines)
<1>1. log \in Seq(Lines)
  BY DEF Typed
<1>2. \A i \in 1 .. Len(log) : log[i] \in Lines
  BY <1>1, ElementOfSeq
<1>3. log' \in Seq(Lines) /\ Len(log') = Len(log) + 1
  BY <1>1, AppendProperties
<1> QED BY <1>1, <1>2, <1>3, AppendProperties, LenProperties

\* What an iteration costs is a number of tokens.
LEMMA TokensOfType ==
  ASSUME Typed, NEW n \in Nat
  PROVE  TokensOf(ServedSince(n)) \in Nat
<1> DEFINE f == [i \in DOMAIN log |-> log[i].tokens]
<1>1. DOMAIN log = 1 .. Len(log) /\ Len(log) \in Nat /\ log \in Seq(Lines)
  BY LenProperties DEF Typed
<1>2. \A i \in 1 .. Len(log) : log[i] \in Lines
  BY <1>1, ElementOfSeq
<1>3. \A i \in ServedSince(n) : f[i] \in Nat
  BY <1>1, <1>2 DEF ServedSince, Since, Lines
<1>4. IsFiniteSet(ServedSince(n))
  <2>1. IsFiniteSet(1 .. Len(log))
    BY <1>1, FS_Interval
  <2>2. ServedSince(n) \subseteq 1 .. Len(log)
    BY <1>1 DEF ServedSince, Since
  <2> QED BY <2>1, <2>2, FS_Subset
<1> QED BY <1>3, <1>4, SumType DEF TokensOf

LEMMA BoundedNext ==
  ASSUME Typed, Counted, Bounded, [DriverNext]_allVars
  PROVE  Bounded'
<1>1. /\ MaxIters \in Nat /\ MaxRefusals \in Nat
      /\ MaxCallAttempts \in Nat /\ MaxConsecutiveFailures \in Nat
      /\ 0 \in Blocks \cup {0} /\ Blocks \cup {0} \subseteq Nat
  BY DriverAssumption
<1>2. /\ Len(log) \in Nat /\ requests \in Nat /\ iter \in Nat /\ attempt \in Nat
      /\ failures \in Nat /\ step \in Steps /\ sent \in BOOLEAN /\ blocks \in Blocks \cup {0}
  BY LenProperties DEF Typed, RunTypeOK
<1>3. /\ step \in Calling => attempt < MaxCallAttempts
      /\ step = "retry" => failures < MaxConsecutiveFailures
  BY DEF Counted, Calling
<1> USE DEF Bounded
<1>4. ASSUME NEW line \in Lines, log' = Append(log, line), UNCHANGED driverVars,
             UNCHANGED <<requests, refusals>>, refused' \in Nat
      PROVE  Bounded'
  <2>1. Len(log') = Len(log) + 1
    BY <1>4, LineAdded
  <2> QED BY <1>2, <1>4, <2>1 DEF driverVars
<1>5. CASE Charge
  BY <1>2, <1>5 DEF Charge, Serve, logVars
<1>6. CASE Refuse
  <2>1. /\ refused' \in Nat /\ refusals' \in 0 .. MaxRefusals
        /\ UNCHANGED <<iter, before, attempt, attemptBefore, sent, failures, samples,
                       totalBlocks, abandoned, log, requests>>
    BY <1>1, <1>6 DEF Refuse, runVars, driverVars
  <2> QED BY <2>1
<1>7. CASE WriteServed
  <2>1. PICK row \in inFlight :
          /\ LogRow(row)
          /\ log' = Append(log, [tokens |-> row.cost, served |-> TRUE, request |-> row.line])
    BY <1>7 DEF WriteServed
  <2>2. [tokens |-> row.cost, served |-> TRUE, request |-> row.line] \in Lines
    BY RunAssumption DEF Rows, Lines, Typed, RunTypeOK
  <2> QED BY <1>4, <1>7, <2>1, <2>2 DEF WriteServed, LogRow
<1>8. CASE WriteExcluded
  <2>1. PICK row \in inFlight, sampled \in ExcludedLines :
          /\ LogExcluded(row)
          /\ log' = Append(log, [tokens  |-> IF sampled THEN row.cost ELSE 0,
                                served  |-> sampled,
                                request |-> row.line])
    BY <1>8 DEF WriteExcluded
  <2>2. row.cost \in Nat /\ row.line \in Nat
    BY RunAssumption DEF Rows, Typed, RunTypeOK
  <2>3. [tokens |-> IF sampled THEN row.cost ELSE 0, served |-> sampled, request |-> row.line]
          \in Lines
    BY <2>2, ExcludedLinesTyped DEF Lines
  <2> QED BY <1>4, <1>8, <2>1, <2>3 DEF WriteExcluded, LogExcluded
<1>9. CASE WriteRefused
  <2>1. [tokens |-> 0, served |-> FALSE, request |-> 0] \in Lines
    BY DEF Lines
  <2>2. refused' \in Nat
    BY <1>9 DEF WriteRefused
  <2> QED BY <1>4, <1>9, <2>1, <2>2 DEF WriteRefused, runVars
<1>10. CASE WindowResets \/ Stopped \/ UNCHANGED allVars
  <2>1. /\ UNCHANGED <<iter, before, attempt, attemptBefore, sent, failures, samples>>
        /\ UNCHANGED <<totalBlocks, abandoned, log, refused, refusals, requests>>
    BY <1>10 DEF WindowResets, Rollover, Stopped, allVars, runVars, driverVars, logVars
  <2> QED BY <2>1
<1>11. CASE DriverStep
  <2>1. UNCHANGED <<requests, inFlight>> /\ UNCHANGED <<log, refused, refusals>>
    BY <1>11, DriverStepsStutter
       DEF runVars, logVars, DriverStep, Measuring, Primed, BeginIteration, StartClaude,
                ClaudeSucceeds,
           ClaudeFails, AttemptFails, EventLands, WaitExpires, Retry, Sample, Estimate
  <2>2. CASE Primed \/ BeginIteration \/ StartClaude \/ ClaudeSucceeds \/ EventLands
    <3>1. /\ UNCHANGED <<iter, failures, samples, totalBlocks, abandoned>>
          /\ attempt' = attempt \/ attempt' = 0
          /\ before' = before \/ before' = Len(log)
          /\ attemptBefore' = attemptBefore \/ attemptBefore' = Len(log)
          /\ sent' => sent
      BY <2>2 DEF Primed, BeginIteration, StartClaude, ClaudeSucceeds, EventLands
    <3> QED BY <1>1, <1>2, <2>1, <3>1
  <2>3. CASE step \in Calling /\ AttemptFails
    BY <1>1, <1>2, <1>3, <2>1, <2>3 DEF AttemptFails
  <2>4. CASE Retry
    BY <1>1, <1>2, <1>3, <2>1, <2>4 DEF Retry, NextIteration
  <2>5. CASE Sample
    <3>1. TokensOf(ServedSince(before)) \in Nat
      BY TokensOfType
    <3>2. [blocks |-> blocks, observed |-> TokensOf(ServedSince(before))]
            \in [blocks : Blocks \cup {0}, observed : Nat]
      BY <1>2, <3>1
    <3>3. samples' \in Seq([blocks : Blocks \cup {0}, observed : Nat])
      <4>1. CASE UNCHANGED samples
        BY <4>1
      <4>2. CASE samples' = Append(samples, [blocks |-> blocks,
                                             observed |-> TokensOf(ServedSince(before))])
        BY <3>2, <4>2, AppendProperties
      <4> QED BY <2>5, <4>1, <4>2 DEF Sample
    <3>4. totalBlocks' \in Nat
      BY <1>1, <1>2, <2>5 DEF Sample
    <3> QED BY <1>1, <1>2, <2>1, <2>5, <3>3, <3>4 DEF Sample, AfterSuccess
  <2>6. CASE Estimate
    BY <1>1, <1>2, <2>1, <2>6 DEF Estimate, NextIteration
  <2> QED BY <1>11, <2>2, <2>3, <2>4, <2>5, <2>6
          DEF DriverStep, Measuring, ClaudeFails, WaitExpires, Calling
<1> QED BY <1>5, <1>6, <1>7, <1>8, <1>9, <1>10, <1>11 DEF DriverNext, Traffic

\* What a new line changes in the sets of served lines.
LEMMA LineArrives ==
  ASSUME Typed, Bounded, NEW line \in Lines, log' = Append(log, line), before' = before
  PROVE  /\ ~line.served => /\ ServedSince(before)' = ServedSince(before)
                            /\ ServedSince(1)' = ServedSince(1)
         /\ line.served => ServedSince(before)' = ServedSince(before) \cup {Len(log) + 1}
         /\ line.served /\ Len(log) > 0 => ServedSince(1)' = ServedSince(1) \cup {Len(log) + 1}
         /\ Len(log) = 0 => ServedSince(1)' = {} /\ ServedSince(1) = {}
         /\ Shared(before)' = Shared(before)
<1>1. /\ Len(log) \in Nat /\ DOMAIN log = 1 .. Len(log) /\ DOMAIN log' = 1 .. Len(log) + 1
      /\ log'[Len(log) + 1] = line
      /\ \A i \in 1 .. Len(log) : log'[i] = log[i]
  BY LineAdded
<1>2. before \in 0 .. Len(log)
  BY DEF Bounded
<1> USE <1>1, <1>2 DEF ServedSince, Since
<1>3. ~line.served => ServedSince(before)' = ServedSince(before) /\ ServedSince(1)' = ServedSince(1)
  OBVIOUS
<1>4. line.served => ServedSince(before)' = ServedSince(before) \cup {Len(log) + 1}
  OBVIOUS
<1>5. line.served /\ Len(log) > 0 => ServedSince(1)' = ServedSince(1) \cup {Len(log) + 1}
  OBVIOUS
<1>6. Len(log) = 0 => ServedSince(1)' = {} /\ ServedSince(1) = {}
  OBVIOUS
<1>7. Shared(before)' = Shared(before)
  BY DEF Shared
<1> QED BY <1>3, <1>4, <1>5, <1>6, <1>7

\* The sum over some lines, when a line is added.
LEMMA TokensSame ==
  ASSUME Typed, NEW line \in Lines, log' = Append(log, line), NEW S, S \subseteq 1 .. Len(log)
  PROVE  /\ SumFunctionOnSet([i \in DOMAIN log' |-> log'[i].tokens], S)
               = SumFunctionOnSet([i \in DOMAIN log |-> log[i].tokens], S)
         /\ SumFunctionOnSet([i \in DOMAIN log |-> log[i].tokens], S) \in Nat
         /\ SumFunctionOnSet([i \in DOMAIN log' |-> log'[i].tokens], S \cup {Len(log) + 1})
               = SumFunctionOnSet([i \in DOMAIN log |-> log[i].tokens], S) + line.tokens
<1>1. /\ Len(log) \in Nat /\ DOMAIN log = 1 .. Len(log) /\ DOMAIN log' = 1 .. Len(log) + 1
      /\ log'[Len(log) + 1] = line
      /\ \A i \in 1 .. Len(log) : log'[i] = log[i] /\ log[i] \in Lines
  BY LineAdded
<1>2. line.tokens \in Nat /\ \A i \in 1 .. Len(log) : log[i].tokens \in Nat
  BY <1>1 DEF Lines
<1>3. PICK n, f, g : /\ n \in Nat /\ n = Len(log) /\ f = [i \in DOMAIN log |-> log[i].tokens]
                            /\ g = [i \in DOMAIN log' |-> log'[i].tokens]
  BY <1>1
<1>4. \A i \in 1 .. n : f[i] = g[i]
  BY <1>1, <1>2, <1>3
<1>7. g[n + 1] = line.tokens
  BY <1>1, <1>2, <1>3
<1>8. \A i \in 1 .. n + 1 : g[i] \in Nat
  BY <1>1, <1>2, <1>3
<1>9. n \in Nat
  BY <1>3
<1>5. S \in SUBSET (1 .. n)
  BY <1>3
<1>6. /\ SumFunctionOnSet(g, S) = SumFunctionOnSet(f, S)
      /\ SumFunctionOnSet(f, S) \in Nat
      /\ SumFunctionOnSet(g, S \cup {n + 1}) = SumFunctionOnSet(f, S) + g[n + 1]
  BY <1>4, <1>5, <1>8, <1>9, SumExtends, ZenonT(30)
<1> QED BY <1>3, <1>6, <1>7

\* The tokens of a new line.
LEMMA LineTokens ==
  ASSUME Typed, Bounded, NEW line \in Lines, log' = Append(log, line), before' = before
  PROVE  /\ TokensOf(Shared(before))' = TokensOf(Shared(before))
         /\ ~line.served => TokensOf(ServedSince(1))' = TokensOf(ServedSince(1))
         /\ line.served /\ Len(log) > 0 =>
              TokensOf(ServedSince(1))' = TokensOf(ServedSince(1)) + line.tokens
         /\ Len(log) = 0 => TokensOf(ServedSince(1))' = 0
<1>1. /\ Shared(before) \subseteq 1 .. Len(log) /\ ServedSince(1) \subseteq 1 .. Len(log)
  BY LineAdded DEF Shared, ServedSince, Since
<1>2. PICK S : S = Shared(before) /\ S = Shared(before)' /\ S \subseteq 1 .. Len(log)
  BY <1>1, LineArrives
<1>3. PICK T : T = ServedSince(1) /\ T \subseteq 1 .. Len(log)
  BY <1>1
<1>4. PICK U : U = ServedSince(1)'
  OBVIOUS
<1>5. /\ ~line.served => U = T
      /\ line.served /\ Len(log) > 0 => U = T \cup {Len(log) + 1}
      /\ Len(log) = 0 => U = {}
  BY <1>3, <1>4, LineArrives
<1>6. TokensOf(Shared(before))' = TokensOf(Shared(before))
  BY <1>2, TokensSame DEF TokensOf
<1>7. ~line.served => TokensOf(ServedSince(1))' = TokensOf(ServedSince(1))
  BY <1>3, <1>4, <1>5, TokensSame DEF TokensOf
<1>8. line.served /\ Len(log) > 0 =>
         TokensOf(ServedSince(1))' = TokensOf(ServedSince(1)) + line.tokens
  BY <1>3, <1>4, <1>5, TokensSame DEF TokensOf
<1>9. Len(log) = 0 => TokensOf(ServedSince(1))' = 0
  BY <1>4, <1>5, SumEmpty DEF TokensOf
<1> QED BY <1>6, <1>7, <1>8, <1>9

\* Nothing is in the samples before the second line.
LEMMA NothingShared ==
  ASSUME Typed, Len(log) <= 1
  PROVE  TokensOf(Shared(Len(log))) = 0 /\ TokensOf(ServedSince(1)) = 0
<1>1. Shared(Len(log)) = {} /\ ServedSince(1) = {}
  BY LenProperties DEF Shared, ServedSince, Since, Typed
<1> QED BY <1>1, SumEmpty DEF TokensOf

\* A line of the current call keeps the books.
LEMMA LineKeeps ==
  ASSUME Typed, Typed', Bounded, OneCall, Accounted, step # "died",
         NEW line \in Lines, log' = Append(log, line), UNCHANGED driverVars,
         \/ /\ inFlight # {} /\ inFlight' = {} /\ refused' = refused
            /\ line.served => line.tokens = Tokens(blocks)
         \/ refused > 0 /\ inFlight' = inFlight /\ ~line.served
  PROVE  OneCall' /\ Accounted'
<1>1. UNCHANGED <<step, blocks, before, attemptBefore, sent, samples, totalBlocks>>
  BY DEF driverVars
<1>2. /\ Len(log) \in Nat /\ Len(log') = Len(log) + 1
      /\ DOMAIN log = 1 .. Len(log) /\ DOMAIN log' = 1 .. Len(log) + 1
      /\ log'[Len(log) + 1] = line
      /\ \A i \in 1 .. Len(log) : log'[i] = log[i]
  BY LineAdded
<1>3. /\ ~line.served => ServedSince(before)' = ServedSince(before)
      /\ line.served => ServedSince(before)' = ServedSince(before) \cup {Len(log) + 1}
      /\ ServedSince(before) \subseteq 1 .. Len(log)
  BY <1>1, <1>2, LineArrives DEF ServedSince, Since
<1>4. step \in {"prime", "running", "waiting"} /\ refused \in Nat
  BY DEF OneCall, Bounded
<1>5. \A a, b \in inFlight' : a = b
  BY DEF OneCall
<1>6. \A row \in inFlight' : row.cost = Tokens(blocks)
  BY DEF OneCall
<1>7. /\ samples' = samples /\ totalBlocks' = totalBlocks
      /\ SampleSum' = SampleSum /\ BlockSum' = BlockSum
  BY <1>1 DEF SampleSum, BlockSum
<1>8. CASE step = "prime"
  <2>1. /\ refused = 0 /\ sent /\ inFlight # {} /\ inFlight' = {} /\ refused' = 0 /\ Len(log) = 0
    BY <1>4, <1>8 DEF OneCall
  <2>2. OneCall'
    BY <1>1, <1>2, <1>5, <1>6, <1>8, <2>1 DEF OneCall, Open
  <2>3. SampleSum = 0
    BY <1>8, <2>1, NothingShared DEF Accounted, SampledTo, Open
  <2>4. TokensOf(Shared(SampledTo))' = 0
    <3>1. Shared(Len(log))' = {}
      BY <1>2, <2>1 DEF Shared, ServedSince, Since
    <3>2. SampledTo' = Len(log')
      BY <1>1, <1>8 DEF SampledTo, Open
    <3> QED BY <3>1, <3>2, SumEmpty DEF TokensOf, Shared
  <2> QED BY <1>7, <2>2, <2>3, <2>4 DEF Accounted
<1>9. CASE step \in {"running", "waiting"}
  <2>1. /\ before \in Nat /\ before <= Len(log) /\ before > 0
        /\ attemptBefore \in Nat /\ attemptBefore <= Len(log) /\ before <= attemptBefore
        /\ \A i \in ServedSince(before) :
             log[i].tokens = Tokens(blocks) /\ i > attemptBefore
        /\ \A i, j \in ServedSince(before) : i = j
        /\ ServedSince(before) # {} => inFlight = {} /\ sent
        /\ ~sent => inFlight = {}
    BY <1>9 DEF OneCall, Bounded, Open
  <2>2. line.served => /\ ServedSince(before) = {} /\ inFlight' = {} /\ sent
                       /\ line.tokens = Tokens(blocks)
    BY <2>1
  <2>3. /\ \A i \in ServedSince(before)' : log'[i].tokens = Tokens(blocks) /\ i > attemptBefore
        /\ \A i, j \in ServedSince(before)' : i = j
        /\ ServedSince(before)' # {} => inFlight' = {} /\ sent
        /\ ~sent => inFlight' = {}
    <3>1. CASE line.served
      BY <1>2, <1>3, <2>1, <2>2, <3>1
    <3>2. CASE ~line.served
      <4>1. ServedSince(before)' = ServedSince(before)
        BY <1>3, <3>2
      <4> QED BY <1>2, <1>3, <2>1, <3>2, <4>1
    <3> QED BY <3>1, <3>2
  <2>6. /\ step' \in {"running", "waiting"} /\ Len(log') > 0
        /\ before' > 0 /\ before' <= attemptBefore'
        /\ Tokens(blocks') = Tokens(blocks)
    BY <1>1, <1>2, <1>9, <2>1
  <2>7. /\ \A i \in ServedSince(before)' : log'[i].tokens = Tokens(blocks') /\ i > attemptBefore'
        /\ ServedSince(before)' # {} => inFlight' = {} /\ sent'
        /\ ~sent' => inFlight' = {}
    BY <1>1, <2>3, <2>6
  <2>8. \A row \in inFlight' : row.cost = Tokens(blocks')
    BY <1>6, <2>6
  <2>4. OneCall'
    BY <1>5, <2>3, <2>6, <2>7, <2>8 DEF OneCall, Open
  <2>5. TokensOf(Shared(SampledTo))' = TokensOf(Shared(SampledTo))
    <3>1. SampledTo = before /\ SampledTo' = before'
      BY <1>1, <1>9 DEF SampledTo, Open
    <3>2. TokensOf(Shared(before))' = TokensOf(Shared(before))
      BY <1>1, LineTokens
    <3> QED BY <3>1, <3>2 DEF TokensOf, Shared
  <2> QED BY <1>7, <2>4, <2>5 DEF Accounted
<1> QED BY <1>4, <1>8, <1>9

\* The row of a call is logged.
LEMMA ServedLineKeeps ==
  ASSUME Typed, Typed', Bounded, CallInv, step # "died", WriteServed
  PROVE  CallInv'
<1>1. PICK row \in inFlight :
        /\ LogRow(row)
        /\ log' = Append(log, [tokens |-> row.cost, served |-> TRUE, request |-> row.line])
  BY DEF WriteServed
<1>2. PICK line : line = [tokens |-> row.cost, served |-> TRUE, request |-> row.line]
  OBVIOUS
<1>3. line \in Lines /\ line.served /\ line.tokens = row.cost /\ log' = Append(log, line)
  BY <1>1, <1>2, RunAssumption DEF Rows, Lines, Typed, RunTypeOK
<1>4. row.cost = Tokens(blocks) /\ inFlight' = {}
  BY <1>1 DEF CallInv, OneCall, LogRow
<1>5. UNCHANGED driverVars /\ refused' = refused
  BY DEF WriteServed
<1>6. OneCall' /\ Accounted'
  BY <1>3, <1>4, <1>5, LineKeeps DEF CallInv
<1>7. /\ Len(log) \in Nat /\ Len(log') = Len(log) + 1
      /\ Len(log) > 0 => TokensOf(ServedSince(1))' = TokensOf(ServedSince(1)) + row.cost
      /\ Len(log) = 0 => TokensOf(ServedSince(1))' = 0
  BY <1>3, <1>5, LineAdded, LineTokens DEF driverVars
<1>8. tally' = Tallied(tally, row.cost, row.bucket, row.line) /\ cuts' = cuts /\ row.bucket \in Nat
  BY <1>1 DEF LogRow, Rows, Typed, RunTypeOK
<1>9. tally'.previous # NoBucket
  BY <1>8, BucketAssumption DEF Tallied, Typed, RunTypeOK, Tallies
<1>10. CASE tally.previous = NoBucket
  <2>1. tally'.measured = tally.measured
    BY <1>8, <1>10 DEF Tallied, Typed, RunTypeOK, Tallies
  <2> QED BY <1>6, <1>7, <1>8, <1>9, <1>10, <2>1 DEF CallInv, Measured
<1>11. CASE tally.previous # NoBucket
  <2>1. tally'.measured = tally.measured + row.cost
    BY <1>8, <1>11 DEF Tallied
  <2> QED BY <1>6, <1>7, <1>8, <1>9, <1>11, <2>1 DEF CallInv, Measured
<1> QED BY <1>10, <1>11

\* Its answer broke off.
LEMMA ExcludedLineKeeps ==
  ASSUME Typed, Typed', Bounded, CallInv, step # "died", WriteExcluded
  PROVE  CallInv'
<1>1. PICK row \in inFlight, sampled \in ExcludedLines :
        /\ LogExcluded(row)
        /\ log' = Append(log, [tokens  |-> IF sampled THEN row.cost ELSE 0,
                              served  |-> sampled,
                              request |-> row.line])
  BY DEF WriteExcluded
<1>2. PICK line : line = [tokens  |-> IF sampled THEN row.cost ELSE 0,
                          served  |-> sampled,
                          request |-> row.line]
  OBVIOUS
<1>3. row.cost \in Nat /\ row.line \in Nat
  BY RunAssumption DEF Rows, Typed, RunTypeOK
<1>4. /\ line \in Lines /\ (line.served => line.tokens = row.cost)
      /\ log' = Append(log, line)
  BY <1>1, <1>2, <1>3, ExcludedLinesTyped DEF Lines
<1>5. row.cost = Tokens(blocks) /\ inFlight' = {} /\ inFlight # {}
  BY <1>1 DEF CallInv, OneCall, LogExcluded
<1>6. UNCHANGED driverVars /\ refused' = refused
  BY DEF WriteExcluded
<1>7. OneCall' /\ Accounted'
  BY <1>4, <1>5, <1>6, LineKeeps DEF CallInv
<1>8. tally' = tally /\ cuts' = cuts + 1 /\ cuts \in Nat
  BY <1>1 DEF LogExcluded, Typed, RunTypeOK
<1> QED BY <1>7, <1>8 DEF CallInv, Measured

\* An answer other than 200 is logged.
LEMMA RefusedLineKeeps ==
  ASSUME Typed, Typed', Bounded, CallInv, step \notin {"prime", "died"}, WriteRefused
  PROVE  CallInv'
<1>1. PICK line : line = [tokens |-> 0, served |-> FALSE, request |-> 0]
  OBVIOUS
<1>2. line \in Lines /\ ~line.served
  BY <1>1 DEF Lines
<1>3. log' = Append(log, line) /\ refused > 0 /\ UNCHANGED driverVars
  BY <1>1 DEF WriteRefused
<1>4. UNCHANGED <<inFlight, tally, cuts>>
  BY DEF WriteRefused, runVars
<1>5. OneCall' /\ Accounted'
  BY <1>2, <1>3, <1>4, LineKeeps DEF CallInv
<1>6. Len(log) > 0
  BY DEF CallInv, OneCall
<1>7. TokensOf(ServedSince(1))' = TokensOf(ServedSince(1)) /\ Len(log) \in Nat /\ Len(log') = Len(log) + 1
  BY <1>2, <1>3, LineTokens, LineAdded DEF driverVars
<1> QED BY <1>4, <1>5, <1>6, <1>7 DEF CallInv, Measured

\* Traffic that writes no line.
LEMMA OtherTrafficKeeps ==
  ASSUME Typed, Bounded, CallInv, step # "died",
         Charge \/ (Refuse /\ step # "prime") \/ WindowResets
  PROVE  CallInv'
<1>1. /\ UNCHANGED <<step, blocks, before, attemptBefore, samples, totalBlocks, log, tally, cuts>>
  BY DEF Charge, Serve, Refuse, WindowResets, Rollover, runVars, driverVars, logVars
<1>2. Accounted'
  BY <1>1 DEF CallInv, Accounted, SampleSum, BlockSum, TokensOf, Shared, ServedSince, Since, SampledTo
<1>3. Measured'
  BY <1>1 DEF CallInv, Measured, TokensOf, ServedSince, Since
<1>4. ServedSince(before)' = ServedSince(before)
  BY <1>1 DEF ServedSince, Since
<1>5. CASE Charge
  <2>1. /\ step \in {"prime", "running"} /\ ~sent /\ sent' /\ inFlight = {} /\ refused' = refused
        /\ step = "running" => ServedSince(before) = {}
    BY <1>5 DEF Charge, CallInv, OneCall, logVars
  <2>2. PICK row : row = [line |-> requests + 1, cost |-> Tokens(blocks),
                         bucket |-> Bucket(served + Tokens(blocks)), from |-> served]
    OBVIOUS
  <2>3. row.cost = Tokens(blocks)
    BY <2>2
  <2>4. inFlight' = {row}
    BY <1>5, <2>1, <2>2 DEF Charge, Serve
  <2> QED BY <1>1, <1>2, <1>3, <1>4, <2>1, <2>3, <2>4 DEF CallInv, OneCall, Open
<1>6. CASE Refuse /\ step # "prime"
  <2>1. step = "running" /\ UNCHANGED <<sent, inFlight>>
    BY <1>6 DEF Refuse, runVars, driverVars
  <2> QED BY <1>1, <1>2, <1>3, <1>4, <2>1 DEF CallInv, OneCall, Open
<1>7. CASE WindowResets
  <2>1. UNCHANGED <<sent, inFlight, refused>>
    BY <1>7 DEF WindowResets, Rollover, driverVars, logVars
  <2> QED BY <1>1, <1>2, <1>3, <1>4, <2>1 DEF CallInv, OneCall, Open
<1> QED BY <1>5, <1>6, <1>7

\* The one line of a successful iteration.
LEMMA CallTokens ==
  ASSUME Typed, NEW i, ServedSince(before) = {i}, before \in Nat, before > 0
  PROVE  /\ TokensOf(ServedSince(before)) = log[i].tokens
         /\ TokensOf(Shared(Len(log))) = TokensOf(Shared(before)) + log[i].tokens
<1>1. /\ Len(log) \in Nat /\ DOMAIN log = 1 .. Len(log)
      /\ \A j \in 1 .. Len(log) : log[j].tokens \in Nat
  <2>1. log \in Seq(Lines)
    BY DEF Typed
  <2>2. \A j \in 1 .. Len(log) : log[j] \in Lines
    BY <2>1, ElementOfSeq
  <2> QED BY <2>1, <2>2, LenProperties DEF Lines
<1>2. PICK D, f, S : /\ D = 1 .. Len(log) /\ f = [j \in DOMAIN log |-> log[j].tokens]
                     /\ S = Shared(before)
  OBVIOUS
<1>3. /\ i \in D /\ i \notin S /\ S \in SUBSET D /\ Shared(Len(log)) = S \cup {i}
  BY <1>1, <1>2 DEF Shared, ServedSince, Since
<1>4. IsFiniteSet(D)
  <2>1. 1 \in Int /\ Len(log) \in Int
    BY <1>1
  <2> QED BY <1>2, <2>1, FS_Interval
<1>5. \A j \in D : f[j] \in Nat
  BY <1>1, <1>2
<1>6. f[i] = log[i].tokens /\ f[i] \in Nat
  BY <1>1, <1>2, <1>3
<1>7. \A T \in SUBSET D : \A j \in D \ T :
         SumFunctionOnSet(f, T \cup {j}) = f[j] + SumFunctionOnSet(f, T)
  <2> TAKE T \in SUBSET D
  <2> TAKE j \in D \ T
  <2> QED BY <1>4, <1>5, SumAdd
<1>8. SumFunctionOnSet(f, {i}) = f[i]
  <2>1. {} \in SUBSET D /\ i \in D \ {} /\ {} \cup {i} = {i}
    BY <1>3
  <2>2. SumFunctionOnSet(f, {i}) = f[i] + SumFunctionOnSet(f, {})
    BY <1>7, <2>1
  <2> QED BY <1>6, <2>2, SumEmpty
<1>9. SumFunctionOnSet(f, S) \in Nat
  <2>1. IsFiniteSet(S)
    BY <1>3, <1>4, FS_Subset
  <2>2. \A j \in S : f[j] \in Nat
    BY <1>3, <1>5
  <2> QED BY <2>1, <2>2, SumType
<1>10. SumFunctionOnSet(f, S \cup {i}) = SumFunctionOnSet(f, S) + f[i]
  <2>1. SumFunctionOnSet(f, S \cup {i}) = f[i] + SumFunctionOnSet(f, S)
    BY <1>3, <1>7
  <2> QED BY <1>6, <1>9, <2>1
<1> QED BY <1>2, <1>3, <1>6, <1>8, <1>10 DEF TokensOf

\* A sample more.
LEMMA SampleAdded ==
  ASSUME Bounded, NEW b \in Blocks \cup {0}, NEW n \in Nat,
         samples' = Append(samples, [blocks |-> b, observed |-> n])
  PROVE  /\ SampleSum' = SampleSum + n
         /\ BlockSum' = BlockSum + b
         /\ DOMAIN samples' = 1 .. Len(samples) + 1 /\ DOMAIN samples = 1 .. Len(samples)
         /\ \A i \in DOMAIN samples : samples'[i] = samples[i]
         /\ samples'[Len(samples) + 1] = [blocks |-> b, observed |-> n]
<1> DEFINE Each == [blocks : Blocks \cup {0}, observed : Nat]
<1>1. samples \in Seq(Each) /\ [blocks |-> b, observed |-> n] \in Each
  BY DEF Bounded
<1>2. \A i \in 1 .. Len(samples) : samples[i] \in Each
  BY <1>1, ElementOfSeq
<1>3. /\ DOMAIN samples' = 1 .. Len(samples) + 1 /\ DOMAIN samples = 1 .. Len(samples)
      /\ Len(samples) \in Nat
      /\ \A i \in 1 .. Len(samples) : samples'[i] = samples[i]
      /\ samples'[Len(samples) + 1] = [blocks |-> b, observed |-> n]
  <2> HIDE DEF Each
  <2>1. samples' \in Seq(Each) /\ Len(samples') = Len(samples) + 1
    BY <1>1, AppendProperties
  <2> QED BY <1>1, <2>1, AppendProperties, LenProperties
<1>4. \A i \in 1 .. Len(samples) : samples[i].blocks \in Nat /\ samples[i].observed \in Nat
  <2>1. Blocks \cup {0} \subseteq Nat
    BY DriverAssumption
  <2> QED BY <1>2, <2>1
<1>5. b \in Nat
  BY DriverAssumption
<1>6. PICK k \in Nat : k = Len(samples)
  BY <1>3
<1>7. SampleSum' = SampleSum + n
  <2>1. PICK f, g : /\ f = [i \in DOMAIN samples |-> samples[i].observed]
                    /\ g = [i \in DOMAIN samples' |-> samples'[i].observed]
    OBVIOUS
  <2>2. DOMAIN f = 1 .. k /\ DOMAIN g = 1 .. k + 1 /\ g[k + 1] = n
    BY <1>3, <1>6, <2>1
  <2>3. \A i \in 1 .. k : f[i] = g[i]
    BY <1>3, <1>6, <2>1
  <2>4. \A i \in 1 .. k + 1 : g[i] \in Nat
    BY <1>3, <1>4, <1>6, <2>1
  <2>5. SumFunction(g) = SumFunction(f) + g[k + 1]
    BY <2>2, <2>3, <2>4, SumGrows
  <2> QED BY <2>1, <2>2, <2>5 DEF SampleSum
<1>8. BlockSum' = BlockSum + b
  <2>1. PICK f, g : /\ f = [i \in DOMAIN samples |-> samples[i].blocks]
                    /\ g = [i \in DOMAIN samples' |-> samples'[i].blocks]
    OBVIOUS
  <2>2. DOMAIN f = 1 .. k /\ DOMAIN g = 1 .. k + 1 /\ g[k + 1] = b
    BY <1>3, <1>6, <2>1
  <2>3. \A i \in 1 .. k : f[i] = g[i]
    BY <1>3, <1>6, <2>1
  <2>4. \A i \in 1 .. k + 1 : g[i] \in Nat
    BY <1>3, <1>4, <1>5, <1>6, <2>1
  <2>5. SumFunction(g) = SumFunction(f) + g[k + 1]
    BY <2>2, <2>3, <2>4, SumGrows
  <2> QED BY <2>1, <2>2, <2>5 DEF BlockSum
<1> QED BY <1>3, <1>7, <1>8

\* A served call is sampled.
LEMMA SampleKeeps ==
  ASSUME Typed, Bounded, CallInv, Sample
  PROVE  CallInv'
<1>1. /\ UNCHANGED <<inFlight, tally, cuts, log, refused, before, blocks, sent>>
      /\ step = "sample" /\ step' = "estimate"
  BY DEF Sample, runVars, logVars
<1>2. /\ before \in Nat /\ before > 0 /\ ServedSince(before) # {} /\ Len(log) > 0
      /\ \A i \in ServedSince(before) : log[i].tokens = Tokens(blocks)
      /\ \A i, j \in ServedSince(before) : i = j
      /\ inFlight = {} /\ refused = 0
  BY <1>1 DEF CallInv, OneCall, Open, Bounded
<1>3. OneCall'
  BY <1>1, <1>2 DEF OneCall, Open
<1>4. Measured'
  BY <1>1 DEF CallInv, Measured, TokensOf, ServedSince, Since
<1>5. PICK i : ServedSince(before) = {i} /\ log[i].tokens = Tokens(blocks)
  <2>1. PICK i \in ServedSince(before) : TRUE
    BY <1>2
  <2> QED BY <1>2, <2>1
<1>6. /\ TokensOf(ServedSince(before)) = Tokens(blocks)
      /\ TokensOf(Shared(Len(log))) = TokensOf(Shared(before)) + Tokens(blocks)
  BY <1>2, <1>5, CallTokens
<1>7. /\ samples' = Append(samples, [blocks |-> blocks, observed |-> Tokens(blocks)])
      /\ totalBlocks' = totalBlocks + blocks
  BY <1>2, <1>6 DEF Sample
<1>8. PICK b \in Blocks \cup {0}, n \in Nat : b = blocks /\ n = Tokens(b)
  BY TokensType, DriverAssumption DEF Typed
<1>9. /\ SampleSum' = SampleSum + n /\ BlockSum' = BlockSum + b
      /\ DOMAIN samples' = 1 .. Len(samples) + 1 /\ DOMAIN samples = 1 .. Len(samples)
      /\ \A j \in DOMAIN samples : samples'[j] = samples[j]
      /\ samples'[Len(samples) + 1] = [blocks |-> b, observed |-> n]
  BY <1>7, <1>8, SampleAdded
<1>10. /\ \A j \in DOMAIN samples : samples[j].observed = Tokens(samples[j].blocks)
       /\ totalBlocks = BlockSum
       /\ SampleSum = TokensOf(Shared(before))
  BY <1>1 DEF CallInv, Accounted, SampledTo, Open
<1>11. \A j \in DOMAIN samples' : samples'[j].observed = Tokens(samples'[j].blocks)
  <2> SUFFICES ASSUME NEW j \in DOMAIN samples'
               PROVE  samples'[j].observed = Tokens(samples'[j].blocks)
    OBVIOUS
  <2>1. CASE j \in DOMAIN samples
    BY <1>9, <1>10, <2>1
  <2>2. CASE j = Len(samples) + 1
    BY <1>8, <1>9, <2>2
  <2>3. j \in DOMAIN samples \/ j = Len(samples) + 1
    BY <1>9, LenProperties DEF Bounded
  <2> QED BY <2>1, <2>2, <2>3
<1>12. totalBlocks' = BlockSum'
  BY <1>7, <1>8, <1>9, <1>10
<1>13. SampleSum' = TokensOf(Shared(SampledTo))'
  <2>1. SampledTo' = Len(log)
    BY <1>1 DEF SampledTo, Open
  <2>2. TokensOf(Shared(SampledTo))' = TokensOf(Shared(Len(log)))
    BY <1>1, <2>1 DEF TokensOf, Shared, ServedSince, Since
  <2> QED BY <1>6, <1>8, <1>9, <1>10, <2>2
<1> QED BY <1>3, <1>4, <1>11, <1>12, <1>13 DEF CallInv, Accounted

\* The driver's other steps.
LEMMA DriverKeeps ==
  ASSUME Typed, Bounded, CallInv, DriverStep, ~Sample, Claimed'
  PROVE  CallInv'
<1>1. UNCHANGED <<inFlight, tally, cuts, log, refused, samples, totalBlocks>>
  BY DriverStepsStutter
     DEF runVars, logVars, DriverStep, Measuring, Primed, BeginIteration, StartClaude,
              ClaudeSucceeds,
         ClaudeFails, AttemptFails, EventLands, WaitExpires, Retry, Estimate
<1>2. Measured'
  BY <1>1 DEF CallInv, Measured, TokensOf, ServedSince, Since
<1>3. /\ \A a, b \in inFlight : a = b
      /\ Len(log) \in Nat /\ DOMAIN log = 1 .. Len(log)
      /\ before \in 0 .. Len(log) /\ attemptBefore \in 0 .. Len(log)
  BY LenProperties DEF CallInv, OneCall, Bounded, Typed
<1>4. ASSUME TokensOf(Shared(SampledTo))' = TokensOf(Shared(SampledTo)) PROVE Accounted'
  <2>1. /\ \A i \in DOMAIN samples : samples[i].observed = Tokens(samples[i].blocks)
        /\ totalBlocks = BlockSum /\ SampleSum = TokensOf(Shared(SampledTo))
    BY DEF CallInv, Accounted
  <2>2. SampleSum' = SampleSum /\ BlockSum' = BlockSum
    BY <1>1 DEF SampleSum, BlockSum
  <2> QED BY <1>1, <1>4, <2>1, <2>2 DEF Accounted
<1>5. ASSUME SampledTo' = SampledTo PROVE Accounted'
  <2>1. PICK n : n = SampledTo /\ n = SampledTo'
    BY <1>5
  <2>2. TokensOf(Shared(SampledTo))' = TokensOf(Shared(SampledTo))
    BY <1>1, <2>1 DEF TokensOf, Shared, ServedSince, Since
  <2> QED BY <1>4, <2>2
<1>6. ASSUME before' = before PROVE ServedSince(before)' = ServedSince(before)
  BY <1>1, <1>6 DEF ServedSince, Since
<1>7. CASE Primed
  <2>1. /\ step = "prime" /\ step' = "iterate" /\ sent /\ inFlight = {} /\ refused = 0
    BY <1>7 DEF Primed, Claimed, AllLanded
  <2>2. Len(log) = 1
    BY <2>1 DEF CallInv, OneCall
  <2>3. SampledTo' = SampledTo
    BY <1>1, <2>1 DEF SampledTo, Open
  <2>4. OneCall'
    BY <1>1, <2>1, <2>2 DEF OneCall, Open
  <2> QED BY <1>2, <1>5, <2>3, <2>4 DEF CallInv
<1>8. CASE BeginIteration
  <2>1. /\ step = "iterate" /\ step' = "call" /\ before' = Len(log)
        /\ inFlight = {} /\ refused = 0 /\ Len(log) > 0
    BY <1>8 DEF BeginIteration, CallInv, OneCall
  <2>2. ServedSince(before)' = {}
    BY <1>1, <1>3, <2>1 DEF ServedSince, Since
  <2>3. SampledTo' = SampledTo
    BY <1>1, <2>1 DEF SampledTo, Open
  <2>4. OneCall'
    BY <1>1, <2>1, <2>2 DEF OneCall, Open
  <2> QED BY <1>2, <1>5, <2>3, <2>4 DEF CallInv
<1>9. CASE StartClaude
  <2>1. /\ step = "call" /\ step' = "running" /\ attemptBefore' = Len(log) /\ sent' = FALSE
        /\ UNCHANGED <<before, blocks>>
    BY <1>9 DEF StartClaude
  <2>2. /\ inFlight = {} /\ refused = 0 /\ Len(log) > 0 /\ before > 0 /\ ServedSince(before) = {}
    BY <2>1 DEF CallInv, OneCall, Open
  <2>3. ServedSince(before)' = {}
    BY <1>6, <2>1, <2>2
  <2>4. SampledTo' = SampledTo
    BY <2>1 DEF SampledTo, Open
  <2>5. OneCall'
    BY <1>1, <1>3, <2>1, <2>2, <2>3 DEF OneCall, Open
  <2> QED BY <1>2, <1>5, <2>4, <2>5 DEF CallInv
<1>10. CASE ClaudeSucceeds
  <2>1. /\ step = "running" /\ step' = "waiting"
        /\ UNCHANGED <<before, blocks, attemptBefore, sent>>
    BY <1>10 DEF ClaudeSucceeds
  <2>2. SampledTo' = SampledTo
    BY <2>1 DEF SampledTo, Open
  <2>3. OneCall'
    BY <1>1, <1>6, <2>1 DEF CallInv, OneCall, Open
  <2> QED BY <1>2, <1>5, <2>2, <2>3 DEF CallInv
<1>11. CASE step \in {"running", "waiting"} /\ AttemptFails
  <2>1. /\ step' = "retry" /\ inFlight = {} /\ refused = 0 /\ ServedSince(attemptBefore) = {}
        /\ UNCHANGED <<before, blocks>>
    BY <1>11 DEF AttemptFails, AllLanded, Claimed
  <2>2. /\ before > 0 /\ Len(log) > 0 /\ \A i \in ServedSince(before) : i > attemptBefore
    BY <1>11 DEF CallInv, OneCall, Open
  <2>3. ServedSince(before) = {}
    BY <2>1, <2>2 DEF ServedSince, Since
  <2>4. SampledTo' = SampledTo
    BY <1>11, <2>1 DEF SampledTo, Open
  <2>5. ServedSince(before)' = {}
    BY <1>6, <2>1, <2>3
  <2>6. OneCall'
    BY <1>1, <1>3, <2>1, <2>2, <2>5 DEF OneCall, Open
  <2> QED BY <1>2, <1>5, <2>4, <2>6 DEF CallInv
<1>12. CASE EventLands
  <2>1. /\ step = "waiting" /\ step' = "sample" /\ refused = 0 /\ Len(log) > attemptBefore
        /\ \A i \in Since(attemptBefore) : log[i].served
        /\ UNCHANGED <<before, blocks>>
    BY <1>12 DEF EventLands, NewLine, Claimed
  <2>2. /\ before > 0 /\ Len(log) > 0 /\ before <= attemptBefore
        /\ ServedSince(before) # {} => inFlight = {}
        /\ \A i \in ServedSince(before) : log[i].tokens = Tokens(blocks)
        /\ \A i, j \in ServedSince(before) : i = j
    BY <2>1 DEF CallInv, OneCall, Open
  <2>3. Len(log) \in Since(attemptBefore) /\ Len(log) \in Since(before)
    BY <1>3, <2>1, <2>2 DEF Since
  <2>4. ServedSince(before) # {}
    BY <2>1, <2>3 DEF ServedSince
  <2>5. SampledTo' = SampledTo
    BY <2>1 DEF SampledTo, Open
  <2>6. ServedSince(before)' = ServedSince(before)
    BY <1>6, <2>1
  <2>7. OneCall'
    BY <1>1, <1>3, <2>1, <2>2, <2>4, <2>6 DEF OneCall, Open
  <2> QED BY <1>2, <1>5, <2>5, <2>7 DEF CallInv
<1>13. CASE Retry
  <2>1. /\ step = "retry" /\ step' \in {"call", "iterate", "done"} /\ UNCHANGED <<before, blocks>>
    BY <1>13 DEF Retry, NextIteration, Claimed
  <2>2. /\ inFlight = {} /\ refused = 0 /\ Len(log) > 0 /\ before > 0 /\ ServedSince(before) = {}
    BY <2>1 DEF CallInv, OneCall, Open
  <2>3. ServedSince(before)' = {}
    BY <1>6, <2>1, <2>2
  <2>4. OneCall'
    BY <1>1, <2>1, <2>2, <2>3 DEF OneCall, Open
  <2>5. CASE step' = "call"
    BY <1>2, <1>5, <2>1, <2>4, <2>5 DEF CallInv, SampledTo, Open
  <2>6. CASE step' # "call"
    <3>1. SampledTo = before /\ SampledTo' = Len(log)
      BY <1>1, <2>1, <2>6 DEF SampledTo, Open
    <3>2. Shared(Len(log)) = Shared(before)
      BY <1>3, <2>2 DEF Shared, ServedSince, Since
    <3>3. TokensOf(Shared(SampledTo))' = TokensOf(Shared(Len(log)))
      BY <1>1, <3>1 DEF TokensOf, Shared, ServedSince, Since
    <3>4. TokensOf(Shared(SampledTo))' = TokensOf(Shared(SampledTo))
      BY <3>1, <3>2, <3>3 DEF TokensOf
    <3> QED BY <1>2, <1>4, <2>4, <3>4 DEF CallInv
  <2> QED BY <2>5, <2>6
<1>14. CASE Estimate
  <2>1. /\ step = "estimate" /\ step' \in {"iterate", "done"} /\ UNCHANGED <<before, blocks>>
    BY <1>14 DEF Estimate, NextIteration, Claimed
  <2>2. inFlight = {} /\ refused = 0 /\ Len(log) > 0
    BY <2>1 DEF CallInv, OneCall
  <2>3. OneCall'
    BY <1>1, <2>1, <2>2 DEF OneCall, Open
  <2>4. SampledTo' = SampledTo
    BY <1>1, <2>1 DEF SampledTo, Open
  <2> QED BY <1>2, <1>5, <2>3, <2>4 DEF CallInv
<1> QED BY <1>7, <1>8, <1>9, <1>10, <1>11, <1>12, <1>13, <1>14
        DEF DriverStep, Measuring, ClaudeFails, WaitExpires

LEMMA CallInit == DriverInit => CallInv
<1> SUFFICES ASSUME DriverInit PROVE CallInv
  OBVIOUS
<1>1. Typed /\ Len(log) = 0
  BY TypedInit DEF DriverInit
<1>2. TokensOf(Shared(Len(log))) = 0
  BY <1>1, NothingShared
<1>3. SampleSum = 0 /\ BlockSum = 0
  <2>1. \A f : DOMAIN f = {} => SumFunction(f) = 0
    BY SumEmpty DEF SumFunction
  <2>2. DOMAIN samples = {}
    BY DEF DriverInit
  <2> QED BY <2>1, <2>2 DEF SampleSum, BlockSum
<1>4. OneCall
  BY <1>1 DEF DriverInit, Init, OneCall, Open
<1>5. Accounted
  BY <1>2, <1>3 DEF DriverInit, Accounted, SampledTo, Open
<1>6. Measured
  BY <1>1 DEF DriverInit, Init, Measured, NoTally
<1> QED BY <1>4, <1>5, <1>6 DEF CallInv

\* What is quiet when the priming call is over has been so from the start.
LEMMA QuietSoFar ==
  ASSUME Typed, Bounded, step = "prime", Claimed', [DriverNext]_allVars
  PROVE  Quiet /\ ~Refuse /\ ~WriteRefused
<1>1. CASE Primed
  <2>1. step' # step
    BY <1>1 DEF Primed
  <2>2. ~Refuse /\ ~WriteRefused
    BY <2>1 DEF Refuse, WriteRefused, driverVars
  <2> QED BY <1>1, <2>2 DEF Primed, Claimed, AllLanded, Quiet
<1>2. CASE ~Primed
  <2>1. step' = "prime"
    BY <1>2 DEF DriverNext, DriverStep, Measuring, Traffic, BeginIteration, StartClaude,
                ClaudeSucceeds, ClaudeFails, AttemptFails, EventLands, WaitExpires, Retry,
                Sample, Estimate, Charge, Refuse, WriteServed, WriteExcluded, WriteRefused,
                WindowResets, Stopped, allVars, driverVars
  <2>2. refused' = 0 /\ \A i \in DOMAIN log' : log'[i].served
    BY <2>1 DEF Claimed, Quiet
  <2>3. ~Refuse
    BY <2>2 DEF Refuse, Bounded
  <2>4. ASSUME NEW line \in Lines, log' = Append(log, line)
        PROVE  line.served /\ \A i \in DOMAIN log : log[i].served
    BY <2>2, <2>4, LineAdded
  <2>5. ~WriteRefused
    <3>1. [tokens |-> 0, served |-> FALSE, request |-> 0] \in Lines
      BY DEF Lines
    <3> QED BY <2>4, <3>1 DEF WriteRefused
  <2>6. refused' = refused /\ (log' = log \/ \E line \in Lines : log' = Append(log, line))
    <3>1. CASE WriteServed
      <4>1. \A row \in inFlight : [tokens |-> row.cost, served |-> TRUE, request |-> row.line] \in Lines
        BY RunAssumption DEF Rows, Lines, Typed, RunTypeOK
      <4> QED BY <3>1, <4>1 DEF WriteServed
    <3>2. CASE WriteExcluded
      <4>1. \A row \in inFlight, sampled \in ExcludedLines :
              [tokens  |-> IF sampled THEN row.cost ELSE 0,
               served  |-> sampled,
               request |-> row.line] \in Lines
        BY RunAssumption, ExcludedLinesTyped DEF Rows, Lines, Typed, RunTypeOK
      <4> QED BY <3>2, <4>1 DEF WriteExcluded
    <3>3. CASE ~WriteServed /\ ~WriteExcluded
      BY <1>2, <2>3, <2>5, <3>3
         DEF DriverNext, DriverStep, Measuring, Traffic, BeginIteration, StartClaude,
             ClaudeSucceeds, ClaudeFails, AttemptFails, EventLands, WaitExpires, Retry,
             Sample, Estimate, Charge, WindowResets, Stopped, allVars, logVars
    <3> QED BY <3>1, <3>2, <3>3
  <2> QED BY <2>2, <2>3, <2>4, <2>5, <2>6 DEF Quiet
<1> QED BY <1>1, <1>2

LEMMA CallNext ==
  ASSUME Typed, Typed', Bounded, Claimed => CallInv, [DriverNext]_allVars
  PROVE  Claimed' => CallInv'
<1> SUFFICES ASSUME Claimed' PROVE CallInv'
  OBVIOUS
<1>1. asClaimed /\ step # "died"
  <2>1. CASE DriverStep
    BY <2>1 DEF Claimed, DriverStep, Measuring, Primed, BeginIteration, StartClaude,
                ClaudeSucceeds, ClaudeFails, AttemptFails, EventLands, WaitExpires, Retry,
                Sample, Estimate
  <2>2. CASE Traffic
    BY <2>2 DEF Claimed, Traffic, Charge, Refuse, WriteServed, WriteExcluded, WriteRefused,
                WindowResets, driverVars
  <2> QED BY <2>1, <2>2 DEF Claimed, DriverNext, Stopped, allVars, driverVars
<1>2. step = "prime" => Quiet /\ ~Refuse /\ ~WriteRefused
  BY QuietSoFar
<1>3. CallInv
  BY <1>1, <1>2 DEF Claimed
<1>4. CASE DriverStep
  BY <1>1, <1>3, <1>4, DriverKeeps, SampleKeeps
<1>5. CASE Traffic
  BY <1>1, <1>2, <1>3, <1>5, OtherTrafficKeeps, ServedLineKeeps, ExcludedLineKeeps,
     RefusedLineKeeps
     DEF Traffic
<1>6. CASE Stopped \/ UNCHANGED allVars
  <2>1. /\ UNCHANGED <<inFlight, tally, cuts, log, refused, samples, totalBlocks>>
        /\ UNCHANGED <<step, blocks, before, attemptBefore, sent>>
    BY <1>6 DEF Stopped, allVars, runVars, driverVars, logVars
  <2> QED BY <1>3, <2>1 DEF CallInv, OneCall, Accounted, Measured, SampleSum, BlockSum, TokensOf,
                            Shared, ServedSince, Since, SampledTo
<1> QED BY <1>4, <1>5, <1>6 DEF DriverNext

\* The arithmetic of the least-squares line through points on a line.
LEMMA LineThrough ==
  ASSUME NEW n \in Nat, NEW X \in Nat, NEW Q \in Nat, NEW h \in Nat, NEW s \in Nat
  PROVE  LET Y == n * h + X * s
             P == X * h + Q * s
             run == n * Q - X * X
             rise == n * P - X * Y
         IN rise = s * run /\ Y * run - rise * X = h * run * n
<1> DEFINE Y == n * h + X * s
           P == X * h + Q * s
           run == n * Q - X * X
           rise == n * P - X * Y
<1>1. rise = s * run
  <2>1. n * P = n * (X * h) + (n * Q) * s
    OBVIOUS
  <2>2. X * Y = n * (X * h) + (X * X) * s
    OBVIOUS
  <2>3. s * run = (n * Q) * s - (X * X) * s
    OBVIOUS
  <2>4. n * (X * h) \in Int /\ (n * Q) * s \in Int /\ (X * X) * s \in Int
    OBVIOUS
  <2> HIDE DEF P, Y, run
  <2> QED BY <2>1, <2>2, <2>3, <2>4
<1>2. Y * run - rise * X = h * run * n
  <2>1. run \in Int
    OBVIOUS
  <2> HIDE DEF run, rise
  <2>2. Y * run = (n * h) * run + (X * s) * run
    BY <2>1
  <2>3. rise * X = (X * s) * run
    BY <1>1, <2>1
  <2>4. (n * h) * run = h * run * n
    BY <2>1
  <2>5. (n * h) * run \in Int /\ (X * s) * run \in Int
    BY <2>1
  <2> HIDE DEF Y
  <2> QED BY <2>2, <2>3, <2>4, <2>5
<1> QED BY <1>1, <1>2

\* Samples that are single calls lie on the line of the prompt's header and block.
LEMMA SamplesFit ==
  ASSUME Bounded, \A i \in DOMAIN samples : samples[i].observed = Tokens(samples[i].blocks)
  PROVE  /\ SampleSum = Len(samples) * HeaderTokens + BlockSum * BlockTokens
         /\ FitBlockLine.rise = BlockTokens * FitBlockLine.run
         /\ FitBlockLine.base = HeaderTokens * FitBlockLine.run * Len(samples)
         /\ FitBlockLine.run \in Int
         /\ (\E i, j \in DOMAIN samples : samples[i].blocks # samples[j].blocks) =>
              FitBlockLine.run > 0
<1> DEFINE Each == [blocks : Blocks \cup {0}, observed : Nat]
<1>1. samples \in Seq(Each)
  BY DEF Bounded
<1>2. /\ Len(samples) \in Nat /\ DOMAIN samples = 1 .. Len(samples)
      /\ \A i \in 1 .. Len(samples) : samples[i] \in Each
  <2> HIDE DEF Each
  <2> QED BY <1>1, ElementOfSeq, LenProperties
<1>3. \A i \in 1 .. Len(samples) : samples[i].blocks \in Nat
  <2>1. Blocks \cup {0} \subseteq Nat
    BY DriverAssumption
  <2> QED BY <1>2, <2>1
<1>4. PICK N, b, y, q, p :
        /\ N \in Nat /\ N = Len(samples)
        /\ b = [i \in DOMAIN samples |-> samples[i].blocks]
        /\ y = [i \in DOMAIN samples |-> samples[i].observed]
        /\ q = [i \in DOMAIN samples |-> samples[i].blocks * samples[i].blocks]
        /\ p = [i \in DOMAIN samples |-> samples[i].blocks * samples[i].observed]
  BY <1>2
<1>5. Points(N, b, y, q, p)
  BY <1>2, <1>3, <1>4 DEF Points
<1>18. N \in Nat
  BY <1>4
<1>17. OnALine(N, b, y, q, p)
  BY <1>5, <1>18, PointsOnALine
<1> DEFINE X == SumFunctionOnSet(b, 1 .. N)
           Y == SumFunctionOnSet(y, 1 .. N)
           Q == SumFunctionOnSet(q, 1 .. N)
           P == SumFunctionOnSet(p, 1 .. N)
<1>9. /\ X \in Nat /\ Q \in Nat
      /\ Y = N * HeaderTokens + X * BlockTokens
      /\ P = X * HeaderTokens + Q * BlockTokens
      /\ N * Q - X * X >= 0
      /\ (\E i, j \in 1 .. N : b[i] # b[j]) => N * Q - X * X > 0
  BY <1>17 DEF OnALine
<1>10. BlockSum = X /\ SampleSum = Y
  BY <1>2, <1>4 DEF BlockSum, SampleSum, SumFunction
<1>11. FitBlockLine = [rise |-> N * P - X * Y, run |-> N * Q - X * X,
                      base |-> Y * (N * Q - X * X) - (N * P - X * Y) * X]
  BY <1>2, <1>4, <1>10 DEF FitBlockLine, SumFunction
<1> HIDE DEF X, Y, Q, P
<1>12. HeaderTokens \in Nat /\ BlockTokens \in Nat
  BY DriverAssumption
<1>13. /\ N * P - X * Y = BlockTokens * (N * Q - X * X)
       /\ Y * (N * Q - X * X) - (N * P - X * Y) * X = HeaderTokens * (N * Q - X * X) * N
  BY <1>9, <1>12, <1>18, LineThrough
<1>14. N * Q - X * X \in Int
  BY <1>9, <1>18
<1>15. (\E i, j \in DOMAIN samples : samples[i].blocks # samples[j].blocks)
         => \E i, j \in 1 .. N : b[i] # b[j]
  BY <1>2, <1>4
<1>16. /\ FitBlockLine.rise = N * P - X * Y /\ FitBlockLine.run = N * Q - X * X
       /\ FitBlockLine.base = Y * (N * Q - X * X) - (N * P - X * Y) * X
  BY <1>11, Zenon
<1> HIDE DEF FitBlockLine
<1> QED BY <1>4, <1>9, <1>10, <1>13, <1>14, <1>15, <1>16, Zenon

-----------------------------------------------------------------------------

\* The types of the driver's state, its counters within their bounds.
THEOREM DriverTypes == DriverSpec => []DriverTypeOK
<1>1. DriverInit => DriverInv /\ Bounded
  BY TypedInit, CountedInit, OrderInit, BoundedInit DEF DriverInv
<1>2. DriverInv /\ Bounded /\ [DriverNext]_allVars => (DriverInv /\ Bounded)'
  BY TypedNext, CountedNext, OrderNext, BoundedNext DEF DriverInv
<1>3. DriverInv /\ Bounded => DriverTypeOK
  BY DEF DriverInv, Typed, Bounded, DriverTypeOK
<1> QED BY <1>1, <1>2, <1>3, PTL DEF DriverSpec

\* The samples of a run whose failed attempts left nothing behind are single calls and
\* account for its log, and the line through them is the prompt's true one.
THEOREM SamplesAreTheCalls == DriverSpec => []SamplesAreCalls
<1>1. DriverInit => DriverInv /\ Bounded /\ (Claimed => CallInv)
  BY TypedInit, CountedInit, OrderInit, BoundedInit, CallInit DEF DriverInv
<1>2. DriverInv /\ Bounded /\ (Claimed => CallInv) /\ [DriverNext]_allVars
        => (DriverInv /\ Bounded /\ (Claimed => CallInv))'
  BY TypedNext, CountedNext, OrderNext, BoundedNext, CallNext DEF DriverInv
<1>3. DriverInv /\ Bounded /\ (Claimed => CallInv) => SamplesAreCalls
  <2> SUFFICES ASSUME DriverInv, Bounded, Claimed => CallInv,
                      asClaimed, step \in {"iterate", "done"}
               PROVE  /\ \A i \in DOMAIN samples : samples[i].observed = Tokens(samples[i].blocks)
                      /\ SampleSum = TokensOf(ServedSince(1))
                      /\ Recalibrated.fitted =>
                           /\ Recalibrated.line.rise = BlockTokens * Recalibrated.line.run
                           /\ Recalibrated.line.base
                                = HeaderTokens * Recalibrated.line.run * Len(samples)
                      /\ (\E i, j \in DOMAIN samples : samples[i].blocks # samples[j].blocks) =>
                           Recalibrated.fitted
                      /\ cuts = 0 =>
                           Recalibrated.spent
                             = Len(samples) * HeaderTokens + Recalibrated.blocks * BlockTokens
    BY DEF SamplesAreCalls
  <2>1. OneCall /\ Accounted /\ Measured
    BY DEF Claimed, CallInv
  <2>2. Shared(SampledTo) = ServedSince(1)
    BY LenProperties DEF DriverInv, Typed, Shared, SampledTo, Open, ServedSince, Since
  <2>3. /\ \A i \in DOMAIN samples : samples[i].observed = Tokens(samples[i].blocks)
        /\ totalBlocks = BlockSum
        /\ SampleSum = TokensOf(ServedSince(1))
    BY <2>1, <2>2 DEF Accounted, TokensOf
  <2>4. /\ SampleSum = Len(samples) * HeaderTokens + BlockSum * BlockTokens
        /\ FitBlockLine.rise = BlockTokens * FitBlockLine.run
        /\ FitBlockLine.base = HeaderTokens * FitBlockLine.run * Len(samples)
        /\ FitBlockLine.run \in Int
        /\ (\E i, j \in DOMAIN samples : samples[i].blocks # samples[j].blocks) =>
             FitBlockLine.run > 0
    BY <2>3, SamplesFit
  <2>5. /\ Recalibrated.line = FitBlockLine
        /\ Recalibrated.fitted = (FitBlockLine.run > 0 /\ FitBlockLine.rise > 0)
        /\ Recalibrated.spent = tally.measured /\ Recalibrated.blocks = totalBlocks
    BY DEF Recalibrated
  <2>6. FitBlockLine.run > 0 => FitBlockLine.rise > 0
    <3>1. PICK r \in Int : r = FitBlockLine.run
      BY <2>4
    <3>2. BlockTokens \in Nat /\ BlockTokens > 0
      BY DriverAssumption
    <3>3. r > 0 => BlockTokens * r > 0
      BY <3>2
    <3> QED BY <2>4, <3>1, <3>3
  <2>7. step # "prime" => Len(log) > 0
    BY <2>1 DEF OneCall
  <2>8. cuts = 0 => tally.measured = TokensOf(ServedSince(1))
    BY <2>1, <2>7 DEF Measured
  <2> HIDE DEF Recalibrated, FitBlockLine
  <2> QED BY <2>3, <2>4, <2>5, <2>6, <2>8, Zenon
<1> QED BY <1>1, <1>2, <1>3, PTL DEF DriverSpec

-----------------------------------------------------------------------------
(***************************************************************************)
(* What has to hold for a retry never to count twice.                      *)
(***************************************************************************)

\* The numbers of the requests: the lines that an attempt finds in the log are of earlier
\* ones than its own.
Numbered ==
  /\ \A i \in DOMAIN log : log[i].request <= requests
  /\ \A row \in inFlight : row.line <= requests
  /\ step \in {"running", "waiting"} /\ sent =>
       \A i \in 1 .. attemptBefore : log[i].request < requests

\* No request of a failed attempt has a line of status 200, or will have one.
NoneLeft ==
  /\ \A i \in DOMAIN log : log[i].served => log[i].request \notin abandoned
  /\ \A row \in inFlight : row.line \notin abandoned

\* A line that the proxy writes, of a request that was open or of none.
LEMMA LineIsNumbered ==
  ASSUME Typed, Bounded, Numbered, NEW line \in Lines, log' = Append(log, line),
         UNCHANGED <<driverVars, requests>>, inFlight' \subseteq inFlight,
         \/ line.request = 0 /\ ~line.served
         \/ \E row \in inFlight : line.request = row.line
  PROVE  Numbered' /\ (NoneLeft => NoneLeft')
<1>1. /\ log \in Seq(Lines) /\ requests \in Nat /\ attemptBefore \in 0 .. Len(log)
      /\ inFlight \subseteq Rows /\ Len(log) \in Nat
  BY LenProperties DEF Typed, Bounded, RunTypeOK
<1>2. UNCHANGED <<step, sent, attemptBefore, abandoned>>
  BY DEF driverVars
<1>3. line.request <= requests
  BY <1>1 DEF Numbered
<1>4. \A i \in DOMAIN log' :
        (i \in DOMAIN log /\ log'[i] = log[i]) \/ log'[i] = line
  BY <1>1, LenProperties, AppendProperties
<1>5. \A i \in 1 .. attemptBefore : i \in DOMAIN log /\ log'[i] = log[i]
  BY <1>1, LenProperties, AppendProperties
<1>6. Numbered'
  BY <1>2, <1>3, <1>4, <1>5 DEF Numbered
<1>7. ASSUME NoneLeft PROVE NoneLeft'
  BY <1>2, <1>4, <1>7 DEF NoneLeft
<1> QED BY <1>6, <1>7

LEMMA NumberedNext ==
  ASSUME Typed, Bounded, Numbered, asClaimed => NoneLeft, [DriverNext]_allVars
  PROVE  Numbered' /\ (asClaimed' => NoneLeft')
<1>1. /\ log \in Seq(Lines) /\ requests \in Nat /\ attemptBefore \in 0 .. Len(log)
      /\ inFlight \subseteq Rows /\ Len(log) \in Nat /\ DOMAIN log = 1 .. Len(log)
      /\ abandoned \subseteq 1 .. requests
      /\ \A i \in DOMAIN log : log[i].request \in Nat
  <2>1. log \in Seq(Lines) /\ requests \in Nat /\ inFlight \subseteq Rows
    BY DEF Typed, RunTypeOK
  <2>2. Len(log) \in Nat /\ DOMAIN log = 1 .. Len(log)
    BY <2>1, LenProperties
  <2>3. \A i \in DOMAIN log : log[i] \in Lines
    BY <2>1, <2>2
  <2>4. \A i \in DOMAIN log : log[i].request \in Nat
    BY <2>3 DEF Lines
  <2> QED BY <2>1, <2>2, <2>4 DEF Bounded
<1>2. CASE Charge
  <2>1. /\ requests' = requests + 1 /\ sent' = TRUE
        /\ UNCHANGED <<log, step, attemptBefore, abandoned, asClaimed>>
        /\ \A row \in inFlight' : row \in inFlight \/ row.line = requests + 1
    BY <1>2 DEF Charge, Serve, logVars
  <2>2. Numbered'
    BY <1>1, <2>1 DEF Numbered, Rows
  <2>3. asClaimed' => NoneLeft'
    BY <1>1, <2>1 DEF NoneLeft
  <2> QED BY <2>2, <2>3
<1>3. CASE WriteServed
  <2>1. PICK row \in inFlight :
          /\ LogRow(row)
          /\ log' = Append(log, [tokens |-> row.cost, served |-> TRUE, request |-> row.line])
    BY <1>3 DEF WriteServed
  <2>2. [tokens |-> row.cost, served |-> TRUE, request |-> row.line] \in Lines
    BY RunAssumption DEF Rows, Lines, Typed, RunTypeOK
  <2>3. UNCHANGED <<driverVars, requests>> /\ inFlight' \subseteq inFlight
    BY <1>3, <2>1 DEF WriteServed, LogRow
  <2>4. Numbered' /\ (NoneLeft => NoneLeft')
    BY <2>1, <2>2, <2>3, LineIsNumbered
  <2> QED BY <2>3, <2>4 DEF driverVars
<1>4. CASE WriteExcluded
  <2>1. PICK row \in inFlight, sampled \in ExcludedLines :
          /\ LogExcluded(row)
          /\ log' = Append(log, [tokens  |-> IF sampled THEN row.cost ELSE 0,
                                served  |-> sampled,
                                request |-> row.line])
    BY <1>4 DEF WriteExcluded
  <2>2. row.cost \in Nat /\ row.line \in Nat
    BY RunAssumption DEF Rows, Typed, RunTypeOK
  <2>3. [tokens |-> IF sampled THEN row.cost ELSE 0, served |-> sampled, request |-> row.line]
          \in Lines
    BY <2>2, ExcludedLinesTyped DEF Lines
  <2>4. UNCHANGED <<driverVars, requests>> /\ inFlight' \subseteq inFlight
    BY <1>4, <2>1 DEF WriteExcluded, LogExcluded
  <2>5. Numbered' /\ (NoneLeft => NoneLeft')
    BY <2>1, <2>3, <2>4, LineIsNumbered
  <2> QED BY <2>4, <2>5 DEF driverVars
<1>5. CASE WriteRefused
  <2>1. [tokens |-> 0, served |-> FALSE, request |-> 0] \in Lines
    BY DEF Lines
  <2>2. /\ log' = Append(log, [tokens |-> 0, served |-> FALSE, request |-> 0])
        /\ UNCHANGED <<driverVars, requests>> /\ UNCHANGED inFlight
    BY <1>5 DEF WriteRefused, runVars
  <2>3. Numbered' /\ (NoneLeft => NoneLeft')
    BY <2>1, <2>2, LineIsNumbered
  <2> QED BY <2>2, <2>3 DEF driverVars
<1>6. CASE Refuse \/ WindowResets \/ Stopped \/ UNCHANGED allVars
  <2>1. UNCHANGED <<log, inFlight, requests, step, sent, attemptBefore, abandoned, asClaimed>>
    BY <1>6 DEF Refuse, WindowResets, Rollover, Stopped, allVars, runVars, driverVars, logVars
  <2> QED BY <2>1 DEF Numbered, NoneLeft
<1>7. CASE DriverStep
  <2>1. UNCHANGED <<requests, inFlight>> /\ UNCHANGED log
    BY <1>7, DriverStepsStutter
       DEF runVars, logVars, DriverStep, Measuring, Primed, BeginIteration, StartClaude,
                ClaudeSucceeds,
           ClaudeFails, AttemptFails, EventLands, WaitExpires, Retry, Sample, Estimate
  <2>2. CASE ClaudeFails \/ WaitExpires
    <3>1. /\ step \in {"running", "waiting"} /\ step' = "retry"
          /\ abandoned' = IF sent THEN abandoned \cup {requests} ELSE abandoned
          /\ asClaimed' => asClaimed /\ inFlight = {} /\ ServedSince(attemptBefore) = {}
      BY <2>2 DEF ClaudeFails, WaitExpires, AttemptFails, AllLanded
    <3>2. Numbered'
      BY <2>1, <3>1 DEF Numbered
    <3>3. ASSUME asClaimed'
          PROVE  NoneLeft'
      <4>1. \A i \in DOMAIN log : log[i].served => i \in 1 .. attemptBefore
        BY <1>1, <3>1, <3>3 DEF ServedSince, Since
      <4>2. \A i \in DOMAIN log : log[i].served /\ sent => log[i].request # requests
        BY <1>1, <3>1, <4>1 DEF Numbered
      <4> QED BY <2>1, <3>1, <3>3, <4>2 DEF NoneLeft
    <3> QED BY <3>2, <3>3
  <2>3. CASE ~(ClaudeFails \/ WaitExpires)
    <3>1. /\ abandoned' = abandoned /\ (asClaimed' => asClaimed)
          /\ step' \in {"running", "waiting"} /\ sent' =>
               step \in {"running", "waiting"} /\ sent /\ attemptBefore' = attemptBefore
      <4>1. CASE Primed \/ EventLands
        <5>1. step' \notin {"running", "waiting"} /\ UNCHANGED abandoned
          BY <4>1 DEF Primed, EventLands
        <5>2. asClaimed' => asClaimed
          BY <4>1, Zenon DEF Primed, EventLands
        <5> QED BY <5>1, <5>2
      <4>2. CASE StartClaude \/ ClaudeSucceeds
        BY <4>2 DEF StartClaude, ClaudeSucceeds
      <4>6. CASE BeginIteration
        BY <4>6 DEF BeginIteration
      <4>3. CASE Retry
        BY <4>3 DEF Retry, NextIteration
      <4>4. CASE Sample
        BY <4>4 DEF Sample
      <4>5. CASE Estimate
        BY <4>5 DEF Estimate, NextIteration
      <4> QED BY <1>7, <2>3, <4>1, <4>2, <4>3, <4>4, <4>5, <4>6 DEF DriverStep, Measuring
    <3> QED BY <2>1, <3>1 DEF Numbered, NoneLeft
  <2> QED BY <2>2, <2>3
<1> QED BY <1>2, <1>3, <1>4, <1>5, <1>6, <1>7 DEF DriverNext, Traffic

\* What measure.py:433-436 says of failed attempts is what retrying without counting twice
\* takes: as long as each of them leaves no line of status 200 and no open request, no
\* sample has a token of one. The run `retried` shows that without it a sample may.
THEOREM RetriesCountOnce == DriverSpec => [](asClaimed => RetryNeverDoubleCounts)
<1> DEFINE Inv == Typed /\ Counted /\ Bounded /\ Numbered /\ (asClaimed => NoneLeft)
<1>1. DriverInit => Inv
  <2>1. DriverInit => Numbered /\ NoneLeft
    BY DEF DriverInit, Init, Numbered, NoneLeft
  <2> QED BY <2>1, TypedInit, CountedInit, BoundedInit
<1>2. Inv /\ [DriverNext]_allVars => Inv'
  BY TypedNext, CountedNext, BoundedNext, NumberedNext
<1>3. Inv => (asClaimed => RetryNeverDoubleCounts)
  BY DEF NoneLeft, RetryNeverDoubleCounts, ServedSince, Since
<1> HIDE DEF Inv
<1> QED BY <1>1, <1>2, <1>3, PTL DEF DriverSpec

-----------------------------------------------------------------------------
(***************************************************************************)
(* The steps a run can take. That every step of the driver is taken in the *)
(* end is fairness, and stays with TLC (DriverEnds); what is proved is     *)
(* that there are only so many of them.                                    *)
(***************************************************************************)

\* The steps of an iteration in which every attempt is made and the last one succeeds.
IterationSteps == 4 * MaxCallAttempts + 6

\* How far drive is within an iteration.
Within ==
  CASE step = "retry" -> 4 * attempt
    [] step = "call" -> 4 * attempt + 1
    [] step = "running" -> 4 * attempt + 2
    [] step = "waiting" -> 4 * attempt + 3
    [] step = "sample" -> 4 * MaxCallAttempts + 4
    [] step = "estimate" -> 4 * MaxCallAttempts + 5
    [] OTHER -> 0

LastClock == 1 + (MaxIters + 1) * IterationSteps

\* How far the driver is.
Clock ==
  CASE step = "prime" -> 0
    [] step \in {"done", "died"} -> LastClock
    [] OTHER -> 1 + iter * IterationSteps + Within

\* The driver's own steps move it on, what the upstream and the proxy do leaves it
\* where it is.
MovesOn ==
  /\ DriverStep => Clock' > Clock
  /\ ~DriverStep => Clock' = Clock

ClockInv == Typed /\ Counted /\ Bounded

LEMMA IterationsAdd ==
  ASSUME Typed, Bounded
  PROVE  /\ IterationSteps \in Nat /\ IterationSteps >= 10
         /\ iter * IterationSteps \in Nat
         /\ (iter + 1) * IterationSteps = iter * IterationSteps + IterationSteps
         /\ LastClock \in Nat
         /\ iter * IterationSteps + IterationSteps < LastClock
<1>1. MaxCallAttempts \in Nat /\ MaxCallAttempts >= 1 /\ MaxIters \in Nat
  BY DriverAssumption
<1>2. PICK s \in Nat : s = IterationSteps /\ s >= 10
  BY <1>1 DEF IterationSteps
<1>3. iter \in Nat /\ iter + 1 \in Nat /\ MaxIters + 1 \in Nat /\ iter + 1 <= MaxIters + 1
  BY <1>1 DEF Typed, Bounded
<1>4. iter * s \in Nat /\ (MaxIters + 1) * s \in Nat
  BY <1>2, <1>3
<1>5. (iter + 1) * s = iter * s + s
  BY <1>2, <1>3
<1>6. (iter + 1) * s <= (MaxIters + 1) * s
  BY <1>2, <1>3, TimesMonotone
<1> QED BY <1>2, <1>4, <1>5, <1>6 DEF LastClock

\* Where the driver is within an iteration.
LEMMA WithinBounds ==
  ASSUME Typed, Counted, Bounded
  PROVE  /\ Within \in 0 .. IterationSteps - 1
         /\ step = "prime" => Clock = 0
         /\ step \in {"done", "died"} => Clock = LastClock
         /\ step \notin {"prime", "done", "died"} =>
              Clock = 1 + iter * IterationSteps + Within
<1>1. MaxCallAttempts \in Nat /\ attempt \in Nat /\ attempt <= MaxCallAttempts
  BY DriverAssumption DEF Typed, Bounded
<1>2. step \in Calling => attempt < MaxCallAttempts
  BY DEF Counted
<1>3. Within \in 0 .. IterationSteps - 1
  BY <1>1, <1>2 DEF Within, IterationSteps, Calling
<1> QED BY <1>3 DEF Clock

LEMMA ClockBounds ==
  ASSUME ClockInv
  PROVE  Clock \in 0 .. LastClock
  BY IterationsAdd, WithinBounds DEF ClockInv

\* The same of the next state.
LEMMA WithinNext ==
  ASSUME ClockInv'
  PROVE  /\ Within' \in 0 .. IterationSteps - 1
         /\ step' \in {"done", "died"} => Clock' = LastClock
         /\ step' \notin {"prime", "done", "died"} =>
              Clock' = 1 + iter' * IterationSteps + Within'
<1>1. MaxCallAttempts \in Nat /\ attempt' \in Nat /\ attempt' <= MaxCallAttempts
  BY DriverAssumption DEF ClockInv, Typed, Bounded
<1>2. step' \in Calling => attempt' < MaxCallAttempts
  BY DEF ClockInv, Counted
<1>3. Within' \in 0 .. IterationSteps - 1
  BY <1>1, <1>2 DEF Within, IterationSteps, Calling
<1> QED BY <1>3 DEF Clock, IterationSteps, LastClock

LEMMA DriverMovesOn ==
  ASSUME ClockInv, ClockInv', DriverStep
  PROVE  Clock' > Clock
<1>1. PICK add \in Nat, last \in Nat, all \in Nat :
        /\ add = iter * IterationSteps /\ last = LastClock /\ all = IterationSteps
        /\ add + all < last
        /\ (iter + 1) * IterationSteps = add + all
  BY IterationsAdd DEF ClockInv
<1>2. /\ Within \in 0 .. all - 1
      /\ step \notin {"prime", "done", "died"} => Clock = 1 + add + Within
      /\ step = "prime" => Clock = 0
  BY <1>1, WithinBounds DEF ClockInv
<1>3. /\ Within' \in 0 .. all - 1
      /\ step' \in {"done", "died"} => Clock' = last
      /\ step' \notin {"prime", "done", "died"} =>
           Clock' = 1 + iter' * IterationSteps + Within'
  BY <1>1, WithinNext
<1>4. /\ MaxCallAttempts \in Nat /\ attempt \in Nat /\ attempt <= MaxCallAttempts
      /\ step \in Calling => attempt < MaxCallAttempts
  BY DriverAssumption DEF ClockInv, Typed, Counted, Bounded
\* Another step of the same iteration.
<1>5. ASSUME step \notin {"prime", "done", "died"}, step' \notin {"prime", "done", "died"},
             iter' = iter, Within' > Within
      PROVE  Clock' > Clock
  BY <1>1, <1>2, <1>3, <1>5
\* The next iteration begins, or the run ends.
<1>6. ASSUME step \notin {"prime", "done", "died"}, NextIteration \/ step' \in {"done", "died"}
      PROVE  Clock' > Clock
  <2>1. CASE step' \in {"done", "died"}
    BY <1>1, <1>2, <1>3, <1>6, <2>1
  <2>2. CASE step' = "iterate" /\ iter' = iter + 1
    BY <1>1, <1>2, <1>3, <1>6, <2>2
  <2> QED BY <1>6, <2>1, <2>2 DEF NextIteration
<1>7. CASE Primed
  <2>1. step = "prime" /\ iter = 0 /\ iter' = 0 /\ step' \in {"iterate", "died"}
    BY <1>7 DEF Primed, ClockInv, Counted
  <2>2. CASE step' = "iterate"
    <3>1. Clock' = 1 + add + Within'
      BY <1>1, <1>3, <2>1, <2>2
    <3>2. Clock = 0
      BY <1>2, <2>1
    <3> QED BY <1>1, <1>3, <3>1, <3>2
  <2> QED BY <1>1, <1>2, <1>3, <2>1, <2>2
<1>8. CASE BeginIteration
  BY <1>5, <1>8 DEF BeginIteration, Within
<1>9. CASE StartClaude
  BY <1>4, <1>5, <1>9 DEF StartClaude, Within
<1>10. CASE ClaudeSucceeds
  BY <1>4, <1>5, <1>10 DEF ClaudeSucceeds, Within
<1>11. CASE ClaudeFails \/ WaitExpires
  BY <1>4, <1>5, <1>11 DEF ClaudeFails, WaitExpires, AttemptFails, Within
<1>12. CASE EventLands
  BY <1>4, <1>5, <1>12 DEF EventLands, Within, Calling
<1>13. CASE Retry
  <2>1. CASE step' = "call" /\ iter' = iter
    BY <1>4, <1>5, <1>13, <2>1 DEF Retry, Within
  <2> QED BY <1>6, <1>13, <2>1 DEF Retry
<1>14. CASE Sample
  BY <1>4, <1>5, <1>14 DEF Sample, Within
<1>15. CASE Estimate
  BY <1>6, <1>15 DEF Estimate
<1> QED BY <1>7, <1>8, <1>9, <1>10, <1>11, <1>12, <1>13, <1>14, <1>15 DEF DriverStep, Measuring

\* Everything else leaves the driver where it is.
LEMMA TrafficKeepsClock ==
  ASSUME [DriverNext]_allVars, ~DriverStep
  PROVE  Clock' = Clock
<1>1. UNCHANGED <<step, iter, attempt>>
  <2>1. CASE Traffic
    BY <2>1 DEF Traffic, Charge, Refuse, WriteServed, WriteExcluded, WriteRefused,
                WindowResets, driverVars
  <2>2. CASE Stopped \/ UNCHANGED allVars
    BY <2>2 DEF Stopped, allVars, driverVars
  <2> QED BY <2>1, <2>2 DEF DriverNext
<1> QED BY <1>1 DEF Clock, Within, LastClock, IterationSteps

\* A measurement takes at most LastClock steps of its own, whatever the upstream and the
\* proxy do with its requests: every step of drive brings it nearer to its end
\* (measure.py:617-664), no attempt is made more often than MAX_CALL_ATTEMPTS times in an
\* iteration, and no iteration comes back.
THEOREM DriverIsBounded == DriverSpec => [](Clock \in 0 .. LastClock) /\ [][MovesOn]_allVars
<1>1. DriverInit => ClockInv
  BY TypedInit, CountedInit, BoundedInit DEF ClockInv
<1>2. ClockInv /\ [DriverNext]_allVars => ClockInv'
  BY TypedNext, CountedNext, BoundedNext DEF ClockInv
<1>3. ClockInv => Clock \in 0 .. LastClock
  BY ClockBounds
<1>4. ClockInv /\ ClockInv' /\ [DriverNext]_allVars => [MovesOn]_allVars
  BY DriverMovesOn, TrafficKeepsClock DEF MovesOn
<1> QED BY <1>1, <1>2, <1>3, <1>4, PTL DEF DriverSpec
=============================================================================
