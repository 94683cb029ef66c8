------------------------- MODULE CapacityProbeProofs -------------------------
(***************************************************************************)
(* Proofs about CapacityProbe, for every cost of a tick, every sequence of *)
(* calls and any number of interruptions, deaths and resumed invocations:  *)
(* the rows of a run directory add up and are a log of the proxy's         *)
(* counters as UsageLog promises, the crossings stay in step with them,    *)
(* every estimate that is drawn from a faithful run, live, rebuilt, legacy *)
(* or the report's, admits the true cost of a tick, and the result panel   *)
(* shows every row.                                                        *)
(***************************************************************************)
EXTENDS CapacityProbe, Sums, SequenceTheorems, TLAPS

-----------------------------------------------------------------------------
\* Looking up a snapshot by its label.

\* Snapshot j is the last one of label n.
IsLatest(j, n) ==
  /\ j \in DOMAIN snapshots /\ snapshots[j].label = n
  /\ \A i \in DOMAIN snapshots : snapshots[i].label = n => i <= j

\* The last one of a label is the one that is chosen.
LEMMA Chosen ==
  ASSUME NEW s \in Seq(Snapshots), NEW n, NEW j \in DOMAIN s, s[j].label = n,
         \A i \in DOMAIN s : s[i].label = n => i <= j
  PROVE  s[CHOOSE m \in {i \in DOMAIN s : s[i].label = n} :
             \A i \in {k \in DOMAIN s : s[k].label = n} : i <= m] = s[j]
<1> DEFINE S == {i \in DOMAIN s : s[i].label = n}
<1>1. S \subseteq Nat /\ j \in S /\ \A i \in S : i <= j
  OBVIOUS
<1>2. \A m \in S : (\A i \in S : i <= m) => m = j
  BY <1>1
<1>3. (CHOOSE m \in S : \A i \in S : i <= m) = j
  <2> HIDE DEF S
  <2> QED BY <1>1, <1>2
<1> QED
  BY <1>3

LEMMA LatestIsLookedUp ==
  ASSUME snapshots \in Seq(Snapshots), NEW n, NEW j, IsLatest(j, n)
  PROVE  SnapshotOf(n) = snapshots[j] /\ snapshots[j] \in Snapshots /\ Labelled(n) # {}
  BY Chosen DEF IsLatest, SnapshotOf, Labelled

\* The snapshots as load_resume_state has them: in a dictionary by label, of these labels.
Snap == [n \in Nat |-> SnapshotOf(n)]
Held == {n \in Nat : \E j \in DOMAIN snapshots : IsLatest(j, n)}

LEMMA HeldIsLookedUp ==
  ASSUME snapshots \in Seq(Snapshots), NEW n \in Held
  PROVE  /\ Snap[n] \in Snapshots /\ n \in Nat
         /\ \E j \in DOMAIN snapshots : IsLatest(j, n) /\ Snap[n] = snapshots[j]
  BY LatestIsLookedUp DEF Held, Snap

\* A snapshot that is appended is found by its label, and hides no other label's.
LEMMA Appended ==
  ASSUME snapshots \in Seq(Snapshots), NEW s \in Snapshots, snapshots' = Append(snapshots, s)
  PROVE  /\ snapshots' \in Seq(Snapshots)
         /\ Newest' = s
         /\ s.label \in Held' /\ Snap'[s.label] = s
         /\ \A n \in Held \ {s.label} : n \in Held' /\ Snap'[n] = Snap[n]
<1> PICK last : last = Len(snapshots) + 1
  OBVIOUS
<1>1. /\ snapshots' \in Seq(Snapshots) /\ Len(snapshots') = last
      /\ \A i \in DOMAIN snapshots : i \in DOMAIN snapshots' /\ snapshots'[i] = snapshots[i]
      /\ snapshots'[last] = s
      /\ DOMAIN snapshots' = DOMAIN snapshots \cup {last}
  OBVIOUS
<1>2. IsLatest(last, s.label)' /\ s.label \in Nat
  BY <1>1 DEF IsLatest, Snapshots
<1>3. ASSUME NEW n \in Nat, NEW m, IsLatest(m, n)'
      PROVE  n \in Held' /\ Snap'[n] = snapshots'[m]
  <2>1. SnapshotOf(n)' = snapshots'[m]
    BY <1>1, <1>3, Chosen DEF IsLatest, SnapshotOf, Labelled
  <2> QED
    BY <1>3, <2>1 DEF Held, Snap, IsLatest
<1>4. ASSUME NEW n \in Held \ {s.label}
      PROVE  n \in Held' /\ Snap'[n] = Snap[n]
  <2>1. PICK j \in DOMAIN snapshots : IsLatest(j, n) /\ Snap[n] = snapshots[j]
    BY HeldIsLookedUp
  <2>2. IsLatest(j, n)' /\ n \in Nat
    BY <1>1, <1>4, <2>1 DEF IsLatest, Held
  <2> QED
    BY <1>1, <1>3, <2>1, <2>2
<1>5. s.label \in Held' /\ Snap'[s.label] = s
  BY <1>1, <1>2, <1>3
<1> QED
  BY <1>1, <1>4, <1>5 DEF Newest

\* Where a crossing is among those that an iteration adds, and the other way round.
LEMMA PartPlace ==
  ASSUME NEW a \in Nat, NEW b \in Nat, NEW d \in 1 .. (IF b > a THEN b - a ELSE 0)
  PROVE  a + d \in a + 1 .. b
  OBVIOUS

LEMMA PartIndex ==
  ASSUME NEW a \in Nat, NEW b \in Nat, NEW k \in a + 1 .. b
  PROVE  k - a \in 1 .. (IF b > a THEN b - a ELSE 0) /\ a + (k - a) = k
  OBVIOUS

\* Units counted from a later beginning.
LEMMA ShiftedUnits ==
  ASSUME NEW q \in Int, NEW x \in Int, NEW y \in Int, NEW base \in Int, x <= y
  PROVE  /\ x - base \in Int /\ y - base \in Int /\ x - base <= y - base
         /\ (q + base) + (x - base) = q + x /\ (q + base) + (y - base) = q + y
  OBVIOUS

-----------------------------------------------------------------------------
\* The inductive invariant.

\* The types, by what the actions leave alone together.
UpTypes ==
  /\ spent \in Nat /\ origin \in Nat /\ origin <= spent
  /\ up \in BOOLEAN /\ counted \in Nat /\ shown \in Nat
  /\ pending \in Seq([units : CallUnits, pct : Nat])

MemoryTypes ==
  /\ interrupted \in BOOLEAN /\ dry \in BOOLEAN
  /\ iter \in Nat /\ total \in Int /\ measurements \in Nat
  /\ current \in Snapshots
  /\ active \in Blocks
  /\ closed \in Seq([block : Blocks, crossed : Nat])
  /\ since \in [rows : Nat, constraints : Nat]

DiskTypes ==
  /\ manifest = NoManifest \/ (manifest.need \in Nat \ {0} /\ manifest.pct \in Nat)
  /\ snapshots \in Seq(Snapshots)
  /\ rows \in Seq(Rows)
  /\ constraints \in Seq(CrossingLines)

HistoryTypes ==
  /\ cut \subseteq Nat
  /\ faithful \in BOOLEAN /\ replaced \in BOOLEAN
  /\ resumes \in Nat /\ stops \in Nat /\ faults \in Nat

Types ==
  /\ UpTypes /\ MemoryTypes /\ DiskTypes /\ HistoryTypes
  /\ pc \in Handled \cup {"off", "baseline", "manifest"}

\* What is on the disk: every row has its snapshot, and so has the baseline.
Recorded ==
  /\ snapshots # << >> => 0 \in Held
  /\ \A i \in DOMAIN rows :
       /\ rows[i].iter = i /\ i \in Held /\ i - 1 \in Held
       /\ rows[i].units = Snap[i].units - Snap[i - 1].units
  /\ manifest = NoManifest => rows = << >>
  /\ manifest # NoManifest => snapshots # << >>

\* Where the probe is in its iteration: the snapshot it goes on from is that of the last
\* row, resumed or not, also when snapshots without a row lie in between.
Placed ==
  /\ pc = "baseline" => snapshots = << >> /\ manifest = NoManifest
  /\ pc = "manifest" => manifest = NoManifest /\ snapshots # << >> /\ current = Snap[0]
  /\ pc \in Handled => manifest # NoManifest
  /\ pc \in {"head", "claude", "snapshot", "row"} =>
       iter = Len(rows) + 1 /\ current = Snap[Len(rows)]
  /\ pc \in {"row", "crossing"} => iter \in Held /\ Snap[iter] = Newest
  /\ pc = "crossing" => iter \in DOMAIN rows /\ iter = Len(rows)

IInv == Types /\ Recorded /\ Placed

\* RowsTelescope is part of what the disk holds.
LEMMA RecordedTelescopes ==
  ASSUME Types, Recorded
  PROVE  RowsTelescope
<1>1. \A n \in Held : Labelled(n) # {} /\ SnapshotOf(n) = Snap[n]
  BY LatestIsLookedUp DEF Held, Snap, Types, DiskTypes
<1> QED
  BY <1>1 DEF Types, DiskTypes, Recorded, RowsTelescope

\* The baseline and every row have their snapshot.
LEMMA LastHeld ==
  ASSUME Types, Recorded, snapshots # << >>
  PROVE  Len(rows) \in Held /\ Snap[Len(rows)] \in Snapshots
<1>1. Len(rows) \in Held
  BY DEF Types, DiskTypes, Recorded
<1> QED
  BY <1>1, HeldIsLookedUp DEF Types, DiskTypes

\* load_resume_state's walk meets the end of the rows and nothing before it.
LEMMA ResumedIsLast ==
  ASSUME Types, Recorded, manifest # NoManifest
  PROVE  Resumed = Snap[Len(rows)] /\ NextIter = Len(rows) + 1 /\ Resumed \in Snapshots
<1>1. \A i \in 1 .. Len(rows) :
        rows[i].iter = i /\ \E j \in DOMAIN snapshots : snapshots[j].label = rows[i].iter
  <2>1. \A n \in Held : \E j \in DOMAIN snapshots : snapshots[j].label = n
    BY DEF Held, IsLatest
  <2> QED
    <3> TAKE i \in 1 .. Len(rows)
    <3>1. i \in DOMAIN rows
      BY DEF Types, DiskTypes
    <3>2. rows[i].iter = i /\ i \in Held
      BY <3>1 DEF Recorded
    <3> QED
      BY <2>1, <3>2
<1>2. Len(rows) \in Nat
  BY DEF Types, DiskTypes
<1>3. ASSUME NEW n \in 0 .. Len(rows),
             n < Len(rows) => ~\E j \in DOMAIN snapshots : snapshots[j].label = rows[n + 1].iter
      PROVE  n = Len(rows)
  <2>1. CASE n < Len(rows)
    <3>1. n + 1 \in 1 .. Len(rows)
      BY <1>2, <2>1
    <3> QED
      BY <1>1, <1>3, <2>1, <3>1
  <2> QED
    BY <1>2, <2>1
<1>4. Walked = Len(rows)
  BY <1>1, <1>2, <1>3 DEF Walked, Labelled
<1>5. Snap[Len(rows)] = SnapshotOf(Len(rows))
  BY <1>2 DEF Snap
<1>6. CASE rows = << >>
  <2>1. SnapshotOf(0) = SnapshotOf(Len(rows))
    BY <1>6 DEF SnapshotOf, Labelled
  <2>2. Len(rows) = 0
    BY <1>6
  <2>3. NextIter = Len(rows) + 1
    BY <1>6, <2>2 DEF NextIter
  <2>4. Resumed = SnapshotOf(0)
    BY <1>4, <2>2 DEF Resumed
  <2> QED
    BY <1>5, <2>1, <2>3, <2>4, LastHeld DEF Recorded
<1>7. CASE rows # << >>
  <2>1. Len(rows) \in 1 .. Len(rows) /\ Len(rows) # 0
    BY <1>7 DEF Types, DiskTypes
  <2>2. rows[Len(rows)].iter = Len(rows)
    BY <1>1, <2>1
  <2>3. SnapshotOf(rows[Walked].iter) = SnapshotOf(Len(rows))
    BY <1>4, <2>2 DEF SnapshotOf, Labelled
  <2>4. NextIter = Len(rows) + 1
    BY <1>7, <2>2 DEF NextIter
  <2>5. Resumed = SnapshotOf(rows[Walked].iter)
    BY <1>4, <2>1 DEF Resumed
  <2> QED
    BY <1>5, <2>3, <2>4, <2>5, LastHeld DEF Recorded
<1> QED
  BY <1>6, <1>7

LEMMA PercentIsNat ==
  ASSUME UpTypes, NEW u \in Nat, origin <= u
  PROVE  Percent(u) \in Nat
<1>1. TickUnits \in Nat \ {0} /\ u - origin \in Nat
  BY ProbeAssumption DEF UpTypes
<1> QED
  BY <1>1 DEF Percent

LEMMA EmptyTypes ==
  /\ << >> \in Seq([units : CallUnits, pct : Nat]) /\ << >> \in Seq(Snapshots)
  /\ << >> \in Seq(Rows) /\ << >> \in Seq(CrossingLines)
  /\ << >> \in Seq([block : Blocks, crossed : Nat]) /\ << >> \in Seq(Nat)
  /\ NoSnapshot \in Snapshots /\ LeadingBlock \in Blocks
  /\ NothingYet \in [rows : Nat, constraints : Nat]
<1>1. << >> \in Seq(Nat)
  OBVIOUS
<1>2. NoSnapshot \in Snapshots /\ LeadingBlock \in Blocks
  BY <1>1 DEF NoSnapshot, Snapshots, LeadingBlock, Blocks
<1>3. NothingYet \in [rows : Nat, constraints : Nat]
  BY DEF NothingYet
<1> QED
  BY <1>2, <1>3

LEMMA InitInv ==
  ASSUME Init
  PROVE  IInv
<1>1. UpTypes
  <2>1. spent \in Nat /\ origin = 0 /\ TickUnits \in Nat \ {0}
    BY ProbeAssumption DEF Init
  <2>2. Percent(spent) \in Nat
    BY <2>1 DEF Percent
  <2> QED
    BY <2>1, <2>2, EmptyTypes DEF Init, UpTypes
<1>2. MemoryTypes
  <2>1. interrupted \in BOOLEAN /\ dry \in BOOLEAN
    BY DEF Init
  <2>2. iter \in Nat /\ total \in Int /\ measurements \in Nat
    BY DEF Init
  <2>3. current \in Snapshots /\ active \in Blocks
    BY EmptyTypes DEF Init
  <2>4. closed \in Seq([block : Blocks, crossed : Nat])
    BY EmptyTypes DEF Init
  <2>5. since \in [rows : Nat, constraints : Nat]
    BY EmptyTypes DEF Init
  <2> QED
    BY <2>1, <2>2, <2>3, <2>4, <2>5 DEF MemoryTypes
<1>3. DiskTypes
  BY EmptyTypes DEF Init, DiskTypes
<1>4. HistoryTypes
  BY DEF Init, HistoryTypes
<1>5. Recorded /\ Placed /\ pc = "off"
  BY DEF Init, Recorded, Placed, Handled
<1> QED
  BY <1>1, <1>2, <1>3, <1>4, <1>5 DEF IInv, Types

-----------------------------------------------------------------------------
\* Every step preserves the types.

\* What a step may leave alone.
LEMMA Unmoved ==
  /\ UpTypes /\ UNCHANGED <<upstream, proxy>> => UpTypes'
  /\ MemoryTypes /\ UNCHANGED memory => MemoryTypes'
  /\ DiskTypes /\ UNCHANGED disk => DiskTypes'
  /\ HistoryTypes /\ UNCHANGED history => HistoryTypes'
<1>1. UpTypes /\ UNCHANGED <<upstream, proxy>> => UpTypes'
  BY DEF UpTypes, upstream, proxy
<1>2. MemoryTypes /\ UNCHANGED memory => MemoryTypes'
  BY DEF MemoryTypes, memory
<1>3. DiskTypes /\ UNCHANGED disk => DiskTypes'
  BY DEF DiskTypes, disk
<1>4. HistoryTypes /\ UNCHANGED history => HistoryTypes'
  BY DEF HistoryTypes, history
<1> QED
  BY <1>1, <1>2, <1>3, <1>4

LEMMA AnswerTypes ==
  ASSUME UpTypes, NEW i \in DOMAIN pending
  PROVE  pending[i].units \in Nat /\ pending[i].pct \in Nat
<1> DEFINE Answers == [units : CallUnits, pct : Nat]
<1>1. pending \in Seq(Answers)
  BY DEF UpTypes
<1>2. pending[i] \in Answers
  <2> HIDE DEF Answers
  <2> QED BY <1>1
<1> QED
  BY <1>2, ProbeAssumption

LEMMA ProxyTypes ==
  ASSUME Types, Proxied
  PROVE  Types'
<1> USE DEF Types
<1>1. ASSUME NEW i \in DOMAIN pending, Record(i)
      PROVE  UpTypes' /\ UNCHANGED <<pc, memory, disk>> /\ HistoryTypes'
  <2> DEFINE Answers == [units : CallUnits, pct : Nat]
  <2>0. pending \in Seq(Answers)
    BY DEF UpTypes
  <2>1. pending[i].units \in Nat /\ pending[i].pct \in Nat
    BY AnswerTypes
  <2>2. pending' \in Seq(Answers)
    <3> HIDE DEF Answers
    <3>1. Len(pending) - 1 \in Nat
      BY <2>0
    <3>2. \A j \in 1 .. Len(pending) - 1 : pending[IF j < i THEN j ELSE j + 1] \in Answers
      BY <2>0
    <3>3. pending' = [j \in 1 .. Len(pending) - 1 |-> pending[IF j < i THEN j ELSE j + 1]]
      BY <1>1 DEF Record
    <3> QED
      BY <3>1, <3>2, <3>3
  <2>3. UpTypes'
    BY <1>1, <2>1, <2>2 DEF Record, UpTypes, upstream
  <2>4. faithful' \in BOOLEAN
    BY <1>1 DEF Record
  <2>5. HistoryTypes'
    BY <1>1, <2>4 DEF Record, HistoryTypes
  <2> QED
    BY <1>1, <2>3, <2>5 DEF Record
<1>2. CASE StopProxy
  <2>1. faithful' \in BOOLEAN
    BY <1>2 DEF StopProxy
  <2>2. UpTypes'
    BY <1>2, EmptyTypes DEF StopProxy, UpTypes, upstream
  <2>3. HistoryTypes'
    BY <1>2, <2>1 DEF StopProxy, HistoryTypes
  <2> QED
    BY <1>2, <2>2, <2>3, Unmoved DEF StopProxy
<1>3. CASE StartProxy
  <2>1. shown' \in Nat
    BY <1>3, PercentIsNat DEF StartProxy, UpTypes
  <2>2. UpTypes'
    BY <1>3, <2>1 DEF StartProxy, UpTypes, upstream
  <2>3. replaced' \in BOOLEAN
    BY <1>3 DEF StartProxy
  <2>4. HistoryTypes'
    BY <1>3, <2>3 DEF StartProxy, HistoryTypes
  <2> QED
    BY <1>3, <2>2, <2>4, Unmoved DEF StartProxy
<1>4. CASE Rollover
  <2>1. UpTypes'
    BY <1>4 DEF Rollover, UpTypes, proxy
  <2>2. faithful' \in BOOLEAN
    BY <1>4 DEF Rollover
  <2>3. HistoryTypes'
    BY <1>4, <2>2 DEF Rollover, HistoryTypes
  <2> QED
    BY <1>4, <2>1, <2>3, Unmoved DEF Rollover
<1> QED
  BY <1>1, <1>2, <1>3, <1>4, Unmoved DEF Proxied

LEMMA QuitTypes ==
  ASSUME Quit
  PROVE  MemoryTypes' /\ pc' = "off"
<1>1. interrupted' \in BOOLEAN /\ dry' \in BOOLEAN
  BY DEF Quit
<1>2. iter' \in Nat /\ total' \in Int /\ measurements' \in Nat /\ pc' = "off"
  BY DEF Quit
<1>3. current' \in Snapshots /\ active' \in Blocks
  BY EmptyTypes DEF Quit
<1>4. closed' \in Seq([block : Blocks, crossed : Nat])
  BY EmptyTypes DEF Quit
<1>5. since' \in [rows : Nat, constraints : Nat]
  BY EmptyTypes DEF Quit
<1> QED
  BY <1>1, <1>2, <1>3, <1>4, <1>5 DEF MemoryTypes

LEMMA ReadingTypes ==
  ASSUME UpTypes, NEW n \in Nat
  PROVE  Reading(n) \in Snapshots /\ Reading(n).label = n
  BY DEF UpTypes, Reading, Snapshots

\* The crossings of an iteration are lines of the file.
LEMMA CrossingTypes ==
  ASSUME NEW pre \in Nat, NEW post \in Nat, NEW before \in Int, NEW after \in Int, NEW n \in Nat
  PROVE  BuildCrossings(pre, post, before, after, n) \in Seq(CrossingLines)
<1>1. CASE post <= pre
  <2>1. 1 .. post - pre = {}
    BY <1>1
  <2>2. BuildCrossings(pre, post, before, after, n) = << >>
    BY <2>1 DEF BuildCrossings
  <2> QED
    BY <2>2
<1>2. CASE pre < post
  BY <1>2 DEF BuildCrossings, CrossingLines
<1> QED
  BY <1>1, <1>2

\* Each step of an invocation, in the order of the loop.
LEMMA StartTypes ==
  ASSUME IInv, \/ \E d \in BOOLEAN : StartRun(d) \/ Resume(d)
               \/ ReadBaseline \/ BaselineFails \/ WriteManifest
  PROVE  Types'
<1> USE DEF IInv, Types
<1>1. ASSUME NEW d \in BOOLEAN, StartRun(d)
      PROVE  Types'
  <2>1. dry' \in BOOLEAN /\ interrupted' \in BOOLEAN
    BY <1>1 DEF StartRun, MemoryTypes
  <2>2. MemoryTypes'
    BY <1>1, <2>1 DEF StartRun, MemoryTypes
  <2> QED
    BY <1>1, <2>2, Unmoved DEF StartRun
<1>2. ASSUME NEW d \in BOOLEAN, Resume(d)
      PROVE  Types'
  <2>1. dry' \in BOOLEAN /\ interrupted' \in BOOLEAN
    BY <1>2 DEF Resume, MemoryTypes
  <2>2. current' \in Snapshots /\ iter' \in Nat
    BY <1>2, ResumedIsLast DEF Resume, DiskTypes
  <2>3. since' \in [rows : Nat, constraints : Nat]
    BY <1>2 DEF Resume, DiskTypes
  <2>4. MemoryTypes'
    BY <1>2, <2>1, <2>2, <2>3 DEF Resume, MemoryTypes
  <2>5. HistoryTypes'
    BY <1>2 DEF Resume, HistoryTypes
  <2>6. pc' \in Handled
    BY <1>2 DEF Resume, Handled
  <2> QED
    BY <1>2, <2>4, <2>5, <2>6, Unmoved DEF Resume
<1>3. CASE ReadBaseline
  <2>1. Reading(0) \in Snapshots
    BY ReadingTypes
  <2>2. current' \in Snapshots /\ snapshots' \in Seq(Snapshots)
    BY <1>3, <2>1 DEF ReadBaseline, DiskTypes
  <2>3. interrupted' \in BOOLEAN /\ dry' \in BOOLEAN /\ faithful' \in BOOLEAN
    BY <1>3 DEF ReadBaseline, MemoryTypes
  <2>4. MemoryTypes'
    BY <1>3, <2>2, <2>3 DEF ReadBaseline, MemoryTypes
  <2>5. DiskTypes'
    BY <1>3, <2>2 DEF ReadBaseline, DiskTypes
  <2>6. HistoryTypes'
    BY <1>3, <2>3 DEF ReadBaseline, HistoryTypes
  <2> QED
    BY <1>3, <2>4, <2>5, <2>6, Unmoved DEF ReadBaseline
<1>4. CASE BaselineFails
  BY <1>4, QuitTypes, Unmoved DEF BaselineFails
<1>5. CASE WriteManifest
  <2>1. MemoryTypes'
    BY <1>5 DEF WriteManifest, MemoryTypes
  <2>2. Need(current.pct) \in Nat \ {0} /\ current.pct \in Nat
    BY ProbeAssumption DEF Need, MemoryTypes, Snapshots
  <2>3. DiskTypes'
    BY <1>5, <2>2 DEF WriteManifest, DiskTypes
  <2>4. pc' \in Handled
    BY <1>5 DEF WriteManifest, Handled
  <2> QED
    BY <1>5, <2>1, <2>3, <2>4, Unmoved DEF WriteManifest
<1> QED
  BY <1>1, <1>2, <1>3, <1>4, <1>5

LEMMA LoopTypes ==
  ASSUME IInv, \/ \E u \in Costs : Call(u)
               \/ ClaudeExits \/ TakeSnapshot \/ SnapshotFails \/ LeaveWithoutRow
  PROVE  Types'
<1> USE DEF IInv, Types
<1>1. ASSUME NEW u \in Costs, Call(u)
      PROVE  Types'
  <2>1. u \in Nat /\ spent' = spent + u
    BY <1>1, ProbeAssumption DEF Costs, Call
  <2>2. Percent(spent + u) \in Nat
    BY <2>1, PercentIsNat DEF UpTypes
  <2>3. pending' \in Seq([units : CallUnits, pct : Nat])
    <3> DEFINE answer == [units |-> u, pct |-> Percent(spent + u)]
    <3>1. pending' = pending \/ (u # 0 /\ pending' = Append(pending, answer))
      BY <1>1 DEF Call
    <3>2. u # 0 => answer \in [units : CallUnits, pct : Nat]
      BY <2>2 DEF Costs
    <3> DEFINE Answers == [units : CallUnits, pct : Nat]
    <3>3. pending \in Seq(Answers)
      BY DEF UpTypes
    <3>4. u # 0 => answer \in Answers
      BY <3>2
    <3> HIDE DEF answer, Answers
    <3>5. pending' \in Seq(Answers)
      BY <3>1, <3>3, <3>4
    <3> QED
      BY <3>5 DEF Answers
  <2>4. UpTypes'
    BY <1>1, <2>1, <2>3 DEF Call, UpTypes
  <2>5. pc' \in Handled
    BY <1>1 DEF Call, Handled
  <2> QED
    BY <1>1, <2>4, <2>5, Unmoved DEF Call
<1>2. CASE ClaudeExits
  <2>1. pc' \in Handled
    BY <1>2 DEF ClaudeExits, Handled
  <2> QED
    BY <1>2, <2>1, Unmoved DEF ClaudeExits
<1>3. CASE TakeSnapshot
  <2>1. Reading(iter) \in Snapshots
    BY ReadingTypes DEF MemoryTypes
  <2>2. DiskTypes'
    BY <1>3, <2>1 DEF TakeSnapshot, DiskTypes
  <2>3. pc' \in Handled
    BY <1>3 DEF TakeSnapshot, Handled
  <2> QED
    BY <1>3, <2>2, <2>3, Unmoved DEF TakeSnapshot
<1>4. CASE SnapshotFails
  <2>1. interrupted' \in BOOLEAN /\ dry' \in BOOLEAN
    BY <1>4 DEF SnapshotFails, MemoryTypes
  <2>2. MemoryTypes'
    BY <1>4, <2>1 DEF SnapshotFails, MemoryTypes
  <2>3. pc' \in Handled
    BY <1>4 DEF SnapshotFails, Handled
  <2> QED
    BY <1>4, <2>2, <2>3, Unmoved DEF SnapshotFails
<1>5. CASE LeaveWithoutRow
  <2>1. pc' \in Handled
    BY <1>5 DEF LeaveWithoutRow, Handled
  <2> QED
    BY <1>5, <2>1, Unmoved DEF LeaveWithoutRow
<1> QED
  BY <1>1, <1>2, <1>3, <1>4, <1>5

\* What an iteration takes from its snapshot.
LEMMA IterationFacts ==
  ASSUME IInv, pc \in {"row", "crossing"}
  PROVE  Newest \in Snapshots /\ IterUnits \in Int /\ iter \in Nat /\ iter = Newest.label
<1>1. iter \in Held /\ Snap[iter] = Newest /\ current \in Snapshots
  BY DEF IInv, Types, MemoryTypes, Placed
<1>2. PICK j \in DOMAIN snapshots : IsLatest(j, iter) /\ Newest = snapshots[j]
  BY <1>1, HeldIsLookedUp DEF IInv, Types, DiskTypes
<1>3. Newest \in Snapshots /\ Newest.label = iter
  BY <1>2 DEF IInv, Types, DiskTypes, IsLatest
<1> QED
  BY <1>1, <1>3 DEF IterUnits, Snapshots

\* One more closed block.
LEMMA ClosedTypes ==
  ASSUME MemoryTypes, NEW b \in [block : Blocks, crossed : Nat]
  PROVE  closed \in Seq([block : Blocks, crossed : Nat])
         /\ Append(closed, b) \in Seq([block : Blocks, crossed : Nat])
<1> DEFINE B == [block : Blocks, crossed : Nat]
<1>1. closed \in Seq(B) /\ b \in B
  BY DEF MemoryTypes
<1> HIDE DEF B
<1>2. closed \in Seq(B) /\ Append(closed, b) \in Seq(B)
  BY <1>1
<1> QED
  BY <1>2 DEF B

LEMMA RowTypes ==
  ASSUME IInv, WriteRow \/ FatalOutput \/ CloseIteration
  PROVE  Types'
<1> USE DEF IInv, Types
<1>0. Newest \in Snapshots /\ IterUnits \in Int /\ iter \in Nat
  BY IterationFacts DEF WriteRow, FatalOutput, CloseIteration
<1>1. CASE WriteRow
  <2>1. interrupted' \in BOOLEAN /\ dry' \in BOOLEAN
    BY <1>1 DEF WriteRow, MemoryTypes
  <2>2. active' \in Blocks
    <3>1. active' = [active EXCEPT !.iters = Append(active.iters, iter)]
      BY <1>1 DEF WriteRow
    <3>2. active \in Blocks /\ active.iters \in Seq(Nat)
      BY DEF MemoryTypes, Blocks
    <3>3. Append(active.iters, iter) \in Seq(Nat)
      BY <1>0, <3>2
    <3> QED
      BY <3>1, <3>2, <3>3 DEF Blocks
  <2>3. total' \in Int
    BY <1>0, <1>1 DEF WriteRow, MemoryTypes
  <2>4. MemoryTypes'
    BY <1>1, <2>1, <2>2, <2>3 DEF WriteRow, MemoryTypes
  <2>5. rows' \in Seq(Rows)
    BY <1>0, <1>1 DEF WriteRow, DiskTypes, Rows
  <2>6. DiskTypes'
    BY <1>1, <2>5 DEF WriteRow, DiskTypes
  <2>7. pc' \in Handled
    BY <1>1 DEF WriteRow, Handled
  <2> QED
    BY <1>1, <2>4, <2>6, <2>7, Unmoved DEF WriteRow
<1>2. CASE FatalOutput
  <2>1. HistoryTypes'
    BY <1>0, <1>2 DEF FatalOutput, HistoryTypes
  <2> QED
    BY <1>2, <2>1, QuitTypes, Unmoved DEF FatalOutput
<1>3. CASE CloseIteration
  <2> DEFINE crossed == Newest.pct - current.pct
  <2>1. crossed \in Int /\ current.pct \in Nat /\ Newest.pct \in Nat
    BY <1>0 DEF MemoryTypes, Snapshots
  <2>2. interrupted' \in BOOLEAN /\ dry' \in BOOLEAN /\ iter' \in Nat /\ total' \in Int
    BY <1>0, <1>3 DEF CloseIteration, MemoryTypes
  <2>3. measurements' \in Nat /\ measurements' + 1 \in Nat
    <3>1. measurements' = measurements
          \/ (crossed > 0 /\ measurements' = measurements + crossed)
      BY <1>3 DEF CloseIteration
    <3>2. measurements \in Nat
      BY DEF MemoryTypes
    <3> HIDE DEF crossed
    <3> QED
      BY <2>1, <3>1, <3>2
  <2>4. active' \in Blocks
    <3>1. active' = active \/ active' = [num |-> measurements' + 1, leading |-> FALSE, iters |-> << >>]
      BY <1>3 DEF CloseIteration
    <3>2. [num |-> measurements' + 1, leading |-> FALSE, iters |-> << >>] \in Blocks
      BY <2>3, EmptyTypes DEF Blocks
    <3> QED
      BY <3>1, <3>2 DEF MemoryTypes
  <2>5. closed' \in Seq([block : Blocks, crossed : Nat])
    <3>0. closed \in Seq([block : Blocks, crossed : Nat])
      BY DEF MemoryTypes
    <3>1. closed' = closed \/ (crossed > 0 /\ closed' = Append(closed, [block |-> active, crossed |-> crossed]))
      BY <1>3 DEF CloseIteration
    <3>2. crossed > 0 => [block |-> active, crossed |-> crossed] \in [block : Blocks, crossed : Nat]
      BY <2>1 DEF MemoryTypes
    <3> QED
      BY <3>0, <3>1, <3>2, ClosedTypes
  <2>6. current' \in Snapshots /\ since' \in [rows : Nat, constraints : Nat]
    BY <1>0, <1>3 DEF CloseIteration, MemoryTypes
  <2>7. MemoryTypes'
    BY <2>2, <2>3, <2>4, <2>5, <2>6 DEF MemoryTypes
  <2>8. Bracket.before \in Int /\ Bracket.after \in Int
    BY <1>0 DEF Bracket, MemoryTypes
  <2>9. BuildCrossings(current.pct, Newest.pct, Bracket.before, Bracket.after, iter) \in Seq(CrossingLines)
    BY <1>0, <2>1, <2>8, CrossingTypes
  <2>10. constraints' = constraints
           \o BuildCrossings(current.pct, Newest.pct, Bracket.before, Bracket.after, iter)
    BY <1>3 DEF CloseIteration, WriteCrossings
  <2>11. constraints' \in Seq(CrossingLines)
    BY <2>9, <2>10 DEF DiskTypes
  <2>12. DiskTypes'
    BY <1>3, <2>11 DEF CloseIteration, DiskTypes
  <2>13. pc' \in Handled
    BY <1>3 DEF CloseIteration, Handled
  <2> QED
    BY <1>3, <2>7, <2>12, <2>13, Unmoved DEF CloseIteration
<1> QED
  BY <1>1, <1>2, <1>3

LEMMA EndTypes ==
  ASSUME IInv, LeaveLoop \/ Postflight \/ Report \/ Signal \/ Die
  PROVE  Types'
<1> USE DEF IInv, Types
<1>1. CASE LeaveLoop
  <2>1. pc' \in Handled
    BY <1>1 DEF LeaveLoop, Handled
  <2> QED
    BY <1>1, <2>1, Unmoved DEF LeaveLoop
<1>2. CASE Postflight
  <2>1. interrupted' \in BOOLEAN /\ dry' \in BOOLEAN
    BY <1>2 DEF Postflight, MemoryTypes
  <2>2. closed' \in Seq([block : Blocks, crossed : Nat])
    <3>0. closed \in Seq([block : Blocks, crossed : Nat])
      BY DEF MemoryTypes
    <3>1. [block |-> active, crossed |-> 0] \in [block : Blocks, crossed : Nat]
      BY DEF MemoryTypes
    <3>2. closed' = closed \/ closed' = Append(closed, [block |-> active, crossed |-> 0])
      BY <1>2 DEF Postflight
    <3> QED
      BY <3>0, <3>1, <3>2, ClosedTypes
  <2>3. MemoryTypes'
    BY <1>2, <2>1, <2>2 DEF Postflight, MemoryTypes
  <2>4. pc' \in Handled
    BY <1>2 DEF Postflight, Handled
  <2> QED
    BY <1>2, <2>3, <2>4, Unmoved DEF Postflight
<1>3. CASE Report
  BY <1>3, QuitTypes, Unmoved DEF Report
<1>4. CASE Signal
  <2>1. interrupted' \in BOOLEAN /\ dry' \in BOOLEAN
    BY <1>4 DEF Signal, MemoryTypes
  <2>2. MemoryTypes'
    BY <1>4, <2>1 DEF Signal, MemoryTypes
  <2>3. HistoryTypes'
    BY <1>4 DEF Signal, HistoryTypes
  <2> QED
    BY <1>4, <2>2, <2>3, Unmoved DEF Signal
<1>5. CASE Die
  <2>1. HistoryTypes'
    BY <1>5 DEF Die, HistoryTypes, MemoryTypes
  <2> QED
    BY <1>5, <2>1, QuitTypes, Unmoved DEF Die
<1> QED
  BY <1>1, <1>2, <1>3, <1>4, <1>5

LEMMA TypesNext ==
  ASSUME IInv, Next
  PROVE  Types'
<1>1. CASE Step
  BY <1>1, StartTypes, LoopTypes, RowTypes, EndTypes DEF Step
<1> QED
  BY <1>1, ProxyTypes, StartTypes, EndTypes DEF Next, IInv

-----------------------------------------------------------------------------
\* Every step preserves what is recorded and where the probe is.

\* The snapshots of a file that is left alone are looked up as before.
LEMMA SameSnapshots ==
  ASSUME snapshots' = snapshots
  PROVE  Held' = Held /\ Snap' = Snap /\ Newest' = Newest
  BY DEF Held, Snap, Newest, IsLatest, SnapshotOf, Labelled

LEMMA SameDisk ==
  ASSUME Recorded, UNCHANGED disk
  PROVE  Recorded' /\ Held' = Held /\ Snap' = Snap /\ Newest' = Newest
         /\ UNCHANGED <<manifest, snapshots, rows, constraints>>
  BY SameSnapshots DEF Recorded, disk

\* The steps that write nothing.
LEMMA QuietSteps ==
  ASSUME IInv,
         \/ Proxied \/ BaselineFails \/ ClaudeExits \/ SnapshotFails \/ LeaveWithoutRow
         \/ FatalOutput \/ LeaveLoop \/ Postflight \/ Report \/ Signal \/ Die
         \/ \E d \in BOOLEAN : StartRun(d) \/ Resume(d)
         \/ \E u \in Costs : Call(u)
  PROVE  Recorded' /\ Placed'
<1>1. UNCHANGED disk
  BY DEF Proxied, Record, StopProxy, StartProxy, Rollover, BaselineFails, ClaudeExits,
         SnapshotFails, LeaveWithoutRow, FatalOutput, LeaveLoop, Postflight, Report,
         Signal, Die, StartRun, Resume, Call
<1>2. /\ Recorded' /\ Held' = Held /\ Snap' = Snap /\ Newest' = Newest
      /\ UNCHANGED <<manifest, snapshots, rows, constraints>>
  BY <1>1, SameDisk DEF IInv
<1>3. CASE Proxied \/ Signal \/ \E u \in Costs : Call(u)
  <2>1. /\ UNCHANGED <<iter, current>>
        /\ pc' = pc \/ (pc = "head" /\ pc' = "claude")
    BY <1>3 DEF Proxied, Record, StopProxy, StartProxy, Rollover, Signal, Call, memory
  <2> QED
    BY <1>2, <2>1 DEF IInv, Placed, Handled
<1>4. CASE BaselineFails \/ FatalOutput \/ Report \/ Die
  <2>1. pc' = "off"
    BY <1>4 DEF BaselineFails, FatalOutput, Report, Die, Quit
  <2> QED
    BY <1>2, <2>1 DEF Placed, Handled
<1>5. CASE ClaudeExits
  <2>1. UNCHANGED <<iter, current>> /\ pc = "claude" /\ pc' \in {"snapshot", "postflight"}
    BY <1>5 DEF ClaudeExits, memory
  <2> QED
    BY <1>2, <2>1 DEF IInv, Placed, Handled
<1>6. CASE SnapshotFails \/ LeaveWithoutRow \/ LeaveLoop \/ Postflight
  <2>1. pc \in Handled /\ pc' \in {"postflight", "report"}
    BY <1>6 DEF SnapshotFails, LeaveWithoutRow, LeaveLoop, Postflight, Handled
  <2> QED
    BY <1>2, <2>1 DEF IInv, Placed, Handled
<1>7. ASSUME NEW d \in BOOLEAN, StartRun(d)
      PROVE  Placed'
  <2>1. pc' = "baseline" /\ snapshots = << >> /\ manifest = NoManifest
    BY <1>7 DEF StartRun
  <2> QED
    BY <1>2, <2>1 DEF Placed, Handled
<1>8. ASSUME NEW d \in BOOLEAN, Resume(d)
      PROVE  Placed'
  <2>1. manifest # NoManifest /\ iter' = NextIter /\ current' = Resumed /\ pc' \in {"head", "report"}
    BY <1>8 DEF Resume
  <2>2. iter' = Len(rows) + 1 /\ current' = Snap[Len(rows)]
    BY <2>1, ResumedIsLast DEF IInv
  <2> QED
    BY <1>2, <2>1, <2>2 DEF Placed, Handled
<1> QED
  BY <1>2, <1>3, <1>4, <1>5, <1>6, <1>7, <1>8

LEMMA BaselineStep ==
  ASSUME IInv, ReadBaseline
  PROVE  Recorded' /\ Placed'
<1>1. snapshots' = Append(snapshots, Reading(0)) /\ current' = Reading(0) /\ pc' = "manifest"
      /\ UNCHANGED <<manifest, rows>> /\ pc = "baseline"
  BY DEF ReadBaseline
<1>2. manifest = NoManifest /\ rows = << >>
  BY <1>1 DEF IInv, Placed, Recorded
<1>3. Reading(0) \in Snapshots /\ Reading(0).label = 0
  BY ReadingTypes DEF IInv, Types
<1>4. snapshots \in Seq(Snapshots)
  BY DEF IInv, Types, DiskTypes
<1>5. 0 \in Held' /\ Snap'[0] = Reading(0)
  BY <1>1, <1>3, <1>4, Appended
<1>6. snapshots' # << >>
  BY <1>1, <1>4
<1>7. Recorded'
  BY <1>1, <1>2, <1>5, <1>6 DEF Recorded
<1>8. Placed'
  BY <1>1, <1>2, <1>5, <1>6 DEF Placed, Handled
<1> QED
  BY <1>7, <1>8

LEMMA ManifestStep ==
  ASSUME IInv, WriteManifest
  PROVE  Recorded' /\ Placed'
<1>1. manifest' = [need |-> Need(current.pct), pct |-> current.pct]
      /\ iter' = 1 /\ pc' = "head" /\ UNCHANGED <<current, snapshots, rows>> /\ pc = "manifest"
  BY DEF WriteManifest
<1>2. manifest = NoManifest /\ rows = << >> /\ snapshots # << >> /\ current = Snap[0]
  BY <1>1 DEF IInv, Placed, Recorded
<1>3. manifest' # NoManifest
  <2>1. current.pct \in Nat
    BY DEF IInv, Types, MemoryTypes, Snapshots
  <2>2. Need(current.pct) \in Int
    BY <2>1, ProbeAssumption DEF Need
  <2>3. manifest' \in [need : Int, pct : Int]
    BY <1>1, <2>1, <2>2
  <2> QED
    BY <2>3, ProbeAssumption
<1>4. Held' = Held /\ Snap' = Snap /\ Newest' = Newest
  BY <1>1, SameSnapshots
<1>5. Recorded'
  BY <1>1, <1>2, <1>3, <1>4 DEF IInv, Recorded
<1>6. Len(rows') = 0
  BY <1>1, <1>2
<1>7. Placed'
  BY <1>1, <1>2, <1>3, <1>4, <1>6 DEF Placed, Handled
<1> QED
  BY <1>5, <1>7

LEMMA SnapshotStep ==
  ASSUME IInv, TakeSnapshot
  PROVE  /\ Recorded' /\ Placed'
         /\ \A n \in 0 .. Len(rows) : n \in Held /\ n \in Held' /\ Snap'[n] = Snap[n]
<1>1. snapshots' = Append(snapshots, Reading(iter)) /\ pc = "snapshot" /\ pc' = "row"
      /\ UNCHANGED <<iter, current, manifest, rows>>
  BY DEF TakeSnapshot, memory
<1>2. iter = Len(rows) + 1 /\ current = Snap[Len(rows)] /\ manifest # NoManifest
  BY <1>1 DEF IInv, Placed, Handled
<1>3. snapshots # << >> /\ snapshots \in Seq(Snapshots) /\ rows \in Seq(Rows) /\ iter \in Nat
  BY <1>2 DEF IInv, Types, DiskTypes, MemoryTypes, Recorded
<1>4. Reading(iter) \in Snapshots /\ Reading(iter).label = iter
  BY <1>3, ReadingTypes DEF IInv, Types
<1>5. /\ iter \in Held' /\ Snap'[iter] = Reading(iter) /\ Newest' = Reading(iter)
      /\ \A n \in Held \ {iter} : n \in Held' /\ Snap'[n] = Snap[n]
  BY <1>1, <1>3, <1>4, Appended
<1>6. \A n \in 0 .. Len(rows) : n \in Held /\ n # iter
  BY <1>2, <1>3 DEF IInv, Recorded
<1>7. \A n \in 0 .. Len(rows) : n \in Held' /\ Snap'[n] = Snap[n]
  BY <1>5, <1>6
<1>8. Recorded'
  <2>1. \A i \in DOMAIN rows : i \in 0 .. Len(rows) /\ i - 1 \in 0 .. Len(rows)
    BY <1>3
  <2>2. 0 \in 0 .. Len(rows) /\ snapshots' # << >>
    BY <1>1, <1>3
  <2> QED
    BY <1>1, <1>2, <1>7, <2>1, <2>2 DEF IInv, Recorded
<1>9. Placed'
  <2>1. Len(rows) \in 0 .. Len(rows)
    BY <1>3
  <2> QED
    BY <1>1, <1>2, <1>5, <1>7, <2>1 DEF Placed, Handled
<1> QED
  BY <1>6, <1>7, <1>8, <1>9

LEMMA RowStep ==
  ASSUME IInv, WriteRow
  PROVE  Recorded' /\ Placed'
<1>1. rows' = Append(rows, [iter |-> iter, units |-> IterUnits]) /\ pc = "row" /\ pc' = "crossing"
      /\ UNCHANGED <<iter, current, manifest, snapshots>>
  BY DEF WriteRow
<1>2. iter = Len(rows) + 1 /\ current = Snap[Len(rows)] /\ manifest # NoManifest
      /\ iter \in Held /\ Snap[iter] = Newest
  BY <1>1 DEF IInv, Placed, Handled
<1>3. snapshots # << >> /\ rows \in Seq(Rows)
  BY <1>2 DEF IInv, Types, DiskTypes, Recorded
<1>4. Len(rows) \in Held
  BY <1>3, LastHeld DEF IInv
<1>5. Held' = Held /\ Snap' = Snap /\ Newest' = Newest
  BY <1>1, SameSnapshots
<1>6. IterUnits = Snap[iter].units - Snap[Len(rows)].units
  BY <1>2 DEF IterUnits
<1>7. /\ DOMAIN rows' = DOMAIN rows \cup {iter} /\ Len(rows') = iter /\ iter - 1 = Len(rows)
      /\ \A i \in DOMAIN rows : rows'[i] = rows[i]
      /\ rows'[iter] = [iter |-> iter, units |-> IterUnits]
  BY <1>1, <1>2, <1>3
<1>8. Recorded'
  BY <1>1, <1>2, <1>3, <1>4, <1>5, <1>6, <1>7 DEF IInv, Recorded
<1>9. Placed'
  BY <1>1, <1>2, <1>5, <1>7 DEF Placed, Handled
<1> QED
  BY <1>8, <1>9

LEMMA CloseStep ==
  ASSUME IInv, CloseIteration
  PROVE  Recorded' /\ Placed'
<1>1. /\ pc = "crossing" /\ pc' \in {"head", "postflight"}
      /\ current' = Newest /\ iter' = iter + 1 /\ UNCHANGED <<manifest, snapshots, rows>>
  BY DEF CloseIteration
<1>2. iter = Len(rows) /\ manifest # NoManifest /\ Snap[iter] = Newest
  BY <1>1 DEF IInv, Placed, Handled
<1>3. Held' = Held /\ Snap' = Snap /\ Newest' = Newest
  BY <1>1, SameSnapshots
<1>4. Recorded'
  BY <1>1, <1>3 DEF IInv, Recorded
<1>5. Placed'
  BY <1>1, <1>2, <1>3 DEF Placed, Handled
<1> QED
  BY <1>4, <1>5

LEMMA InvNext ==
  ASSUME IInv, [Next]_vars
  PROVE  IInv'
<1>1. CASE Next
  <2>1. Recorded' /\ Placed'
    BY <1>1, QuietSteps, BaselineStep, ManifestStep, SnapshotStep, RowStep, CloseStep
       DEF Next, Step
  <2> QED
    BY <1>1, <2>1, TypesNext DEF IInv
<1>2. CASE UNCHANGED vars
  <2>1. UNCHANGED <<upstream, proxy>> /\ UNCHANGED memory /\ UNCHANGED disk
        /\ UNCHANGED history /\ UNCHANGED <<pc, iter, current>>
    BY <1>2 DEF vars, memory
  <2>2. Types'
    BY <2>1, Unmoved DEF IInv, Types
  <2>3. Recorded' /\ Placed'
    BY <2>1, SameDisk DEF IInv, Placed
  <2> QED
    BY <2>2, <2>3 DEF IInv
<1> QED
  BY <1>1, <1>2

\* Types are correct, for every cost of a tick and of a call, every number of resumes,
\* signals, deaths and faults of the proxy.
THEOREM ProbeTypeCorrect == ProbeSpec => []ProbeTypeOK
<1>1. IInv => ProbeTypeOK
  BY DEF IInv, Types, UpTypes, MemoryTypes, DiskTypes, HistoryTypes, ProbeTypeOK
<1> QED
  BY <1>1, InitInv, InvNext, PTL DEF ProbeSpec

\* The rows of iterations.jsonl telescope (probe.py:1580, with load_resume_state): each
\* holds the usage between its snapshot and that of the row before, over any number of
\* interruptions, deaths and resumed invocations.
THEOREM RowsAddUp == ProbeSpec => []RowsTelescope
<1>1. IInv => RowsTelescope
  BY RecordedTelescopes DEF IInv
<1> QED
  BY <1>1, InitInv, InvNext, PTL DEF ProbeSpec

-----------------------------------------------------------------------------
\* CapacityProbe implements UsageLog.

\* As long as the proxy has not been restarted since the baseline, its snapshots grow, up
\* to what it has counted.
Grows ==
  ~replaced => \A j \in DOMAIN snapshots :
                 /\ snapshots[j].units <= counted
                 /\ \A i \in DOMAIN snapshots : i <= j => snapshots[i].units <= snapshots[j].units

LEMMA GrowsNext ==
  ASSUME IInv, Grows, [Next]_vars
  PROVE  Grows'
<1>1. counted \in Nat /\ snapshots \in Seq(Snapshots)
  BY DEF IInv, Types, UpTypes, DiskTypes
<1>2. \A j \in DOMAIN snapshots : snapshots[j].units \in Nat
  <2>1. \A j \in DOMAIN snapshots : snapshots[j] \in Snapshots
    BY <1>1
  <2>2. \A s \in Snapshots : s.units \in Nat
    BY DEF Snapshots
  <2> QED
    BY <2>1, <2>2
<1>3. ASSUME UNCHANGED <<snapshots, replaced>>, counted' \in Nat, counted <= counted'
      PROVE  Grows'
  BY <1>1, <1>2, <1>3 DEF Grows
<1>4. ASSUME NEW n, snapshots' = Append(snapshots, Reading(n)), UNCHANGED <<counted, replaced>>
      PROVE  Grows'
  <2> PICK last : last = Len(snapshots) + 1
    OBVIOUS
  <2>1. /\ DOMAIN snapshots' = DOMAIN snapshots \cup {last}
        /\ \A j \in DOMAIN snapshots : snapshots'[j] = snapshots[j] /\ j < last
        /\ snapshots'[last].units = counted
    BY <1>1, <1>4 DEF Reading
  <2> QED
    BY <1>1, <1>2, <1>4, <2>1 DEF Grows
<1>5. CASE StartProxy
  <2>1. snapshots' = snapshots /\ (~replaced' => snapshots = << >>)
    BY <1>5 DEF StartProxy, disk
  <2> QED
    BY <2>1 DEF Grows
<1>6. ASSUME NEW i \in DOMAIN pending, Record(i)
      PROVE  Grows'
  <2>1. pending[i].units \in Nat
    BY AnswerTypes DEF IInv, Types
  <2>2. UNCHANGED <<snapshots, replaced>> /\ counted' = counted + pending[i].units
    BY <1>6 DEF Record, disk
  <2> QED
    BY <1>1, <1>3, <2>1, <2>2
<1>7. CASE ReadBaseline \/ TakeSnapshot
  <2>1. UNCHANGED <<counted, replaced>>
        /\ (snapshots' = Append(snapshots, Reading(0)) \/ snapshots' = Append(snapshots, Reading(iter)))
    BY <1>7 DEF ReadBaseline, TakeSnapshot, proxy, history
  <2> QED
    BY <1>4, <2>1
<1>8. ASSUME UNCHANGED <<snapshots, counted, replaced>>
      PROVE  Grows'
  BY <1>1, <1>3, <1>8
<1>9. CASE \/ StopProxy \/ Rollover \/ BaselineFails \/ WriteManifest \/ ClaudeExits
           \/ SnapshotFails \/ LeaveWithoutRow \/ WriteRow \/ FatalOutput \/ CloseIteration
           \/ LeaveLoop \/ Postflight \/ Report \/ Signal \/ Die
  BY <1>8, <1>9 DEF StopProxy, Rollover, BaselineFails, WriteManifest, ClaudeExits, SnapshotFails,
     LeaveWithoutRow, WriteRow, FatalOutput, CloseIteration, LeaveLoop, Postflight, Report,
     Signal, Die, proxy, disk, history
<1>10. CASE (\E d \in BOOLEAN : StartRun(d) \/ Resume(d)) \/ \E u \in Costs : Call(u)
  BY <1>8, <1>10 DEF StartRun, Resume, Call, proxy, disk, history
<1>11. CASE UNCHANGED vars
  BY <1>8, <1>11 DEF vars, proxy, disk, history
<1> QED
  BY <1>5, <1>6, <1>7, <1>9, <1>10, <1>11 DEF Next, Proxied, Step

\* The readings are those of the snapshots that count.
ReadingsMatch ==
  Readings = IF manifest = NoManifest THEN << >>
             ELSE [i \in 1 .. Len(rows) + 1 |-> Snap[i - 1].units]

LEMMA ReadingsAre == IInv => ReadingsMatch
<1> SUFFICES ASSUME IInv, manifest # NoManifest
             PROVE  Readings = [i \in 1 .. Len(rows) + 1 |-> Snap[i - 1].units]
  BY DEF Readings, ReadingsMatch
<1>1. rows \in Seq(Rows) /\ 0 \in Held
  BY DEF IInv, Types, DiskTypes, Recorded
<1>2. \A n \in Nat : SnapshotOf(n) = Snap[n]
  BY DEF Snap
<1>3. ASSUME NEW i \in DOMAIN rows
      PROVE  SnapshotOf(rows[i].iter) = Snap[i]
  <2>1. i \in Nat /\ rows[i].iter = i
    BY <1>1 DEF IInv, Recorded
  <2>2. SnapshotOf(rows[i].iter) = SnapshotOf(i)
    BY <2>1 DEF SnapshotOf, Labelled
  <2> QED
    BY <1>2, <2>1, <2>2
<1>4. Readings = << Snap[0].units >> \o [i \in DOMAIN rows |-> Snap[i].units]
  BY <1>2, <1>3 DEF Readings
<1>5. [i \in DOMAIN rows |-> Snap[i].units] \in Seq({Snap[i].units : i \in DOMAIN rows})
      /\ Len([i \in DOMAIN rows |-> Snap[i].units]) = Len(rows)
  BY <1>1
<1> QED
  BY <1>1, <1>4, <1>5

\* A step that leaves the run directory's log alone counts, restarts the counter or stutters.
LEMMA QuietRefines ==
  ASSUME IInv, Grows, Readings' = Readings, Next, ~WriteManifest, ~WriteRow
  PROVE  [Log!Next]_<<counted, Readings, ~replaced>>
<1>1. counted \in Nat
  BY DEF IInv, Types, UpTypes
<1>2. ASSUME UNCHANGED <<counted, replaced>>
      PROVE  UNCHANGED <<counted, Readings, ~replaced>>
  BY <1>2
<1>3. ASSUME NEW i \in DOMAIN pending, Record(i)
      PROVE  Log!Next
  <2>1. pending[i].units \in Nat
    BY AnswerTypes DEF IInv, Types
  <2>2. counted' = counted + pending[i].units /\ replaced' = replaced
    BY <1>3 DEF Record
  <2>3. counted' \in Nat /\ counted' >= counted
    BY <1>1, <2>1, <2>2
  <2>4. Log!Count
    BY <2>2, <2>3 DEF Log!Count
  <2> QED
    BY <2>4 DEF Log!Next
<1>4. CASE StartProxy
  <2>1. counted' = 0 /\ replaced' = (replaced \/ snapshots # << >>)
    BY <1>4 DEF StartProxy
  <2>2. snapshots = << >> => Readings = << >>
    BY DEF IInv, Recorded, Readings
  <2>3. (~replaced') = FALSE \/ (Readings = << >> /\ (~replaced') = ~replaced)
    BY <2>1, <2>2
  <2>4. Log!Restart
    BY <2>1, <2>3 DEF Log!Restart
  <2> QED
    BY <2>4 DEF Log!Next
<1>5. CASE \/ ReadBaseline \/ TakeSnapshot \/ StopProxy \/ Rollover \/ BaselineFails \/ ClaudeExits
           \/ SnapshotFails \/ LeaveWithoutRow \/ FatalOutput \/ CloseIteration
           \/ LeaveLoop \/ Postflight \/ Report \/ Signal \/ Die
  BY <1>2, <1>5 DEF ReadBaseline, TakeSnapshot, StopProxy, Rollover, BaselineFails, ClaudeExits,
     SnapshotFails, LeaveWithoutRow, FatalOutput, CloseIteration, LeaveLoop, Postflight, Report,
     Signal, Die, proxy, history
<1>6. CASE (\E d \in BOOLEAN : StartRun(d) \/ Resume(d)) \/ \E u \in Costs : Call(u)
  BY <1>2, <1>6 DEF StartRun, Resume, Call, history, proxy
<1> QED
  BY <1>3, <1>4, <1>5, <1>6 DEF Next, Proxied, Step

LEMMA OneReading ==
  ASSUME NEW x \in Nat
  PROVE  /\ [i \in 1 .. 1 |-> x] \in Seq(Nat)
         /\ Len([i \in 1 .. 1 |-> x]) = 1 /\ [i \in 1 .. 1 |-> x][1] = x
<1> DEFINE s == [i \in 1 .. 1 |-> x]
<1>1. DOMAIN s = 1 .. 1 /\ s[1] = x
  OBVIOUS
<1>2. s \in Seq(Nat)
  OBVIOUS
<1>3. Len(s) = 1
  <2> HIDE DEF s
  <2> QED BY <1>1, <1>2
<1> QED
  BY <1>1, <1>2, <1>3

\* A step that writes the manifest or a row reads the counter once more.
LEMMA ReadRefines ==
  ASSUME IInv, Grows, WriteManifest \/ WriteRow, ReadingsMatch, ReadingsMatch'
  PROVE  Log!Next
<1> USE DEF ReadingsMatch
<1> DEFINE n == Len(Readings)
<1>1. /\ counted \in Nat /\ snapshots \in Seq(Snapshots) /\ rows \in Seq(Rows)
      /\ UNCHANGED <<counted, replaced, snapshots>>
      /\ snapshots # << >> /\ Snap' = Snap
  <2>1. UNCHANGED <<counted, replaced, snapshots>>
    BY DEF WriteManifest, WriteRow, proxy, history
  <2>2. snapshots # << >>
    BY DEF IInv, Placed, Recorded, Handled, WriteManifest, WriteRow
  <2> QED
    BY <2>1, <2>2, SameSnapshots DEF IInv, Types, UpTypes, DiskTypes
<1>2. \A m \in Held : /\ Snap[m].units \in Nat
                      /\ ~replaced => Snap[m].units <= counted /\ Snap[m].units <= Newest.units
  <2> SUFFICES ASSUME NEW m \in Held
               PROVE  /\ Snap[m].units \in Nat
                      /\ ~replaced => Snap[m].units <= counted /\ Snap[m].units <= Newest.units
    OBVIOUS
  <2>1. PICK j \in DOMAIN snapshots : Snap[m] = snapshots[j]
    BY <1>1, HeldIsLookedUp
  <2>2. Snap[m] \in Snapshots
    BY <1>1, HeldIsLookedUp
  <2>3. Len(snapshots) \in DOMAIN snapshots /\ j <= Len(snapshots)
    BY <1>1, <2>1
  <2> QED
    BY <2>1, <2>2, <2>3 DEF Grows, Snapshots, Newest
<1>3. CASE WriteManifest
  <2>1. manifest = NoManifest /\ rows = << >> /\ rows' = rows /\ manifest' # NoManifest /\ 0 \in Held
    BY <1>1, <1>3, ManifestStep DEF IInv, Placed, Recorded, Handled, WriteManifest
  <2>2. Readings = << >> /\ Readings' = [i \in 1 .. 1 |-> Snap[i - 1].units]
    BY <1>1, <2>1
  <2>3. /\ Readings' \in Seq(Nat) /\ Len(Readings') = n + 1 /\ SubSeq(Readings', 1, n) = Readings
        /\ n = 0 /\ Readings'[n + 1] = Snap[0].units
    <3>1. Snap[0].units \in Nat
      BY <1>2, <2>1
    <3>2. Readings' \in Seq(Nat) /\ Len(Readings') = 1 /\ Readings'[1] = Snap[0].units
      <4>1. \A i \in 1 .. 1 : i - 1 = 0
        OBVIOUS
      <4>2. Readings' = [i \in 1 .. 1 |-> Snap[0].units]
        BY <2>2, <4>1
      <4> QED
        BY <3>1, <4>2, OneReading
    <3>3. n = 0
      BY <2>2
    <3>4. SubSeq(Readings', 1, 0) = << >>
      BY <3>2
    <3> QED
      BY <2>2, <3>2, <3>3, <3>4
  <2>4. Log!Read
    BY <1>1, <1>2, <2>1, <2>3 DEF Log!Read
  <2> QED
    BY <2>4 DEF Log!Next
<1>4. CASE WriteRow
  <2>1. /\ manifest # NoManifest /\ manifest' = manifest /\ iter = Len(rows) + 1
        /\ Snap[iter] = Newest /\ iter \in Held /\ Len(rows') = Len(rows) + 1
    BY <1>1, <1>4 DEF IInv, Placed, Handled, WriteRow
  <2>2. \A m \in 0 .. Len(rows) : m \in Held
    BY <1>1, <2>1 DEF IInv, Recorded
  <2>3. Len(rows) \in Nat /\ n = Len(rows) + 1 /\ Len(Readings') = n + 1
    BY <1>1, <2>1
  <2>4. \A i \in 1 .. n : Readings[i] = Snap[i - 1].units /\ Readings'[i] = Readings[i]
    BY <1>1, <2>1, <2>3
  <2>5. Readings'[n + 1] = Newest.units /\ Newest.units \in Nat
    BY <1>1, <1>2, <2>1, <2>3
  <2>6. Readings' \in Seq(Nat)
    <3>1. \A i \in 1 .. Len(rows') + 1 : Snap'[i - 1].units \in Nat
      BY <1>1, <1>2, <2>1, <2>2, <2>3
    <3> QED
      BY <2>1, <2>3, <3>1
  <2>7. SubSeq(Readings', 1, n) = Readings
    <3>1. SubSeq(Readings', 1, n) = [i \in 1 .. n |-> Readings'[i]]
      BY <2>3, <2>6
    <3>2. Readings = [i \in 1 .. n |-> Snap[i - 1].units]
      BY <2>1, <2>3
    <3>3. \A i \in 1 .. n : Readings'[i] = Snap[i - 1].units
      BY <2>4
    <3> HIDE DEF n
    <3>4. [i \in 1 .. n |-> Readings'[i]] = [i \in 1 .. n |-> Snap[i - 1].units]
      BY <3>3
    <3> QED
      BY <3>1, <3>2, <3>4
  <2>8. ~replaced => Readings'[n + 1] <= counted /\ Readings[n] <= Readings'[n + 1]
    BY <1>2, <2>1, <2>2, <2>3, <2>4, <2>5
  <2>9. Log!Read
    BY <1>1, <2>3, <2>6, <2>7, <2>8 DEF Log!Read
  <2> QED
    BY <2>9 DEF Log!Next
<1> QED
  BY <1>3, <1>4

\* The probe implements a log of readings: whatever interrupts it, however often it is resumed
\* and whenever the proxy restarts, an entry that was made is never changed, and as long as
\* the proxy is the same, each one lies between the one before and the proxy's counter.
THEOREM ProbeImplementsLog == ProbeSpec => ImplementsLog
<1>1. Init => Log!Init /\ Grows
  BY DEF Init, Grows, Log!Init, Readings
<1>2. IInv /\ IInv' /\ Grows /\ [Next]_vars => [Log!Next]_<<counted, Readings, ~replaced>>
  <2> SUFFICES ASSUME IInv, IInv', Grows, [Next]_vars
               PROVE  [Log!Next]_<<counted, Readings, ~replaced>>
    OBVIOUS
  <2>1. ReadingsMatch /\ ReadingsMatch'
    BY ReadingsAre, PTL
  <2>2. ASSUME UNCHANGED <<manifest, rows>>,
               manifest # NoManifest => \A m \in 0 .. Len(rows) : Snap'[m] = Snap[m]
        PROVE  Readings' = Readings
    <3>1. \A i \in 1 .. Len(rows) + 1 : i - 1 \in 0 .. Len(rows)
      BY DEF IInv, Types, DiskTypes
    <3> QED
      BY <2>1, <2>2, <3>1 DEF ReadingsMatch
  <2>3. CASE WriteManifest \/ WriteRow
    BY <2>1, <2>3, ReadRefines
  <2>4. CASE Next /\ ~WriteManifest /\ ~WriteRow
    <3>1. CASE TakeSnapshot
      BY <2>2, <2>4, <3>1, SnapshotStep, QuietRefines DEF TakeSnapshot
    <3>2. CASE ReadBaseline
      BY <2>2, <2>4, <3>2, QuietRefines DEF ReadBaseline, IInv, Placed
    <3>3. CASE ~TakeSnapshot /\ ~ReadBaseline
      <4>1. UNCHANGED <<manifest, rows, snapshots>>
        BY <2>4, <3>3 DEF Next, Proxied, Step, Record, StopProxy, StartProxy, Rollover,
           BaselineFails, ClaudeExits, SnapshotFails, LeaveWithoutRow, FatalOutput,
           CloseIteration, LeaveLoop, Postflight, Report, Signal, Die, StartRun, Resume, Call, disk
      <4> QED
        BY <2>2, <2>4, <4>1, SameSnapshots, QuietRefines
    <3> QED
      BY <3>1, <3>2, <3>3
  <2>5. CASE UNCHANGED vars
    <3>1. UNCHANGED <<counted, replaced, manifest, rows, snapshots>>
      BY <2>5 DEF vars, proxy, disk, history
    <3>2. Readings' = Readings
      BY <2>2, <3>1, SameSnapshots
    <3> QED
      BY <3>1, <3>2
  <2> QED
    BY <2>3, <2>4, <2>5
<1> QED
  BY <1>1, <1>2, InitInv, InvNext, GrowsNext, PTL DEF ProbeSpec, ImplementsLog, Log!LogSpec

-----------------------------------------------------------------------------
(* The crossings and the rows.                                             *)

Loop == Handled \ {"crossing"}

\* Where an invocation stands: what it goes on from, and what it has summed up.
Standing ==
  /\ pc \in Loop => iter = Len(rows) + 1 /\ current = Snap[Len(rows)]
  /\ pc = "crossing" => current = Snap[Len(rows) - 1] /\ since.rows < Len(rows)
  /\ pc \in Handled => /\ since.rows <= Len(rows) /\ since.constraints <= Len(constraints)
                       /\ total = Snap[Len(rows)].units - Snap[since.rows].units
  /\ pc \notin Handled => total = 0 /\ since = NothingYet
  /\ manifest = NoManifest => constraints = << >> /\ cut = {}
  /\ manifest # NoManifest => manifest.pct = Snap[0].pct
  /\ snapshots # << >> => snapshots[1] = Snap[0]
  /\ resumes = 0 => since = NothingYet /\ (pc # "off" => cut = {})

LEMMA RowFacts ==
  ASSUME IInv
  PROVE  /\ rows \in Seq(Rows) /\ constraints \in Seq(CrossingLines)
         /\ Len(rows) \in Nat /\ DOMAIN rows = 1 .. Len(rows)
         /\ Len(constraints) \in Nat /\ DOMAIN constraints = 1 .. Len(constraints)
         /\ manifest # NoManifest =>
              \A n \in 0 .. Len(rows) : n \in Held /\ Snap[n] \in Snapshots
<1>1. /\ rows \in Seq(Rows) /\ constraints \in Seq(CrossingLines) /\ snapshots \in Seq(Snapshots)
  BY DEF IInv, Types, DiskTypes
<1>2. /\ Len(rows) \in Nat /\ DOMAIN rows = 1 .. Len(rows)
      /\ Len(constraints) \in Nat /\ DOMAIN constraints = 1 .. Len(constraints)
  BY <1>1, LenProperties
<1>3. ASSUME manifest # NoManifest, NEW n \in 0 .. Len(rows)
      PROVE  n \in Held /\ Snap[n] \in Snapshots
  <2>1. n \in Held
    BY <1>2, <1>3 DEF IInv, Recorded
  <2> QED
    BY <1>1, <2>1, HeldIsLookedUp
<1> QED
  BY <1>1, <1>2, <1>3

LEMMA InitStanding ==
  ASSUME Init
  PROVE  Standing
BY DEF Init, Standing, Loop, Handled

\* The steps that leave alone what an invocation goes on from.
LEMMA StandingQuiet ==
  ASSUME IInv, Standing, UNCHANGED disk, UNCHANGED <<current, total, since, iter, resumes, cut>>,
         pc' = pc \/ (pc \in Loop /\ pc' \in Loop)
  PROVE  Standing'
<1>1. Snap' = Snap /\ UNCHANGED <<manifest, snapshots, rows, constraints>>
  BY SameDisk DEF IInv
<1>2. UNCHANGED <<current, total, since, iter, resumes, cut>>
  OBVIOUS
<1>3. CASE pc' = pc
  BY <1>1, <1>2, <1>3 DEF Standing
<1>4. CASE pc \in Loop /\ pc' \in Loop
  <2>1. pc \in Handled /\ pc' \in Handled /\ pc # "off" /\ pc' # "off" /\ pc' # "crossing"
    BY <1>4 DEF Loop, Handled
  <2> QED
    BY <1>1, <1>2, <1>4, <2>1 DEF Standing
<1> QED
  BY <1>3, <1>4

LEMMA StandingQuit ==
  ASSUME IInv, Standing, UNCHANGED disk, Quit, resumes' = resumes,
         manifest = NoManifest => cut' = cut
  PROVE  Standing'
<1>1. Snap' = Snap /\ UNCHANGED <<manifest, snapshots, rows, constraints>>
  BY SameDisk DEF IInv
<1>2. pc' = "off" /\ total' = 0 /\ since' = NothingYet
  BY DEF Quit
<1>3. pc' \notin Loop /\ pc' \notin Handled /\ pc' # "crossing"
  BY <1>2 DEF Loop, Handled
<1> QED
  BY <1>1, <1>2, <1>3 DEF Standing

LEMMA StandingStart ==
  ASSUME IInv, Standing,
         \/ \E d \in BOOLEAN : StartRun(d) \/ Resume(d)
         \/ ReadBaseline \/ WriteManifest
  PROVE  Standing'
<1>1. ASSUME NEW d \in BOOLEAN, StartRun(d)
      PROVE  Standing'
  <2>1. /\ UNCHANGED disk /\ UNCHANGED <<total, since, resumes, cut>>
        /\ pc' = "baseline" /\ pc = "off" /\ manifest = NoManifest /\ snapshots = << >>
    BY <1>1 DEF StartRun, history
  <2>2. Snap' = Snap /\ UNCHANGED <<manifest, snapshots, rows, constraints>>
    BY <2>1, SameDisk DEF IInv
  <2>3. UNCHANGED <<total, since, resumes, cut>>
    BY <2>1
  <2> QED
    BY <2>1, <2>2, <2>3 DEF Standing, Loop, Handled
<1>2. ASSUME NEW d \in BOOLEAN, Resume(d)
      PROVE  Standing'
  <2>1. /\ UNCHANGED disk /\ total' = total /\ cut' = cut /\ resumes' = resumes + 1
        /\ pc' \in {"head", "report"} /\ pc = "off" /\ manifest # NoManifest
        /\ since' = [rows |-> Len(rows), constraints |-> Len(constraints)]
        /\ current' = Resumed /\ iter' = NextIter
    BY <1>2 DEF Resume
  <2>2. Snap' = Snap /\ UNCHANGED <<manifest, snapshots, rows, constraints>>
    BY <2>1, SameDisk DEF IInv
  <2>3. current' = Snap[Len(rows)] /\ iter' = Len(rows) + 1
    BY <2>1, ResumedIsLast DEF IInv
  <2>4. total' = 0 /\ resumes' # 0 /\ pc' \in Handled /\ pc' # "crossing"
    BY <2>1 DEF Standing, Handled, IInv, Types, HistoryTypes
  <2>5. Snap[Len(rows)].units \in Nat /\ Len(rows) \in Nat /\ Len(constraints) \in Nat
    BY <2>1, RowFacts DEF Snapshots
  <2>6. since'.rows = Len(rows) /\ since'.constraints = Len(constraints)
    BY <2>1
  <2> QED
    BY <2>1, <2>2, <2>3, <2>4, <2>5, <2>6 DEF Standing
<1>3. CASE ReadBaseline
  <2>1. /\ UNCHANGED <<total, since, resumes, cut, manifest, constraints, rows>>
        /\ pc' = "manifest" /\ pc = "baseline" /\ snapshots' = Append(snapshots, Reading(0))
    BY <1>3 DEF ReadBaseline
  <2>2. manifest = NoManifest /\ snapshots = << >>
    BY <2>1 DEF IInv, Placed
  <2>3. Reading(0) \in Snapshots /\ Reading(0).label = 0 /\ snapshots \in Seq(Snapshots)
    BY ReadingTypes DEF IInv, Types, DiskTypes
  <2>4. Snap'[0] = Reading(0)
    BY <2>1, <2>3, Appended
  <2>5. snapshots'[1] = Reading(0)
    BY <2>1, <2>2
  <2>6. pc' \notin Handled /\ pc' \notin Loop /\ pc' # "crossing" /\ pc \notin Handled
    BY <2>1 DEF Loop, Handled
  <2> QED
    BY <2>1, <2>2, <2>4, <2>5, <2>6 DEF Standing
<1>4. CASE WriteManifest
  <2>1. /\ UNCHANGED <<total, since, resumes, cut, snapshots, rows, constraints, current>>
        /\ pc' = "head" /\ pc = "manifest" /\ manifest'.pct = current.pct /\ iter' = 1
    BY <1>4 DEF WriteManifest, history
  <2>2. manifest = NoManifest /\ current = Snap[0] /\ rows = << >> /\ snapshots # << >>
    BY <2>1 DEF IInv, Placed, Recorded
  <2>3. Snap' = Snap
    BY <2>1, SameSnapshots
  <2>4. total = 0 /\ since.rows = 0 /\ since.constraints = 0 /\ Len(rows) = 0
        /\ constraints = << >> /\ Len(constraints) = 0 /\ cut = {}
    BY <2>1, <2>2 DEF Standing, Handled, NothingYet
  <2>5. Snap[0].units \in Nat
    <3>1. 0 \in Held
      BY <2>2 DEF IInv, Recorded
    <3>2. Snap[0] \in Snapshots
      BY <3>1, HeldIsLookedUp DEF IInv, Types, DiskTypes
    <3> QED
      BY <3>2 DEF Snapshots
  <2>6. manifest' # NoManifest
    BY <1>4, ManifestStep, <2>1 DEF Placed, Handled
  <2>7. pc' \in Handled /\ pc' # "crossing" /\ since = NothingYet
    BY <2>1 DEF Handled, Standing
  <2>8. total' = Snap'[Len(rows')].units - Snap'[since'.rows].units
    BY <2>1, <2>3, <2>4, <2>5
  <2>9. snapshots[1] = Snap[0]
    BY <2>2 DEF Standing
  <2> QED
    BY <2>1, <2>2, <2>3, <2>4, <2>6, <2>7, <2>8, <2>9 DEF Standing
<1> QED
  BY <1>1, <1>2, <1>3, <1>4

LEMMA StandingSnapshot ==
  ASSUME IInv, Standing, TakeSnapshot
  PROVE  Standing'
<1>1. /\ UNCHANGED <<current, iter, total, since, resumes, cut, manifest, constraints, rows>>
      /\ pc' = "row" /\ pc = "snapshot" /\ snapshots' = Append(snapshots, Reading(iter))
  BY DEF TakeSnapshot, memory, history
<1>2. manifest # NoManifest /\ snapshots # << >> /\ snapshots \in Seq(Snapshots)
  BY <1>1 DEF IInv, Placed, Recorded, Handled, Types, DiskTypes
<1>3. \A n \in 0 .. Len(rows) : Snap'[n] = Snap[n]
  BY SnapshotStep
<1>4. snapshots'[1] = snapshots[1]
  BY <1>1, <1>2
<1>5. pc \in Loop /\ pc' \in Loop /\ pc \in Handled /\ pc' \in Handled /\ pc # "off" /\ pc' # "crossing"
  BY <1>1 DEF Loop, Handled
<1>6. since.rows \in 0 .. Len(rows) /\ 0 \in 0 .. Len(rows) /\ Len(rows) \in 0 .. Len(rows)
  BY <1>5, RowFacts DEF Standing, IInv, Types, MemoryTypes
<1>7. Snap'[since.rows] = Snap[since.rows] /\ Snap'[0] = Snap[0] /\ Snap'[Len(rows)] = Snap[Len(rows)]
  BY <1>3, <1>6
<1> QED
  BY <1>1, <1>2, <1>4, <1>5, <1>7 DEF Standing

LEMMA StandingRow ==
  ASSUME IInv, Standing, WriteRow
  PROVE  Standing'
<1>1. /\ UNCHANGED <<current, iter, since, resumes, cut, manifest, snapshots, constraints>>
      /\ pc' = "crossing" /\ pc = "row" /\ total' = total + IterUnits
      /\ rows' = Append(rows, [iter |-> iter, units |-> IterUnits])
  BY DEF WriteRow, history
<1>2. /\ iter = Len(rows) + 1 /\ current = Snap[Len(rows)] /\ manifest # NoManifest
      /\ iter \in Held /\ Snap[iter] = Newest
  BY <1>1 DEF IInv, Placed, Handled
<1>3. Snap' = Snap
  BY <1>1, SameSnapshots
<1>4. rows \in Seq(Rows) /\ Len(rows) \in Nat
  BY RowFacts
<1>5. Len(rows') = Len(rows) + 1
  BY <1>1, <1>4
<1>6. /\ since.rows <= Len(rows) /\ since.constraints <= Len(constraints) /\ since.rows \in Nat
      /\ total = Snap[Len(rows)].units - Snap[since.rows].units
  BY <1>1 DEF Standing, Handled, IInv, Types, MemoryTypes
<1>7. total' = Snap[iter].units - Snap[since.rows].units
  <2>1. IterUnits = Snap[iter].units - Snap[Len(rows)].units
    BY <1>2 DEF IterUnits
  <2>2. \A n \in 0 .. Len(rows) : Snap[n].units \in Nat
    BY <1>2, RowFacts DEF Snapshots
  <2>3. since.rows \in 0 .. Len(rows) /\ Len(rows) \in 0 .. Len(rows)
    BY <1>4, <1>6
  <2>4. Snap[since.rows].units \in Nat /\ Snap[Len(rows)].units \in Nat
    BY <2>2, <2>3
  <2>5. Snap[iter].units \in Nat
    BY <1>2, HeldIsLookedUp DEF IInv, Types, DiskTypes, Snapshots
  <2> QED
    BY <1>1, <1>6, <2>1, <2>4, <2>5
<1>8. pc' \in Handled /\ pc' \notin Loop /\ pc' # "off" /\ pc \in Handled /\ pc # "off"
  BY <1>1 DEF Loop, Handled
<1>9. since.rows <= Len(rows) + 1 /\ since.rows < Len(rows) + 1 /\ Len(rows') - 1 = Len(rows)
  BY <1>4, <1>5, <1>6
<1>10. /\ total' = Snap'[Len(rows')].units - Snap'[since'.rows].units
       /\ current' = Snap'[Len(rows') - 1]
  BY <1>1, <1>2, <1>3, <1>5, <1>7, <1>9
<1> QED
  BY <1>1, <1>2, <1>3, <1>5, <1>6, <1>8, <1>9, <1>10 DEF Standing

LEMMA StandingClose ==
  ASSUME IInv, Standing, CloseIteration
  PROVE  Standing'
<1>1. /\ UNCHANGED <<total, since, resumes, cut, manifest, snapshots, rows>>
      /\ pc' \in {"head", "postflight"} /\ pc = "crossing"
      /\ current' = Newest /\ iter' = iter + 1
      /\ constraints' = constraints
           \o BuildCrossings(current.pct, Newest.pct, Bracket.before, Bracket.after, iter)
  BY DEF CloseIteration, history, WriteCrossings
<1>2. /\ iter = Len(rows) /\ manifest # NoManifest /\ Snap[iter] = Newest
  BY <1>1 DEF IInv, Placed, Handled
<1>3. Snap' = Snap
  BY <1>1, SameSnapshots
<1>4. Len(constraints) <= Len(constraints')
  <2>1. constraints \in Seq(CrossingLines) /\ constraints' \in Seq(CrossingLines)
    BY RowTypes DEF IInv, Types, DiskTypes
  <2>2. Newest.pct - current.pct \in Int
    <3>1. Newest \in Snapshots /\ current \in Snapshots
      BY <1>1, IterationFacts DEF IInv, Types, MemoryTypes
    <3> QED
      BY <3>1 DEF Snapshots
  <2> DEFINE new == BuildCrossings(current.pct, Newest.pct, Bracket.before, Bracket.after, iter)
  <2>3. new \in Seq(CrossingLines)
    <3>1. Newest.pct \in Nat /\ current.pct \in Nat
      BY <1>1, IterationFacts DEF IInv, Types, MemoryTypes, Snapshots
    <3>2. Bracket.before \in Int /\ Bracket.after \in Int /\ iter \in Nat
      BY <1>1, IterationFacts DEF IInv, Types, MemoryTypes, Bracket
    <3> QED
      BY <3>1, <3>2, CrossingTypes
  <2> HIDE DEF new
  <2>4. Len(constraints \o new) = Len(constraints) + Len(new) /\ Len(new) \in Nat
        /\ Len(constraints) \in Nat
    BY <2>1, <2>3
  <2>5. constraints' = constraints \o new
    BY <1>1 DEF new
  <2> QED
    BY <2>4, <2>5
<1>5. pc' \in Loop /\ pc' \in Handled /\ pc' # "off" /\ pc \in Handled /\ pc # "off" /\ pc' # "crossing"
  BY <1>1 DEF Loop, Handled
<1>6. since.constraints <= Len(constraints')
  <2>1. since.constraints \in Nat /\ since.constraints <= Len(constraints)
    BY <1>5 DEF Standing, IInv, Types, MemoryTypes
  <2>2. Len(constraints) \in Nat /\ Len(constraints') \in Nat
    BY RowFacts, RowTypes DEF IInv, Types, DiskTypes
  <2> QED
    BY <1>4, <2>1, <2>2
<1> QED
  BY <1>1, <1>2, <1>3, <1>5, <1>6 DEF Standing

LEMMA StandingNext ==
  ASSUME IInv, Standing, [Next]_vars
  PROVE  Standing'
<1>1. CASE \/ Proxied \/ ClaudeExits \/ SnapshotFails \/ LeaveWithoutRow \/ LeaveLoop
           \/ Postflight \/ Signal \/ UNCHANGED vars \/ \E u \in Costs : Call(u)
  <2>1. UNCHANGED disk /\ UNCHANGED <<current, total, since, iter, resumes, cut>>
    BY <1>1 DEF Proxied, Record, StopProxy, StartProxy, Rollover, ClaudeExits, SnapshotFails,
       LeaveWithoutRow, LeaveLoop, Postflight, Signal, Call, vars, memory, history
  <2>2. pc' = pc \/ (pc \in Loop /\ pc' \in Loop)
    BY <1>1 DEF Proxied, Record, StopProxy, StartProxy, Rollover, ClaudeExits, SnapshotFails,
       LeaveWithoutRow, LeaveLoop, Postflight, Signal, Call, vars, Loop, Handled
  <2> QED
    BY <2>1, <2>2, StandingQuiet
<1>2. CASE BaselineFails \/ FatalOutput \/ Report \/ Die
  <2>1. Quit /\ UNCHANGED disk /\ resumes' = resumes
    BY <1>2 DEF BaselineFails, FatalOutput, Report, Die, history
  <2>2. manifest = NoManifest => cut' = cut
    BY <1>2 DEF BaselineFails, FatalOutput, Report, Die, history, IInv, Placed, Handled
  <2> QED
    BY <2>1, <2>2, StandingQuit
<1> QED
  BY <1>1, <1>2, StandingStart, StandingSnapshot, StandingRow, StandingClose DEF Next, Step

\* A crossing has the bracket of the row that passed its percent.
LineFits(l, snap, rs) ==
  /\ l.iter \in DOMAIN rs
  /\ l.k \in snap[l.iter - 1].pct + 1 .. snap[l.iter].pct
  /\ l.after - l.before = rs[l.iter].units
  /\ l.group = IF snap[l.iter].pct - snap[l.iter - 1].pct > 1 THEN l.iter ELSE 0

\* The crossings come in the order of the rows and, within a row, of the percents.
InOrder(lines) ==
  \A c, d \in DOMAIN lines :
    c < d => \/ lines[c].iter < lines[d].iter
             \/ lines[c].iter = lines[d].iter /\ lines[c].k < lines[d].k

\* Row i has a crossing for every percent it passed.
Covered(i, lines, snap) ==
  \A k \in snap[i - 1].pct + 1 .. snap[i].pct :
    \E c \in DOMAIN lines : lines[c].iter = i /\ lines[c].k = k

\* The sum before a row, from the row where the invocation began.
SumBefore(l, snap, start) ==
  l.iter > start /\ l.before = snap[l.iter - 1].units - snap[start].units

Lines ==
  /\ \A c \in DOMAIN constraints : LineFits(constraints[c], Snap, rows)
  /\ InOrder(constraints)
  /\ pc = "crossing" => \A c \in DOMAIN constraints : constraints[c].iter < iter
  /\ pc \in Handled =>
       \A c \in DOMAIN constraints :
         c > since.constraints => SumBefore(constraints[c], Snap, since.rows)
  /\ \A i \in DOMAIN rows \ cut :
       (pc = "crossing" => i # iter) => Covered(i, constraints, Snap)

LEMMA InitLines ==
  ASSUME Init
  PROVE  Lines
<1>1. rows = << >> /\ constraints = << >> /\ pc = "off"
  BY DEF Init
<1>2. DOMAIN rows = {} /\ DOMAIN constraints = {}
  BY <1>1
<1> QED
  BY <1>1, <1>2 DEF Lines, InOrder

\* Rows and crossings stay, and so do the snapshots of the rows.
LEMMA LinesQuiet ==
  ASSUME IInv, Standing, Lines, UNCHANGED <<rows, constraints>>, manifest # NoManifest,
         \A n \in 0 .. Len(rows) : Snap'[n] = Snap[n],
         pc' = "crossing" => pc = "crossing" /\ iter' = iter,
         pc' \in Handled => pc \in Handled /\ since' = since,
         cut \subseteq cut', pc = "crossing" /\ pc' # "crossing" => iter \in cut'
  PROVE  Lines'
<1>1. /\ DOMAIN rows = 1 .. Len(rows) /\ Len(rows) \in Nat
      /\ rows' = rows /\ constraints' = constraints
  BY RowFacts
<1>2. \A i \in DOMAIN rows : Snap'[i] = Snap[i] /\ Snap'[i - 1] = Snap[i - 1]
  <2>1. \A i \in 1 .. Len(rows) : i \in 0 .. Len(rows) /\ i - 1 \in 0 .. Len(rows)
    BY <1>1
  <2> QED
    BY <1>1, <2>1
<1>3. \A c \in DOMAIN constraints : constraints[c].iter \in DOMAIN rows
  BY DEF Lines, LineFits
<1>4. \A c \in DOMAIN constraints : LineFits(constraints[c], Snap', rows)
  BY <1>2, <1>3 DEF Lines, LineFits
<1>5. pc' = "crossing" => \A c \in DOMAIN constraints : constraints[c].iter < iter'
  BY DEF Lines
<1>6. pc' \in Handled =>
        \A c \in DOMAIN constraints :
          c > since'.constraints => SumBefore(constraints[c], Snap', since'.rows)
  <2> SUFFICES ASSUME pc' \in Handled, NEW c \in DOMAIN constraints, c > since'.constraints
               PROVE  SumBefore(constraints[c], Snap', since'.rows)
    OBVIOUS
  <2>1. pc \in Handled /\ since' = since
    OBVIOUS
  <2>2. SumBefore(constraints[c], Snap, since.rows)
    BY <2>1 DEF Lines
  <2>3. since.rows \in 0 .. Len(rows)
    BY <1>1, <2>1 DEF Standing, IInv, Types, MemoryTypes
  <2>4. Snap'[since.rows] = Snap[since.rows]
    BY <2>3
  <2> QED
    BY <1>2, <1>3, <2>1, <2>2, <2>4 DEF SumBefore
<1>7. \A i \in DOMAIN rows \ cut' :
        (pc' = "crossing" => i # iter') => Covered(i, constraints, Snap')
  <2> SUFFICES ASSUME NEW i \in DOMAIN rows \ cut', pc' = "crossing" => i # iter'
               PROVE  Covered(i, constraints, Snap')
    OBVIOUS
  <2>1. i \in DOMAIN rows \ cut /\ (pc = "crossing" => i # iter)
    OBVIOUS
  <2>2. Covered(i, constraints, Snap)
    BY <2>1 DEF Lines
  <2> QED
    BY <1>2, <2>2 DEF Covered
<1>8. InOrder(constraints)
  BY DEF Lines
<1> QED
  BY <1>1, <1>4, <1>5, <1>6, <1>7, <1>8 DEF Lines

LEMMA LinesResume ==
  ASSUME IInv, Standing, Lines, NEW d \in BOOLEAN, Resume(d)
  PROVE  Lines'
<1>1. /\ UNCHANGED disk /\ cut' = cut /\ pc' \in {"head", "report"} /\ pc = "off"
      /\ since' = [rows |-> Len(rows), constraints |-> Len(constraints)]
  BY DEF Resume
<1>2. Snap' = Snap /\ rows' = rows /\ constraints' = constraints
  BY <1>1, SameDisk DEF IInv
<1>3. \A c \in DOMAIN constraints : ~(c > since'.constraints)
  BY <1>1, RowFacts
<1>4. pc' # "crossing" /\ pc # "crossing"
  BY <1>1
<1> QED
  BY <1>1, <1>2, <1>3, <1>4 DEF Lines

LEMMA LinesRow ==
  ASSUME IInv, Standing, Lines, WriteRow
  PROVE  Lines'
<1>1. /\ UNCHANGED <<iter, since, cut, manifest, snapshots, constraints>>
      /\ pc' = "crossing" /\ pc = "row"
      /\ rows' = Append(rows, [iter |-> iter, units |-> IterUnits])
  BY DEF WriteRow, history
<1>2. iter = Len(rows) + 1 /\ manifest # NoManifest
  BY <1>1 DEF IInv, Placed, Handled
<1>3. Snap' = Snap
  BY <1>1, SameSnapshots
<1>4. rows \in Seq(Rows) /\ Len(rows) \in Nat /\ DOMAIN rows = 1 .. Len(rows)
  BY RowFacts
<1>5. /\ DOMAIN rows' = DOMAIN rows \cup {iter}
      /\ \A i \in DOMAIN rows : rows'[i] = rows[i] /\ i < iter
  BY <1>1, <1>2, <1>4
<1>6. \A c \in DOMAIN constraints : LineFits(constraints[c], Snap, rows)
                                    /\ constraints[c].iter \in DOMAIN rows
  BY DEF Lines, LineFits
<1>7. \A c \in DOMAIN constraints : LineFits(constraints[c], Snap, rows')
  BY <1>5, <1>6 DEF LineFits
<1>8. \A c \in DOMAIN constraints : constraints[c].iter < iter
  BY <1>5, <1>6
<1>9. \A i \in DOMAIN rows' \ cut : i # iter => Covered(i, constraints, Snap)
  BY <1>1, <1>5 DEF Lines
<1>10. \A c \in DOMAIN constraints :
         c > since.constraints => SumBefore(constraints[c], Snap, since.rows)
  BY <1>1 DEF Lines, Handled
<1>11. InOrder(constraints)
  BY DEF Lines
<1> QED
  BY <1>1, <1>3, <1>7, <1>8, <1>9, <1>10, <1>11 DEF Lines

\* A range from 1 has one length.
LEMMA RangeLength ==
  ASSUME NEW n \in Nat, NEW m \in Int, 1 .. n = 1 .. m
  PROVE  n = IF m > 0 THEN m ELSE 0
<1>1. \A i \in Int : i \in 1 .. n <=> i \in 1 .. m
  OBVIOUS
<1>2. (1 \in 1 .. n <=> 1 \in 1 .. m) /\ (n \in 1 .. n <=> n \in 1 .. m)
      /\ (m \in 1 .. n <=> m \in 1 .. m)
  BY <1>1
<1>3. /\ 1 \in 1 .. n <=> 1 <= n
      /\ 1 \in 1 .. m <=> 1 <= m
      /\ n \in 1 .. n <=> 1 <= n
      /\ m \in 1 .. m <=> 1 <= m
      /\ n \in 1 .. m <=> 1 <= n /\ n <= m
      /\ m \in 1 .. n <=> 1 <= m /\ m <= n
  OBVIOUS
<1>4. (1 <= n <=> 1 <= m) /\ (1 <= n => n <= m) /\ (1 <= m => m <= n)
  BY <1>2, <1>3
<1> QED
  BY <1>4

\* What BuildCrossings returns.
Built(new, pre, post, before, after, n) ==
  /\ new \in Seq(CrossingLines) /\ Len(new) \in Nat
  /\ Len(new) = IF post > pre THEN post - pre ELSE 0
  /\ DOMAIN new = 1 .. Len(new)
  /\ \A i \in 1 .. Len(new) :
       new[i] = [k |-> pre + i, before |-> before, after |-> after, iter |-> n,
                 group |-> IF post - pre > 1 THEN n ELSE 0]

LEMMA CrossingsBuilt ==
  ASSUME NEW pre \in Nat, NEW post \in Nat, NEW before \in Int, NEW after \in Int, NEW n \in Nat,
         NEW new, new = BuildCrossings(pre, post, before, after, n)
  PROVE  Built(new, pre, post, before, after, n)
<1>1. new \in Seq(CrossingLines)
  BY CrossingTypes
<1>2. Len(new) \in Nat /\ DOMAIN new = 1 .. Len(new)
  BY <1>1, LenProperties
<1>3. /\ DOMAIN new = 1 .. post - pre
      /\ \A i \in 1 .. post - pre :
           new[i] = [k |-> pre + i, before |-> before, after |-> after, iter |-> n,
                     group |-> IF post - pre > 1 THEN n ELSE 0]
  BY DEF BuildCrossings
<1>4. Len(new) = IF post > pre THEN post - pre ELSE 0
  <2>1. 1 .. Len(new) = 1 .. post - pre /\ post - pre \in Int
    BY <1>2, <1>3
  <2> QED
    BY <1>2, <2>1, RangeLength
<1> QED
  BY <1>1, <1>2, <1>3, <1>4 DEF Built

\* Crossings of one more iteration keep the order.
LEMMA OrderExtends ==
  ASSUME NEW s \in Seq(CrossingLines), NEW t \in Seq(CrossingLines), InOrder(s), InOrder(t),
         NEW n \in Nat, \A c \in DOMAIN s : s[c].iter < n, \A d \in DOMAIN t : t[d].iter = n
  PROVE  InOrder(s \o t)
<1> DEFINE w == s \o t
<1>1. /\ w \in Seq(CrossingLines) /\ Len(w) = Len(s) + Len(t)
      /\ \A i \in 1 .. Len(s) : w[i] = s[i]
      /\ \A i \in Len(s) + 1 .. Len(s) + Len(t) : w[i] = t[i - Len(s)]
  <2>1. \A i \in 1 .. Len(s) + Len(t) : w[i] = IF i <= Len(s) THEN s[i] ELSE t[i - Len(s)]
    BY ConcatProperties
  <2>2. w \in Seq(CrossingLines) /\ Len(w) = Len(s) + Len(t)
    BY ConcatProperties
  <2>3. Len(s) \in Nat /\ Len(t) \in Nat
    BY LenProperties
  <2> HIDE DEF w
  <2> QED
    BY <2>1, <2>2, <2>3
<1>2. /\ Len(s) \in Nat /\ Len(t) \in Nat
      /\ DOMAIN s = 1 .. Len(s) /\ DOMAIN t = 1 .. Len(t) /\ DOMAIN w = 1 .. Len(w)
  BY <1>1, LenProperties
<1> HIDE DEF w
<1>3. ASSUME NEW c \in DOMAIN w, NEW d \in DOMAIN w, c < d
      PROVE  w[c].iter < w[d].iter \/ (w[c].iter = w[d].iter /\ w[c].k < w[d].k)
  <2>1. CASE d <= Len(s)
    <3>1. c \in DOMAIN s /\ d \in DOMAIN s /\ w[c] = s[c] /\ w[d] = s[d]
      BY <1>1, <1>2, <1>3, <2>1
    <3> QED
      BY <1>3, <3>1 DEF InOrder
  <2>2. CASE c <= Len(s) /\ d > Len(s)
    <3>1. c \in DOMAIN s /\ d - Len(s) \in DOMAIN t /\ w[c] = s[c] /\ w[d] = t[d - Len(s)]
      <4>1. c \in DOMAIN s /\ w[c] = s[c]
        BY <1>1, <1>2, <2>2
      <4>2. d - Len(s) \in DOMAIN t /\ w[d] = t[d - Len(s)]
        BY <1>1, <1>2, <2>2
      <4> QED
        BY <4>1, <4>2
    <3> QED
      BY <3>1
  <2>3. CASE c > Len(s)
    <3>a. c \in Nat /\ d \in Nat /\ c <= Len(s) + Len(t) /\ d <= Len(s) + Len(t)
      BY <1>1, <1>2
    <3>b. c \in Len(s) + 1 .. Len(s) + Len(t) /\ d \in Len(s) + 1 .. Len(s) + Len(t)
      BY <1>2, <1>3, <2>3, <3>a
    <3>c. w[c] = t[c - Len(s)] /\ w[d] = t[d - Len(s)]
      BY <1>1, <3>b
    <3>1. /\ c - Len(s) \in DOMAIN t /\ d - Len(s) \in DOMAIN t /\ c - Len(s) < d - Len(s)
          /\ w[c] = t[c - Len(s)] /\ w[d] = t[d - Len(s)]
      BY <1>2, <1>3, <3>a, <3>b, <3>c
    <3> QED
      BY <3>1 DEF InOrder
  <2> QED
    BY <1>1, <1>2, <1>3, <2>1, <2>2, <2>3
<1> QED
  BY <1>3 DEF InOrder, w

\* What an iteration that is being closed works on.
LEMMA Closing ==
  ASSUME IInv, Standing, pc = "crossing"
  PROVE  /\ iter = Len(rows) /\ iter \in DOMAIN rows /\ iter \in Nat \ {0}
         /\ current = Snap[iter - 1] /\ Newest = Snap[iter]
         /\ \A n \in 0 .. iter : Snap[n] \in Snapshots
         /\ IterUnits = rows[iter].units /\ IterUnits \in Int
         /\ since.rows \in 0 .. iter - 1
         /\ Bracket.before = Snap[iter - 1].units - Snap[since.rows].units
         /\ Bracket.after - Bracket.before = IterUnits
         /\ Bracket.before \in Int /\ Bracket.after \in Int
<1>1. iter = Len(rows) /\ iter \in DOMAIN rows /\ manifest # NoManifest /\ Newest = Snap[iter]
  BY DEF IInv, Placed, Handled
<1>2. Len(rows) \in Nat /\ DOMAIN rows = 1 .. Len(rows)
      /\ \A n \in 0 .. iter : Snap[n] \in Snapshots
  BY <1>1, RowFacts
<1>3. iter \in Nat \ {0} /\ iter - 1 \in 0 .. iter /\ iter \in 0 .. iter
  BY <1>1, <1>2
<1>4. current = Snap[iter - 1] /\ since.rows < iter /\ since.rows \in Nat
      /\ total = Snap[iter].units - Snap[since.rows].units
  BY <1>1 DEF Standing, Handled, IInv, Types, MemoryTypes
<1>5. \A n \in 0 .. iter : Snap[n].units \in Nat
  BY <1>2 DEF Snapshots
<1>6. IterUnits = Snap[iter].units - Snap[iter - 1].units
  BY <1>1, <1>4 DEF IterUnits
<1>7. rows[iter].units = IterUnits
  BY <1>1, <1>6 DEF IInv, Recorded
<1>8. since.rows \in 0 .. iter - 1 /\ since.rows \in 0 .. iter
  BY <1>3, <1>4
<1>9. Snap[iter].units \in Nat /\ Snap[iter - 1].units \in Nat /\ Snap[since.rows].units \in Nat
  BY <1>3, <1>5, <1>8
<1>10. Bracket.before = total - IterUnits /\ Bracket.after = total
  BY DEF Bracket
<1>11. /\ Bracket.before = Snap[iter - 1].units - Snap[since.rows].units
       /\ Bracket.after - Bracket.before = IterUnits
       /\ Bracket.before \in Int /\ Bracket.after \in Int /\ IterUnits \in Int
  BY <1>4, <1>6, <1>9, <1>10
<1> QED
  BY <1>1, <1>2, <1>3, <1>4, <1>7, <1>8, <1>11

LEMMA LinesClose ==
  ASSUME IInv, Standing, Lines, CloseIteration
  PROVE  Lines'
<1> DEFINE snap == Snap
           rs   == rows
           old  == constraints
           new  == BuildCrossings(current.pct, Newest.pct, Bracket.before, Bracket.after, iter)
           start == since.rows
<1>1. /\ UNCHANGED <<since, cut, manifest, snapshots, rows>>
      /\ pc' \in {"head", "postflight"} /\ pc = "crossing" /\ constraints' = old \o new
  BY DEF CloseIteration, history, WriteCrossings
<1>2. Snap' = snap
  BY <1>1, SameSnapshots
<1>3. /\ iter = Len(rs) /\ iter \in DOMAIN rs /\ iter \in Nat \ {0}
      /\ current = snap[iter - 1] /\ Newest = snap[iter]
      /\ \A n \in 0 .. iter : snap[n] \in Snapshots
      /\ IterUnits = rs[iter].units /\ IterUnits \in Int
      /\ start \in 0 .. iter - 1
      /\ Bracket.before = snap[iter - 1].units - snap[start].units
      /\ Bracket.after - Bracket.before = IterUnits
      /\ Bracket.before \in Int /\ Bracket.after \in Int
  BY <1>1, Closing
<1>4. PICK pre, post, before, after, n :
        /\ pre = current.pct /\ post = Newest.pct /\ before = Bracket.before
        /\ after = Bracket.after /\ n = iter
  OBVIOUS
<1>5. pre = snap[n - 1].pct /\ post = snap[n].pct /\ pre \in Nat /\ post \in Nat
      /\ before \in Int /\ after \in Int /\ n \in Nat
  <2>1. n - 1 \in 0 .. iter /\ n \in 0 .. iter
    BY <1>3, <1>4
  <2> QED
    BY <1>3, <1>4, <2>1 DEF Snapshots
<1>6. new = BuildCrossings(pre, post, before, after, n)
  BY <1>4
<1>7. old \in Seq(CrossingLines) /\ Len(old) \in Nat /\ DOMAIN old = 1 .. Len(old)
  BY RowFacts
<1>8. /\ \A c \in DOMAIN old : LineFits(old[c], snap, rs) /\ old[c].iter < n
      /\ \A c \in DOMAIN old : c > since.constraints => SumBefore(old[c], snap, start)
      /\ InOrder(old)
      /\ \A i \in DOMAIN rs \ cut : i # n => Covered(i, old, snap)
  BY <1>1, <1>4 DEF Lines, Handled
<1> HIDE DEF new, old, snap, rs, start
<1>9. /\ new \in Seq(CrossingLines) /\ Len(new) \in Nat
      /\ Len(new) = IF post > pre THEN post - pre ELSE 0
      /\ DOMAIN new = 1 .. Len(new)
      /\ \A i \in 1 .. Len(new) :
           new[i] = [k |-> pre + i, before |-> before, after |-> after, iter |-> n,
                     group |-> IF post - pre > 1 THEN n ELSE 0]
  <2>1. PICK t : t = BuildCrossings(pre, post, before, after, n)
    OBVIOUS
  <2>2. new = t
    BY <1>6, <2>1
  <2>3. Built(t, pre, post, before, after, n)
    BY <1>5, <2>1, CrossingsBuilt
  <2> QED
    BY <2>2, <2>3, Zenon DEF Built
<1>10. ASSUME NEW d \in DOMAIN new
       PROVE  /\ LineFits(new[d], snap, rs) /\ SumBefore(new[d], snap, start)
              /\ new[d].iter = n /\ new[d].k = pre + d
  <2>1. /\ new[d].k = pre + d /\ new[d].before = before /\ new[d].after = after
        /\ new[d].iter = n /\ new[d].group = IF post - pre > 1 THEN n ELSE 0
    <3>1. d \in 1 .. Len(new)
      BY <1>9
    <3>2. new[d] = [k |-> pre + d, before |-> before, after |-> after, iter |-> n,
                    group |-> IF post - pre > 1 THEN n ELSE 0]
      BY <1>9, <3>1
    <3> QED
      BY <3>2
  <2>2. pre + d \in pre + 1 .. post
    <3>1. d \in 1 .. (IF post > pre THEN post - pre ELSE 0)
      BY <1>9
    <3> QED
      BY <1>5, <3>1, PartPlace
  <2>3. LineFits(new[d], snap, rs)
    BY <1>3, <1>4, <1>5, <2>1, <2>2 DEF LineFits
  <2>4. SumBefore(new[d], snap, start)
    <3>1. n > start
      BY <1>3, <1>4
    <3> QED
      BY <1>3, <1>4, <2>1, <3>1 DEF SumBefore
  <2> QED
    BY <2>1, <2>3, <2>4
<1> DEFINE w == old \o new
<1>11. /\ \A c \in DOMAIN old : c \in DOMAIN w /\ w[c] = old[c]
       /\ \A d \in DOMAIN new : Len(old) + d \in DOMAIN w /\ w[Len(old) + d] = new[d]
       /\ \A c \in DOMAIN w \ DOMAIN old : c - Len(old) \in DOMAIN new /\ w[c] = new[c - Len(old)]
  <2>1. /\ w \in Seq(CrossingLines) /\ Len(w) = Len(old) + Len(new)
        /\ \A i \in 1 .. Len(old) + Len(new) : w[i] = IF i <= Len(old) THEN old[i] ELSE new[i - Len(old)]
    BY <1>7, <1>9, ConcatProperties
  <2>2. DOMAIN w = 1 .. Len(old) + Len(new)
    BY <2>1, LenProperties
  <2> HIDE DEF w
  <2>3. \A c \in DOMAIN old : c \in DOMAIN w /\ w[c] = old[c]
    BY <1>7, <1>9, <2>1, <2>2
  <2>4. ASSUME NEW d \in DOMAIN new
        PROVE  Len(old) + d \in DOMAIN w /\ w[Len(old) + d] = new[d]
    <3>1. Len(old) + d \in 1 .. Len(old) + Len(new) /\ ~(Len(old) + d <= Len(old))
          /\ Len(old) + d - Len(old) = d
      BY <1>7, <1>9
    <3> QED
      BY <2>1, <2>2, <3>1
  <2>5. ASSUME NEW c \in DOMAIN w \ DOMAIN old
        PROVE  c - Len(old) \in DOMAIN new /\ w[c] = new[c - Len(old)]
    <3>1. c \in 1 .. Len(old) + Len(new) /\ ~(c <= Len(old)) /\ c - Len(old) \in 1 .. Len(new)
      BY <1>7, <1>9, <2>2
    <3> QED
      BY <1>9, <2>1, <3>1
  <2> QED
    BY <2>3, <2>4, <2>5
<1>12. InOrder(w)
  <2>1. InOrder(new)
    <3>1. ASSUME NEW c \in DOMAIN new, NEW d \in DOMAIN new, c < d
          PROVE  new[c].iter = new[d].iter /\ new[c].k < new[d].k
      <4>1. new[c].k = pre + c /\ new[d].k = pre + d /\ new[c].iter = new[d].iter
        BY <1>10
      <4>2. c \in Nat /\ d \in Nat
        BY <1>9
      <4> QED
        BY <1>5, <3>1, <4>1, <4>2
    <3> QED
      BY <3>1 DEF InOrder
  <2> QED
    BY <1>5, <1>7, <1>8, <1>9, <1>10, <2>1, OrderExtends
<1> HIDE DEF w
<1>13. \A c \in DOMAIN w : LineFits(w[c], snap, rs)
  BY <1>8, <1>10, <1>11
<1>14. \A c \in DOMAIN w : c > since.constraints => SumBefore(w[c], snap, start)
  BY <1>8, <1>10, <1>11
<1>15. ASSUME NEW i \in DOMAIN rs \ cut
       PROVE  Covered(i, w, snap)
  <2>1. CASE i # n
    <3>1. Covered(i, old, snap)
      BY <1>8, <2>1
    <3> QED
      BY <1>11, <3>1 DEF Covered
  <2>2. CASE i = n
    <3>1. ASSUME NEW k \in snap[i - 1].pct + 1 .. snap[i].pct
          PROVE  \E c \in DOMAIN w : w[c].iter = i /\ w[c].k = k
      <4>1. k \in pre + 1 .. post
        BY <1>5, <2>2, <3>1
      <4>2. k - pre \in DOMAIN new /\ pre + (k - pre) = k
        <5>1. k - pre \in 1 .. (IF post > pre THEN post - pre ELSE 0) /\ pre + (k - pre) = k
          BY <1>5, <4>1, PartIndex
        <5> QED
          BY <1>9, <5>1
      <4>3. /\ Len(old) + (k - pre) \in DOMAIN w
            /\ w[Len(old) + (k - pre)] = new[k - pre]
        BY <1>11, <4>2
      <4> QED
        BY <1>10, <2>2, <4>2, <4>3
    <3> QED
      BY <3>1 DEF Covered
  <2> QED
    BY <2>1, <2>2
<1>16. constraints' = w /\ rows' = rs /\ since'.rows = start /\ since' = since /\ cut' = cut
       /\ pc' # "crossing"
  BY <1>1 DEF w, rs, old, start
<1> QED
  BY <1>2, <1>12, <1>13, <1>14, <1>15, <1>16 DEF Lines

LEMMA LinesNext ==
  ASSUME IInv, Standing, Lines, [Next]_vars
  PROVE  Lines'
<1>1. CASE manifest = NoManifest /\ rows' = << >> /\ constraints' = << >>
  <2>1. Lines'
    <3>1. DOMAIN rows' = {} /\ DOMAIN constraints' = {}
      BY <1>1
    <3> QED
      BY <3>1 DEF Lines, InOrder
  <2> QED
    BY <2>1
<1>2. rows = << >> \/ manifest # NoManifest
  BY DEF IInv, Recorded
<1>3. CASE \/ Proxied \/ ClaudeExits \/ SnapshotFails \/ LeaveWithoutRow \/ LeaveLoop
           \/ Postflight \/ Signal \/ UNCHANGED vars \/ \E u \in Costs : Call(u)
  <2>1. UNCHANGED disk /\ UNCHANGED <<since, iter, cut>>
    BY <1>3 DEF Proxied, Record, StopProxy, StartProxy, Rollover, ClaudeExits, SnapshotFails,
       LeaveWithoutRow, LeaveLoop, Postflight, Signal, Call, vars, memory, history
  <2>2. pc' = pc \/ (pc \in Loop /\ pc' \in Loop)
    BY <1>3 DEF Proxied, Record, StopProxy, StartProxy, Rollover, ClaudeExits, SnapshotFails,
       LeaveWithoutRow, LeaveLoop, Postflight, Signal, Call, vars, Loop, Handled
  <2>3. Snap' = Snap /\ UNCHANGED <<rows, constraints>>
    BY <2>1, SameDisk DEF IInv
  <2>4. CASE manifest = NoManifest
    BY <1>1, <1>2, <2>3, <2>4 DEF Standing
  <2>5. CASE manifest # NoManifest
    <3>1. /\ pc' = "crossing" => pc = "crossing"
          /\ pc' \in Handled => pc \in Handled
          /\ ~(pc = "crossing" /\ pc' # "crossing")
      BY <2>2 DEF Loop
    <3> QED
      BY <2>1, <2>3, <2>5, <3>1, LinesQuiet
  <2> QED
    BY <2>4, <2>5
<1>4. CASE BaselineFails \/ FatalOutput \/ Report \/ Die
  <2>1. Quit /\ UNCHANGED disk
    BY <1>4 DEF BaselineFails, FatalOutput, Report, Die
  <2>2. cut \subseteq cut' /\ (pc = "crossing" => iter \in cut')
    BY <1>4 DEF BaselineFails, FatalOutput, Report, Die, history
  <2>3. Snap' = Snap /\ UNCHANGED <<rows, constraints>>
    BY <2>1, SameDisk DEF IInv
  <2>4. pc' = "off" /\ pc' \notin Handled
    BY <2>1 DEF Quit, Handled
  <2>5. CASE manifest = NoManifest
    BY <1>1, <1>2, <2>3, <2>5 DEF Standing
  <2>6. CASE manifest # NoManifest
    BY <2>2, <2>3, <2>4, <2>6, LinesQuiet
  <2> QED
    BY <2>5, <2>6
<1>5. CASE TakeSnapshot
  <2>1. /\ UNCHANGED <<rows, constraints, iter, since, cut, manifest>> /\ pc = "snapshot" /\ pc' = "row"
    BY <1>5 DEF TakeSnapshot, memory, history
  <2>2. manifest # NoManifest /\ pc \in Handled
    BY <2>1 DEF IInv, Placed, Handled
  <2>3. \A n \in 0 .. Len(rows) : Snap'[n] = Snap[n]
    BY <1>5, SnapshotStep
  <2> QED
    BY <2>1, <2>2, <2>3, LinesQuiet
<1>6. CASE ReadBaseline \/ WriteManifest \/ \E d \in BOOLEAN : StartRun(d)
  <2>1. UNCHANGED <<rows, constraints>> /\ manifest = NoManifest
    BY <1>6 DEF ReadBaseline, WriteManifest, StartRun, disk, IInv, Placed
  <2> QED
    BY <1>1, <1>2, <2>1 DEF Standing
<1> QED
  BY <1>3, <1>4, <1>5, <1>6, LinesResume, LinesRow, LinesClose DEF Next, Step

-----------------------------------------------------------------------------
(* The window, as long as the gauge has followed it.                       *)

\* Every reading stands for q and the units it counts, q being what the window held that
\* the proxy never counted; pending answers go on from there.
Window(q, level) ==
  /\ \A j \in DOMAIN snapshots : snapshots[j].pct = (q + snapshots[j].units) \div TickUnits
  /\ level[0] = q + counted /\ shown = level[0] \div TickUnits
  /\ \A j \in 1 .. Len(pending) : /\ level[j] = level[j - 1] + pending[j].units
                                  /\ pending[j].pct = level[j] \div TickUnits
  /\ level[Len(pending)] = spent - origin

Followed == \E q \in Int : \E level \in [0 .. Len(pending) -> Int] : Window(q, level)

Follows ==
  /\ replaced => snapshots # << >>
  /\ faithful => ~replaced /\ snapshots # << >> /\ Followed

LEMMA FollowsQuiet ==
  ASSUME Follows, UNCHANGED <<snapshots, counted, shown, pending, spent, origin, replaced>>,
         faithful' => faithful
  PROVE  Follows'
<1>1. Followed => Followed'
  BY DEF Followed, Window
<1> QED
  BY <1>1 DEF Follows

LEMMA FollowsRecord ==
  ASSUME IInv, Follows, NEW i \in DOMAIN pending, Record(i)
  PROVE  Follows'
<1>1. /\ UNCHANGED <<snapshots, spent, origin, replaced>>
      /\ counted' = counted + pending[i].units /\ shown' = pending[i].pct
      /\ pending' = [j \in 1 .. Len(pending) - 1 |-> pending[IF j < i THEN j ELSE j + 1]]
      /\ faithful' = (faithful /\ i = 1)
  BY DEF Record, disk, upstream
<1> SUFFICES ASSUME faithful' PROVE Followed'
  BY <1>1 DEF Follows
<1>2. i = 1 /\ faithful
  BY <1>1
<1>3. PICK q : q \in Int /\ \E level \in [0 .. Len(pending) -> Int] : Window(q, level)
  BY <1>2 DEF Follows, Followed
<1>4. PICK level \in [0 .. Len(pending) -> Int] : Window(q, level)
  BY <1>3
<1>5. PICK n : n = Len(pending) - 1
  OBVIOUS
<1>6. Len(pending) = n + 1 /\ n \in Nat /\ 1 \in 1 .. n + 1
  <2> DEFINE Answers == [units : CallUnits, pct : Nat]
  <2>1. pending \in Seq(Answers)
    BY DEF IInv, Types, UpTypes
  <2> HIDE DEF Answers
  <2>2. Len(pending) \in Nat /\ DOMAIN pending = 1 .. Len(pending)
    BY <2>1, LenProperties
  <2>3. 1 \in 1 .. Len(pending)
    BY <1>2, <2>2
  <2> QED
    BY <1>5, <2>2, <2>3
<1>7. PICK next : next = [j \in 0 .. n |-> level[j + 1]]
  OBVIOUS
<1>8. next \in [0 .. n -> Int] /\ \A j \in 0 .. n : next[j] = level[j + 1] /\ j + 1 \in 1 .. n + 1
  BY <1>4, <1>6, <1>7
<1>9. /\ \A j \in 1 .. n : pending'[j] = pending[j + 1] /\ j + 1 \in 1 .. n + 1
      /\ Len(pending') = n
  <2>1. pending' = [j \in 1 .. n |-> pending[IF j < 1 THEN j ELSE j + 1]]
    BY <1>1, <1>2, <1>5
  <2>2. \A j \in 1 .. n : pending'[j] = pending[j + 1] /\ j + 1 \in 1 .. n + 1
    BY <1>6, <2>1
  <2>3. Len(pending') = n
    BY <1>6, <2>1
  <2> QED
    BY <2>2, <2>3
<1>10. /\ level[0] = q + counted
       /\ \A j \in 1 .. n + 1 : /\ level[j] = level[j - 1] + pending[j].units
                                /\ pending[j].pct = level[j] \div TickUnits
       /\ level[n + 1] = spent - origin
       /\ \A j \in DOMAIN snapshots : snapshots[j].pct = (q + snapshots[j].units) \div TickUnits
  BY <1>4, <1>6 DEF Window
<1>11. pending[1].units \in Nat /\ counted \in Nat
  BY <1>2, AnswerTypes DEF IInv, Types, UpTypes
<1>12. next[0] = q + counted' /\ shown' = next[0] \div TickUnits
  <2>1. next[0] = level[1]
    BY <1>6, <1>8
  <2>2. level[1] = level[0] + pending[1].units /\ pending[1].pct = level[1] \div TickUnits
    BY <1>6, <1>10
  <2>3. level[1] = q + counted'
    BY <1>1, <1>2, <1>3, <1>10, <1>11, <2>2
  <2> QED
    BY <1>1, <1>2, <2>1, <2>2, <2>3
<1>13. ASSUME NEW j \in 1 .. n
       PROVE  next[j] = next[j - 1] + pending'[j].units /\ pending'[j].pct = next[j] \div TickUnits
  <2>1. /\ level[j + 1] = level[(j + 1) - 1] + pending[j + 1].units
        /\ pending[j + 1].pct = level[j + 1] \div TickUnits
    BY <1>9, <1>10
  <2>2. next[j] = level[j + 1] /\ next[j - 1] = level[j] /\ (j + 1) - 1 = j
    <3>1. j \in 0 .. n /\ j - 1 \in 0 .. n /\ (j - 1) + 1 = j /\ (j + 1) - 1 = j
      BY <1>6
    <3> QED
      BY <1>8, <3>1
  <2> QED
    BY <1>9, <2>1, <2>2
<1>14. next[n] = spent - origin
  BY <1>6, <1>8, <1>10
<1>15. Window(q, next)'
  BY <1>1, <1>9, <1>10, <1>12, <1>13, <1>14 DEF Window
<1> QED
  BY <1>3, <1>8, <1>9, <1>15 DEF Followed

LEMMA FollowsCall ==
  ASSUME IInv, Follows, NEW u \in Costs, Call(u)
  PROVE  Follows'
<1>1. /\ UNCHANGED <<snapshots, counted, shown, origin, replaced, faithful>>
      /\ spent' = spent + u
      /\ pending' = IF u = 0 THEN pending
                    ELSE Append(pending, [units |-> u, pct |-> Percent(spent + u)])
  BY DEF Call, disk, history
<1>2. u \in Nat /\ spent \in Nat /\ origin \in Nat
  BY ProbeAssumption DEF Costs, IInv, Types, UpTypes
<1>3. CASE u = 0
  <2>1. UNCHANGED <<snapshots, counted, shown, pending, spent, origin, replaced, faithful>>
    BY <1>1, <1>2, <1>3
  <2> QED
    BY <2>1, FollowsQuiet
<1>4. CASE u # 0
  <2> SUFFICES ASSUME faithful PROVE Followed'
    BY <1>1 DEF Follows
  <2>1. PICK q : q \in Int /\ \E level \in [0 .. Len(pending) -> Int] : Window(q, level)
    BY DEF Follows, Followed
  <2>2. PICK level \in [0 .. Len(pending) -> Int] : Window(q, level)
    BY <2>1
  <2>3. PICK n, answer : n = Len(pending) /\ answer = [units |-> u, pct |-> Percent(spent + u)]
    OBVIOUS
  <2>4. /\ n \in Nat /\ Len(pending') = n + 1
        /\ \A j \in 1 .. n : pending'[j] = pending[j]
        /\ pending'[n + 1] = answer
    <3> DEFINE Answers == [units : CallUnits, pct : Nat]
    <3>1. pending \in Seq(Answers)
      BY DEF IInv, Types, UpTypes
    <3>2. answer \in Answers
      <4>1. origin <= spent + u /\ spent + u \in Nat
        BY <1>2 DEF IInv, Types, UpTypes
      <4>2. Percent(spent + u) \in Nat
        BY <4>1, PercentIsNat DEF IInv, Types
      <4>3. u \in CallUnits
        BY <1>4 DEF Costs
      <4> QED
        BY <2>3, <4>2, <4>3
    <3> HIDE DEF Answers
    <3>3. pending' = Append(pending, answer)
      BY <1>1, <1>4, <2>3
    <3> QED
      BY <2>3, <3>1, <3>2, <3>3, AppendProperties, LenProperties
  <2>5. PICK next : next = [j \in 0 .. n + 1 |-> IF j <= n THEN level[j] ELSE spent + u - origin]
    OBVIOUS
  <2>6. /\ next \in [0 .. n + 1 -> Int] /\ \A j \in 0 .. n : next[j] = level[j]
        /\ next[n + 1] = spent + u - origin
    BY <1>2, <2>2, <2>3, <2>4, <2>5
  <2>7. /\ level[0] = q + counted /\ shown = level[0] \div TickUnits
        /\ \A j \in 1 .. n : /\ level[j] = level[j - 1] + pending[j].units
                             /\ pending[j].pct = level[j] \div TickUnits
        /\ level[n] = spent - origin
        /\ \A j \in DOMAIN snapshots : snapshots[j].pct = (q + snapshots[j].units) \div TickUnits
    BY <2>2, <2>3 DEF Window
  <2>8. ASSUME NEW j \in 1 .. n + 1
        PROVE  next[j] = next[j - 1] + pending'[j].units /\ pending'[j].pct = next[j] \div TickUnits
    <3>1. CASE j \in 1 .. n
      <4>1. j \in 0 .. n /\ j - 1 \in 0 .. n
        BY <2>4, <3>1
      <4> QED
        BY <2>4, <2>6, <2>7, <3>1, <4>1
    <3>2. CASE j = n + 1
      <4>1. j - 1 = n /\ n \in 0 .. n
        BY <2>4, <3>2
      <4>2. next[j - 1] = spent - origin /\ next[j] = spent + u - origin
        BY <2>6, <2>7, <3>2, <4>1
      <4>3. pending'[j].units = u /\ pending'[j].pct = (spent + u - origin) \div TickUnits
        <5>1. answer.units = u /\ answer.pct = Percent(spent + u)
          BY <2>3
        <5>2. pending'[j] = answer
          BY <2>4, <3>2
        <5>3. Percent(spent + u) = (spent + u - origin) \div TickUnits
          BY DEF Percent
        <5> QED
          BY <5>1, <5>2, <5>3
      <4>4. spent + u - origin = (spent - origin) + u
        BY <1>2
      <4>5. next[j] = next[j - 1] + pending'[j].units
        BY <4>2, <4>3, <4>4
      <4> QED
        BY <4>2, <4>3, <4>5
    <3> QED
      BY <2>4, <3>1, <3>2
  <2>9. next[0] = level[0] /\ spent' - origin' = spent + u - origin
    <3>1. 0 \in 0 .. n
      BY <2>4
    <3>2. origin' = origin /\ spent' = spent + u
      BY <1>1
    <3> QED
      <4>1. next[0] = level[0]
        BY <2>6, <3>1
      <4>2. spent' - origin' = spent + u - origin
        BY <3>2
      <4> QED
        BY <4>1, <4>2
  <2>10. Window(q, next)'
    BY <1>1, <2>4, <2>6, <2>7, <2>8, <2>9 DEF Window
  <2> QED
    BY <2>1, <2>4, <2>6, <2>10 DEF Followed
<1> QED
  BY <1>3, <1>4

LEMMA FollowsBaseline ==
  ASSUME IInv, Follows, ReadBaseline
  PROVE  Follows'
<1>1. /\ UNCHANGED <<spent, origin, counted, shown, pending, replaced>>
      /\ snapshots' = Append(snapshots, Reading(0)) /\ pc = "baseline"
      /\ faithful' = (pending = << >> /\ shown = Percent(spent))
  BY DEF ReadBaseline, upstream, proxy
<1>2. snapshots = << >>
  BY <1>1 DEF IInv, Placed
<1>3. snapshots' = << Reading(0) >> /\ ~replaced
  BY <1>1, <1>2 DEF Follows
<1> SUFFICES ASSUME faithful' PROVE Followed'
  BY <1>1, <1>3 DEF Follows
<1>4. pending = << >> /\ shown = (spent - origin) \div TickUnits /\ Len(pending) = 0
  BY <1>1 DEF Percent
<1>5. spent \in Nat /\ origin \in Nat /\ counted \in Nat
  BY DEF IInv, Types, UpTypes
<1>6. PICK q, level : q = spent - origin - counted /\ level = [j \in 0 .. 0 |-> spent - origin]
  OBVIOUS
<1>7. q \in Int /\ level \in [0 .. 0 -> Int] /\ level[0] = spent - origin /\ q + counted = spent - origin
  BY <1>5, <1>6
<1>8. \A j \in DOMAIN snapshots' : snapshots'[j].pct = shown /\ snapshots'[j].units = counted
  BY <1>3 DEF Reading
<1>9. 1 .. 0 = {}
  OBVIOUS
<1>10. \A j \in 1 .. Len(pending') : FALSE
  BY <1>1, <1>4, <1>9
<1>11. level[Len(pending')] = spent' - origin'
  BY <1>1, <1>4, <1>7
<1>12. Window(q, level)'
  BY <1>1, <1>4, <1>7, <1>8, <1>10, <1>11 DEF Window
<1>13. Len(pending') = 0
  BY <1>1, <1>4
<1> QED
  BY <1>7, <1>12, <1>13 DEF Followed

LEMMA FollowsSnapshot ==
  ASSUME IInv, Follows, TakeSnapshot
  PROVE  Follows'
<1>1. /\ UNCHANGED <<spent, origin, counted, shown, pending, replaced, faithful>>
      /\ snapshots' = Append(snapshots, Reading(iter))
  BY DEF TakeSnapshot, upstream, proxy, history
<1>2. snapshots \in Seq(Snapshots) /\ Reading(iter) \in Snapshots
  BY ReadingTypes DEF IInv, Types, DiskTypes, MemoryTypes
<1>3. /\ snapshots' # << >>
      /\ \A j \in DOMAIN snapshots' :
           \/ j \in DOMAIN snapshots /\ snapshots'[j] = snapshots[j]
           \/ snapshots'[j] = Reading(iter)
  BY <1>1, <1>2
<1>4. ASSUME NEW q \in Int, NEW level \in [0 .. Len(pending) -> Int], Window(q, level)
      PROVE  Window(q, level)'
  <2>1. shown = (q + counted) \div TickUnits
    BY <1>4 DEF Window
  <2>2. Reading(iter).pct = shown /\ Reading(iter).units = counted
    BY DEF Reading
  <2>3. \A j \in DOMAIN snapshots' :
          snapshots'[j].pct = (q + snapshots'[j].units) \div TickUnits
    BY <1>3, <1>4, <2>1, <2>2 DEF Window
  <2> QED
    BY <1>1, <1>4, <2>3 DEF Window
<1>5. Followed => Followed'
  BY <1>1, <1>4 DEF Followed
<1> QED
  BY <1>1, <1>3, <1>5 DEF Follows

LEMMA FollowsNext ==
  ASSUME IInv, Follows, [Next]_vars
  PROVE  Follows'
<1>1. CASE StartProxy
  BY <1>1 DEF StartProxy, Follows, disk
<1>2. CASE Rollover
  BY <1>2 DEF Rollover, Follows, disk
<1>3. CASE StopProxy
  <2>1. /\ UNCHANGED <<snapshots, counted, shown, spent, origin, replaced>> /\ pending' = << >>
        /\ faithful' = (faithful /\ pending = << >>)
    BY <1>3 DEF StopProxy, disk, upstream
  <2>2. CASE faithful'
    <3>1. UNCHANGED <<snapshots, counted, shown, pending, spent, origin, replaced>> /\ (faithful' => faithful)
      BY <2>1, <2>2
    <3> QED
      BY <3>1, FollowsQuiet
  <2>3. CASE ~faithful'
    BY <2>1, <2>3 DEF Follows
  <2> QED
    BY <2>2, <2>3
<1>4. CASE \/ BaselineFails \/ WriteManifest \/ ClaudeExits
           \/ SnapshotFails \/ LeaveWithoutRow \/ WriteRow \/ FatalOutput \/ CloseIteration
           \/ LeaveLoop \/ Postflight \/ Report \/ Signal \/ Die \/ UNCHANGED vars
           \/ \E d \in BOOLEAN : StartRun(d) \/ Resume(d)
  <2>1. UNCHANGED <<snapshots, counted, shown, pending, spent, origin, replaced, faithful>>
    BY <1>4 DEF BaselineFails, WriteManifest, ClaudeExits, SnapshotFails,
     LeaveWithoutRow, WriteRow, FatalOutput, CloseIteration, LeaveLoop, Postflight, Report,
     Signal, Die, StartRun, Resume, proxy, disk, history, upstream, vars
  <2> QED
    BY <2>1, FollowsQuiet
<1> QED
  BY <1>1, <1>2, <1>3, <1>4, FollowsRecord, FollowsCall, FollowsBaseline, FollowsSnapshot
  DEF Next, Proxied, Step

-----------------------------------------------------------------------------
(* What a death leaves behind, and the order of the files.                 *)

\* The rows that a death left without crossings have none, and it is the last one as long
\* as the run was not resumed.
Cuts ==
  /\ \A i \in cut : i \in DOMAIN rows /\ (pc = "crossing" => i # iter)
  /\ \A c \in DOMAIN constraints : constraints[c].iter \notin cut
  /\ resumes = 0 => cut \subseteq {Len(rows)}

\* Rows grow with the counters; the snapshots of a run that was not resumed are numbered.
Numbered ==
  /\ ~replaced => \A i \in DOMAIN rows : rows[i].units \in Nat
  /\ resumes = 0 =>
       /\ \A j \in DOMAIN snapshots : snapshots[j].label = j - 1
       /\ pc = "manifest" => Len(snapshots) = 1
       /\ pc \in {"head", "claude", "snapshot"} => Len(snapshots) = iter
       /\ pc \in {"row", "crossing"} => Len(snapshots) = iter + 1

LEMMA CutsNext ==
  ASSUME IInv, Standing, Lines, Cuts, [Next]_vars
  PROVE  Cuts'
<1>0. /\ DOMAIN rows = 1 .. Len(rows) /\ Len(rows) \in Nat
      /\ DOMAIN constraints = 1 .. Len(constraints) /\ Len(constraints) \in Nat
      /\ cut \subseteq Nat /\ resumes \in Nat
  BY RowFacts DEF IInv, Types, HistoryTypes
<1>1. ASSUME UNCHANGED <<rows, constraints>>, cut' = cut, resumes' = 0 => resumes = 0,
             pc' = "crossing" => pc = "crossing" /\ iter' = iter
      PROVE  Cuts'
  BY <1>1 DEF Cuts
<1>2. CASE \/ Proxied \/ ClaudeExits \/ SnapshotFails \/ LeaveWithoutRow \/ LeaveLoop
           \/ Postflight \/ Signal \/ UNCHANGED vars \/ \E u \in Costs : Call(u)
  <2>1. UNCHANGED <<rows, constraints>> /\ UNCHANGED <<iter, cut, resumes>>
    BY <1>2 DEF Proxied, Record, StopProxy, StartProxy, Rollover, ClaudeExits, SnapshotFails,
       LeaveWithoutRow, LeaveLoop, Postflight, Signal, Call, vars, memory, history, disk
  <2>2. pc' = "crossing" => pc = "crossing"
    BY <1>2 DEF Proxied, Record, StopProxy, StartProxy, Rollover, ClaudeExits, SnapshotFails,
       LeaveWithoutRow, LeaveLoop, Postflight, Signal, Call, vars
  <2> QED
    BY <1>1, <2>1, <2>2
<1>3. CASE BaselineFails \/ Report \/ ReadBaseline \/ WriteManifest \/ TakeSnapshot
  <2>1. UNCHANGED <<rows, constraints>> /\ UNCHANGED <<cut, resumes>> /\ pc' # "crossing"
    BY <1>3 DEF BaselineFails, Report, ReadBaseline, WriteManifest, TakeSnapshot,
       Quit, disk, history
  <2> QED
    BY <1>1, <2>1
<1>4. ASSUME NEW d \in BOOLEAN, StartRun(d) \/ Resume(d)
      PROVE  Cuts'
  <2>1. UNCHANGED <<rows, constraints>> /\ cut' = cut /\ pc' # "crossing"
    BY <1>4 DEF StartRun, Resume, disk, history
  <2>2. resumes' = resumes \/ resumes' = resumes + 1
    BY <1>4 DEF StartRun, Resume, history
  <2> QED
    BY <1>0, <1>1, <2>1, <2>2
<1>5. CASE FatalOutput \/ Die
  <2>1. /\ UNCHANGED <<rows, constraints, resumes>> /\ pc' = "off" /\ pc # "off"
        /\ cut' = IF pc = "crossing" THEN cut \cup {iter} ELSE cut
    BY <1>5 DEF FatalOutput, Die, Quit, disk
  <2>2. CASE pc = "crossing"
    <3>1. iter \in DOMAIN rows /\ iter = Len(rows)
      BY <2>2 DEF IInv, Placed
    <3>2. \A c \in DOMAIN constraints : constraints[c].iter # iter
      <4>1. \A c \in DOMAIN constraints : constraints[c].iter \in DOMAIN rows /\ constraints[c].iter < iter
        BY <2>2 DEF Lines, LineFits
      <4> QED
        BY <1>0, <3>1, <4>1
    <3>3. resumes = 0 => cut = {}
      BY <2>1 DEF Standing
    <3> QED
      BY <2>1, <2>2, <3>1, <3>2, <3>3 DEF Cuts
  <2>3. CASE pc # "crossing"
    BY <1>1, <2>1, <2>3
  <2> QED
    BY <2>2, <2>3
<1>6. CASE WriteRow
  <2>1. /\ UNCHANGED <<constraints, iter, cut, resumes>> /\ pc = "row"
        /\ rows' = Append(rows, [iter |-> iter, units |-> IterUnits])
    BY <1>6 DEF WriteRow, history
  <2>2. iter = Len(rows) + 1
    BY <2>1 DEF IInv, Placed
  <2>3. DOMAIN rows' = DOMAIN rows \cup {iter} /\ iter \notin DOMAIN rows
    <3>1. rows \in Seq(Rows)
      BY RowFacts
    <3> QED
      BY <1>0, <2>1, <2>2, <3>1
  <2>4. resumes = 0 => cut = {}
    BY <2>1 DEF Standing
  <2> QED
    BY <2>1, <2>3, <2>4 DEF Cuts
<1>7. CASE CloseIteration
  <2>1. /\ UNCHANGED <<rows, cut, resumes>> /\ pc = "crossing" /\ pc' # "crossing"
        /\ constraints' = constraints
             \o BuildCrossings(current.pct, Newest.pct, Bracket.before, Bracket.after, iter)
    BY <1>7 DEF CloseIteration, WriteCrossings, history
  <2> DEFINE new == BuildCrossings(current.pct, Newest.pct, Bracket.before, Bracket.after, iter)
  <2>2. Newest.pct \in Nat /\ current.pct \in Nat
    BY <2>1, IterationFacts DEF IInv, Types, MemoryTypes, Snapshots
  <2>3. new \in Seq(CrossingLines) /\ \A c \in DOMAIN new : new[c].iter = iter
    <3>1. Bracket.before \in Int /\ Bracket.after \in Int /\ iter \in Nat
      BY <2>1, IterationFacts DEF IInv, Types, MemoryTypes, Bracket
    <3>2. new \in Seq(CrossingLines)
      BY <2>2, <3>1, CrossingTypes
    <3> QED
      BY <3>2 DEF BuildCrossings
  <2> HIDE DEF new
  <2>4. iter \notin cut
    BY <2>1 DEF Cuts
  <2>5. \A c \in DOMAIN constraints' :
          \/ c \in DOMAIN constraints /\ constraints'[c] = constraints[c]
          \/ c - Len(constraints) \in DOMAIN new /\ constraints'[c] = new[c - Len(constraints)]
    <3>1. constraints \in Seq(CrossingLines) /\ constraints' = constraints \o new
      BY <2>1, RowFacts DEF new
    <3> QED
      BY <2>3, <3>1
  <2>6. \A c \in DOMAIN constraints' : constraints'[c].iter \notin cut
    BY <2>3, <2>4, <2>5 DEF Cuts
  <2> QED
    BY <2>1, <2>6 DEF Cuts
<1> QED
  BY <1>2, <1>3, <1>4, <1>5, <1>6, <1>7 DEF Next, Step

LEMMA NumberedNext ==
  ASSUME IInv, Grows, Standing, Follows, Numbered, [Next]_vars
  PROVE  Numbered'
<1>0. /\ DOMAIN rows = 1 .. Len(rows) /\ Len(rows) \in Nat /\ rows \in Seq(Rows)
      /\ snapshots \in Seq(Snapshots) /\ resumes \in Nat /\ iter \in Nat
  BY RowFacts DEF IInv, Types, HistoryTypes, DiskTypes, MemoryTypes
<1>1. ASSUME UNCHANGED <<rows, snapshots>>, replaced' = replaced, resumes' = 0 => resumes = 0,
             pc' \in {"off", "postflight", "report", "baseline"}
      PROVE  Numbered'
  BY <1>1 DEF Numbered
<1>2. ASSUME UNCHANGED <<rows, snapshots>>, replaced' = replaced, resumes' = resumes, iter' = iter,
             \/ pc' = pc \/ (pc = "head" /\ pc' = "claude") \/ (pc = "claude" /\ pc' = "snapshot")
      PROVE  Numbered'
  BY <1>2 DEF Numbered
<1>3. CASE \/ SnapshotFails \/ LeaveWithoutRow \/ LeaveLoop \/ Postflight
           \/ BaselineFails \/ FatalOutput \/ Report \/ Die
  <2>1. UNCHANGED <<rows, snapshots>> /\ UNCHANGED <<replaced, resumes>>
        /\ pc' \in {"off", "postflight", "report", "baseline"}
    BY <1>3 DEF SnapshotFails, LeaveWithoutRow, LeaveLoop, Postflight, BaselineFails, FatalOutput,
       Report, Die, Quit, disk, history
  <2> QED
    BY <1>1, <2>1
<1>4. ASSUME NEW d \in BOOLEAN, StartRun(d)
      PROVE  Numbered'
  <2>1. UNCHANGED <<rows, snapshots>> /\ UNCHANGED <<replaced, resumes>> /\ pc' = "baseline"
    BY <1>4 DEF StartRun, disk, history
  <2> QED
    BY <1>1, <2>1
<1>5. ASSUME NEW d \in BOOLEAN, Resume(d)
      PROVE  Numbered'
  <2>1. UNCHANGED <<rows, snapshots>> /\ replaced' = replaced /\ resumes' = resumes + 1
    BY <1>5 DEF Resume, disk
  <2>2. resumes' # 0
    BY <1>0, <2>1
  <2> QED
    BY <2>1, <2>2 DEF Numbered
<1>6. CASE ClaudeExits \/ Signal \/ UNCHANGED vars \/ (\E u \in Costs : Call(u))
           \/ (\E i \in DOMAIN pending : Record(i)) \/ StopProxy \/ Rollover
  <2>1. UNCHANGED <<rows, snapshots>> /\ UNCHANGED <<replaced, resumes, iter>>
    BY <1>6 DEF ClaudeExits, Signal, Call, vars, Record, StopProxy, Rollover, memory, disk, history
  <2>2. \/ pc' = pc \/ (pc = "head" /\ pc' = "claude") \/ (pc = "claude" /\ pc' = "snapshot")
        \/ pc' = "postflight"
    BY <1>6 DEF ClaudeExits, Signal, Call, vars, Record, StopProxy, Rollover
  <2> QED
    BY <1>1, <1>2, <2>1, <2>2
<1>7. CASE StartProxy
  <2>1. /\ UNCHANGED <<rows, snapshots, pc>> /\ UNCHANGED <<resumes, iter>>
        /\ replaced' = (replaced \/ snapshots # << >>)
    BY <1>7 DEF StartProxy, memory, disk
  <2>2. ~replaced' => ~replaced
    BY <2>1
  <2> QED
    BY <2>1, <2>2 DEF Numbered
<1>8. CASE ReadBaseline
  <2>1. /\ rows' = rows /\ UNCHANGED <<replaced, resumes>> /\ pc = "baseline" /\ pc' = "manifest"
        /\ snapshots' = Append(snapshots, Reading(0))
    BY <1>8 DEF ReadBaseline
  <2>2. snapshots' = << Reading(0) >>
    BY <2>1 DEF IInv, Placed
  <2>3. Len(snapshots') = 1 /\ \A j \in DOMAIN snapshots' : j = 1 /\ snapshots'[j].label = j - 1
    BY <2>2 DEF Reading
  <2> QED
    BY <2>1, <2>3 DEF Numbered
<1>9. CASE WriteManifest
  <2>1. /\ UNCHANGED <<rows, snapshots>> /\ UNCHANGED <<replaced, resumes>> /\ iter' = 1
        /\ pc = "manifest" /\ pc' = "head"
    BY <1>9 DEF WriteManifest, history
  <2> QED
    BY <2>1 DEF Numbered
<1>10. CASE TakeSnapshot
  <2>1. /\ rows' = rows /\ UNCHANGED <<replaced, resumes, iter>> /\ pc = "snapshot" /\ pc' = "row"
        /\ snapshots' = Append(snapshots, Reading(iter))
    BY <1>10 DEF TakeSnapshot, memory, history
  <2>2. Reading(iter) \in Snapshots /\ Reading(iter).label = iter
    BY <1>0, ReadingTypes DEF IInv, Types
  <2>3. /\ Len(snapshots') = Len(snapshots) + 1
        /\ \A j \in DOMAIN snapshots' : \/ j \in DOMAIN snapshots /\ snapshots'[j] = snapshots[j]
                                        \/ j = Len(snapshots) + 1 /\ snapshots'[j] = Reading(iter)
    BY <1>0, <2>1, <2>2
  <2>4. ASSUME resumes = 0
        PROVE  /\ Len(snapshots') = iter + 1
               /\ \A j \in DOMAIN snapshots' : snapshots'[j].label = j - 1
    <3>1. Len(snapshots) = iter /\ \A j \in DOMAIN snapshots : snapshots[j].label = j - 1
      BY <2>1, <2>4 DEF Numbered
    <3>2. (iter + 1) - 1 = iter
      BY <1>0
    <3> QED
      BY <2>2, <2>3, <3>1, <3>2
  <2> QED
    BY <2>1, <2>4 DEF Numbered
<1>11. CASE WriteRow
  <2>1. /\ UNCHANGED <<snapshots, replaced, resumes, iter>> /\ pc = "row" /\ pc' = "crossing"
        /\ rows' = Append(rows, [iter |-> iter, units |-> IterUnits])
    BY <1>11 DEF WriteRow, history
  <2>2. iter = Len(rows) + 1 /\ current = Snap[Len(rows)] /\ manifest # NoManifest
    BY <2>1 DEF IInv, Placed, Handled
  <2>3. snapshots # << >>
    BY <2>2 DEF IInv, Recorded
  <2>4. ASSUME ~replaced PROVE IterUnits \in Nat
    <3>1. Len(rows) \in Held
      BY <2>3, LastHeld DEF IInv
    <3>2. PICK j \in DOMAIN snapshots : Snap[Len(rows)] = snapshots[j]
      BY <1>0, <3>1, HeldIsLookedUp
    <3>3. Len(snapshots) \in DOMAIN snapshots /\ j <= Len(snapshots)
      BY <1>0, <2>3
    <3>4. snapshots[j].units <= Newest.units
      BY <2>4, <3>3 DEF Grows, Newest
    <3>5. Newest.units \in Nat /\ current.units \in Nat
      <4>1. Newest \in Snapshots /\ snapshots[j] \in Snapshots
        BY <1>0, <3>3 DEF Newest
      <4> QED
        BY <2>2, <3>2, <4>1 DEF Snapshots
    <3> QED
      BY <2>2, <3>2, <3>4, <3>5 DEF IterUnits
  <2>5. \A i \in DOMAIN rows' : \/ i \in DOMAIN rows /\ rows'[i] = rows[i]
                                \/ rows'[i].units = IterUnits
    <3>1. [iter |-> iter, units |-> IterUnits].units = IterUnits
      OBVIOUS
    <3> DEFINE row == [iter |-> iter, units |-> IterUnits]
    <3>2. rows' = Append(rows, row) /\ row.units = IterUnits
      BY <2>1, <3>1
    <3> HIDE DEF row
    <3> QED
      BY <1>0, <3>2
  <2>6. ~replaced => \A i \in DOMAIN rows' : rows'[i].units \in Nat
    BY <2>4, <2>5 DEF Numbered
  <2> QED
    BY <2>1, <2>6 DEF Numbered
<1>12. CASE CloseIteration
  <2>1. /\ UNCHANGED <<rows, snapshots, replaced, resumes>> /\ iter' = iter + 1
        /\ pc = "crossing" /\ pc' \in {"head", "postflight"}
    BY <1>12 DEF CloseIteration, history
  <2> QED
    BY <2>1 DEF Numbered
<1> QED
  BY <1>3, <1>4, <1>5, <1>6, <1>7, <1>8, <1>9, <1>10, <1>11, <1>12 DEF Next, Proxied, Step

LEMMA InitRest ==
  ASSUME Init
  PROVE  Follows /\ Cuts /\ Numbered
<1>1. /\ rows = << >> /\ constraints = << >> /\ snapshots = << >> /\ pc = "off"
      /\ cut = {} /\ ~faithful /\ ~replaced
  BY DEF Init
<1>2. DOMAIN rows = {} /\ DOMAIN constraints = {} /\ DOMAIN snapshots = {}
  BY <1>1
<1> QED
  BY <1>1, <1>2 DEF Follows, Cuts, Numbered

-----------------------------------------------------------------------------
(* The whole invariant.                                                    *)

\* Types, rows, crossings, the window and what a death leaves behind.
PInv == IInv /\ Grows /\ Standing /\ Lines /\ Follows /\ Cuts /\ Numbered

LEMMA ProbeInductive == ProbeSpec => []PInv
<1>1. Init => PInv
  <2>1. Init => Grows
    BY DEF Init, Grows
  <2> QED
    BY <2>1, InitInv, InitStanding, InitLines, InitRest DEF PInv
<1>2. PInv /\ [Next]_vars => PInv'
  BY InvNext, GrowsNext, StandingNext, LinesNext, FollowsNext, CutsNext, NumberedNext DEF PInv
<1> QED
  BY <1>1, <1>2, PTL DEF ProbeSpec

\* The snapshot of a row, whichever way it is looked up.
LEMMA SnapOfRow ==
  ASSUME IInv, NEW n \in Nat
  PROVE  SnapshotOf(n) = Snap[n]
  BY DEF Snap

\* A row that passed a percent has a crossing for it with a bracket as wide as the row,
\* unless the probe died between the two writes, and there is no other crossing
\* (crossings.py:153-155), for any number of deaths and resumed invocations.
THEOREM Lockstep == ProbeSpec => []StreamsInLockstep
<1>1. PInv => StreamsInLockstep
  <2> SUFFICES ASSUME PInv PROVE StreamsInLockstep
    OBVIOUS
  <2>0. IInv /\ Standing /\ Lines
    BY DEF PInv
  <2>1. /\ DOMAIN rows = 1 .. Len(rows) /\ DOMAIN constraints = 1 .. Len(constraints)
        /\ Len(rows) \in Nat /\ Len(constraints) \in Nat
    BY <2>0, RowFacts
  <2>2. ASSUME NEW i \in DOMAIN rows
        PROVE  Passed(i) = Snap[i - 1].pct + 1 .. Snap[i].pct
    <3>1. i \in Nat /\ i - 1 \in Nat
      BY <2>1
    <3> QED
      BY <3>1 DEF Passed, Snap
  <2>3. ASSUME NEW c \in 1 .. Len(constraints)
        PROVE  /\ constraints[c].iter \in DOMAIN rows
               /\ constraints[c].k \in Passed(constraints[c].iter)
               /\ constraints[c].after - constraints[c].before = rows[constraints[c].iter].units
               /\ \A d \in 1 .. c - 1 :
                    constraints[c].iter = constraints[d].iter => constraints[c].k # constraints[d].k
    <3>1. LineFits(constraints[c], Snap, rows)
      BY <2>0, <2>1 DEF Lines
    <3>2. PICK i : i = constraints[c].iter
      OBVIOUS
    <3>3. constraints[c].k \in Passed(i) /\ i \in DOMAIN rows
      BY <2>2, <3>1, <3>2 DEF LineFits
    <3>4. ASSUME NEW d \in 1 .. c - 1, constraints[c].iter = constraints[d].iter
          PROVE  constraints[c].k # constraints[d].k
      <4>1. d \in DOMAIN constraints /\ c \in DOMAIN constraints /\ d < c
        BY <2>1
      <4>2. constraints \in Seq(CrossingLines)
        BY <2>0, RowFacts
      <4>3. constraints[c] \in CrossingLines /\ constraints[d] \in CrossingLines
        BY <2>1, <4>1, <4>2, ElementOfSeq
      <4>4. /\ constraints[c].iter \in Nat /\ constraints[d].iter \in Nat
            /\ constraints[c].k \in Nat /\ constraints[d].k \in Nat
        BY <4>3 DEF CrossingLines
      <4>5. \/ constraints[d].iter < constraints[c].iter
            \/ constraints[d].iter = constraints[c].iter /\ constraints[d].k < constraints[c].k
        BY <2>0, <4>1 DEF Lines, InOrder
      <4> QED
        BY <3>4, <4>4, <4>5
    <3>5. constraints[c].k \in Passed(constraints[c].iter)
      BY <3>2, <3>3 DEF Passed, SnapshotOf, Labelled
    <3> QED
      BY <3>1, <3>4, <3>5 DEF LineFits
  <2>4. ASSUME NEW i \in DOMAIN rows \ cut, i < iter \/ pc = "off", NEW k \in Passed(i)
        PROVE  \E c \in DOMAIN constraints : constraints[c].iter = i /\ constraints[c].k = k
    <3>1. pc = "crossing" => i # iter
      BY <2>0, <2>1, <2>4 DEF IInv, Types, MemoryTypes
    <3>2. Covered(i, constraints, Snap)
      BY <2>0, <3>1 DEF Lines
    <3> QED
      BY <2>2, <3>2 DEF Covered
  <2> QED
    BY <2>3, <2>4 DEF StreamsInLockstep
<1> QED
  BY <1>1, ProbeInductive, PTL

-----------------------------------------------------------------------------
(* What a faithful reading says: with q, it lies in its percent.           *)

LEMMA TicksInOrder ==
  ASSUME NEW a \in Int, NEW b \in Int
  PROVE  /\ a * TickUnits \in Int /\ b * TickUnits \in Int
         /\ a <= b => a * TickUnits <= b * TickUnits
         /\ a * TickUnits < b * TickUnits => a < b
         /\ (a + 1) * TickUnits = a * TickUnits + TickUnits
         /\ (b - a) * TickUnits = b * TickUnits - a * TickUnits
<1>1. TickUnits \in Nat \ {0}
  BY ProbeAssumption
<1>2. a * TickUnits \in Int /\ b * TickUnits \in Int
  BY <1>1
<1>3. (a + 1) * TickUnits = a * TickUnits + TickUnits
  BY <1>1
<1>4. (b - a) * TickUnits = b * TickUnits - a * TickUnits
  BY <1>1
<1>5. ASSUME NEW d \in Nat PROVE d * TickUnits >= 0
  BY <1>1
<1>6. a <= b => a * TickUnits <= b * TickUnits
  <2> SUFFICES ASSUME a <= b PROVE a * TickUnits <= b * TickUnits
    OBVIOUS
  <2>1. PICK d \in Nat : d = b - a
    OBVIOUS
  <2>2. d * TickUnits >= 0 /\ d * TickUnits = b * TickUnits - a * TickUnits
    BY <1>4, <1>5, <2>1
  <2> QED
    BY <1>2, <2>2
<1>7. b <= a => b * TickUnits <= a * TickUnits
  <2> SUFFICES ASSUME b <= a PROVE b * TickUnits <= a * TickUnits
    OBVIOUS
  <2>1. PICK d \in Nat : d = a - b
    OBVIOUS
  <2>2. d * TickUnits >= 0 /\ d * TickUnits = a * TickUnits - b * TickUnits
    BY <1>1, <1>5, <2>1
  <2> QED
    BY <1>2, <2>2
<1>8. a * TickUnits < b * TickUnits => a < b
  <2> SUFFICES ASSUME ~(a < b) PROVE ~(a * TickUnits < b * TickUnits)
    OBVIOUS
  <2>1. b <= a
    OBVIOUS
  <2> QED
    BY <1>2, <1>7, <2>1
<1> QED
  BY <1>2, <1>3, <1>4, <1>6, <1>8

\* The charges of the window lie in the percent the reading shows.
Charged(q, s) == s.pct * TickUnits <= q + s.units /\ q + s.units < s.pct * TickUnits + TickUnits

\* Every reading does, and both its numbers grow.
Even(q) ==
  /\ q \in Int
  /\ \A j \in DOMAIN snapshots : Charged(q, snapshots[j])
  /\ \A i, j \in DOMAIN snapshots :
       i <= j => /\ snapshots[i].units <= snapshots[j].units
                 /\ snapshots[i].pct <= snapshots[j].pct

LEMMA FaithfulReads ==
  ASSUME IInv, Grows, Follows, faithful
  PROVE  \E q : Even(q)
<1>1. PICK q : q \in Int /\ \E level \in [0 .. Len(pending) -> Int] : Window(q, level)
  BY DEF Follows, Followed
<1>2. \A j \in DOMAIN snapshots : snapshots[j].pct = (q + snapshots[j].units) \div TickUnits
  BY <1>1 DEF Window
<1>3. \A j \in DOMAIN snapshots : snapshots[j].units \in Nat /\ snapshots[j].pct \in Nat
  <2>1. \A j \in DOMAIN snapshots : snapshots[j] \in Snapshots
    BY DEF IInv, Types, DiskTypes
  <2> QED
    BY <2>1 DEF Snapshots
<1>4. ASSUME NEW j \in DOMAIN snapshots PROVE Charged(q, snapshots[j])
  <2>1. PICK u, p : u = q + snapshots[j].units /\ p = snapshots[j].pct
    OBVIOUS
  <2>2. u \in Int /\ p = u \div TickUnits /\ TickUnits \in Nat \ {0}
    BY <1>1, <1>2, <1>3, <2>1, ProbeAssumption
  <2>3. p * TickUnits <= u /\ u < p * TickUnits + TickUnits
    BY <2>2
  <2> QED
    BY <2>1, <2>3 DEF Charged
<1>5. ~replaced
  BY DEF Follows
<1>6. ASSUME NEW i \in DOMAIN snapshots, NEW j \in DOMAIN snapshots, i <= j
      PROVE  /\ snapshots[i].units <= snapshots[j].units
             /\ snapshots[i].pct <= snapshots[j].pct
  <2>1. snapshots[i].units <= snapshots[j].units
    BY <1>5, <1>6 DEF Grows
  <2>2. PICK a, b : a = snapshots[i].pct /\ b = snapshots[j].pct
    OBVIOUS
  <2>3. a \in Int /\ b \in Int /\ b + 1 \in Int
    BY <1>3, <2>2
  <2>4. a * TickUnits <= q + snapshots[i].units /\ q + snapshots[j].units < b * TickUnits + TickUnits
    BY <1>4, <2>2 DEF Charged
  <2>5. a * TickUnits \in Int /\ b * TickUnits \in Int /\ (b + 1) * TickUnits = b * TickUnits + TickUnits
    BY <2>3, TicksInOrder
  <2>6. a * TickUnits < (b + 1) * TickUnits
    BY <1>1, <1>3, <2>1, <2>4, <2>5, ProbeAssumption
  <2>7. a < b + 1
    BY <2>3, <2>6, TicksInOrder
  <2> QED
    BY <2>1, <2>2, <2>3, <2>7
<1> QED
  BY <1>1, <1>4, <1>6 DEF Even

\* Where a percent was passed, the units were on either side of it.
LEMMA Between ==
  ASSUME NEW q \in Int, NEW r, NEW s, r.pct \in Nat, s.pct \in Nat, r.units \in Nat, s.units \in Nat,
         Charged(q, r), Charged(q, s), NEW k \in Int, r.pct < k, k <= s.pct
  PROVE  q + r.units < k * TickUnits /\ k * TickUnits <= q + s.units
<1>1. PICK a, b : a = r.pct /\ b = s.pct
  OBVIOUS
<1>2. a \in Int /\ b \in Int /\ a + 1 \in Int /\ a + 1 <= k /\ k <= b
  BY <1>1
<1>3. /\ (a + 1) * TickUnits <= k * TickUnits /\ k * TickUnits <= b * TickUnits
      /\ (a + 1) * TickUnits = a * TickUnits + TickUnits
      /\ k * TickUnits \in Int /\ a * TickUnits \in Int /\ b * TickUnits \in Int
  BY <1>2, TicksInOrder
<1>4. b * TickUnits <= q + s.units /\ q + r.units < a * TickUnits + TickUnits
  BY <1>1 DEF Charged
<1> QED
  BY <1>3, <1>4, ProbeAssumption

\* The percent of a crossing lies between its sums, from z on.
Through(z, l) == z + l.before < l.k * TickUnits /\ l.k * TickUnits <= z + l.after

LEMMA PairAdmits ==
  ASSUME NEW z \in Int, NEW a \in CrossingLines, NEW b \in CrossingLines,
         Through(z, a), Through(z, b)
  PROVE  Admits(Interval(a, b), TickUnits)
<1>1. /\ a.k \in Int /\ b.k \in Int /\ a.before \in Int /\ b.before \in Int
      /\ a.after \in Int /\ b.after \in Int
  BY DEF CrossingLines
<1>2. PICK m, n : m = a.k /\ n = b.k
  OBVIOUS
<1>3. /\ (n - m) * TickUnits = n * TickUnits - m * TickUnits
      /\ m * TickUnits \in Int /\ n * TickUnits \in Int
  BY <1>1, <1>2, TicksInOrder
<1>4. /\ z + a.before < m * TickUnits /\ m * TickUnits <= z + a.after
      /\ z + b.before < n * TickUnits /\ n * TickUnits <= z + b.after
  BY <1>2 DEF Through
<1>5. /\ b.before - a.after <= (n - m) * TickUnits
      /\ (n - m) * TickUnits <= b.after - a.before
  BY <1>1, <1>3, <1>4
<1> QED
  BY <1>2, <1>5 DEF Admits, Interval

\* Crossings around which the same z can be laid.
Common(z, crossings) ==
  /\ z \in Int
  /\ \A c \in DOMAIN crossings : crossings[c] \in CrossingLines /\ Through(z, crossings[c])

LEMMA IntervalsAdmit ==
  ASSUME NEW z, NEW crossings, Common(z, crossings), NEW p \in Intervals(crossings)
  PROVE  Admits(p, TickUnits) /\ p.dk \in Nat \ {0} /\ p.lo \in Int /\ p.hi \in Int
<1>1. PICK x \in Pairs(crossings) : p = Interval(crossings[x[1]], crossings[x[2]])
  BY DEF Intervals
<1>2. PICK a, b : a = crossings[x[1]] /\ b = crossings[x[2]]
  OBVIOUS
<1>3. /\ a \in CrossingLines /\ b \in CrossingLines /\ z \in Int /\ b.k > a.k
      /\ Through(z, a) /\ Through(z, b)
  BY <1>1, <1>2 DEF Common, Pairs, Paired
<1>4. Admits(Interval(a, b), TickUnits)
  BY <1>3, PairAdmits
<1>5. p.dk = b.k - a.k /\ p.lo = b.before - a.after /\ p.hi = b.after - a.before
  BY <1>1, <1>2 DEF Interval
<1> QED
  BY <1>1, <1>2, <1>3, <1>4, <1>5 DEF CrossingLines

LEMMA EstimateHasTick ==
  ASSUME NEW z, NEW crossings, Common(z, crossings)
  PROVE  TickUnits \in EstimateC(crossings, {TickUnits})
BY IntervalsAdmit DEF EstimateC

\* Two intervals that admit a cost do not exclude one another.
LEMMA Overlap ==
  ASSUME NEW p, NEW q, NEW t \in Nat, Admits(p, t), Admits(q, t), p.dk \in Nat \ {0}, q.dk \in Nat \ {0},
         p.lo \in Int, p.hi \in Int, q.lo \in Int, q.hi \in Int
  PROVE  ~(p.lo * q.dk > q.hi * p.dk)
<1>1. PICK m, n, lo, hi : m = p.dk /\ n = q.dk /\ lo = p.lo /\ hi = q.hi
  OBVIOUS
<1>2. m \in Nat \ {0} /\ n \in Nat \ {0} /\ lo \in Int /\ hi \in Int
      /\ lo <= m * t /\ n * t <= hi
  BY <1>1 DEF Admits
<1>3. lo * n <= (m * t) * n
  <2>1. PICK d \in Nat : d = m * t - lo
    BY <1>2
  <2>2. d * n >= 0
    BY <1>2
  <2>3. d * n = (m * t) * n - lo * n
    BY <1>2, <2>1
  <2> QED
    BY <1>2, <2>2, <2>3
<1>4. (n * t) * m <= hi * m
  <2>1. PICK d \in Nat : d = hi - n * t
    BY <1>2
  <2>2. d * m >= 0
    BY <1>2
  <2>3. d * m = hi * m - (n * t) * m
    BY <1>2, <2>1
  <2> QED
    BY <1>2, <2>2, <2>3
<1>5. (m * t) * n = (n * t) * m
  BY <1>2
<1>6. lo * n <= hi * m
  BY <1>2, <1>3, <1>4, <1>5
<1> QED
  BY <1>1, <1>2, <1>6

\* Crossings that admit the cost contradict neither one another nor a right prior.
LEMMA RightPriorAgrees ==
  ASSUME NEW crossings, \A c \in DOMAIN crossings : crossings[c] \in CrossingLines,
         TickUnits \in EstimateC(crossings, {TickUnits}), TickUnits \in PriorLow .. PriorHigh
  PROVE  ~Contradictory(crossings)
<1>1. /\ PriorLow \in Nat /\ PriorHigh \in Nat /\ TickUnits \in Nat
      /\ PriorLow <= TickUnits /\ TickUnits <= PriorHigh
  BY ProbeAssumption
<1>2. Prior.lo = PriorLow /\ Prior.hi = PriorHigh /\ Prior.dk = 1 /\ 1 * TickUnits = TickUnits
  BY <1>1 DEF Prior
<1>3. Admits(Prior, TickUnits) /\ Prior.dk \in Nat \ {0} /\ Prior.lo \in Int /\ Prior.hi \in Int
  BY <1>1, <1>2 DEF Admits
<1>4. ASSUME NEW p \in Intervals(crossings)
      PROVE  Admits(p, TickUnits) /\ p.dk \in Nat \ {0} /\ p.lo \in Int /\ p.hi \in Int
  <2>1. Admits(p, TickUnits)
    BY DEF EstimateC
  <2>2. PICK x \in Pairs(crossings) : p = Interval(crossings[x[1]], crossings[x[2]])
    BY DEF Intervals
  <2>3. PICK a, b : a = crossings[x[1]] /\ b = crossings[x[2]]
    OBVIOUS
  <2>4. a \in CrossingLines /\ b \in CrossingLines /\ b.k > a.k
    BY <2>2, <2>3 DEF Pairs, Paired
  <2>5. p.dk = b.k - a.k /\ p.lo = b.before - a.after /\ p.hi = b.after - a.before
    BY <2>2, <2>3 DEF Interval
  <2> QED
    BY <2>1, <2>4, <2>5 DEF CrossingLines
<1>5. \A p \in Intervals(crossings) \cup {Prior} :
        Admits(p, TickUnits) /\ p.dk \in Nat \ {0} /\ p.lo \in Int /\ p.hi \in Int
  BY <1>3, <1>4
<1>6. \A p, q \in Intervals(crossings) \cup {Prior} : ~(p.lo * q.dk > q.hi * p.dk)
  BY <1>1, <1>5, Overlap
<1> QED
  BY <1>6 DEF Contradictory, Disjoint

LEMMA NoContradiction ==
  ASSUME NEW z, NEW crossings, Common(z, crossings), TickUnits \in PriorLow .. PriorHigh
  PROVE  ~Contradictory(crossings)
BY EstimateHasTick, RightPriorAgrees DEF Common

-----------------------------------------------------------------------------
(* The crossings of one invocation.                                        *)

\* The snapshots of two rows that follow each other.
LEMMA RowCharged ==
  ASSUME IInv, NEW q, Even(q), manifest # NoManifest, NEW n \in 0 .. Len(rows)
  PROVE  Charged(q, Snap[n]) /\ Snap[n].pct \in Nat /\ Snap[n].units \in Nat
<1>1. n \in Held /\ Snap[n] \in Snapshots
  BY RowFacts
<1>2. PICK j \in DOMAIN snapshots : Snap[n] = snapshots[j]
  BY <1>1, HeldIsLookedUp DEF IInv, Types, DiskTypes
<1> QED
  BY <1>1, <1>2 DEF Even, Snapshots

LEMMA LinePasses ==
  ASSUME IInv, Standing, Lines, NEW q, Even(q), manifest # NoManifest, pc \in Handled,
         NEW c \in DOMAIN constraints, c > since.constraints
  PROVE  /\ constraints[c] \in CrossingLines /\ since.rows \in 0 .. Len(rows)
         /\ Through(q + Snap[since.rows].units, constraints[c])
<1>1. PICK l : l = constraints[c]
  OBVIOUS
<1>2. l \in CrossingLines
  <2>1. constraints \in Seq(CrossingLines)
    BY RowFacts
  <2> QED
    BY <1>1, <2>1, ElementOfSeq, RowFacts
<1>3. LineFits(l, Snap, rows) /\ SumBefore(l, Snap, since.rows)
  BY <1>1 DEF Lines
<1>4. PICK i : i = l.iter
  OBVIOUS
<1>5. i \in 1 .. Len(rows) /\ Len(rows) \in Nat /\ since.rows \in 0 .. Len(rows)
  <2>1. since.rows \in Nat /\ since.rows <= Len(rows)
    BY DEF Standing, IInv, Types, MemoryTypes
  <2> QED
    BY <1>3, <1>4, <2>1, RowFacts DEF LineFits
<1>6. /\ l.k \in Snap[i - 1].pct + 1 .. Snap[i].pct
      /\ l.after - l.before = rows[i].units
      /\ l.before = Snap[i - 1].units - Snap[since.rows].units
  BY <1>3, <1>4 DEF LineFits, SumBefore
<1>7. rows[i].units = Snap[i].units - Snap[i - 1].units
  BY <1>5, RowFacts DEF IInv, Recorded
<1>8. i \in 0 .. Len(rows) /\ i - 1 \in 0 .. Len(rows)
  BY <1>5
<1>9. PICK r, s, start : r = Snap[i - 1] /\ s = Snap[i] /\ start = Snap[since.rows].units
  OBVIOUS
<1>10. /\ Charged(q, r) /\ r.pct \in Nat /\ r.units \in Nat
       /\ Charged(q, s) /\ s.pct \in Nat /\ s.units \in Nat /\ start \in Nat
  BY <1>5, <1>8, <1>9, RowCharged
<1>11. l.k \in Int /\ l.before \in Int /\ l.after \in Int /\ q \in Int
  BY <1>2 DEF CrossingLines, Even
<1>12. r.pct < l.k /\ l.k <= s.pct
  BY <1>6, <1>9, <1>10
<1>13. PICK k \in Int : k = l.k
  BY <1>11
<1>14. q + r.units < k * TickUnits /\ k * TickUnits <= q + s.units
  BY <1>10, <1>11, <1>12, <1>13, Between
<1>15. (q + start) + l.before = q + r.units /\ (q + start) + l.after = q + s.units
  <2>1. l.before = r.units - start /\ l.after - l.before = s.units - r.units
    BY <1>6, <1>7, <1>9
  <2>2. PICK x, y : x = l.before /\ y = l.after
    OBVIOUS
  <2>3. x = r.units - start /\ y - x = s.units - r.units /\ x \in Int /\ y \in Int
    BY <1>11, <2>1, <2>2
  <2>4. (q + start) + x = q + r.units /\ (q + start) + y = q + s.units
    BY <1>10, <1>11, <2>3
  <2> QED
    BY <2>2, <2>4
<1>16. Through(q + start, l)
  BY <1>13, <1>14, <1>15 DEF Through
<1> QED
  BY <1>1, <1>2, <1>5, <1>9, <1>16

\* An invocation that was not resumed has all the crossings; any has those it added.
LEMMA OwnCrossings ==
  ASSUME PInv, faithful, pc # "off"
  PROVE  /\ \E z : Common(z, SubSeq(constraints, since.constraints + 1, Len(constraints)))
         /\ resumes = 0 /\ manifest # NoManifest => \E z : Common(z, constraints)
<1>0. IInv /\ Grows /\ Standing /\ Lines /\ Follows
  BY DEF PInv
<1>1. PICK q : Even(q)
  BY <1>0, FaithfulReads
<1>2. /\ constraints \in Seq(CrossingLines) /\ Len(constraints) \in Nat
      /\ DOMAIN constraints = 1 .. Len(constraints)
      /\ since.constraints \in Nat
  BY <1>0, RowFacts DEF IInv, Types, MemoryTypes
<1>3. CASE constraints = << >>
  <2>1. DOMAIN constraints = {} /\ Len(constraints) = 0
    BY <1>3
  <2>2. SubSeq(constraints, since.constraints + 1, Len(constraints)) = << >>
    <3>1. since.constraints + 1 \in Int /\ 0 < since.constraints + 1 /\ 0 \in Int
      BY <1>2
    <3> QED
      BY <2>1, <3>1, SubSeqEmpty
  <2>3. Common(0, << >>)
    BY DEF Common
  <2> QED
    BY <1>3, <2>2, <2>3
<1>4. CASE constraints # << >>
  <2>1. manifest # NoManifest /\ pc \in Handled
    BY <1>0, <1>4 DEF Standing, IInv, Types, Placed
  <2>2. PICK z : z = q + Snap[since.rows].units
    OBVIOUS
  <2>3. \A c \in DOMAIN constraints :
          c > since.constraints => constraints[c] \in CrossingLines /\ Through(z, constraints[c])
    BY <1>0, <1>1, <2>1, <2>2, LinePasses
  <2>4. z \in Int
    <3>1. since.rows \in 0 .. Len(rows)
      BY <1>0, <2>1, RowFacts DEF Standing, IInv, Types, MemoryTypes
    <3>2. Snap[since.rows].units \in Nat
      BY <1>0, <1>1, <2>1, <3>1, RowCharged
    <3> QED
      BY <1>1, <2>2, <3>2 DEF Even
  <2>5. PICK n \in Nat : n = since.constraints
    BY <1>2
  <2>6. n <= Len(constraints)
    BY <1>0, <2>1, <2>5 DEF Standing
  <2>7. PICK own : own = SubSeq(constraints, n + 1, Len(constraints))
    OBVIOUS
  <2>8. DOMAIN own = 1 .. Len(constraints) - n /\ \A c \in DOMAIN own : own[c] = constraints[n + c]
    <3>1. \A i \in n + 1 .. Len(constraints) : constraints[i] \in CrossingLines
      <4>1. \A i \in n + 1 .. Len(constraints) : i \in DOMAIN constraints
        BY <1>2
      <4> QED
        BY <1>2, <4>1, ElementOfSeq
    <3>2. PICK m, k : m = n + 1 /\ k = Len(constraints)
      OBVIOUS
    <3>3. /\ own \in Seq(CrossingLines)
          /\ Len(own) = IF m <= k THEN k - m + 1 ELSE 0
          /\ \A i \in 1 .. k - m + 1 : own[i] = constraints[m + i - 1]
      <4>1. m \in Int /\ k \in Int
        BY <1>2, <2>5, <3>2
      <4> QED
        BY <2>7, <3>1, <3>2, <4>1, SubSeqProperties
    <3>4. Len(own) = Len(constraints) - n /\ k - m + 1 = Len(constraints) - n
      <4>1. k - m + 1 = Len(constraints) - n
        BY <1>2, <2>5, <3>2
      <4>2. m <= k + 1 /\ m \in Nat /\ k \in Nat
        BY <1>2, <2>5, <2>6, <3>2
      <4>3. Len(own) = k - m + 1
        BY <3>3, <4>2
      <4> QED
        BY <4>1, <4>3
    <3>5. \A i \in 1 .. Len(constraints) - n : m + i - 1 = n + i
      BY <1>2, <2>5, <3>2
    <3>6. DOMAIN own = 1 .. Len(own)
      BY <3>3, LenProperties
    <3> QED
      BY <3>3, <3>4, <3>5, <3>6
  <2>9. \A c \in DOMAIN own : n + c \in DOMAIN constraints /\ n + c > n
    BY <1>2, <2>8
  <2>10. Common(z, own)
    BY <2>3, <2>4, <2>5, <2>8, <2>9 DEF Common
  <2>11. resumes = 0 => Common(z, constraints)
    <3> SUFFICES ASSUME resumes = 0 PROVE Common(z, constraints)
      OBVIOUS
    <3>1. since.constraints = 0
      BY <1>0 DEF Standing, NothingYet
    <3>2. \A c \in DOMAIN constraints : c > since.constraints
      BY <1>2, <3>1
    <3> QED
      BY <2>3, <2>4, <3>2 DEF Common
  <2> QED
    BY <2>5, <2>7, <2>10, <2>11
<1> QED
  BY <1>3, <1>4

-----------------------------------------------------------------------------
(* Small steps.                                                            *)

\* The first place where a function has reached k.
LEMMA FirstPast ==
  ASSUME NEW n \in Nat, NEW f, \A i \in 0 .. n : f[i] \in Nat, NEW k \in Nat, f[0] < k, k <= f[n]
  PROVE  \E i \in 1 .. n : /\ f[i - 1] < k /\ k <= f[i]
                           /\ \A j \in 0 .. n : k <= f[j] => i <= j
<1> DEFINE past == {i \in 0 .. n : k <= f[i]}
<1>1. past \subseteq Nat /\ n \in past
  OBVIOUS
<1>2. PICK i \in past : \A j \in past : i <= j
  <2> HIDE DEF past
  <2> QED BY <1>1, LeastNatural
<1>3. i \in 0 .. n /\ k <= f[i] /\ i # 0
  BY <1>2
<1>4. i \in 1 .. n /\ i - 1 \in 0 .. n /\ ~(i <= i - 1)
  BY <1>3
<1>5. ~(k <= f[i - 1])
  BY <1>2, <1>4
<1>6. f[i - 1] < k
  BY <1>4, <1>5
<1> QED
  BY <1>2, <1>3, <1>4, <1>6

LEMMA SnapshotFacts ==
  ASSUME IInv
  PROVE  /\ Len(snapshots) \in Nat /\ DOMAIN snapshots = 1 .. Len(snapshots)
         /\ snapshots \in Seq(Snapshots)
         /\ \A j \in 1 .. Len(snapshots) : snapshots[j].pct \in Nat /\ snapshots[j].units \in Nat
<1>1. snapshots \in Seq(Snapshots)
  BY DEF IInv, Types, DiskTypes
<1>2. Len(snapshots) \in Nat /\ DOMAIN snapshots = 1 .. Len(snapshots)
  BY <1>1, LenProperties
<1>3. \A j \in 1 .. Len(snapshots) : snapshots[j] \in Snapshots
  BY <1>1, <1>2, ElementOfSeq
<1> QED
  BY <1>1, <1>2, <1>3 DEF Snapshots

\* The highest percent so far is the last one.
LEMMA HighestIsLast ==
  ASSUME IInv, NEW q, Even(q), NEW i \in 1 .. Len(snapshots)
  PROVE  Highest(snapshots, i) = snapshots[i].pct
<1> DEFINE seen == {snapshots[j].pct : j \in 1 .. i}
<1>1. i \in 1 .. i /\ \A j \in 1 .. i : j \in 1 .. Len(snapshots) /\ j <= i
  BY SnapshotFacts
<1>2. snapshots[i].pct \in seen /\ \A p \in seen : p \in Nat /\ p <= snapshots[i].pct
  BY <1>1, SnapshotFacts DEF Even
<1>3. snapshots[i].pct \in Nat
  BY SnapshotFacts
<1> HIDE DEF seen
<1>4. \A p \in seen : (\A r \in seen : p >= r) => p = snapshots[i].pct
  BY <1>2, <1>3
<1>5. \A r \in seen : snapshots[i].pct >= r
  BY <1>2, <1>3
<1>6. (CHOOSE p \in seen : \A r \in seen : p >= r) = snapshots[i].pct
  BY <1>2, <1>4, <1>5
<1> QED
  BY <1>6 DEF Highest, Max, seen

\* The boundary of percent k, when snapshot i passed it.
Bounds(i, k) ==
  [bucket |-> k, pre |-> snapshots[i - 1].units, post |-> snapshots[i].units,
   coarse |-> snapshots[i].pct - snapshots[i - 1].pct > 1]

Passes(i) == snapshots[i - 1].pct + 1 .. snapshots[i].pct

LEMMA BoundariesAre ==
  ASSUME IInv, NEW q, Even(q)
  PROVE  DetectBoundaries(snapshots)
           = UNION {{Bounds(i, k) : k \in Passes(i)} : i \in 2 .. Len(snapshots)}
<1>1. ASSUME NEW i \in 2 .. Len(snapshots)
      PROVE  {Boundary(snapshots, i, k) : k \in Highest(snapshots, i - 1) + 1 .. snapshots[i].pct}
               = {Bounds(i, k) : k \in Passes(i)}
  <2>1. i - 1 \in 1 .. Len(snapshots)
    BY SnapshotFacts
  <2>2. Highest(snapshots, i - 1) = snapshots[i - 1].pct
    BY <2>1, HighestIsLast
  <2>3. ASSUME NEW k
        PROVE  Boundary(snapshots, i, k) = Bounds(i, k)
    BY <2>2 DEF Boundary, Bounds
  <2> QED
    BY <2>2, <2>3 DEF Passes
<1> DEFINE there(i) == {Boundary(snapshots, i, k) :
                          k \in Highest(snapshots, i - 1) + 1 .. snapshots[i].pct}
           here(i) == {Bounds(i, k) : k \in Passes(i)}
<1>2. DetectBoundaries(snapshots) = UNION {there(i) : i \in 2 .. Len(snapshots)}
  BY DEF DetectBoundaries
<1>3. \A i \in 2 .. Len(snapshots) : there(i) = here(i)
  BY <1>1
<1> HIDE DEF there, here
<1>4. UNION {there(i) : i \in 2 .. Len(snapshots)} = UNION {here(i) : i \in 2 .. Len(snapshots)}
  BY <1>3
<1> QED
  BY <1>2, <1>4 DEF here

LEMMA SmallRises ==
  ASSUME IInv, NEW q, Even(q), SmallSteps, NEW i \in 2 .. Len(snapshots)
  PROVE  snapshots[i].pct <= snapshots[i - 1].pct + 1
<1>1. i - 1 \in 1 .. Len(snapshots) /\ i \in 1 .. Len(snapshots)
  BY SnapshotFacts
<1>2. PICK a, b : a = snapshots[i - 1].pct /\ b = snapshots[i].pct
  OBVIOUS
<1>3. a \in Nat /\ b \in Nat
  BY <1>1, <1>2, SnapshotFacts
<1> SUFFICES ASSUME b > a + 1 PROVE FALSE
  BY <1>2, <1>3
<1>4. a + 1 \in Passes(i) /\ b - a > 1
  BY <1>2, <1>3 DEF Passes
<1>5. Bounds(i, a + 1) \in DetectBoundaries(snapshots)
  BY <1>4, BoundariesAre
<1>6. Bounds(i, a + 1).coarse = (b - a > 1)
  BY <1>2 DEF Bounds
<1> QED
  BY <1>4, <1>5, <1>6 DEF SmallSteps

\* In a run that was not resumed the snapshots stand in the order of the rows.
LEMMA SnapshotsByRow ==
  ASSUME PInv, resumes = 0, manifest # NoManifest, NEW n \in 0 .. Len(rows)
  PROVE  n + 1 \in 1 .. Len(snapshots) /\ Snap[n] = snapshots[n + 1]
<1>1. IInv /\ Numbered
  BY DEF PInv
<1>2. n \in Held
  BY <1>1, RowFacts
<1>3. PICK j \in DOMAIN snapshots : IsLatest(j, n) /\ Snap[n] = snapshots[j]
  BY <1>1, <1>2, SnapshotFacts, HeldIsLookedUp
<1>4. snapshots[j].label = j - 1 /\ snapshots[j].label = n
  BY <1>1, <1>3 DEF Numbered, IsLatest
<1>5. j = n + 1
  BY <1>1, <1>3, <1>4, SnapshotFacts
<1> QED
  BY <1>1, <1>3, <1>5, SnapshotFacts

\* After two ticks there are two crossings, of calls that passed one percent each.
LEMMA TwoTicksMakeAPair ==
  ASSUME PInv, faithful, pc # "off", resumes = 0, manifest # NoManifest, SmallSteps,
         TicksSeen(current) >= 2
  PROVE  Pairs(constraints) # {}
<1>0. IInv /\ Grows /\ Standing /\ Lines /\ Follows
  BY DEF PInv
<1>1. PICK q : Even(q)
  BY <1>0, FaithfulReads
<1>2. pc \in Handled
  BY <1>0 DEF IInv, Types, Placed
<1>3. Len(rows) \in Nat /\ DOMAIN rows = 1 .. Len(rows)
  BY <1>0, RowFacts
<1>4. PICK m \in 0 .. Len(rows) : current = Snap[m] /\ (pc = "crossing" => m < iter)
  <2>1. CASE pc = "crossing"
    <3>1. iter = Len(rows) /\ current = Snap[Len(rows) - 1] /\ iter \in DOMAIN rows
      BY <1>0, <2>1 DEF IInv, Placed, Standing
    <3>2. Len(rows) - 1 \in 0 .. Len(rows) /\ Len(rows) - 1 < iter
      BY <1>3, <3>1
    <3> QED
      BY <3>1, <3>2
  <2>2. CASE pc # "crossing"
    <3>1. current = Snap[Len(rows)] /\ Len(rows) \in 0 .. Len(rows)
      BY <1>0, <1>2, <1>3, <2>2 DEF Standing, Loop
    <3> QED
      BY <2>2, <3>1
  <2> QED
    BY <2>1, <2>2
<1>5. PICK f : f = [i \in 0 .. m |-> Snap[i].pct]
  OBVIOUS
<1>6. /\ m \in Nat /\ \A i \in 0 .. m : i \in 0 .. Len(rows) /\ f[i] = Snap[i].pct
      /\ 0 \in 0 .. m /\ m \in 0 .. m
  BY <1>3, <1>4, <1>5
<1>7. \A i \in 0 .. m : f[i] \in Nat
  BY <1>0, <1>1, <1>6, RowCharged
<1>8. f[m] >= f[0] + 2
  <2>1. manifest.pct = Snap[0].pct
    BY <1>0 DEF Standing
  <2>2. f[0] = manifest.pct /\ f[m] = current.pct
    BY <1>4, <1>6, <2>1
  <2> QED
    BY <1>6, <1>7, <2>2 DEF TicksSeen
<1>9. ASSUME NEW i \in 1 .. m
      PROVE  Snap[i].pct <= Snap[i - 1].pct + 1
  <2>1. i \in 0 .. Len(rows) /\ i - 1 \in 0 .. Len(rows) /\ i + 1 >= 2 /\ i \in Nat
    BY <1>3, <1>4
  <2>2. Snap[i] = snapshots[i + 1] /\ Snap[i - 1] = snapshots[(i - 1) + 1] /\ i + 1 \in 1 .. Len(snapshots)
    BY <2>1, SnapshotsByRow
  <2>3. i + 1 \in 2 .. Len(snapshots) /\ (i + 1) - 1 = i /\ (i - 1) + 1 = i
    BY <1>0, <2>1, <2>2, SnapshotFacts
  <2> QED
    BY <1>0, <1>1, <2>2, <2>3, SmallRises
<1>10. ASSUME NEW k \in Nat, f[0] < k, k <= f[m]
       PROVE  \E c \in DOMAIN constraints :
                /\ constraints[c].k = k /\ constraints[c].group = 0
                /\ \A j \in 0 .. m : k <= f[j] => constraints[c].iter <= j
                /\ constraints[c].iter \in 0 .. m /\ k <= f[constraints[c].iter]
  <2>1. PICK i \in 1 .. m : /\ f[i - 1] < k /\ k <= f[i]
                            /\ \A j \in 0 .. m : k <= f[j] => i <= j
    BY <1>6, <1>7, <1>10, FirstPast
  <2>2. i - 1 \in 0 .. m /\ i \in 0 .. m /\ i \in DOMAIN rows
    BY <1>3, <1>4
  <2>3. f[i - 1] = Snap[i - 1].pct /\ f[i] = Snap[i].pct
    BY <1>6, <2>2
  <2>4. k \in Snap[i - 1].pct + 1 .. Snap[i].pct
    <3>1. f[i - 1] \in Nat /\ f[i] \in Nat
      BY <1>7, <2>2
    <3> QED
      BY <2>1, <2>3, <3>1
  <2>5. cut = {} /\ (pc = "crossing" => i # iter)
    <3>1. cut = {}
      BY <1>0 DEF Standing
    <3>2. pc = "crossing" => i # iter
      BY <1>3, <1>4 DEF IInv, Types, MemoryTypes
    <3> QED
      BY <3>1, <3>2
  <2>6. Covered(i, constraints, Snap)
    BY <1>0, <2>2, <2>5 DEF Lines
  <2>7. PICK c \in DOMAIN constraints : constraints[c].iter = i /\ constraints[c].k = k
    BY <2>4, <2>6 DEF Covered
  <2>8. constraints[c].group = IF Snap[i].pct - Snap[i - 1].pct > 1 THEN i ELSE 0
    BY <1>0, <2>7 DEF Lines, LineFits
  <2>9. ~(Snap[i].pct - Snap[i - 1].pct > 1)
    <3>1. f[i - 1] \in Nat /\ f[i] \in Nat
      BY <1>7, <2>2
    <3> QED
      <4>1. Snap[i].pct \in Nat /\ Snap[i - 1].pct \in Nat
        BY <2>3, <3>1
      <4>2. Snap[i].pct <= Snap[i - 1].pct + 1
        BY <1>9
      <4> QED
        BY <4>1, <4>2
  <2> QED
    BY <2>1, <2>2, <2>7, <2>8, <2>9
<1>11. f[0] \in Nat /\ f[m] \in Nat
  BY <1>6, <1>7
<1>12. PICK c \in DOMAIN constraints :
         /\ constraints[c].k = f[0] + 1 /\ constraints[c].group = 0
         /\ \A j \in 0 .. m : f[0] + 1 <= f[j] => constraints[c].iter <= j
  <2>1. f[0] + 1 \in Nat /\ f[0] < f[0] + 1 /\ f[0] + 1 <= f[m]
    BY <1>8, <1>11
  <2> QED
    BY <1>10, <2>1
<1>13. PICK d \in DOMAIN constraints :
         /\ constraints[d].k = f[0] + 2 /\ constraints[d].group = 0
         /\ constraints[d].iter \in 0 .. m /\ f[0] + 2 <= f[constraints[d].iter]
  <2>1. f[0] + 2 \in Nat /\ f[0] < f[0] + 2 /\ f[0] + 2 <= f[m]
    BY <1>8, <1>11
  <2> QED
    BY <1>10, <2>1
<1>14. constraints[c].iter <= constraints[d].iter
  <2>1. f[constraints[d].iter] \in Nat
    BY <1>7, <1>13
  <2> QED
    BY <1>11, <1>12, <1>13, <2>1
<1>15. DOMAIN constraints = 1 .. Len(constraints) /\ Len(constraints) \in Nat
  BY <1>0, RowFacts
<1>16. c < d
  <2>1. constraints[c].iter \in Nat /\ constraints[d].iter \in Nat
    <3>1. \A e \in DOMAIN constraints : constraints[e].iter \in DOMAIN rows
      BY <1>0 DEF Lines, LineFits
    <3> QED
      BY <1>3, <3>1
  <2>2. ~(d < c)
    BY <1>0, <1>11, <1>12, <1>13, <1>14, <2>1 DEF Lines, InOrder
  <2>3. c # d
    BY <1>11, <1>12, <1>13
  <2> QED
    BY <1>15, <2>2, <2>3
<1>17. Paired(constraints[c], constraints[d])
  BY <1>11, <1>12, <1>13 DEF Paired
<1>18. <<c, d>> \in Pairs(constraints)
  BY <1>16, <1>17 DEF Pairs
<1> QED
  BY <1>18

\* The crossings an invocation records admit the true cost of a tick, for every cost, every
\* sequence of calls and every number of earlier invocations; and the footer of a run that
\* was not resumed reports no contradiction, and no estimate that is only the prior
\* (probe.py:926-929).
THEOREM LiveEstimateIsSound == ProbeSpec => []LiveSound
<1>1. PInv => LiveSound
  <2> SUFFICES ASSUME PInv, faithful, pc # "off"
               PROVE  /\ TickUnits \in
                           EstimateC(SubSeq(constraints, since.constraints + 1, Len(constraints)), {TickUnits})
                      /\ resumes = 0 /\ manifest # NoManifest =>
                           LET footer == RunningEstimate(TicksSeen(current), constraints)
                           IN /\ TickUnits \in PriorLow .. PriorHigh => footer # "disjoint"
                              /\ footer = "estimate" /\ SmallSteps => Pairs(constraints) # {}
    BY DEF LiveSound
  <2>1. TickUnits \in
          EstimateC(SubSeq(constraints, since.constraints + 1, Len(constraints)), {TickUnits})
    BY OwnCrossings, EstimateHasTick
  <2>2. ASSUME resumes = 0, manifest # NoManifest, TickUnits \in PriorLow .. PriorHigh
        PROVE  RunningEstimate(TicksSeen(current), constraints) # "disjoint"
    <3>1. ~Contradictory(constraints)
      BY <2>2, OwnCrossings, NoContradiction
    <3> QED
      BY <3>1 DEF RunningEstimate
  <2>3. ASSUME resumes = 0, manifest # NoManifest, SmallSteps,
               RunningEstimate(TicksSeen(current), constraints) = "estimate"
        PROVE  Pairs(constraints) # {}
    <3>1. ~(TicksSeen(current) < 2)
      <4>1. CASE Contradictory(constraints)
        BY <2>3, <4>1 DEF RunningEstimate
      <4>2. CASE ~Contradictory(constraints)
        BY <2>3, <4>2 DEF RunningEstimate
      <4> QED
        BY <4>1, <4>2
    <3>2. TicksSeen(current) \in Int
      <4>1. current.pct \in Nat /\ manifest.pct \in Nat
        BY <2>3 DEF PInv, IInv, Types, MemoryTypes, DiskTypes, Snapshots
      <4> QED
        BY <4>1 DEF TicksSeen
    <3> QED
      BY <2>3, <3>1, <3>2, TwoTicksMakeAPair
  <2> QED
    BY <2>1, <2>2, <2>3
<1> QED
  BY <1>1, ProbeInductive, PTL

-----------------------------------------------------------------------------
(* The boundaries and the ticks of the report.                             *)

\* What a boundary says: the snapshot that passed it is the only one.
LEMMA BoundaryFacts ==
  ASSUME IInv, NEW q, Even(q), NEW b \in DetectBoundaries(snapshots)
  PROVE  \E i \in 2 .. Len(snapshots) :
           /\ b = Bounds(i, b.bucket) /\ b.bucket \in Nat
           /\ snapshots[i - 1].pct < b.bucket /\ b.bucket <= snapshots[i].pct
           /\ i - 1 \in 1 .. Len(snapshots) /\ i \in 1 .. Len(snapshots) /\ i - 1 < i /\ i \in Nat
           /\ b.pre = snapshots[i - 1].units /\ b.post = snapshots[i].units
           /\ b.pre \in Nat /\ b.post \in Nat
<1>1. PICK i \in 2 .. Len(snapshots) : \E k \in Passes(i) : b = Bounds(i, k)
  BY BoundariesAre
<1>2. PICK k \in Passes(i) : b = Bounds(i, k)
  BY <1>1
<1>3. b.bucket = k /\ b.pre = snapshots[i - 1].units /\ b.post = snapshots[i].units
  BY <1>2 DEF Bounds
<1>4. i - 1 \in 1 .. Len(snapshots) /\ i \in 1 .. Len(snapshots) /\ i - 1 < i /\ i \in Nat
  BY SnapshotFacts
<1>5. snapshots[i - 1].pct \in Nat /\ snapshots[i].pct \in Nat
      /\ snapshots[i - 1].units \in Nat /\ snapshots[i].units \in Nat
  BY <1>4, SnapshotFacts
<1>6. k \in Nat /\ snapshots[i - 1].pct < k /\ k <= snapshots[i].pct
  BY <1>5 DEF Passes
<1> QED
  BY <1>2, <1>3, <1>4, <1>5, <1>6

LEMMA BoundaryCharged ==
  ASSUME IInv, NEW q, Even(q), NEW b \in DetectBoundaries(snapshots)
  PROVE  /\ q + b.pre < b.bucket * TickUnits /\ b.bucket * TickUnits <= q + b.post
         /\ b.pre \in Nat /\ b.post \in Nat /\ b.bucket \in Nat /\ b.pre <= b.post
<1>1. PICK i \in 2 .. Len(snapshots) :
           /\ b.bucket \in Nat
           /\ snapshots[i - 1].pct < b.bucket /\ b.bucket <= snapshots[i].pct
           /\ i - 1 \in 1 .. Len(snapshots) /\ i \in 1 .. Len(snapshots) /\ i - 1 < i
           /\ b.pre = snapshots[i - 1].units /\ b.post = snapshots[i].units
           /\ b.pre \in Nat /\ b.post \in Nat
  BY BoundaryFacts
<1>2. PICK r, s, k : r = snapshots[i - 1] /\ s = snapshots[i] /\ k = b.bucket
  OBVIOUS
<1>3. /\ r.pct \in Nat /\ s.pct \in Nat /\ r.units \in Nat /\ s.units \in Nat
      /\ Charged(q, r) /\ Charged(q, s) /\ q \in Int /\ r.units <= s.units
  <2>1. i - 1 \in DOMAIN snapshots /\ i \in DOMAIN snapshots /\ i - 1 <= i
    BY <1>1, SnapshotFacts
  <2> QED
    BY <1>1, <1>2, <2>1, SnapshotFacts DEF Even
<1>4. q + r.units < k * TickUnits /\ k * TickUnits <= q + s.units
  <2>1. k \in Int /\ r.pct < k /\ k <= s.pct
    BY <1>1, <1>2
  <2> QED
    BY <1>3, <2>1, Between
<1> QED
  BY <1>1, <1>2, <1>3, <1>4

\* Later percents have later brackets, and every percent has one at most.
LEMMA BoundariesOrdered ==
  ASSUME IInv, NEW q, Even(q),
         NEW a \in DetectBoundaries(snapshots), NEW b \in DetectBoundaries(snapshots)
  PROVE  /\ a.bucket <= b.bucket => a.pre <= b.pre /\ a.post <= b.post
         /\ a.bucket = b.bucket => a = b
<1>1. PICK i \in 2 .. Len(snapshots) :
           /\ a = Bounds(i, a.bucket) /\ a.bucket \in Nat
           /\ snapshots[i - 1].pct < a.bucket /\ a.bucket <= snapshots[i].pct
           /\ i - 1 \in 1 .. Len(snapshots) /\ i \in 1 .. Len(snapshots) /\ i \in Nat
           /\ a.pre = snapshots[i - 1].units /\ a.post = snapshots[i].units
  BY BoundaryFacts
<1>2. PICK j \in 2 .. Len(snapshots) :
           /\ b = Bounds(j, b.bucket) /\ b.bucket \in Nat
           /\ snapshots[j - 1].pct < b.bucket /\ b.bucket <= snapshots[j].pct
           /\ j - 1 \in 1 .. Len(snapshots) /\ j \in 1 .. Len(snapshots) /\ j \in Nat
           /\ b.pre = snapshots[j - 1].units /\ b.post = snapshots[j].units
  BY BoundaryFacts
<1>3. DOMAIN snapshots = 1 .. Len(snapshots) /\ Len(snapshots) \in Nat
      /\ \A n \in 1 .. Len(snapshots) : snapshots[n].pct \in Nat
  BY SnapshotFacts
<1>4. ASSUME a.bucket <= b.bucket PROVE i <= j
  <2> SUFFICES ASSUME j < i PROVE FALSE
    BY <1>1, <1>2
  <2>1. j <= i - 1
    BY <1>1, <1>2
  <2>2. snapshots[j].pct <= snapshots[i - 1].pct
    BY <1>1, <1>2, <1>3, <2>1 DEF Even
  <2>3. snapshots[j].pct \in Nat /\ snapshots[i - 1].pct \in Nat
    BY <1>1, <1>2, <1>3
  <2> QED
    <3>1. /\ snapshots[i - 1].pct < a.bucket /\ b.bucket <= snapshots[j].pct
          /\ a.bucket \in Nat /\ b.bucket \in Nat
      BY <1>1, <1>2
    <3> QED
      BY <1>4, <2>2, <2>3, <3>1
<1>5. ASSUME b.bucket <= a.bucket PROVE j <= i
  <2> SUFFICES ASSUME i < j PROVE FALSE
    BY <1>1, <1>2
  <2>1. i <= j - 1
    BY <1>1, <1>2
  <2>2. snapshots[i].pct <= snapshots[j - 1].pct
    BY <1>1, <1>2, <1>3, <2>1 DEF Even
  <2>3. snapshots[i].pct \in Nat /\ snapshots[j - 1].pct \in Nat
    BY <1>1, <1>2, <1>3
  <2> QED
    BY <1>1, <1>2, <1>5, <2>2, <2>3
<1>6. ASSUME a.bucket <= b.bucket PROVE a.pre <= b.pre /\ a.post <= b.post
  <2>1. i <= j /\ i - 1 <= j - 1
    BY <1>1, <1>2, <1>4, <1>6
  <2> QED
    BY <1>1, <1>2, <1>3, <2>1 DEF Even
<1>7. ASSUME a.bucket = b.bucket PROVE a = b
  <2>1. i <= j /\ j <= i
    BY <1>1, <1>2, <1>4, <1>5, <1>7
  <2>2. i = j
    BY <1>1, <1>2, <2>1
  <2> QED
    BY <1>1, <1>2, <1>7, <2>2
<1> QED
  BY <1>6, <1>7

LEMMA TicksFinite ==
  ASSUME IInv, NEW q, Even(q)
  PROVE  IsFiniteSet(MeasuredTicks(snapshots))
<1> DEFINE T == MeasuredTicks(snapshots)
           f == [t \in T |-> t[1].bucket]
           last == IF snapshots = << >> THEN 0 ELSE snapshots[Len(snapshots)].pct
<1>1. ASSUME NEW t \in T
      PROVE  /\ t[1] \in DetectBoundaries(snapshots) /\ t[2] \in DetectBoundaries(snapshots)
             /\ t = <<t[1], t[2]>> /\ t[2].bucket = t[1].bucket + 1
  BY DEF MeasuredTicks
<1>2. last \in Nat
  BY SnapshotFacts
<1>3. ASSUME NEW t \in T PROVE t[1].bucket \in 0 .. last
  <2>1. PICK i \in 2 .. Len(snapshots) :
           t[1].bucket \in Nat /\ t[1].bucket <= snapshots[i].pct /\ i \in 1 .. Len(snapshots)
    BY <1>1, BoundaryFacts
  <2>2. snapshots[i].pct <= snapshots[Len(snapshots)].pct /\ snapshots # << >>
        /\ snapshots[i].pct \in Nat /\ snapshots[Len(snapshots)].pct \in Nat
    <3>1. i \in DOMAIN snapshots /\ Len(snapshots) \in DOMAIN snapshots /\ i <= Len(snapshots)
      BY <2>1, SnapshotFacts
    <3> QED
      BY <3>1, SnapshotFacts DEF Even
  <2> QED
    BY <2>1, <2>2
<1>4. ASSUME NEW t \in T, NEW u \in T, t[1].bucket = u[1].bucket PROVE t = u
  <2>1. t[1] = u[1]
    BY <1>1, <1>4, BoundariesOrdered
  <2>2. t[2].bucket = u[2].bucket
    BY <1>1, <1>4
  <2>3. t[2] = u[2]
    BY <1>1, <2>2, BoundariesOrdered
  <2> QED
    BY <1>1, <2>1, <2>3
<1> HIDE DEF T, last
<1>5. f \in Injection(T, 0 .. last)
  BY <1>3, <1>4 DEF Injection, IsInjective
<1>6. IsFiniteSet(0 .. last)
  <2>1. 0 \in Int /\ last \in Int
    BY <1>2
  <2> QED
    BY <2>1, FS_Interval
<1> QED
  BY <1>5, <1>6, FS_Injection DEF T

\* The sum of terms that are near 2 * TickUnits is near as many times that.
Near(low, high, slack, s) ==
  (SumFunctionOnSet(low, s) + SumFunctionOnSet(high, s)) - 2 * Cardinality(s) * TickUnits
    \in -SumFunctionOnSet(slack, s) .. SumFunctionOnSet(slack, s)

LEMMA SumsBracket ==
  ASSUME NEW S, IsFiniteSet(S), NEW low, NEW high, NEW slack,
         \A t \in S : /\ low[t] \in Nat /\ high[t] \in Nat /\ slack[t] \in Nat
                      /\ -slack[t] <= low[t] + high[t] - 2 * TickUnits
                      /\ low[t] + high[t] - 2 * TickUnits <= slack[t]
  PROVE  Near(low, high, slack, S)
<1> DEFINE Good == {s \in SUBSET S : Near(low, high, slack, s)}
<1>0. TickUnits \in Nat
  BY ProbeAssumption
<1>1. {} \in Good
  BY <1>0, SumEmpty, FS_EmptySet DEF Near
<1>2. ASSUME NEW s \in Good \cap SUBSET S, NEW x \in S \ s
      PROVE  s \cup {x} \in Good
  <2>1. IsFiniteSet(s) /\ Cardinality(s) \in Nat
    BY FS_Subset, FS_CardinalityType
  <2>2. Cardinality(s \cup {x}) = Cardinality(s) + 1
    BY <2>1, FS_AddElement
  <2>3. PICK l, h, f, n :
          /\ l = SumFunctionOnSet(low, s) /\ h = SumFunctionOnSet(high, s)
          /\ f = SumFunctionOnSet(slack, s) /\ n = Cardinality(s)
    OBVIOUS
  <2>4. l \in Nat /\ h \in Nat /\ f \in Nat
    BY <2>1, <2>3, SumType
  <2>5. /\ SumFunctionOnSet(low, s \cup {x}) = low[x] + l
        /\ SumFunctionOnSet(high, s \cup {x}) = high[x] + h
        /\ SumFunctionOnSet(slack, s \cup {x}) = slack[x] + f
    BY <2>3, SumAdd
  <2>6. (l + h) - 2 * n * TickUnits \in -f .. f
    <3>1. Near(low, high, slack, s)
      OBVIOUS
    <3> QED
      BY <2>3, <3>1, Zenon DEF Near
  <2>7. 2 * (n + 1) * TickUnits = 2 * n * TickUnits + 2 * TickUnits /\ 2 * n * TickUnits \in Int
    <3>1. PICK a : a = 2 * n
      OBVIOUS
    <3>2. n \in Nat /\ a \in Int /\ a + 1 \in Int /\ 2 * (n + 1) = (a + 1) + 1
      BY <2>1, <2>3, <3>1
    <3>3. /\ ((a + 1) + 1) * TickUnits = (a + 1) * TickUnits + TickUnits
          /\ (a + 1) * TickUnits = a * TickUnits + TickUnits
          /\ a * TickUnits \in Int
      BY <3>2, TicksInOrder
    <3>4. ((a + 1) + 1) * TickUnits = a * TickUnits + 2 * TickUnits
      BY <1>0, <3>3
    <3> QED
      BY <3>1, <3>2, <3>3, <3>4
  <2>8. ((low[x] + l) + (high[x] + h)) - 2 * (n + 1) * TickUnits \in -(slack[x] + f) .. slack[x] + f
    <3>1. PICK y, z : y = 2 * n * TickUnits /\ z = 2 * TickUnits
      OBVIOUS
    <3>2. /\ y \in Int /\ z \in Int /\ (l + h) - y \in -f .. f
          /\ -slack[x] <= low[x] + high[x] - z /\ low[x] + high[x] - z <= slack[x]
          /\ low[x] \in Nat /\ high[x] \in Nat /\ slack[x] \in Nat
          /\ 2 * (n + 1) * TickUnits = y + z
      <4>1. y \in Int /\ z \in Int /\ 2 * (n + 1) * TickUnits = y + z
        BY <1>0, <2>7, <3>1
      <4>2. (l + h) - y \in -f .. f
        BY <2>6, <3>1
      <4>3. /\ -slack[x] <= low[x] + high[x] - z /\ low[x] + high[x] - z <= slack[x]
            /\ low[x] \in Nat /\ high[x] \in Nat /\ slack[x] \in Nat
        BY <3>1
      <4> QED
        BY <4>1, <4>2, <4>3
    <3>3. ((low[x] + l) + (high[x] + h)) - (y + z) \in -(slack[x] + f) .. slack[x] + f
      BY <2>4, <3>2
    <3> QED
      BY <3>2, <3>3
  <2>9. Near(low, high, slack, s \cup {x})
    <3>1. Cardinality(s \cup {x}) = n + 1
      BY <2>2, <2>3
    <3> QED
      BY <2>5, <2>8, <3>1, Zenon DEF Near
  <2> QED
    BY <2>9
<1> HIDE DEF Good
<1>3. S \in Good
  BY <1>1, <1>2, SubsetsByInduction
<1> QED
  BY <1>3 DEF Good

\* The ticks that report.py measures bracket the true cost, and the midpoint it publishes is
\* as near to it as the brackets are wide (probe.py's bounds.json), for any number of ticks.
THEOREM BracketsAreSound == ProbeSpec => []TicksBracketed
<1>1. PInv => TicksBracketed
  <2> SUFFICES ASSUME PInv, faithful
               PROVE  LET ticks   == MeasuredTicks(snapshots)
                          summary == BoundsSummary(ticks)
                          slack   == SumFunction([t \in ticks |-> t[1].post - t[1].pre + t[2].post - t[2].pre])
                      IN /\ \A t \in ticks : TickUnits \in t[2].pre - t[1].post .. t[2].post - t[1].pre
                         /\ summary.mid - 2 * summary.clean * TickUnits \in -slack .. slack
    BY DEF TicksBracketed
  <2>1. IInv /\ Grows /\ Follows
    BY DEF PInv
  <2>2. PICK q : Even(q)
    BY <2>1, FaithfulReads
  <2> DEFINE ticks == MeasuredTicks(snapshots)
             low == [t \in ticks |-> t[2].pre - t[1].pre]
             high == [t \in ticks |-> t[2].post - t[1].post]
             slack == [t \in ticks |-> t[1].post - t[1].pre + t[2].post - t[2].pre]
  <2>3. ASSUME NEW t \in ticks
        PROVE  /\ TickUnits \in t[2].pre - t[1].post .. t[2].post - t[1].pre
               /\ low[t] \in Nat /\ high[t] \in Nat /\ slack[t] \in Nat
               /\ -slack[t] <= low[t] + high[t] - 2 * TickUnits
               /\ low[t] + high[t] - 2 * TickUnits <= slack[t]
    <3>1. PICK a, b, k : a = t[1] /\ b = t[2] /\ k = a.bucket
      OBVIOUS
    <3>2. /\ a \in DetectBoundaries(snapshots) /\ b \in DetectBoundaries(snapshots)
          /\ b.bucket = k + 1
      BY <3>1 DEF MeasuredTicks
    <3>3. /\ q + a.pre < k * TickUnits /\ k * TickUnits <= q + a.post
          /\ q + b.pre < (k + 1) * TickUnits /\ (k + 1) * TickUnits <= q + b.post
          /\ a.pre \in Nat /\ a.post \in Nat /\ b.pre \in Nat /\ b.post \in Nat /\ k \in Nat
          /\ a.pre <= a.post /\ b.pre <= b.post
      BY <2>1, <2>2, <3>1, <3>2, BoundaryCharged
    <3>4. a.pre <= b.pre /\ a.post <= b.post
      BY <2>1, <2>2, <3>1, <3>2, <3>3, BoundariesOrdered
    <3>5. (k + 1) * TickUnits = k * TickUnits + TickUnits /\ k * TickUnits \in Int
      BY <3>3, TicksInOrder
    <3>6. TickUnits \in Nat /\ q \in Int
      BY <2>2, ProbeAssumption DEF Even
    <3>7. TickUnits \in b.pre - a.post .. b.post - a.pre
      BY <3>3, <3>5, <3>6
    <3>8. low[t] = b.pre - a.pre /\ high[t] = b.post - a.post
          /\ slack[t] = a.post - a.pre + b.post - b.pre
      BY <3>1
    <3> HIDE DEF low, high, slack, ticks
    <3> QED
      BY <3>1, <3>3, <3>4, <3>6, <3>7, <3>8
  <2>4. IsFiniteSet(ticks)
    BY <2>1, <2>2, TicksFinite
  <2>5. PICK s : s = BoundsSummary(ticks)
    OBVIOUS
  <2>6. /\ s.clean = Cardinality(ticks)
        /\ s.mid = SumFunctionOnSet(low, ticks) + SumFunctionOnSet(high, ticks)
        /\ SumFunction(slack) = SumFunctionOnSet(slack, ticks)
    BY <2>5 DEF BoundsSummary, SumFunction
  <2> HIDE DEF ticks, low, high, slack
  <2>7. PICK far : far = SumFunctionOnSet(slack, ticks)
    OBVIOUS
  <2>8. s.mid - 2 * s.clean * TickUnits \in -far .. far
    <3>1. Near(low, high, slack, ticks)
      BY <2>3, <2>4, SumsBracket
    <3> QED
      BY <2>6, <2>7, <3>1, Zenon DEF Near
  <2> QED
    BY <2>3, <2>5, <2>6, <2>7, <2>8 DEF ticks, slack
<1> QED
  BY <1>1, ProbeInductive, PTL

-----------------------------------------------------------------------------
(* As many ticks as were announced.                                        *)

\* A run of small steps that has come from the baseline to n ticks has a clean boundary
\* for each of them.
LEMMA BoundaryPerTick ==
  ASSUME IInv, Standing, NEW q, Even(q), SmallSteps, manifest # NoManifest,
         pc \in Loop, NEW n \in Nat, TicksSeen(current) >= n, NEW t \in 1 .. n
  PROVE  \E b \in DetectBoundaries(snapshots) : b.bucket = manifest.pct + t /\ ~b.coarse
<1>1. current = Snap[Len(rows)] /\ manifest.pct = Snap[0].pct
  BY DEF Standing
<1>2. snapshots # << >> /\ snapshots[1] = Snap[0]
  BY DEF IInv, Recorded, Standing
<1>3. Len(rows) \in Held
  BY <1>2, LastHeld DEF IInv
<1>4. PICK j \in DOMAIN snapshots : current = snapshots[j]
  BY <1>1, <1>3, SnapshotFacts, HeldIsLookedUp
<1>5. j \in 1 .. Len(snapshots) /\ Len(snapshots) \in Nat
  BY <1>4, SnapshotFacts
<1>6. PICK f, m, k : f = [i \in 0 .. m |-> snapshots[i + 1].pct] /\ m = j - 1 /\ k = manifest.pct + t
  OBVIOUS
<1>7. /\ m \in Nat /\ 0 \in 0 .. m /\ m \in 0 .. m /\ m + 1 = j
      /\ \A i \in 0 .. m : i + 1 \in 1 .. Len(snapshots)
  BY <1>5, <1>6
<1>8. \A i \in 0 .. m : f[i] = snapshots[i + 1].pct /\ f[i] \in Nat
  BY <1>6, <1>7, SnapshotFacts
<1>9. f[0] = manifest.pct /\ f[m] = current.pct
  <2>1. f[0] = snapshots[0 + 1].pct /\ f[m] = snapshots[m + 1].pct /\ 0 + 1 = 1
    BY <1>7, <1>8
  <2> QED
    BY <1>1, <1>2, <1>4, <1>7, <2>1
<1>10. k \in Nat /\ f[0] < k /\ k <= f[m]
  <2>1. f[0] \in Nat /\ f[m] \in Nat
    BY <1>7, <1>8
  <2>2. f[m] - f[0] >= n
    BY <1>9 DEF TicksSeen
  <2> QED
    BY <1>6, <1>9, <2>1, <2>2
<1>11. PICK i \in 1 .. m : f[i - 1] < k /\ k <= f[i]
  BY <1>7, <1>8, <1>10, FirstPast
<1>12. i \in 0 .. m /\ i - 1 \in 0 .. m /\ (i - 1) + 1 = i /\ (i + 1) - 1 = i /\ i \in Nat
  BY <1>7
<1>13. i + 1 \in 2 .. Len(snapshots)
  <2>1. i + 1 \in 1 .. Len(snapshots)
    BY <1>7, <1>12
  <2> QED
    BY <1>5, <1>12, <2>1, <1>11
<1>14. f[i - 1] = snapshots[i].pct /\ f[i] = snapshots[i + 1].pct
  BY <1>8, <1>12
<1>15. k \in Passes(i + 1)
  <2>1. snapshots[i].pct \in Nat /\ snapshots[i + 1].pct \in Nat
    BY <1>8, <1>12, <1>14
  <2>2. k \in snapshots[i].pct + 1 .. snapshots[i + 1].pct
    BY <1>10, <1>11, <1>14, <2>1
  <2> QED
    BY <1>12, <2>2 DEF Passes
<1>16. Bounds(i + 1, k) \in DetectBoundaries(snapshots)
  BY <1>13, <1>15, BoundariesAre
<1>17. Bounds(i + 1, k).bucket = k
  BY DEF Bounds
<1> QED
  BY <1>6, <1>16, <1>17 DEF SmallSteps

\* How far the first invocation is from its target: no snapshot it goes on from has reached
\* it.
Sought ==
  /\ manifest # NoManifest => manifest.need = Need(manifest.pct)
  /\ pc = "manifest" => snapshots = << current >>
  /\ resumes = 0 /\ ~dry /\ pc \in Handled =>
       \A j \in DOMAIN snapshots :
         j < Len(snapshots) \/ pc \in {"head", "claude", "snapshot"} =>
           TicksSeen(snapshots[j]) < manifest.need

LEMMA SoughtNext ==
  ASSUME IInv, Sought, [Next]_vars
  PROVE  Sought'
<1>0. /\ snapshots \in Seq(Snapshots) /\ resumes \in Nat /\ Len(snapshots) \in Nat
      /\ DOMAIN snapshots = 1 .. Len(snapshots)
  BY DEF IInv, Types, HistoryTypes, DiskTypes
\* Nothing is written, and the invocation goes no step back.
<1>1. ASSUME UNCHANGED <<manifest, snapshots>>, resumes' = resumes,
             pc' = "manifest" => pc = "manifest" /\ current' = current,
             pc' \in Handled => pc \in Handled /\ dry' = dry,
             pc' \in {"head", "claude", "snapshot"} => pc \in {"head", "claude", "snapshot"}
      PROVE  Sought'
  BY <1>1 DEF Sought, TicksSeen
<1>2. CASE Proxied \/ Signal \/ UNCHANGED vars
  <2>1. UNCHANGED <<manifest, snapshots, pc, current, dry>> /\ resumes' = resumes
    BY <1>2 DEF Proxied, Record, StopProxy, StartProxy, Rollover, Signal, memory, disk, vars, history
  <2> QED
    BY <1>1, <2>1
<1>3. CASE \/ BaselineFails \/ FatalOutput \/ Report \/ Die \/ \E d \in BOOLEAN : StartRun(d)
  <2>1. UNCHANGED <<manifest, snapshots>> /\ resumes' = resumes /\ pc' \in {"off", "baseline"}
    BY <1>3 DEF BaselineFails, FatalOutput, Report, Die, Quit, StartRun, disk, history
  <2> QED
    BY <1>1, <2>1 DEF Handled
<1>4. CASE \/ ClaudeExits \/ SnapshotFails \/ LeaveWithoutRow \/ LeaveLoop \/ Postflight \/ WriteRow
           \/ \E u \in Costs : Call(u)
  <2>1. /\ UNCHANGED <<manifest, snapshots>> /\ resumes' = resumes /\ dry' = dry
        /\ pc \in Handled /\ pc' # "manifest"
        /\ pc' \in {"head", "claude", "snapshot"} => pc \in {"head", "claude", "snapshot"}
    BY <1>4 DEF ClaudeExits, SnapshotFails, LeaveWithoutRow, LeaveLoop, Postflight, WriteRow, Call,
       memory, disk, history, Handled
  <2> QED
    BY <1>1, <2>1
<1>5. ASSUME NEW d \in BOOLEAN, Resume(d)
      PROVE  Sought'
  <2>1. UNCHANGED manifest /\ resumes' = resumes + 1 /\ pc' # "manifest"
    BY <1>5 DEF Resume, disk
  <2>2. resumes' # 0
    BY <1>0, <2>1
  <2> QED
    BY <2>1, <2>2 DEF Sought
<1>6. CASE ReadBaseline
  <2>1. /\ snapshots' = Append(snapshots, Reading(0)) /\ current' = Reading(0)
        /\ manifest' = manifest /\ pc = "baseline" /\ pc' = "manifest"
    BY <1>6 DEF ReadBaseline
  <2>2. snapshots = << >>
    BY <2>1 DEF IInv, Placed
  <2> QED
    BY <2>1, <2>2 DEF Sought, Handled
<1>7. CASE WriteManifest
  <2>1. /\ manifest' = [need |-> Need(current.pct), pct |-> current.pct]
        /\ snapshots' = snapshots /\ pc = "manifest" /\ pc' = "head"
    BY <1>7 DEF WriteManifest
  <2>2. snapshots = << current >> /\ current.pct \in Nat
    BY <2>1 DEF Sought, IInv, Types, MemoryTypes, Snapshots
  <2>3. Need(current.pct) > current.pct - current.pct
    BY <2>2, ProbeAssumption DEF Need
  <2>4. manifest'.need = Need(current.pct) /\ manifest'.pct = current.pct
    BY <2>1
  <2>5. \A j \in DOMAIN snapshots' : snapshots'[j].pct - manifest'.pct < manifest'.need
    BY <2>1, <2>2, <2>3, <2>4
  <2> QED
    BY <2>1, <2>4, <2>5 DEF Sought, TicksSeen
<1>8. CASE TakeSnapshot
  <2>1. /\ snapshots' = Append(snapshots, Reading(iter)) /\ pc = "snapshot" /\ pc' = "row"
        /\ UNCHANGED <<manifest, dry>> /\ resumes' = resumes
    BY <1>8 DEF TakeSnapshot, memory, history
  <2>2. \A j \in DOMAIN snapshots' : j < Len(snapshots') =>
          j \in DOMAIN snapshots /\ snapshots'[j] = snapshots[j]
    BY <1>0, <2>1
  <2> QED
    BY <2>1, <2>2 DEF Sought, TicksSeen, Handled
<1>9. CASE CloseIteration
  <2>1. /\ UNCHANGED <<manifest, snapshots, dry>> /\ resumes' = resumes /\ pc = "crossing"
        /\ pc' \in {"head", "postflight"}
        /\ ~dry /\ pc' = "head" => ~(TicksSeen(Newest) >= manifest.need)
    BY <1>9 DEF CloseIteration, history
  <2>2. ASSUME resumes' = 0, ~dry', pc' = "head", NEW j \in DOMAIN snapshots
        PROVE  TicksSeen(snapshots[j]) < manifest.need
    <3>1. CASE j < Len(snapshots)
      BY <2>1, <2>2, <3>1 DEF Sought, Handled
    <3>2. CASE j = Len(snapshots)
      <4>1. manifest # NoManifest
        BY <2>1 DEF IInv, Placed, Handled
      <4>2. snapshots[j].pct \in Nat /\ manifest.pct \in Nat /\ manifest.need \in Nat
        BY <4>1, SnapshotFacts DEF IInv, Types, DiskTypes
      <4> QED
        BY <2>1, <2>2, <3>2, <4>2 DEF Newest, TicksSeen
    <3> QED
      BY <1>0, <3>1, <3>2
  <2> QED
    BY <2>1, <2>2 DEF Sought, TicksSeen, Handled
<1> QED
  BY <1>2, <1>3, <1>4, <1>5, <1>6, <1>7, <1>8, <1>9 DEF Next, Step

\* A run of small steps, none of whose snapshots but the last has come n percents from the
\* first, has measured no more than n - 1 ticks.
LEMMA TicksUpTo ==
  ASSUME IInv, NEW q, Even(q), SmallSteps, snapshots # << >>, NEW n \in Nat \ {0},
         \A j \in DOMAIN snapshots : j < Len(snapshots) => snapshots[j].pct - snapshots[1].pct < n
  PROVE  Cardinality(MeasuredTicks(snapshots)) <= n - 1
<1> DEFINE T == MeasuredTicks(snapshots)
           base == snapshots[1].pct
           f == [t \in T |-> t[1].bucket - base]
<1>1. DOMAIN snapshots = 1 .. Len(snapshots) /\ Len(snapshots) \in Nat /\ 1 \in DOMAIN snapshots
      /\ \A i \in 1 .. Len(snapshots) : snapshots[i].pct \in Nat
  BY SnapshotFacts
<1>2. base \in Nat
  BY <1>1
<1> HIDE DEF base
\* The buckets lie above the first snapshot, and not above the n-th percent from there.
<1>3. ASSUME NEW b \in DetectBoundaries(snapshots)
      PROVE  b.bucket \in base + 1 .. base + n
  <2>1. PICK i \in 2 .. Len(snapshots) :
           /\ b.bucket \in Nat /\ snapshots[i - 1].pct < b.bucket /\ b.bucket <= snapshots[i].pct
           /\ i - 1 \in 1 .. Len(snapshots) /\ i \in 1 .. Len(snapshots) /\ i - 1 < i /\ i \in Nat
    BY BoundaryFacts
  <2>2. snapshots[i].pct <= snapshots[i - 1].pct + 1
    BY SmallRises
  <2>3. base <= snapshots[i - 1].pct
    <3>1. 1 <= i - 1 /\ i - 1 \in DOMAIN snapshots
      BY <1>1, <2>1
    <3> QED
      BY <1>1, <3>1 DEF Even, base
  <2>4. snapshots[i - 1].pct - base < n
    <3>1. i - 1 \in DOMAIN snapshots /\ i - 1 < Len(snapshots)
      BY <1>1, <2>1
    <3> QED
      BY <3>1 DEF base
  <2>5. snapshots[i - 1].pct \in Nat /\ snapshots[i].pct \in Nat
    BY <1>1, <2>1
  <2> QED
    BY <1>2, <2>1, <2>2, <2>3, <2>4, <2>5
<1>4. ASSUME NEW t \in T
      PROVE  /\ t[1] \in DetectBoundaries(snapshots) /\ t[2] \in DetectBoundaries(snapshots)
             /\ t = <<t[1], t[2]>> /\ t[2].bucket = t[1].bucket + 1
  BY DEF MeasuredTicks
<1>5. ASSUME NEW t \in T PROVE f[t] \in 1 .. n - 1
  <2>1. t[1].bucket \in base + 1 .. base + n /\ t[2].bucket \in base + 1 .. base + n
    BY <1>3, <1>4
  <2>2. f[t] = t[1].bucket - base
    OBVIOUS
  <2>3. t[2].bucket = t[1].bucket + 1
    BY <1>4
  <2> QED
    BY <1>2, <2>1, <2>2, <2>3
<1>6. ASSUME NEW t \in T, NEW u \in T, f[t] = f[u] PROVE t = u
  <2>0. t[1].bucket \in base + 1 .. base + n /\ u[1].bucket \in base + 1 .. base + n
    BY <1>3, <1>4
  <2>1. t[1].bucket = u[1].bucket
    BY <1>2, <1>6, <2>0
  <2>2. t[1] = u[1]
    BY <1>4, <2>1, BoundariesOrdered
  <2>3. t[2].bucket = u[2].bucket
    BY <1>4, <2>1
  <2>4. t[2] = u[2]
    BY <1>4, <2>3, BoundariesOrdered
  <2> QED
    BY <1>4, <2>2, <2>4
<1>7. IsFiniteSet(1 .. n - 1) /\ Cardinality(1 .. n - 1) = n - 1
  <2>1. 1 \in Int /\ n - 1 \in Int /\ n - 1 >= 0
    OBVIOUS
  <2>2. /\ IsFiniteSet(1 .. n - 1)
        /\ Cardinality(1 .. n - 1) = IF 1 > n - 1 THEN 0 ELSE (n - 1) - 1 + 1
    BY <2>1, FS_Interval
  <2> QED
    BY <2>2
<1>8. f \in Injection(T, 1 .. n - 1)
  <2> HIDE DEF T
  <2> QED
    BY <1>5, <1>6 DEF Injection, IsInjective
<1>9. Cardinality(T) <= Cardinality(1 .. n - 1)
  <2> HIDE DEF T, f
  <2> QED
    BY <1>7, <1>8, FS_Injection
<1> QED
  BY <1>7, <1>9

\* A run that ends by reaching its target has measured the ticks it announced, for every
\* target and as long as no call passed two percents; from a baseline of zero it has
\* measured one fewer, whatever it logs (probe.py:1718).
THEOREM TargetIsMeasured == ProbeSpec => []MeasuresWhatItNeeds
<1>1. PInv /\ Sought => MeasuresWhatItNeeds
  <2> SUFFICES ASSUME PInv, Sought, Completed, faithful, SmallSteps
               PROVE  LET measured == Cardinality(MeasuredTicks(snapshots))
                      IN /\ manifest.pct # 0 => measured >= TargetTicks
                         /\ measured >= TargetTicks - 1
                         /\ manifest.pct = 0 /\ resumes = 0 => measured = TargetTicks - 1
    BY DEF MeasuresWhatItNeeds
  <2>1. IInv /\ Grows /\ Follows /\ Standing
    BY DEF PInv
  <2>2. PICK q : Even(q)
    BY <2>1, FaithfulReads
  <2>3. pc \in Loop /\ manifest # NoManifest
    BY <2>1 DEF Completed, Loop, Handled, IInv, Placed
  <2>4. manifest.need \in Nat \ {0} /\ manifest.pct \in Nat
    BY <2>1, <2>3 DEF IInv, Types, DiskTypes
  <2>5. PICK n : n = manifest.need
    OBVIOUS
  <2>6. n \in Nat \ {0} /\ TicksSeen(current) >= n
    BY <2>4, <2>5 DEF Completed
  <2>7. \A t \in 1 .. n : \E b \in DetectBoundaries(snapshots) :
                            b.bucket = manifest.pct + t /\ ~b.coarse
    BY <2>1, <2>2, <2>3, <2>6, BoundaryPerTick
  <2> DEFINE at(t) == CHOOSE b \in DetectBoundaries(snapshots) :
                        b.bucket = manifest.pct + t /\ ~b.coarse
             g == [t \in 1 .. n - 1 |-> <<at(t), at(t + 1)>>]
  <2>8. ASSUME NEW t \in 1 .. n
        PROVE  at(t) \in DetectBoundaries(snapshots) /\ at(t).bucket = manifest.pct + t /\ ~at(t).coarse
    BY <2>7
  <2> HIDE DEF at
  <2>9. ASSUME NEW t \in 1 .. n - 1
        PROVE  <<at(t), at(t + 1)>> \in MeasuredTicks(snapshots)
    <3>1. t \in 1 .. n /\ t + 1 \in 1 .. n /\ t \in Nat
      BY <2>6
    <3>2. at(t + 1).bucket = at(t).bucket + 1
      <4>1. at(t).bucket = manifest.pct + t /\ at(t + 1).bucket = manifest.pct + (t + 1)
        BY <2>8, <3>1
      <4> QED
        BY <2>4, <3>1, <4>1
    <3>3. /\ at(t) \in DetectBoundaries(snapshots) /\ at(t + 1) \in DetectBoundaries(snapshots)
          /\ ~at(t).coarse /\ ~at(t + 1).coarse
      BY <2>8, <3>1
    <3> QED
      BY <3>2, <3>3 DEF MeasuredTicks
  <2>10. ASSUME NEW t \in 1 .. n - 1, NEW u \in 1 .. n - 1, at(t) = at(u)
         PROVE  t = u
    <3>1. t \in 1 .. n /\ u \in 1 .. n /\ t \in Nat /\ u \in Nat
      BY <2>6
    <3>2. manifest.pct + t = manifest.pct + u
      BY <2>8, <2>10, <3>1
    <3> QED
      BY <2>4, <3>1, <3>2
  <2>11. g \in Injection(1 .. n - 1, MeasuredTicks(snapshots))
    BY <2>9, <2>10 DEF Injection, IsInjective
  <2>12. IsFiniteSet(MeasuredTicks(snapshots))
    BY <2>1, <2>2, TicksFinite
  <2>13. Cardinality(1 .. n - 1) = n - 1
    <3>1. 1 \in Int /\ n - 1 \in Int /\ n - 1 >= 0
      BY <2>6
    <3>2. Cardinality(1 .. n - 1) = IF 1 > n - 1 THEN 0 ELSE (n - 1) - 1 + 1
      BY <3>1, FS_Interval
    <3> QED
      BY <2>6, <3>2
  <2>14. Cardinality(1 .. n - 1) <= Cardinality(MeasuredTicks(snapshots))
    <3> HIDE DEF g
    <3> QED
      BY <2>11, <2>12, FS_Injection
  <2>15. Cardinality(MeasuredTicks(snapshots)) \in Nat
    BY <2>12, FS_CardinalityType
  <2>16. n = TargetTicks + 1 - (IF manifest.pct = 0 THEN 1 ELSE 0)
    BY <2>3, <2>5 DEF Sought, Need
  <2>17. ASSUME manifest.pct = 0, resumes = 0
         PROVE  Cardinality(MeasuredTicks(snapshots)) <= n - 1
    <3>1. snapshots # << >> /\ snapshots[1].pct = manifest.pct
      BY <2>1, <2>3 DEF IInv, Recorded, Standing
    <3>2. ~dry /\ pc \in Handled
      BY DEF Completed, Handled
    <3>3. ASSUME NEW j \in DOMAIN snapshots, j < Len(snapshots)
          PROVE  snapshots[j].pct - snapshots[1].pct < n
      BY <2>5, <2>17, <3>1, <3>2, <3>3 DEF Sought, TicksSeen
    <3> QED
      BY <2>1, <2>2, <2>6, <3>1, <3>3, TicksUpTo
  <2> QED
    BY <2>6, <2>13, <2>14, <2>15, <2>16, <2>17, ProbeAssumption
<1>2. Init => Sought
  BY DEF Init, Sought, Handled
<1>3. PInv /\ Sought /\ [Next]_vars => Sought'
  BY SoughtNext DEF PInv
<1> QED
  BY <1>1, <1>2, <1>3, ProbeInductive, PTL DEF ProbeSpec


-----------------------------------------------------------------------------
(* Sequences of sequences, end to end.                                     *)

\* f is the way FlattenSeq takes to the n-th of the sequences.
Flat(f, s, n) == f = [i \in 1 .. n |-> IF i = 1 THEN s[i] ELSE f[i - 1] \o s[i]]

LEMMA FlatExists ==
  ASSUME NEW s, NEW n \in Nat
  PROVE  \E f : Flat(f, s, n)
<1> DEFINE Good == {m \in Nat : \E f : Flat(f, s, m)}
<1>1. 0 \in Good
  <2>1. Flat([i \in 1 .. 0 |-> i], s, 0)
    BY DEF Flat
  <2> QED
    BY <2>1
<1>2. ASSUME NEW m \in Good \cap Nat PROVE m + 1 \in Good
  <2>1. PICK f : Flat(f, s, m)
    OBVIOUS
  <2> DEFINE g == [i \in 1 .. m + 1 |-> IF i <= m THEN f[i]
                                        ELSE IF i = 1 THEN s[i] ELSE f[i - 1] \o s[i]]
  <2>2. ASSUME NEW i \in 1 .. m + 1
        PROVE  g[i] = IF i = 1 THEN s[i] ELSE g[i - 1] \o s[i]
    <3>1. i # 1 => i - 1 \in 1 .. m + 1 /\ i - 1 <= m
      OBVIOUS
    <3>2. i # 1 => g[i - 1] = f[i - 1]
      BY <3>1
    <3>3. CASE i <= m
      <4>1. i \in 1 .. m
        BY <3>3
      <4>2. f[i] = IF i = 1 THEN s[i] ELSE f[i - 1] \o s[i]
        BY <2>1, <4>1 DEF Flat
      <4> QED
        BY <3>2, <3>3, <4>2
    <3>4. CASE ~(i <= m)
      BY <3>2, <3>4
    <3> QED
      BY <3>3, <3>4
  <2>3. g = [i \in 1 .. m + 1 |-> g[i]]
    OBVIOUS
  <2>4. Flat(g, s, m + 1)
    <3> HIDE DEF g
    <3> QED
      BY <2>2, <2>3 DEF Flat
  <2> QED
    BY <2>4
<1> HIDE DEF Good
<1>3. Nat \subseteq Good
  BY <1>1, <1>2, NaturalsByInduction
<1> QED
  BY <1>3 DEF Good

LEMMA FlattenIs ==
  ASSUME NEW s, NEW n \in Nat \ {0}, Len(s) = n
  PROVE  \E f : Flat(f, s, n) /\ FlattenSeq(s) = f[n]
<1> DEFINE f == CHOOSE f : f = [i \in 1 .. n |-> IF i = 1 THEN s[i] ELSE f[i - 1] \o s[i]]
<1>1. f = [i \in 1 .. n |-> IF i = 1 THEN s[i] ELSE f[i - 1] \o s[i]]
  BY FlatExists DEF Flat
<1>2. FlattenSeq(s) = f[n]
  BY DEF FlattenSeq
<1> QED
  BY <1>1, <1>2 DEF Flat

-----------------------------------------------------------------------------
(* The crossings that are rebuilt from the rows.                           *)

\* Percents without a gap, each with a bracket.
Consecutive(crossings) ==
  /\ crossings \in Seq(CrossingLines)
  /\ \A c \in DOMAIN crossings : crossings[c].before <= crossings[c].after
  /\ \A c, d \in DOMAIN crossings : crossings[d].k - crossings[c].k = d - c

\* The crossings of the first n rows.
Rebuilt(s, n, z) ==
  /\ s \in Seq(CrossingLines) /\ Len(s) = Snap[n].pct - Snap[0].pct
  /\ \A c \in 1 .. Len(s) : /\ s[c].k = Snap[0].pct + c
                            /\ s[c].before <= s[c].after
                            /\ Through(z, s[c])

\* What is known of the rows of a faithful run.
LEMMA RowsClimb ==
  ASSUME IInv, Numbered, ~replaced, NEW q, Even(q), manifest # NoManifest, NEW n \in 1 .. Len(rows)
  PROVE  /\ n \in DOMAIN rows /\ n \in 0 .. Len(rows) /\ n - 1 \in 0 .. Len(rows)
         /\ rows[n].iter = n /\ rows[n].units \in Nat
         /\ rows[n].units = Snap[n].units - Snap[n - 1].units
         /\ Snap[n - 1].pct \in Nat /\ Snap[n].pct \in Nat /\ Snap[n - 1].pct <= Snap[n].pct
         /\ Snap[n - 1].units \in Nat /\ Snap[n].units \in Nat
<1>1. n \in DOMAIN rows /\ n \in 0 .. Len(rows) /\ n - 1 \in 0 .. Len(rows)
  BY RowFacts
<1>2. /\ rows[n].iter = n /\ rows[n].units \in Nat
      /\ rows[n].units = Snap[n].units - Snap[n - 1].units
  BY <1>1 DEF IInv, Recorded, Numbered
<1>3. PICK r, s : r = Snap[n - 1] /\ s = Snap[n]
  OBVIOUS
<1>4. /\ Charged(q, r) /\ r.pct \in Nat /\ r.units \in Nat
      /\ Charged(q, s) /\ s.pct \in Nat /\ s.units \in Nat
  BY <1>1, <1>3, RowCharged
<1>5. r.units <= s.units
  BY <1>2, <1>3, <1>4
<1>6. r.pct <= s.pct
  <2>1. PICK a, b : a = r.pct /\ b = s.pct
    OBVIOUS
  <2>2. a \in Int /\ b \in Int /\ b + 1 \in Int /\ q \in Int
    BY <1>4, <2>1 DEF Even
  <2>3. PICK u, v : u = r.units /\ v = s.units
    OBVIOUS
  <2>4. /\ a * TickUnits <= q + u /\ q + v < b * TickUnits + TickUnits
        /\ u \in Nat /\ v \in Nat /\ u <= v
    BY <1>4, <1>5, <2>1, <2>3 DEF Charged
  <2>5. a * TickUnits < (b + 1) * TickUnits
    <3>1. a * TickUnits \in Int /\ b * TickUnits \in Int
          /\ (b + 1) * TickUnits = b * TickUnits + TickUnits
      BY <2>2, TicksInOrder
    <3>2. PICK x, y, t : x = a * TickUnits /\ y = b * TickUnits /\ t = TickUnits
      OBVIOUS
    <3>3. x \in Int /\ y \in Int /\ t \in Nat /\ x <= q + u /\ q + v < y + t
      BY <2>4, <3>1, <3>2, ProbeAssumption
    <3>4. x < y + t
      BY <2>2, <2>4, <3>3
    <3> QED
      BY <3>1, <3>2, <3>4
  <2>6. a < b + 1
    BY <2>2, <2>5, TicksInOrder
  <2> QED
    BY <2>1, <2>2, <2>6
<1> QED
  BY <1>1, <1>2, <1>3, <1>4, <1>6

\* The units of the first n rows are what the snapshots say.
LEMMA RowsSum ==
  ASSUME IInv, Numbered, ~replaced, NEW q, Even(q), manifest # NoManifest, NEW n \in 0 .. Len(rows)
  PROVE  SumFunctionOnSet([i \in DOMAIN rows |-> rows[i].units], 1 .. n)
           = Snap[n].units - Snap[0].units
<1> DEFINE u == [i \in DOMAIN rows |-> rows[i].units]
           Good == {m \in Nat : m <= Len(rows) =>
                      SumFunctionOnSet(u, 1 .. m) = Snap[m].units - Snap[0].units}
<1>1. Len(rows) \in Nat /\ DOMAIN rows = 1 .. Len(rows) /\ 0 \in 0 .. Len(rows)
  BY RowFacts
<1>2. Snap[0].units \in Nat
  BY <1>1, RowCharged
<1>3. 0 \in Good
  <2>1. 1 .. 0 = {}
    OBVIOUS
  <2> QED
    BY <1>2, <2>1, SumEmpty
<1>4. ASSUME NEW m \in Good \cap Nat PROVE m + 1 \in Good
  <2> SUFFICES ASSUME m + 1 <= Len(rows)
               PROVE  SumFunctionOnSet(u, 1 .. m + 1) = Snap[m + 1].units - Snap[0].units
    OBVIOUS
  <2>1. \A i \in 1 .. m + 1 : i \in 1 .. Len(rows)
    BY <1>1
  <2>2. \A i \in 1 .. m + 1 : u[i] \in Nat
    BY <1>1, <2>1, RowsClimb
  <2>3. SumFunctionOnSet(u, 1 .. m + 1) = SumFunctionOnSet(u, 1 .. m) + u[m + 1]
    BY <2>2, SumLast
  <2>4. SumFunctionOnSet(u, 1 .. m) = Snap[m].units - Snap[0].units
    BY <1>1
  <2>5. /\ u[m + 1] = Snap[m + 1].units - Snap[m].units
        /\ Snap[m].units \in Nat /\ Snap[m + 1].units \in Nat
    <3>1. m + 1 \in 1 .. Len(rows) /\ (m + 1) - 1 = m
      BY <1>1
    <3>2. /\ rows[m + 1].units = Snap[m + 1].units - Snap[(m + 1) - 1].units
          /\ Snap[(m + 1) - 1].units \in Nat /\ Snap[m + 1].units \in Nat
      BY <3>1, RowsClimb
    <3> QED
      BY <1>1, <3>1, <3>2
  <2> HIDE DEF u
  <2> QED
    BY <1>2, <2>3, <2>4, <2>5
<1> HIDE DEF Good
<1>5. Nat \subseteq Good
  BY <1>3, <1>4, NaturalsByInduction
<1>6. n \in Nat /\ n <= Len(rows)
  BY <1>1
<1> QED
  BY <1>5, <1>6 DEF Good

\* One row's part of them.
LEMMA RowRebuilt ==
  ASSUME IInv, Numbered, ~replaced, NEW q, Even(q), manifest # NoManifest, NEW n \in 1 .. Len(rows),
         NEW part, part = BuildCrossings(Snap[n - 1].pct, Snap[n].pct,
                                         Snap[n - 1].units - Snap[0].units,
                                         Snap[n].units - Snap[0].units, n)
  PROVE  /\ part \in Seq(CrossingLines) /\ Len(part) = Snap[n].pct - Snap[n - 1].pct
         /\ \A c \in 1 .. Len(part) : /\ part[c].k = Snap[n - 1].pct + c
                                      /\ part[c].before <= part[c].after
                                      /\ Through(q + Snap[0].units, part[c])
<1>1. PICK r, s, base : r = Snap[n - 1] /\ s = Snap[n] /\ base = Snap[0].units
  OBVIOUS
<1>2. /\ n - 1 \in 0 .. Len(rows) /\ n \in 0 .. Len(rows) /\ 0 \in 0 .. Len(rows) /\ n \in Nat
  BY RowFacts
<1>3. /\ Charged(q, r) /\ r.pct \in Nat /\ r.units \in Nat
      /\ Charged(q, s) /\ s.pct \in Nat /\ s.units \in Nat /\ base \in Nat /\ q \in Int
  BY <1>1, <1>2, RowCharged DEF Even
<1>4. r.pct <= s.pct /\ r.units <= s.units
  <2>1. Snap[n - 1].pct <= Snap[n].pct
    BY RowsClimb
  <2>2. rows[n].units \in Nat /\ rows[n].units = Snap[n].units - Snap[n - 1].units
    BY RowsClimb
  <2> QED
    BY <1>1, <1>3, <2>1, <2>2
<1>5. part = BuildCrossings(r.pct, s.pct, r.units - base, s.units - base, n)
  BY <1>1
<1>6. PICK a, b, u, v : a = r.pct /\ b = s.pct /\ u = r.units - base /\ v = s.units - base
  OBVIOUS
<1>7. a \in Nat /\ b \in Nat /\ a <= b /\ u \in Int /\ v \in Int /\ u <= v
  <2>1. /\ r.units - base \in Int /\ s.units - base \in Int
        /\ r.units - base <= s.units - base
    BY <1>3, <1>4, ShiftedUnits
  <2> QED
    BY <1>3, <1>4, <1>6, <2>1
<1>8. Built(part, a, b, u, v, n)
  BY <1>2, <1>5, <1>6, <1>7, CrossingsBuilt
<1>9. part \in Seq(CrossingLines)
  BY <1>8 DEF Built
<1>10. Len(part) = b - a /\ DOMAIN part = 1 .. b - a
  BY <1>7, <1>8 DEF Built
<1>11. ASSUME NEW c \in 1 .. b - a
       PROVE  /\ part[c].k = a + c /\ part[c].before = u /\ part[c].after = v
  <2>1. part[c] = [k |-> a + c, before |-> u, after |-> v, iter |-> n,
                   group |-> IF b - a > 1 THEN n ELSE 0]
    BY <1>8, <1>10 DEF Built
  <2> QED
    BY <2>1
<1>12. ASSUME NEW c \in 1 .. b - a
       PROVE  Through(q + base, part[c])
  <2>1. PICK k \in Int : k = a + c
    BY <1>7
  <2>2. r.pct < k /\ k <= s.pct
    BY <1>6, <1>7, <2>1
  <2>3. q + r.units < k * TickUnits /\ k * TickUnits <= q + s.units
    BY <1>3, <2>2, Between
  <2>4. (q + base) + u = q + r.units /\ (q + base) + v = q + s.units
    <3>1. /\ (q + base) + (r.units - base) = q + r.units
          /\ (q + base) + (s.units - base) = q + s.units
      BY <1>3, <1>4, ShiftedUnits
    <3> QED
      BY <1>6, <3>1
  <2>5. part[c].k = k /\ part[c].before = u /\ part[c].after = v
    BY <1>11, <2>1
  <2> QED
    BY <2>3, <2>4, <2>5 DEF Through
<1> QED
  BY <1>1, <1>6, <1>7, <1>9, <1>10, <1>11, <1>12

\* A row's part after those of the rows before it.
LEMMA RebuiltExtends ==
  ASSUME NEW z, NEW n \in Nat, NEW s, Rebuilt(s, n, z), NEW part \in Seq(CrossingLines),
         Snap[0].pct \in Nat, Snap[n].pct \in Nat, Snap[n + 1].pct \in Nat,
         Len(part) = Snap[n + 1].pct - Snap[n].pct,
         \A c \in 1 .. Len(part) : /\ part[c].k = Snap[n].pct + c
                                   /\ part[c].before <= part[c].after
                                   /\ Through(z, part[c])
  PROVE  Rebuilt(s \o part, n + 1, z)
<1>1. PICK w : w = s \o part
  OBVIOUS
<1>2. s \in Seq(CrossingLines) /\ Len(s) = Snap[n].pct - Snap[0].pct
      /\ Len(s) \in Nat /\ Len(part) \in Nat
  BY DEF Rebuilt
<1>3. /\ w \in Seq(CrossingLines) /\ Len(w) = Len(s) + Len(part)
      /\ \A c \in 1 .. Len(w) : \/ c \in 1 .. Len(s) /\ w[c] = s[c]
                                \/ c - Len(s) \in 1 .. Len(part) /\ w[c] = part[c - Len(s)]
  <2>1. /\ w \in Seq(CrossingLines) /\ Len(w) = Len(s) + Len(part)
        /\ \A c \in 1 .. Len(s) + Len(part) :
             w[c] = IF c <= Len(s) THEN s[c] ELSE part[c - Len(s)]
    BY <1>1, <1>2, ConcatProperties
  <2>2. ASSUME NEW c \in 1 .. Len(w)
        PROVE  \/ c \in 1 .. Len(s) /\ w[c] = s[c]
               \/ c - Len(s) \in 1 .. Len(part) /\ w[c] = part[c - Len(s)]
    <3>1. c \in 1 .. Len(s) + Len(part)
      BY <2>1
    <3>2. CASE c <= Len(s)
      BY <1>2, <2>1, <3>1, <3>2
    <3>3. CASE ~(c <= Len(s))
      <4>1. w[c] = part[c - Len(s)]
        BY <2>1, <3>1, <3>3
      <4>2. c - Len(s) \in 1 .. Len(part)
        BY <1>2, <3>1, <3>3
      <4> QED
        BY <4>1, <4>2
    <3> QED
      BY <3>2, <3>3
  <2> QED
    BY <2>1, <2>2
<1>4. Len(w) = Snap[n + 1].pct - Snap[0].pct
  <2>1. PICK a \in Nat, b \in Nat, c \in Nat :
          a = Snap[0].pct /\ b = Snap[n].pct /\ c = Snap[n + 1].pct
    OBVIOUS
  <2>2. Len(w) = (b - a) + (c - b)
    BY <1>2, <1>3, <2>1
  <2>3. (b - a) + (c - b) = c - a
    OBVIOUS
  <2> QED
    BY <2>1, <2>2, <2>3
<1>5. ASSUME NEW c \in 1 .. Len(w)
      PROVE  w[c].k = Snap[0].pct + c /\ w[c].before <= w[c].after /\ Through(z, w[c])
  <2>1. CASE c \in 1 .. Len(s) /\ w[c] = s[c]
    BY <2>1 DEF Rebuilt
  <2>2. CASE c - Len(s) \in 1 .. Len(part) /\ w[c] = part[c - Len(s)]
    <3>1. PICK x, y, m : x = Snap[n].pct /\ y = Snap[0].pct /\ m = Len(s)
      OBVIOUS
    <3>2. x \in Nat /\ y \in Nat /\ m = x - y /\ c \in Nat
      BY <1>2, <1>3, <3>1
    <3>3. x + (c - m) = y + c
      BY <3>2
    <3>4. Snap[n].pct + (c - Len(s)) = Snap[0].pct + c
      BY <3>1, <3>3
    <3> QED
      BY <2>2, <3>4
  <2> QED
    BY <1>3, <2>1, <2>2
<1> QED
  BY <1>1, <1>3, <1>4, <1>5 DEF Rebuilt

LEMMA DerivedIsRebuilt ==
  ASSUME IInv, Numbered, ~replaced, NEW q, Even(q), manifest # NoManifest
  PROVE  Rebuilt(Derived, Len(rows), q + Snap[0].units)
<1> DEFINE pct == [n \in 0 .. Len(rows) |-> SnapshotOf(n).pct]
           Spent(n) == SumFunctionOnSet([i \in DOMAIN rows |-> rows[i].units], 1 .. n)
           parts == [n \in 1 .. Len(rows) |->
                       BuildCrossings(pct[n - 1], pct[n], Spent(n - 1), Spent(n), rows[n].iter)]
           z == q + Snap[0].units
<1>1. Derived = FlattenSeq(parts)
  BY DEF Derived, DeriveCrossings, Percents
<1>2. Len(rows) \in Nat /\ DOMAIN rows = 1 .. Len(rows) /\ Len(parts) = Len(rows) /\ 0 \in 0 .. Len(rows)
  BY RowFacts
<1>3. Snap[0].pct \in Nat /\ Snap[0].units \in Nat
  BY <1>2, RowCharged
<1>4. ASSUME NEW n \in 1 .. Len(rows)
      PROVE  parts[n] = BuildCrossings(Snap[n - 1].pct, Snap[n].pct,
                                       Snap[n - 1].units - Snap[0].units,
                                       Snap[n].units - Snap[0].units, n)
  <2>1. n \in 0 .. Len(rows) /\ n - 1 \in 0 .. Len(rows) /\ rows[n].iter = n
    BY RowsClimb
  <2>2. n \in Nat /\ n - 1 \in Nat
    BY <1>2
  <2>3. SnapshotOf(n) = Snap[n] /\ SnapshotOf(n - 1) = Snap[n - 1]
    BY <2>2, SnapOfRow
  <2>4. pct[n] = Snap[n].pct /\ pct[n - 1] = Snap[n - 1].pct
    <3>1. pct[n] = SnapshotOf(n).pct /\ pct[n - 1] = SnapshotOf(n - 1).pct
      BY <2>1 DEF SnapshotOf, Labelled
    <3> QED
      BY <2>3, <3>1
  <2>5. /\ Spent(n) = Snap[n].units - Snap[0].units
        /\ Spent(n - 1) = Snap[n - 1].units - Snap[0].units
    BY <2>1, RowsSum
  <2>6. parts[n] = BuildCrossings(pct[n - 1], pct[n], Spent(n - 1), Spent(n), rows[n].iter)
    OBVIOUS
  <2> HIDE DEF parts, pct, Spent
  <2> QED
    BY <2>1, <2>4, <2>5, <2>6
<1> HIDE DEF parts, z
<1>5. ASSUME NEW n \in 1 .. Len(rows)
      PROVE  /\ parts[n] \in Seq(CrossingLines) /\ Len(parts[n]) = Snap[n].pct - Snap[n - 1].pct
             /\ \A c \in 1 .. Len(parts[n]) : /\ parts[n][c].k = Snap[n - 1].pct + c
                                              /\ parts[n][c].before <= parts[n][c].after
                                              /\ Through(z, parts[n][c])
  BY <1>4, RowRebuilt DEF z
<1>6. CASE Len(rows) = 0
  <2>1. Derived = << >>
    <3>1. Derived = parts
      BY <1>1, <1>2, <1>6 DEF FlattenSeq
    <3>2. parts = << >>
      BY <1>2, <1>6 DEF parts
    <3> QED
      BY <3>1, <3>2
  <2>2. << >> \in Seq(CrossingLines) /\ Len(<< >>) = 0 /\ 1 .. 0 = {}
    OBVIOUS
  <2>3. Rebuilt(<< >>, 0, z)
    BY <1>3, <2>2 DEF Rebuilt
  <2> QED
    BY <1>6, <2>1, <2>3 DEF z
<1>7. CASE Len(rows) # 0
  <2>1. PICK f : Flat(f, parts, Len(rows)) /\ Derived = f[Len(rows)]
    BY <1>1, <1>2, <1>7, FlattenIs
  <2> DEFINE Good == {m \in Nat : m \in 1 .. Len(rows) => Rebuilt(f[m], m, z)}
  <2>2. \A m \in 1 .. Len(rows) : f[m] = IF m = 1 THEN parts[m] ELSE f[m - 1] \o parts[m]
    BY <2>1 DEF Flat
  <2>3. 0 \in Good
    OBVIOUS
  <2>4. ASSUME NEW m \in Good \cap Nat PROVE m + 1 \in Good
    <3> SUFFICES ASSUME m + 1 \in 1 .. Len(rows) PROVE Rebuilt(f[m + 1], m + 1, z)
      OBVIOUS
    <3>1. (m + 1) - 1 = m
      OBVIOUS
    <3>2. /\ parts[m + 1] \in Seq(CrossingLines)
          /\ Len(parts[m + 1]) = Snap[m + 1].pct - Snap[m].pct
          /\ \A c \in 1 .. Len(parts[m + 1]) :
               /\ parts[m + 1][c].k = Snap[m].pct + c
               /\ parts[m + 1][c].before <= parts[m + 1][c].after
               /\ Through(z, parts[m + 1][c])
      BY <1>5, <3>1
    <3>3. Snap[m].pct \in Nat /\ Snap[m + 1].pct \in Nat
      <4>1. Snap[(m + 1) - 1].pct \in Nat /\ Snap[m + 1].pct \in Nat
        BY RowsClimb
      <4> QED
        BY <3>1, <4>1
    <3>4. CASE m = 0
      <4>1. f[m + 1] = parts[m + 1] /\ m + 1 = 1
        BY <2>2, <3>4
      <4> QED
        BY <3>2, <3>4, <4>1 DEF Rebuilt
    <3>5. CASE m # 0
      <4>1. m \in 1 .. Len(rows) /\ m + 1 # 1
        BY <1>2, <3>5
      <4>2. Rebuilt(f[m], m, z)
        BY <4>1
      <4>3. f[m + 1] = f[m] \o parts[m + 1]
        BY <2>2, <3>1, <4>1
      <4> HIDE DEF Good
      <4> QED
        BY <1>3, <3>2, <3>3, <4>2, <4>3, RebuiltExtends
    <3> QED
      BY <3>4, <3>5
  <2> HIDE DEF Good
  <2>5. Nat \subseteq Good
    BY <2>3, <2>4, NaturalsByInduction
  <2>6. Len(rows) \in Nat /\ Len(rows) \in 1 .. Len(rows)
    BY <1>2, <1>7
  <2> QED
    BY <2>1, <2>5, <2>6 DEF Good, z
<1> QED
  BY <1>6, <1>7

\* What a faithful run can rebuild.
LEMMA DerivedFacts ==
  ASSUME PInv, faithful
  PROVE  Consecutive(Derived) /\ \E z : Common(z, Derived)
<1>0. IInv /\ Grows /\ Follows /\ Numbered /\ ~replaced
  BY DEF PInv, Follows
<1>1. PICK q : Even(q)
  BY <1>0, FaithfulReads
<1>2. CASE manifest = NoManifest
  <2>1. rows = << >> /\ Len(rows) = 0
    BY <1>0, <1>2 DEF IInv, Recorded
  <2>2. Derived = << >>
    BY <2>1 DEF Derived, DeriveCrossings, FlattenSeq
  <2>3. Consecutive(<< >>) /\ Common(0, << >>)
    BY DEF Consecutive, Common
  <2> QED
    BY <2>2, <2>3
<1>3. CASE manifest # NoManifest
  <2>1. PICK z : z = q + Snap[0].units
    OBVIOUS
  <2>2. Rebuilt(Derived, Len(rows), z)
    BY <1>0, <1>1, <1>3, <2>1, DerivedIsRebuilt
  <2>3. z \in Int /\ Snap[0].pct \in Nat
    <3>1. 0 \in 0 .. Len(rows)
      BY <1>0, RowFacts
    <3>2. Snap[0].units \in Nat /\ Snap[0].pct \in Nat
      BY <1>0, <1>1, <1>3, <3>1, RowCharged
    <3> QED
      BY <1>1, <2>1, <3>2 DEF Even
  <2>4. PICK s : s = Derived
    OBVIOUS
  <2>5. /\ s \in Seq(CrossingLines)
        /\ \A c \in 1 .. Len(s) : s[c].k = Snap[0].pct + c /\ s[c].before <= s[c].after /\ Through(z, s[c])
    BY <2>2, <2>4 DEF Rebuilt
  <2>6. DOMAIN s = 1 .. Len(s) /\ Len(s) \in Nat /\ \A c \in 1 .. Len(s) : s[c] \in CrossingLines
    BY <2>5, LenProperties, ElementOfSeq
  <2>7. ASSUME NEW c \in DOMAIN s, NEW d \in DOMAIN s
        PROVE  s[d].k - s[c].k = d - c
    <3>1. s[d].k = Snap[0].pct + d /\ s[c].k = Snap[0].pct + c /\ c \in Nat /\ d \in Nat
      BY <2>5, <2>6
    <3> QED
      BY <2>3, <3>1
  <2>8. Consecutive(s)
    BY <2>5, <2>6, <2>7 DEF Consecutive
  <2>9. Common(z, s)
    BY <2>3, <2>5, <2>6 DEF Common
  <2> QED
    BY <2>4, <2>8, <2>9
<1> QED
  BY <1>2, <1>3

\* The crossings rebuilt from the rows admit the true cost of a tick, however often the run
\* was interrupted, killed and resumed, for every cost and every sequence of calls.
THEOREM DerivedEstimateIsSound == ProbeSpec => []DerivedSound
<1>1. PInv => DerivedSound
  <2> SUFFICES ASSUME PInv, faithful
               PROVE  ~Falls(rows, Percents) /\ TickUnits \in EstimateC(Derived, {TickUnits})
    BY DEF DerivedSound
  <2>1. TickUnits \in EstimateC(Derived, {TickUnits})
    BY DerivedFacts, EstimateHasTick
  <2>2. IInv /\ Grows /\ Follows /\ Numbered /\ ~replaced
    BY DEF PInv, Follows
  <2>3. PICK q : Even(q)
    BY <2>2, FaithfulReads
  <2>4. ASSUME NEW n \in DOMAIN rows
        PROVE  ~(Percents[n] < Percents[n - 1])
    <3>1. n \in 1 .. Len(rows) /\ manifest # NoManifest /\ n \in Nat /\ n - 1 \in Nat
      BY <2>2, RowFacts DEF IInv, Recorded
    <3>2. /\ n \in 0 .. Len(rows) /\ n - 1 \in 0 .. Len(rows)
          /\ Snap[n - 1].pct \in Nat /\ Snap[n].pct \in Nat /\ Snap[n - 1].pct <= Snap[n].pct
      BY <2>2, <2>3, <3>1, RowsClimb
    <3>3. SnapshotOf(n) = Snap[n] /\ SnapshotOf(n - 1) = Snap[n - 1]
      BY <2>2, <3>1, SnapOfRow
    <3> QED
      BY <3>2, <3>3 DEF Percents
  <2> QED
    BY <2>1, <2>4 DEF Falls
<1> QED
  BY <1>1, ProbeInductive, PTL

-----------------------------------------------------------------------------
(* The midpoints of the legacy estimate.                                   *)

\* Steps that are all steeper than h in d add up to more than h in d of them.
LEMMA Climbs ==
  ASSUME NEW d \in Nat \ {0}, NEW h \in Int, NEW w, \A j \in 0 .. d : w[j] \in Int,
         \A j \in 0 .. d - 1 : d * (w[j + 1] - w[j]) > h
  PROVE  w[d] - w[0] > h
<1> DEFINE Good == {n \in Nat : n <= d => d * (w[n] - w[0]) >= n * (h + 1)}
<1>1. w[0] \in Int
  OBVIOUS
<1>2. 0 \in Good
  <2>1. d * (w[0] - w[0]) = 0 /\ 0 * (h + 1) = 0
    BY <1>1
  <2> QED
    BY <2>1
<1>3. ASSUME NEW n \in Good \cap Nat PROVE n + 1 \in Good
  <2> SUFFICES ASSUME n + 1 <= d PROVE d * (w[n + 1] - w[0]) >= (n + 1) * (h + 1)
    OBVIOUS
  <2>1. d * (w[n] - w[0]) >= n * (h + 1)
    OBVIOUS
  <2> HIDE DEF Good
  <2>2. n \in 0 .. d /\ n + 1 \in 0 .. d /\ n \in 0 .. d - 1
    OBVIOUS
  <2>3. d * (w[n + 1] - w[n]) > h /\ w[n] \in Int /\ w[n + 1] \in Int
    BY <2>2
  <2>4. PICK x, y, z : x = w[0] /\ y = w[n] /\ z = w[n + 1]
    OBVIOUS
  <2>5. x \in Int /\ y \in Int /\ z \in Int
    BY <1>1, <2>3, <2>4
  <2>6. d * (z - x) = d * (z - y) + d * (y - x)
    <3>1. PICK e, f : e = z - y /\ f = y - x
      OBVIOUS
    <3>2. e \in Int /\ f \in Int /\ z - x = e + f
      BY <2>5, <3>1
    <3>3. d * (e + f) = d * e + d * f
      BY <3>2
    <3> QED
      BY <3>1, <3>2, <3>3
  <2>7. (n + 1) * (h + 1) = n * (h + 1) + (h + 1)
    OBVIOUS
  <2>8. d * (z - y) >= h + 1
    <3>1. d * (z - y) > h
      BY <2>3, <2>4
    <3>2. d * (z - y) \in Int
      BY <2>5
    <3> QED
      BY <3>1, <3>2
  <2>9. d * (y - x) >= n * (h + 1)
    BY <2>1, <2>4
  <2>10. d * (z - x) >= (n + 1) * (h + 1)
    <3>1. PICK p, q, r : p = d * (z - y) /\ q = d * (y - x) /\ r = n * (h + 1)
      OBVIOUS
    <3>2. p \in Int /\ q \in Int /\ r \in Int
      BY <2>5, <3>1
    <3>3. p + q >= r + (h + 1)
      BY <2>8, <2>9, <3>1, <3>2
    <3> QED
      BY <2>6, <2>7, <3>1, <3>3
  <2> QED
    BY <2>4, <2>10
<1> HIDE DEF Good
<1>4. Nat \subseteq Good
  BY <1>2, <1>3, NaturalsByInduction
<1>5. d * (w[d] - w[0]) >= d * (h + 1)
  BY <1>4 DEF Good
<1>6. PICK x : x = w[d] - w[0]
  OBVIOUS
<1>7. x \in Int
  <2>1. w[d] \in Int
    OBVIOUS
  <2> QED
    BY <1>1, <1>6, <2>1
<1>8. ASSUME ~(x > h) PROVE FALSE
  <2>1. PICK e \in Nat : e = h - x
    BY <1>7, <1>8
  <2>2. d * e >= 0
    BY <2>1
  <2>3. d * (h + 1) = (d * x + d * e) + d
    <3>1. h + 1 = (x + e) + 1
      BY <1>7, <2>1
    <3>2. d * ((x + e) + 1) = (d * x + d * e) + d
      BY <1>7, <2>1
    <3> QED
      BY <3>1, <3>2
  <2>4. d * x \in Int /\ d * e \in Int
    BY <1>7, <2>1
  <2> QED
    BY <1>5, <1>6, <2>2, <2>3, <2>4
<1> QED
  BY <1>6, <1>8

\* Where the percents have no gap, no pair excludes all the midpoints: those between its
\* two crossings add up to what lies within its bounds.
LEMMA ConsecutiveGate ==
  ASSUME NEW s, Consecutive(s)
  PROVE  \A p \in Intervals(s) : /\ \E m \in LegacyMidpoints(s) : p.dk * m <= 2 * p.hi
                               /\ \E m \in LegacyMidpoints(s) : 2 * p.lo <= p.dk * m
<1> DEFINE w == [i \in DOMAIN s |-> s[i].before + s[i].after]
<1>1. s \in Seq(CrossingLines) /\ DOMAIN s = 1 .. Len(s) /\ Len(s) \in Nat
  BY LenProperties DEF Consecutive
<1>2. \A i \in DOMAIN s : s[i].before \in Int /\ s[i].after \in Int /\ s[i].k \in Int
                          /\ s[i].before <= s[i].after /\ w[i] \in Int
  <2>1. \A i \in DOMAIN s : s[i] \in CrossingLines
    BY <1>1
  <2> QED
    BY <2>1 DEF CrossingLines, Consecutive
<1>3. ASSUME NEW i \in DOMAIN s, i + 1 \in DOMAIN s
      PROVE  w[i + 1] - w[i] \in LegacyMidpoints(s)
  <2>1. s[i + 1].k - s[i].k = 1
    <3>1. s[i + 1].k - s[i].k = (i + 1) - i /\ i \in Nat
      BY <1>1, <1>3 DEF Consecutive
    <3> QED
      BY <3>1
  <2>2. i \in 1 .. Len(s) - 1
    BY <1>1, <1>3
  <2>3. w[i + 1] - w[i] = (s[i + 1].before - s[i].after) + (s[i + 1].after - s[i].before)
    BY <1>2, <1>3
  <2> HIDE DEF w
  <2> QED
    BY <2>1, <2>2, <2>3 DEF LegacyMidpoints
<1>4. SUFFICES ASSUME NEW p \in Intervals(s)
               PROVE  /\ \E m \in LegacyMidpoints(s) : p.dk * m <= 2 * p.hi
                      /\ \E m \in LegacyMidpoints(s) : 2 * p.lo <= p.dk * m
  OBVIOUS
<1>5. PICK a \in DOMAIN s, b \in DOMAIN s : a < b /\ p = Interval(s[a], s[b])
  <2>1. PICK x \in Pairs(s) : p = Interval(s[x[1]], s[x[2]])
    BY DEF Intervals
  <2>2. x[1] \in DOMAIN s /\ x[2] \in DOMAIN s /\ x[1] < x[2]
    BY DEF Pairs
  <2> QED
    BY <2>1, <2>2
<1>6. PICK d \in Nat \ {0} : d = b - a
  BY <1>1, <1>5
<1>7. p.dk = d /\ p.lo = s[b].before - s[a].after /\ p.hi = s[b].after - s[a].before
  BY <1>5, <1>6 DEF Interval, Consecutive
<1>8. PICK lo \in Int, hi \in Int : lo = p.lo /\ hi = p.hi
  BY <1>2, <1>7
<1>9. 2 * lo <= w[b] - w[a] /\ w[b] - w[a] <= 2 * hi
  BY <1>2, <1>7, <1>8
<1> DEFINE rise   == [j \in 0 .. d |-> w[a + j]]
           fall == [j \in 0 .. d |-> 0 - w[a + j]]
<1> HIDE DEF w
<1>10. \A j \in 0 .. d : a + j \in DOMAIN s /\ rise[j] \in Int /\ fall[j] \in Int /\ fall[j] = 0 - rise[j]
  BY <1>1, <1>2, <1>6
<1>11. /\ rise[0] = w[a] /\ rise[d] = w[b] /\ fall[0] = 0 - w[a] /\ fall[d] = 0 - w[b]
       /\ w[a] \in Int /\ w[b] \in Int
  <2>1. a + 0 = a /\ a + d = b /\ 0 \in 0 .. d /\ d \in 0 .. d
    BY <1>1, <1>6
  <2> QED
    BY <1>2, <2>1
<1>12. ASSUME NEW j \in 0 .. d - 1
       PROVE  /\ rise[j + 1] - rise[j] \in LegacyMidpoints(s)
              /\ fall[j + 1] - fall[j] = 0 - (rise[j + 1] - rise[j])
              /\ rise[j + 1] - rise[j] \in Int
  <2>1. j \in 0 .. d /\ j + 1 \in 0 .. d /\ (a + j) + 1 = a + (j + 1)
    BY <1>1, <1>6
  <2>2. a + j \in DOMAIN s /\ (a + j) + 1 \in DOMAIN s
    BY <1>10, <2>1
  <2>3. w[(a + j) + 1] - w[a + j] \in LegacyMidpoints(s)
    BY <1>3, <2>2
  <2>4. rise[j] = w[a + j] /\ rise[j + 1] = w[a + (j + 1)]
    BY <2>1
  <2>5. /\ rise[j] \in Int /\ rise[j + 1] \in Int
        /\ fall[j] = 0 - rise[j] /\ fall[j + 1] = 0 - rise[j + 1]
    BY <1>10, <2>1
  <2> HIDE DEF rise, fall
  <2> QED
    BY <2>1, <2>3, <2>4, <2>5
<1> HIDE DEF rise, fall
<1>13. \E m \in LegacyMidpoints(s) : d * m <= 2 * hi
  <2> SUFFICES ASSUME \A m \in LegacyMidpoints(s) : ~(d * m <= 2 * hi) PROVE FALSE
    OBVIOUS
  <2>1. \A j \in 0 .. d - 1 : d * (rise[j + 1] - rise[j]) > 2 * hi
    <3> SUFFICES ASSUME NEW j \in 0 .. d - 1 PROVE d * (rise[j + 1] - rise[j]) > 2 * hi
      OBVIOUS
    <3>1. PICK m : m = rise[j + 1] - rise[j]
      OBVIOUS
    <3>2. m \in Int /\ ~(d * m <= 2 * hi)
      BY <1>12, <3>1
    <3>3. d * m \in Int
      BY <3>2
    <3> QED
      BY <3>1, <3>2, <3>3
  <2>2. 2 * hi \in Int /\ \A j \in 0 .. d : rise[j] \in Int
    BY <1>10
  <2>3. rise[d] - rise[0] > 2 * hi
    BY <2>1, <2>2, Climbs
  <2> QED
    BY <1>9, <1>11, <2>3
<1>14. \E m \in LegacyMidpoints(s) : 2 * lo <= d * m
  <2> SUFFICES ASSUME \A m \in LegacyMidpoints(s) : ~(2 * lo <= d * m) PROVE FALSE
    OBVIOUS
  <2>1. \A j \in 0 .. d - 1 : d * (fall[j + 1] - fall[j]) > 0 - 2 * lo
    <3> SUFFICES ASSUME NEW j \in 0 .. d - 1 PROVE d * (fall[j + 1] - fall[j]) > 0 - 2 * lo
      OBVIOUS
    <3>1. PICK m : m = rise[j + 1] - rise[j]
      OBVIOUS
    <3>2. m \in Int /\ ~(2 * lo <= d * m) /\ fall[j + 1] - fall[j] = 0 - m
      BY <1>12, <3>1
    <3>3. d * m \in Int /\ d * (0 - m) = 0 - d * m
      BY <3>2
    <3>4. d * (0 - m) > 0 - 2 * lo
      BY <3>2, <3>3
    <3> QED
      BY <3>2, <3>4
  <2>2. 0 - 2 * lo \in Int /\ \A j \in 0 .. d : fall[j] \in Int
    BY <1>10
  <2>3. fall[d] - fall[0] > 0 - 2 * lo
    BY <2>1, <2>2, Climbs
  <2> QED
    BY <1>9, <1>11, <2>3
<1> QED
  BY <1>7, <1>8, <1>13, <1>14

-----------------------------------------------------------------------------
(* The recorded crossings of a run that was not resumed.                   *)

\* Percents that grow and leave none out are consecutive.
LEMMA NoGap ==
  ASSUME NEW n \in Nat, NEW k, \A c \in 1 .. n : k[c] \in Int,
         \A c \in 1 .. n : c + 1 \in 1 .. n => k[c + 1] = k[c] + 1
  PROVE  \A c, d \in 1 .. n : k[d] - k[c] = d - c
<1> DEFINE Good == {m \in Nat : m + 1 <= n => k[m + 1] = k[1] + m}
<1>1. 0 \in Good
  <2> SUFFICES ASSUME 1 <= n PROVE k[1] = k[1] + 0
    OBVIOUS
  <2>1. k[1] \in Int
    OBVIOUS
  <2> QED
    BY <2>1
<1>2. ASSUME NEW m \in Good \cap Nat PROVE m + 1 \in Good
  <2> SUFFICES ASSUME (m + 1) + 1 <= n PROVE k[(m + 1) + 1] = k[1] + (m + 1)
    OBVIOUS
  <2>1. k[m + 1] = k[1] + m
    OBVIOUS
  <2> HIDE DEF Good
  <2>2. m + 1 \in 1 .. n /\ (m + 1) + 1 \in 1 .. n /\ 1 \in 1 .. n
    OBVIOUS
  <2>3. k[(m + 1) + 1] = k[m + 1] + 1 /\ k[1] \in Int
    BY <2>2
  <2> QED
    BY <2>1, <2>3
<1> HIDE DEF Good
<1>3. Nat \subseteq Good
  BY <1>1, <1>2, NaturalsByInduction
<1>4. ASSUME NEW c \in 1 .. n PROVE k[c] = k[1] + (c - 1) /\ k[1] \in Int
  <2>1. c - 1 \in Nat /\ (c - 1) + 1 = c /\ 1 \in 1 .. n
    OBVIOUS
  <2>2. k[(c - 1) + 1] = k[1] + (c - 1)
    BY <1>3, <2>1 DEF Good
  <2> QED
    BY <2>1, <2>2
<1> QED
  <2> SUFFICES ASSUME NEW c \in 1 .. n, NEW d \in 1 .. n PROVE k[d] - k[c] = d - c
    OBVIOUS
  <2>1. k[c] = k[1] + (c - 1) /\ k[d] = k[1] + (d - 1) /\ k[1] \in Int
    BY <1>4
  <2> QED
    BY <2>1

LEMMA LiveConsecutive ==
  ASSUME PInv, faithful, resumes = 0, constraints # << >>
  PROVE  Consecutive(constraints)
<1>0. /\ IInv /\ Grows /\ Lines /\ Follows /\ Cuts /\ Numbered /\ ~replaced
  BY DEF PInv, Follows
<1>1. PICK q : Even(q)
  BY <1>0, FaithfulReads
<1>2. /\ constraints \in Seq(CrossingLines) /\ Len(constraints) \in Nat
      /\ DOMAIN constraints = 1 .. Len(constraints)
      /\ Len(rows) \in Nat /\ DOMAIN rows = 1 .. Len(rows)
  BY <1>0, RowFacts
<1>3. PICK lines : lines = constraints
  OBVIOUS
<1>4. ASSUME NEW c \in 1 .. Len(lines)
      PROVE  /\ lines[c].iter \in 1 .. Len(rows) /\ lines[c].k \in Int
             /\ lines[c].before \in Int /\ lines[c].after \in Int
             /\ Snap[lines[c].iter - 1].pct < lines[c].k /\ lines[c].k <= Snap[lines[c].iter].pct
             /\ lines[c].before <= lines[c].after
  <2>1. LineFits(lines[c], Snap, rows) /\ lines[c] \in CrossingLines
    BY <1>0, <1>2, <1>3 DEF Lines
  <2>2. PICK n : n = lines[c].iter
    OBVIOUS
  <2>3. n \in 1 .. Len(rows) /\ manifest # NoManifest
    BY <1>0, <1>2, <2>1, <2>2 DEF LineFits, IInv, Recorded
  <2>4. Snap[n - 1].pct \in Nat /\ Snap[n].pct \in Nat /\ rows[n].units \in Nat
    BY <1>0, <1>1, <2>3, RowsClimb
  <2>5. /\ lines[c].k \in Snap[n - 1].pct + 1 .. Snap[n].pct
        /\ lines[c].after - lines[c].before = rows[n].units
    BY <2>1, <2>2 DEF LineFits
  <2>6. lines[c].k \in Int /\ lines[c].before \in Int /\ lines[c].after \in Int
    BY <2>1 DEF CrossingLines
  <2>7. Snap[n - 1].pct < lines[c].k /\ lines[c].k <= Snap[n].pct
    <3>1. PICK x, y, k : x = Snap[n - 1].pct /\ y = Snap[n].pct /\ k = lines[c].k
      OBVIOUS
    <3> QED
      BY <2>4, <2>5, <2>6, <3>1
  <2>8. lines[c].before <= lines[c].after
    <3>1. PICK x, y, u : x = lines[c].before /\ y = lines[c].after /\ u = rows[n].units
      OBVIOUS
    <3> QED
      BY <2>4, <2>5, <2>6, <3>1
  <2> QED
    BY <2>2, <2>3, <2>6, <2>7, <2>8
<1>5. 1 \in 1 .. Len(lines)
  <2>1. Len(lines) # 0
    BY <1>2, <1>3
  <2> QED
    BY <1>2, <1>3, <2>1
<1>6. manifest # NoManifest
  <2>1. rows # << >>
    BY <1>2, <1>4, <1>5
  <2> QED
    BY <1>0, <2>1 DEF IInv, Recorded
<1>7. ASSUME NEW i \in 0 .. Len(rows), NEW j \in 0 .. Len(rows), i <= j
      PROVE  Snap[i].pct <= Snap[j].pct /\ Snap[i].pct \in Nat /\ Snap[j].pct \in Nat
  <2>1. /\ Snap[i] = snapshots[i + 1] /\ i + 1 \in 1 .. Len(snapshots)
        /\ Snap[j] = snapshots[j + 1] /\ j + 1 \in 1 .. Len(snapshots)
    BY <1>6, SnapshotsByRow
  <2>2. DOMAIN snapshots = 1 .. Len(snapshots)
    BY <1>0, SnapshotFacts
  <2>3. snapshots[i + 1].pct <= snapshots[j + 1].pct
    BY <1>1, <1>2, <1>7, <2>1, <2>2 DEF Even
  <2>4. Snap[i].pct \in Nat /\ Snap[j].pct \in Nat
    BY <1>0, <1>1, <1>6, RowCharged
  <2> QED
    BY <2>1, <2>3, <2>4
<1>8. ASSUME NEW c \in 1 .. Len(lines), NEW d \in 1 .. Len(lines), c < d
      PROVE  lines[c].k < lines[d].k
  <2>1. \/ lines[c].iter < lines[d].iter
        \/ lines[c].iter = lines[d].iter /\ lines[c].k < lines[d].k
    BY <1>0, <1>2, <1>3, <1>8 DEF Lines, InOrder
  <2>2. CASE lines[c].iter < lines[d].iter
    <3>1. PICK m, n : m = lines[c].iter /\ n = lines[d].iter
      OBVIOUS
    <3>2. m \in 1 .. Len(rows) /\ n \in 1 .. Len(rows) /\ m < n
      BY <1>4, <2>2, <3>1
    <3>3. m \in 0 .. Len(rows) /\ n - 1 \in 0 .. Len(rows) /\ m <= n - 1
      BY <1>2, <3>2
    <3>4. Snap[m].pct <= Snap[n - 1].pct /\ Snap[m].pct \in Nat /\ Snap[n - 1].pct \in Nat
      BY <1>7, <3>3
    <3>5. /\ lines[c].k <= Snap[m].pct /\ Snap[n - 1].pct < lines[d].k
          /\ lines[c].k \in Int /\ lines[d].k \in Int
      BY <1>4, <3>1
    <3> QED
      BY <3>4, <3>5
  <2> QED
    BY <2>1, <2>2
<1>9. ASSUME NEW c \in 1 .. Len(lines), c + 1 \in 1 .. Len(lines)
      PROVE  lines[c + 1].k = lines[c].k + 1
  <2>1. lines[c].k \in Int /\ lines[c + 1].k \in Int /\ lines[c].k < lines[c + 1].k
    BY <1>2, <1>3, <1>4, <1>8, <1>9
  <2> SUFFICES ASSUME lines[c].k + 1 < lines[c + 1].k PROVE FALSE
    BY <2>1
  <2>2. PICK k \in Int : k = lines[c].k + 1
    BY <2>1
  <2>3. PICK m, n : m = lines[c].iter /\ n = lines[c + 1].iter
    OBVIOUS
  <2>4. /\ m \in 1 .. Len(rows) /\ n \in 1 .. Len(rows)
        /\ Snap[m - 1].pct < lines[c].k /\ lines[c + 1].k <= Snap[n].pct
    BY <1>4, <1>9, <2>3
  <2>5. /\ 0 \in 0 .. Len(rows) /\ m - 1 \in 0 .. Len(rows) /\ 0 <= m - 1 /\ n \in 0 .. Len(rows)
        /\ n \in Nat
    BY <1>2, <2>4
  <2>6. Snap[0].pct <= Snap[m - 1].pct /\ Snap[0].pct \in Nat /\ Snap[m - 1].pct \in Nat
    BY <1>7, <2>5
  <2>7. Snap[n].pct \in Nat
    BY <1>7, <2>5
  <2>8. k \in Nat /\ Snap[0].pct < k /\ k <= Snap[n].pct
    <3>1. PICK x, y, z, l, t : /\ x = Snap[0].pct /\ y = Snap[m - 1].pct /\ z = Snap[n].pct
                               /\ l = lines[c].k /\ t = lines[c + 1].k
      OBVIOUS
    <3>2. /\ x \in Nat /\ y \in Nat /\ z \in Nat /\ l \in Int /\ t \in Int
          /\ x <= y /\ y < l /\ k = l + 1 /\ l + 1 < t /\ t <= z
      BY <2>1, <2>2, <2>4, <2>6, <2>7, <3>1
    <3>3. k \in Nat /\ x < k /\ k <= z
      BY <3>2
    <3> QED
      BY <3>1, <3>3
  <2> DEFINE f == [i \in 0 .. Len(rows) |-> Snap[i].pct]
  <2>9. \A i \in 0 .. n : i \in 0 .. Len(rows) /\ f[i] \in Nat
    <3> SUFFICES ASSUME NEW i \in 0 .. n PROVE i \in 0 .. Len(rows) /\ f[i] \in Nat
      OBVIOUS
    <3>1. i \in 0 .. Len(rows) /\ i <= i
      BY <1>2, <2>4
    <3>2. Snap[i].pct \in Nat
      BY <1>7, <3>1
    <3> QED
      BY <3>1, <3>2
  <2>10. f[0] < k /\ k <= f[n]
    BY <2>5, <2>8
  <2>11. \A i \in 0 .. Len(rows) : f[i] = Snap[i].pct
    OBVIOUS
  <2> HIDE DEF f
  <2>12. PICK i \in 1 .. n : f[i - 1] < k /\ k <= f[i]
    BY <2>5, <2>8, <2>9, <2>10, FirstPast
  <2>13. /\ i \in 1 .. Len(rows) /\ i \in 0 .. Len(rows) /\ i - 1 \in 0 .. Len(rows) /\ i <= n
    BY <1>2, <2>4
  <2>14. Snap[i - 1].pct < k /\ k <= Snap[i].pct /\ Snap[i - 1].pct \in Nat /\ Snap[i].pct \in Nat
    <3>1. Snap[i - 1].pct \in Nat /\ Snap[i].pct \in Nat
      BY <1>0, <1>1, <1>6, <2>13, RowCharged
    <3> QED
      BY <2>11, <2>12, <2>13, <3>1
  <2>15. i \notin cut
    <3>1. cut \subseteq {Len(rows)} /\ n \notin cut
      BY <1>0, <1>2, <1>3, <1>9, <2>3 DEF Cuts
    <3>2. i = Len(rows) => i = n
      BY <1>2, <2>4, <2>13
    <3> QED
      BY <3>1, <3>2
  <2>16. pc = "crossing" => i # iter
    <3> SUFFICES ASSUME pc = "crossing" PROVE i # iter
      OBVIOUS
    <3>1. n < iter
      BY <1>0, <1>2, <1>3, <1>9, <2>3 DEF Lines
    <3>2. iter \in Nat
      BY <1>0 DEF IInv, Types, MemoryTypes
    <3> QED
      BY <2>4, <2>13, <3>1, <3>2
  <2>17. Covered(i, lines, Snap)
    BY <1>0, <1>2, <1>3, <2>13, <2>15, <2>16 DEF Lines
  <2>18. k \in Snap[i - 1].pct + 1 .. Snap[i].pct
    BY <2>8, <2>14
  <2>19. PICK e \in DOMAIN lines : lines[e].k = k
    BY <2>17, <2>18 DEF Covered
  <2>20. e \in 1 .. Len(lines)
    BY <1>2, <1>3
  <2>21. e <= c \/ c + 1 <= e
    BY <2>20
  <2>22. CASE e <= c
    <3>1. lines[e].k <= lines[c].k
      <4>1. e = c \/ e < c
        BY <2>20, <2>22
      <4> QED
        BY <1>8, <2>1, <2>20, <4>1, <2>19
    <3> QED
      BY <2>1, <2>2, <2>19, <3>1
  <2>23. CASE c + 1 <= e
    <3>1. lines[c + 1].k <= lines[e].k
      <4>1. e = c + 1 \/ c + 1 < e
        BY <2>20, <2>23
      <4> QED
        BY <1>8, <1>9, <2>1, <2>2, <2>20, <2>19, <4>1
    <3> QED
      BY <2>1, <2>2, <2>19, <3>1
  <2> QED
    BY <2>21, <2>22, <2>23
<1>10. \A c, d \in 1 .. Len(lines) : lines[d].k - lines[c].k = d - c
  <2> DEFINE k == [c \in 1 .. Len(lines) |-> lines[c].k]
  <2>1. \A c \in 1 .. Len(lines) : k[c] = lines[c].k
    OBVIOUS
  <2> HIDE DEF k
  <2>2. /\ \A c \in 1 .. Len(lines) : k[c] \in Int
        /\ \A c \in 1 .. Len(lines) : c + 1 \in 1 .. Len(lines) => k[c + 1] = k[c] + 1
    BY <1>4, <1>9, <2>1
  <2>3. Len(lines) \in Nat
    BY <1>2, <1>3
  <2>4. \A c, d \in 1 .. Len(lines) : k[d] - k[c] = d - c
    <3>1. PICK n \in Nat : n = Len(lines)
      BY <2>3
    <3>2. /\ \A c \in 1 .. n : k[c] \in Int
          /\ \A c \in 1 .. n : c + 1 \in 1 .. n => k[c + 1] = k[c] + 1
      BY <2>2, <3>1
    <3>3. \A c, d \in 1 .. n : k[d] - k[c] = d - c
      BY <3>2, NoGap
    <3> QED
      BY <3>1, <3>3
  <2> QED
    BY <2>1, <2>4
<1> QED
  <2>1. \A c \in 1 .. Len(lines) : lines[c].before <= lines[c].after
    BY <1>4
  <2> QED
    BY <1>2, <1>3, <1>10, <2>1 DEF Consecutive

-----------------------------------------------------------------------------
(* The result panel.                                                       *)

\* The rows of one block, x + 1 to y of those behind row r.
Tile(r, x, y) == [j \in 1 .. y - x |-> r + x + j]

LEMMA TileIs ==
  ASSUME NEW r, NEW x, NEW y, r \in Nat, x \in Nat, y \in Nat, x <= y
  PROVE  /\ Tile(r, x, y) \in Seq(Nat) /\ Len(Tile(r, x, y)) = y - x
         /\ DOMAIN Tile(r, x, y) = 1 .. y - x
         /\ \A j \in 1 .. y - x : Tile(r, x, y)[j] = r + x + j
<1>1. y - x \in Nat /\ \A j \in 1 .. y - x : r + x + j \in Nat
  OBVIOUS
<1>2. Tile(r, x, y) \in [1 .. y - x -> Nat]
  BY <1>1 DEF Tile
<1>3. Tile(r, x, y) \in Seq(Nat)
  BY <1>1, <1>2
<1> QED
  BY <1>1, <1>2, <1>3, LenProperties DEF Tile

\* Nothing, and the next row.
LEMMA TileEnds ==
  ASSUME NEW r, NEW x, r \in Nat, x \in Nat
  PROVE  /\ Tile(r, x, x) = << >>
         /\ \A y \in Nat : x <= y => Append(Tile(r, x, y), r + y + 1) = Tile(r, x, y + 1)
<1>1. Tile(r, x, x) = << >>
  BY DEF Tile
<1>2. ASSUME NEW y \in Nat, x <= y
      PROVE  Append(Tile(r, x, y), r + y + 1) = Tile(r, x, y + 1)
  <2> DEFINE t == Tile(r, x, y)
             u == Tile(r, x, y + 1)
             v == Append(t, r + y + 1)
  <2>1. /\ t \in Seq(Nat) /\ Len(t) = y - x /\ \A j \in 1 .. y - x : t[j] = r + x + j
        /\ u \in Seq(Nat) /\ Len(u) = y - x + 1 /\ \A j \in 1 .. y - x + 1 : u[j] = r + x + j
    <3>1. y + 1 \in Nat /\ x <= y + 1 /\ (y + 1) - x = y - x + 1
      BY <1>2
    <3>2. t \in Seq(Nat) /\ Len(t) = y - x /\ \A j \in 1 .. y - x : t[j] = r + x + j
      BY <1>2, TileIs DEF Tile
    <3>3. u \in Seq(Nat) /\ Len(u) = (y + 1) - x /\ \A j \in 1 .. (y + 1) - x : u[j] = r + x + j
      BY <3>1, TileIs DEF Tile
    <3> QED
      BY <3>1, <3>2, <3>3
  <2>2. r + y + 1 \in Nat
    OBVIOUS
  <2> HIDE DEF t, u
  <2>3. /\ v \in Seq(Nat) /\ Len(v) = Len(t) + 1
        /\ \A j \in 1 .. Len(t) : v[j] = t[j]
        /\ v[Len(t) + 1] = r + y + 1
    <3>1. /\ v \in Seq(Nat) /\ Len(v) = Len(t) + 1
          /\ \A j \in 1 .. Len(t) : v[j] = t[j]
      BY <2>1, <2>2, AppendProperties
    <3>2. v[Len(t) + 1] = r + y + 1
      BY <2>1, <2>2, AppendProperties
    <3> QED
      BY <3>1, <3>2
  <2> HIDE DEF v
  <2>4. ASSUME NEW j \in 1 .. y - x + 1 PROVE v[j] = u[j]
    <3>1. j \in 1 .. y - x \/ j = y - x + 1
      BY <1>2
    <3>2. CASE j \in 1 .. y - x
      BY <2>1, <2>3, <3>2
    <3>3. CASE j = y - x + 1
      <4>1. r + x + j = r + y + 1
        BY <1>2, <3>3
      <4>2. v[j] = r + y + 1 /\ u[j] = r + x + j
        BY <2>1, <2>3, <3>3
      <4> QED
        BY <4>1, <4>2
    <3> QED
      BY <3>1, <3>2, <3>3
  <2>5. v = u
    BY <2>1, <2>3, <2>4, SeqEqual
  <2> QED
    BY <2>5 DEF v, u, t
<1> QED
  BY <1>1, <1>2

\* Two blocks end to end.
LEMMA TilesJoin ==
  ASSUME NEW r, NEW x, NEW y, NEW z, r \in Nat, x \in Nat, y \in Nat, z \in Nat,
         x <= y, y <= z
  PROVE  Tile(r, x, y) \o Tile(r, y, z) = Tile(r, x, z)
<1> DEFINE t == Tile(r, x, y)
           u == Tile(r, y, z)
           w == Tile(r, x, z)
           v == t \o u
<1>1. /\ t \in Seq(Nat) /\ Len(t) = y - x /\ \A j \in 1 .. y - x : t[j] = r + x + j
      /\ u \in Seq(Nat) /\ Len(u) = z - y /\ \A j \in 1 .. z - y : u[j] = r + y + j
      /\ w \in Seq(Nat) /\ Len(w) = z - x /\ \A j \in 1 .. z - x : w[j] = r + x + j
  <2>1. t \in Seq(Nat) /\ Len(t) = y - x /\ \A j \in 1 .. y - x : t[j] = r + x + j
    BY TileIs DEF Tile
  <2>2. u \in Seq(Nat) /\ Len(u) = z - y /\ \A j \in 1 .. z - y : u[j] = r + y + j
    BY TileIs DEF Tile
  <2>3. w \in Seq(Nat) /\ Len(w) = z - x /\ \A j \in 1 .. z - x : w[j] = r + x + j
    <3>1. x <= z
      OBVIOUS
    <3> QED
      BY <3>1, TileIs DEF Tile
  <2> QED
    BY <2>1, <2>2, <2>3
<1> HIDE DEF t, u, w
<1>2. v \in Seq(Nat) /\ Len(v) = (y - x) + (z - y)
  <2>1. v \in Seq(Nat) /\ Len(v) = Len(t) + Len(u)
    BY <1>1, ConcatProperties
  <2> QED
    BY <1>1, <2>1
<1>3. \A j \in 1 .. Len(t) + Len(u) : v[j] = IF j <= Len(t) THEN t[j] ELSE u[j - Len(t)]
  BY <1>1, ConcatProperties
<1> HIDE DEF v
<1>4. (y - x) + (z - y) = z - x
  OBVIOUS
<1>5. ASSUME NEW j \in 1 .. z - x PROVE v[j] = w[j]
  <2>1. v[j] = IF j <= y - x THEN t[j] ELSE u[j - (y - x)]
    BY <1>1, <1>3, <1>4
  <2>2. CASE j <= y - x
    <3>1. j \in 1 .. y - x
      BY <2>2
    <3> QED
      BY <1>1, <2>1, <2>2, <3>1
  <2>3. CASE ~(j <= y - x)
    <3>1. j - (y - x) \in 1 .. z - y /\ r + y + (j - (y - x)) = r + x + j
      BY <2>3
    <3>2. u[j - (y - x)] = r + y + (j - (y - x)) /\ w[j] = r + x + j
      BY <1>1, <3>1
    <3> QED
      BY <2>1, <2>3, <3>1, <3>2
  <2> QED
    BY <2>2, <2>3
<1>6. v = w
  BY <1>1, <1>2, <1>4, <1>5, SeqEqual
<1> QED
  BY <1>6 DEF t, u, v, w

LEMMA EndsJoin ==
  ASSUME NEW r, NEW e, NEW m, r \in Nat, e[0] \in Nat, e[m] \in Nat, e[m + 1] \in Nat,
         e[0] <= e[m], e[m] <= e[m + 1]
  PROVE  Tile(r, e[0], e[m]) \o Tile(r, e[m], e[m + 1]) = Tile(r, e[0], e[m + 1])
  BY TilesJoin

\* Blocks that begin where the ones before them end.
InARow(r, n, s, e) ==
  /\ r \in Nat /\ n \in Nat /\ Len(s) = n /\ (n = 0 => s = << >>)
  /\ \A i \in 0 .. n : e[i] \in Nat
  /\ \A i \in 1 .. n : e[i - 1] <= e[i]
  /\ \A i \in 1 .. n : s[i] = Tile(r, e[i - 1], e[i])

\* They are all the rows together.
LEMMA TilesFlatten ==
  ASSUME NEW r, NEW n, NEW s, NEW e, InARow(r, n, s, e)
  PROVE  FlattenSeq(s) = Tile(r, e[0], e[n]) /\ e[0] <= e[n]
<1> USE DEF InARow
<1>1. CASE n = 0
  <2>1. FlattenSeq(s) = << >>
    BY <1>1 DEF FlattenSeq
  <2>2. e[0] \in Nat
    OBVIOUS
  <2> QED
    BY <1>1, <2>1, <2>2, TileEnds
<1>2. CASE n # 0
  <2>1. PICK f : Flat(f, s, n) /\ FlattenSeq(s) = f[n]
    BY <1>2, FlattenIs
  <2> DEFINE Good == {m \in Nat : m \in 1 .. n => f[m] = Tile(r, e[0], e[m]) /\ e[0] <= e[m]}
  <2>2. 0 \in Good
    OBVIOUS
  <2>3. ASSUME NEW m \in Good \cap Nat PROVE m + 1 \in Good
    <3> SUFFICES ASSUME m + 1 \in 1 .. n
                 PROVE  f[m + 1] = Tile(r, e[0], e[m + 1]) /\ e[0] <= e[m + 1]
      OBVIOUS
    <3>1. f[m + 1] = IF m + 1 = 1 THEN s[m + 1] ELSE f[(m + 1) - 1] \o s[m + 1]
      BY <2>1 DEF Flat
    <3>2. /\ (m + 1) - 1 = m /\ 0 \in 0 .. n /\ m \in 0 .. n /\ m + 1 \in 0 .. n
          /\ s[m + 1] = Tile(r, e[m], e[m + 1]) /\ e[m] <= e[m + 1]
      OBVIOUS
    <3>3. e[0] \in Nat /\ e[m] \in Nat /\ e[m + 1] \in Nat
      BY <3>2
    <3>4. CASE m = 0
      BY <3>1, <3>2, <3>4
    <3>5. CASE m # 0
      <4>1. m \in 1 .. n /\ m + 1 # 1
        BY <3>5
      <4>2. f[m] = Tile(r, e[0], e[m]) /\ e[0] <= e[m]
        BY <4>1
      <4>3. f[m + 1] = Tile(r, e[0], e[m]) \o Tile(r, e[m], e[m + 1])
        BY <3>1, <3>2, <4>1, <4>2
      <4>4. e[0] <= e[m + 1]
        BY <3>2, <3>3, <4>2
      <4>5. Tile(r, e[0], e[m]) \o Tile(r, e[m], e[m + 1]) = Tile(r, e[0], e[m + 1])
        <5>1. r \in Nat /\ e[m] <= e[m + 1]
          BY <3>2
        <5> QED
          BY <3>3, <4>2, <5>1, EndsJoin
      <4> QED
        BY <4>3, <4>4, <4>5
    <3> QED
      BY <3>4, <3>5
  <2> HIDE DEF Good
  <2>4. Nat \subseteq Good
    BY <2>2, <2>3, NaturalsByInduction
  <2> QED
    BY <1>2, <2>1, <2>4 DEF Good
<1> QED
  BY <1>1, <1>2

\* The values of w behind a, up to k.
Slice(w, a, k) == [i \in 1 .. k - a |-> w[a + i]]

LEMMA SliceGrows ==
  ASSUME NEW w, NEW a, NEW k, a \in Nat, k \in Nat, a < k,
         \A i \in 1 .. k : w[i] \in Seq(Nat)
  PROVE  Append(Slice(w, a, k - 1), w[k]) = Slice(w, a, k)
<1> DEFINE t == Slice(w, a, k - 1)
           u == Slice(w, a, k)
           v == Append(t, w[k])
<1>1. /\ (k - 1) - a \in Nat /\ k - a = ((k - 1) - a) + 1
      /\ \A i \in 1 .. k - a : a + i \in 1 .. k /\ w[a + i] \in Seq(Nat)
  <2>1. \A i \in 1 .. k - a : a + i \in 1 .. k
    OBVIOUS
  <2> QED
    BY <2>1
<1>2. /\ t \in Seq(Seq(Nat)) /\ Len(t) = (k - 1) - a
      /\ \A i \in 1 .. (k - 1) - a : t[i] = w[a + i]
  <2>1. t \in [1 .. (k - 1) - a -> Seq(Nat)]
    BY <1>1 DEF Slice
  <2>2. t \in Seq(Seq(Nat))
    BY <1>1, <2>1
  <2> QED
    BY <1>1, <2>1, <2>2, LenProperties DEF Slice
<1>3. /\ u \in Seq(Seq(Nat)) /\ Len(u) = k - a
      /\ \A i \in 1 .. k - a : u[i] = w[a + i]
  <2>1. u \in [1 .. k - a -> Seq(Nat)]
    BY <1>1 DEF Slice
  <2>2. u \in Seq(Seq(Nat))
    BY <1>1, <2>1
  <2> QED
    BY <1>1, <2>1, <2>2, LenProperties DEF Slice
<1>4. w[k] \in Seq(Nat)
  OBVIOUS
<1> HIDE DEF t, u
<1>5. /\ v \in Seq(Seq(Nat)) /\ Len(v) = Len(t) + 1
      /\ \A i \in 1 .. Len(t) : v[i] = t[i]
  BY <1>2, <1>4, AppendProperties
<1>6. v[Len(t) + 1] = w[k]
  BY <1>2, <1>4, AppendProperties
<1> HIDE DEF v
<1>7. ASSUME NEW i \in 1 .. k - a PROVE v[i] = u[i]
  <2>1. CASE i \in 1 .. (k - 1) - a
    BY <1>2, <1>3, <1>5, <2>1
  <2>2. CASE i = k - a
    <3>1. a + i = k
      BY <2>2
    <3>2. u[i] = w[k]
      BY <1>3, <3>1
    <3> QED
      BY <1>2, <1>6, <2>2, <3>2
  <2> QED
    BY <1>1, <2>1, <2>2
<1>8. v = u
  <2>1. Len(v) = Len(u) /\ \A i \in 1 .. Len(v) : v[i] = u[i]
    BY <1>1, <1>2, <1>3, <1>5, <1>7
  <2> QED
    BY <1>3, <1>5, <2>1, SeqEqual
<1> QED
  BY <1>8 DEF t, u, v

\* f is the way ItersOf takes through n blocks.
Picks(f, blocks, chosen, n) ==
  f = [k \in 0 .. n |->
         IF k = 0 THEN << >>
         ELSE IF k \in chosen THEN Append(f[k - 1], blocks[k].block.iters)
         ELSE f[k - 1]]

\* The iterations of neighbouring blocks are what the blocks have, one after the other.
LEMMA ItersOfRange ==
  ASSUME NEW blocks, NEW w, NEW n, NEW a, NEW m,
         n \in Nat, a \in Nat, m \in Nat, a <= m, m <= n, Len(blocks) = n,
         \A i \in 1 .. n : blocks[i].block.iters = w[i] /\ w[i] \in Seq(Nat)
  PROVE  ItersOf(blocks, a + 1 .. m) = Slice(w, a, m)
<1> DEFINE chosen == a + 1 .. m
           upto == [k \in 0 .. n |-> IF k < a THEN a ELSE IF k > m THEN m ELSE k]
           g == [k \in 0 .. n |-> Slice(w, a, upto[k])]
           f == CHOOSE f : Picks(f, blocks, chosen, n)
<1>1. Slice(w, a, a) = << >>
  BY DEF Slice
<1>2. ASSUME NEW k \in 0 .. n
      PROVE  g[k] = IF k = 0 THEN << >>
                    ELSE IF k \in chosen THEN Append(g[k - 1], blocks[k].block.iters)
                    ELSE g[k - 1]
  <2>1. CASE k = 0
    <3>1. upto[k] = a
      BY <2>1
    <3> QED
      BY <1>1, <2>1, <3>1
  <2>2. CASE k # 0 /\ k \in chosen
    <3>1. k - 1 \in 0 .. n /\ upto[k] = k /\ upto[k - 1] = k - 1 /\ a <= k - 1 /\ k - 1 \in Nat
      BY <2>2
    <3>2. g[k] = Slice(w, a, k) /\ g[k - 1] = Slice(w, a, k - 1)
      BY <3>1
    <3>3. a < k /\ k \in Nat /\ \A i \in 1 .. k : w[i] \in Seq(Nat)
      BY <2>2
    <3>4. Append(Slice(w, a, k - 1), w[k]) = Slice(w, a, k)
      BY <3>3, SliceGrows
    <3>5. blocks[k].block.iters = w[k]
      BY <2>2
    <3> HIDE DEF g
    <3> QED
      BY <2>2, <3>2, <3>4, <3>5
  <2>3. CASE k # 0 /\ k \notin chosen
    <3>1. k - 1 \in 0 .. n /\ upto[k] = upto[k - 1]
      BY <2>3
    <3>2. g[k] = g[k - 1]
      <4> HIDE DEF upto
      <4> QED
        BY <3>1
    <3> HIDE DEF g
    <3> QED
      BY <2>3, <3>2
  <2> QED
    BY <2>1, <2>2, <2>3
<1>3. Picks(g, blocks, chosen, n)
  <2>1. g = [k \in 0 .. n |-> g[k]]
    OBVIOUS
  <2> HIDE DEF g, chosen
  <2> QED
    BY <1>2, <2>1 DEF Picks
<1> HIDE DEF g
<1>4. Picks(f, blocks, chosen, n)
  BY <1>3
<1>5. ItersOf(blocks, chosen) = f[n]
  BY DEF ItersOf, Picks
<1> HIDE DEF f, chosen
<1> DEFINE Good == {k \in Nat : k \in 0 .. n => f[k] = g[k]}
<1>6. 0 \in Good
  BY <1>3, <1>4 DEF Picks
<1>7. ASSUME NEW k \in Good \cap Nat PROVE k + 1 \in Good
  <2> SUFFICES ASSUME k + 1 \in 0 .. n PROVE f[k + 1] = g[k + 1]
    OBVIOUS
  <2>1. k \in 0 .. n /\ (k + 1) - 1 = k /\ k + 1 # 0
    OBVIOUS
  <2>2. f[k] = g[k]
    BY <2>1
  <2>3. f[k + 1] = IF k + 1 \in chosen THEN Append(f[k], blocks[k + 1].block.iters) ELSE f[k]
    BY <1>4, <2>1 DEF Picks
  <2>4. g[k + 1] = IF k + 1 \in chosen THEN Append(g[k], blocks[k + 1].block.iters) ELSE g[k]
    BY <1>3, <2>1 DEF Picks
  <2> QED
    BY <2>2, <2>3, <2>4
<1> HIDE DEF Good
<1>8. Nat \subseteq Good
  BY <1>6, <1>7, NaturalsByInduction
<1>9. f[n] = g[n]
  BY <1>8 DEF Good
<1>10. upto[n] = m
  OBVIOUS
<1>11. g[n] = Slice(w, a, m)
  <2>1. g[n] = Slice(w, a, upto[n])
    BY DEF g
  <2> QED
    BY <1>10, <2>1
<1> QED
  BY <1>5, <1>9, <1>11 DEF chosen

\* The rows of the invocation so far.
Own == Len(rows) - since.rows

\* The blocks cover the rows: the i-th ends with the e[i]-th row of the invocation.
Tiled(blocks, e) ==
  /\ e[0] = 0
  /\ \A i \in 0 .. Len(blocks) : e[i] \in Nat
  /\ \A i \in 1 .. Len(blocks) :
       /\ e[i - 1] <= e[i]
       /\ blocks[i].block.iters = Tile(since.rows, e[i - 1], e[i])
       /\ blocks[i].block.leading <=> i = 1

\* The open block goes on behind the closed ones, and has a number of its own.
Open(e) ==
  /\ active.iters = Tile(since.rows, e[Len(closed)], Own)
  /\ active.leading <=> Len(closed) = 0
  /\ active.leading \/ active.num = measurements + 1
  /\ \A i \in 1 .. Len(closed) :
       closed[i].block.leading \/ closed[i].block.num <= measurements

Shaped(e) ==
  /\ Tiled(closed, e)
  /\ \A i \in 1 .. Len(closed) : closed[i].crossed > 0
  /\ e[Len(closed)] <= Own
  /\ \/ Open(e)
     \/ pc = "postflight" /\ AlreadyRecorded /\ e[Len(closed)] = Own

\* Where the loop is, the blocks are shaped, a dry run's as long as it has closed none.
Panelled ==
  /\ pc \in Handled \ {"report"} =>
       /\ closed = << >> \/ ~dry => \E e : Shaped(e)
       /\ closed # << >> => Len(constraints) > since.constraints
  /\ pc \notin Handled => closed = << >> /\ active = LeadingBlock /\ measurements = 0

LEMMA PanelTypes ==
  ASSUME IInv
  PROVE  /\ closed \in Seq([block : Blocks, crossed : Nat])
         /\ Len(closed) \in Nat /\ DOMAIN closed = 1 .. Len(closed)
         /\ closed = << >> <=> Len(closed) = 0
         /\ Len(rows) \in Nat /\ since.rows \in Nat /\ since.constraints \in Nat
         /\ measurements \in Nat /\ active \in Blocks /\ current.pct \in Nat
         /\ active.num \in Nat /\ active.leading \in BOOLEAN /\ active.iters \in Seq(Nat)
         /\ \A i \in 1 .. Len(closed) :
              /\ closed[i].block \in Blocks /\ closed[i].crossed \in Nat
              /\ closed[i].block.num \in Nat /\ closed[i].block.iters \in Seq(Nat)
<1>1. /\ closed \in Seq([block : Blocks, crossed : Nat]) /\ measurements \in Nat
      /\ active \in Blocks /\ since \in [rows : Nat, constraints : Nat] /\ current \in Snapshots
  BY DEF IInv, Types, MemoryTypes
<1>2. Len(rows) \in Nat
  BY RowFacts
<1>3. Len(closed) \in Nat /\ DOMAIN closed = 1 .. Len(closed)
  BY <1>1, LenProperties
<1>4. closed = << >> <=> Len(closed) = 0
  BY <1>1, EmptySeq
<1>5. \A i \in 1 .. Len(closed) : closed[i] \in [block : Blocks, crossed : Nat]
  BY <1>1, LenProperties
<1>6. /\ active.num \in Nat /\ active.leading \in BOOLEAN /\ active.iters \in Seq(Nat)
      /\ current.pct \in Nat
  BY <1>1 DEF Blocks, Snapshots
<1>7. \A i \in 1 .. Len(closed) :
        /\ closed[i].block \in Blocks /\ closed[i].crossed \in Nat
        /\ closed[i].block.num \in Nat /\ closed[i].block.iters \in Seq(Nat)
  BY <1>5 DEF Blocks
<1> QED
  BY <1>1, <1>2, <1>3, <1>4, <1>6, <1>7

\* An open block is not among the closed ones.
LEMMA OpenIsNew ==
  ASSUME IInv, NEW e, Tiled(closed, e), Open(e)
  PROVE  ~AlreadyRecorded
<1> SUFFICES ASSUME closed # << >>
             PROVE  LET last == closed[Len(closed)].block
                    IN ~(last.leading = active.leading /\ last.num = active.num)
  BY DEF AlreadyRecorded
<1>1. Len(closed) \in Nat \ {0} /\ Len(closed) \in 1 .. Len(closed)
  BY PanelTypes
<1>2. ~active.leading /\ active.num = measurements + 1
  BY <1>1 DEF Open
<1>3. CASE closed[Len(closed)].block.leading
  BY <1>2, <1>3
<1>4. CASE ~closed[Len(closed)].block.leading
  <2>1. closed[Len(closed)].block.num <= measurements
    BY <1>1, <1>4 DEF Open
  <2>2. closed[Len(closed)].block.num \in Nat /\ measurements \in Nat
    BY <1>1, PanelTypes
  <2> QED
    BY <1>2, <2>1, <2>2
<1> QED
  BY <1>3, <1>4

LEMMA InitPanelled ==
  ASSUME Init
  PROVE  Panelled
  BY DEF Init, Panelled, Handled

\* An invocation that has only begun has one empty block.
LEMMA FreshPanelNext ==
  ASSUME NEW r, r \in Nat, closed' = << >>, active' = LeadingBlock,
         Len(rows') = r, since'.rows = r
  PROVE  \E e : Shaped(e)'
<1> DEFINE e == [i \in 0 .. 0 |-> 0]
<1>1. Len(closed') = 0 /\ Own' = 0
  BY DEF Own
<1>2. e[0] = 0
  OBVIOUS
<1> HIDE DEF e
<1>3. Tile(r, 0, 0) = << >>
  BY TileEnds
<1>4. Tiled(closed, e)'
  BY <1>1, <1>2 DEF Tiled
<1>5. Open(e)'
  BY <1>1, <1>2, <1>3 DEF Open, LeadingBlock
<1>6. Shaped(e)'
  BY <1>1, <1>2, <1>4, <1>5 DEF Shaped
<1> QED
  BY <1>6

\* A step that writes neither rows nor blocks. Where it leaves the loop, its block is open.
LEMMA PanelQuiet ==
  ASSUME IInv, Panelled, UNCHANGED <<closed, active, measurements, rows, since, constraints, dry>>,
         \/ pc' = pc
         \/ pc \in Handled \ {"postflight", "report"} /\ pc' \in Handled
         \/ pc' = "report"
         \/ pc \notin Handled /\ pc' \notin Handled
  PROVE  Panelled'
<1>1. CASE pc' \in Handled \ {"report"}
  <2>1. pc \in Handled \ {"report"}
    BY <1>1 DEF Handled
  <2>2. closed # << >> => Len(constraints) > since.constraints
    BY <2>1 DEF Panelled
  <2>3. ASSUME closed = << >> \/ ~dry PROVE \E e : Shaped(e)'
    <3>1. PICK e : Shaped(e)
      BY <2>1, <2>3 DEF Panelled
    <3>2. pc' = pc \/ Open(e)
      BY <1>1, <2>1, <3>1 DEF Shaped, Handled
    <3>3. Shaped(e)'
      BY <3>1, <3>2 DEF Shaped, Tiled, Open, Own, AlreadyRecorded
    <3> QED
      BY <3>3
  <2> QED
    BY <1>1, <2>2, <2>3 DEF Panelled
<1>2. CASE pc' \notin Handled \ {"report"}
  <2>1. pc' \notin Handled => pc \notin Handled
    BY <1>2 DEF Handled
  <2> QED
    BY <1>2, <2>1 DEF Panelled
<1> QED
  BY <1>1, <1>2

\* An invocation that begins.
LEMMA PanelStart ==
  ASSUME IInv, IInv', Standing, Panelled, WriteManifest \/ \E d \in BOOLEAN : Resume(d)
  PROVE  Panelled'
<1>1. /\ closed = << >> /\ active = LeadingBlock /\ measurements = 0
      /\ UNCHANGED <<closed, active, measurements, rows>> /\ pc' \in Handled
  BY DEF WriteManifest, Resume, Panelled, Handled, disk
<1>2. since'.rows = Len(rows)
  <2>1. CASE WriteManifest
    <3>1. rows = << >> /\ since' = since /\ since = NothingYet
      BY <2>1 DEF WriteManifest, IInv, Placed, Recorded, Standing, Handled
    <3> QED
      BY <3>1 DEF NothingYet
  <2>2. CASE \E d \in BOOLEAN : Resume(d)
    BY <2>2 DEF Resume
  <2> QED
    BY <2>1, <2>2
<1>3. Len(rows) \in Nat
  BY RowFacts
<1>4. (\E e : Shaped(e))'
  <2>1. /\ closed' = << >> /\ active' = LeadingBlock
        /\ Len(rows') = Len(rows) /\ since'.rows = Len(rows)
    BY <1>1, <1>2
  <2>2. LeadingBlock' = LeadingBlock
    BY DEF LeadingBlock
  <2> QED
    BY <1>3, <2>1, <2>2, FreshPanelNext
<1> QED
  BY <1>1, <1>4 DEF Panelled

\* A row belongs to the open block.
LEMMA PanelRow ==
  ASSUME IInv, Standing, Panelled, WriteRow
  PROVE  Panelled'
<1>1. /\ pc = "row" /\ pc' = "crossing"
      /\ rows' = Append(rows, [iter |-> iter, units |-> IterUnits])
      /\ active' = [active EXCEPT !.iters = Append(@, iter)]
      /\ UNCHANGED <<closed, measurements, since, constraints, dry>>
  BY DEF WriteRow
<1>2. /\ iter = Len(rows) + 1 /\ since.rows <= Len(rows)
      /\ Len(rows) \in Nat /\ since.rows \in Nat
  BY <1>1, PanelTypes DEF IInv, Placed, Standing, Handled
<1>3. Len(rows') = Len(rows) + 1
  <2>1. rows \in Seq(Rows) /\ [iter |-> iter, units |-> IterUnits] \in Rows
    BY <1>1, RowFacts, IterationFacts DEF Rows
  <2> QED
    BY <1>1, <2>1, AppendProperties
<1>4. closed # << >> => Len(constraints) > since.constraints
  BY <1>1 DEF Panelled, Handled
<1>5. ASSUME closed = << >> \/ ~dry PROVE \E e : Shaped(e)'
  <2>1. PICK e : Shaped(e)
    BY <1>1, <1>5 DEF Panelled, Handled
  <2>2. /\ Tiled(closed, e) /\ Open(e) /\ e[Len(closed)] <= Own
        /\ \A i \in 1 .. Len(closed) : closed[i].crossed > 0
    BY <1>1, <2>1 DEF Shaped
  <2>3. e[Len(closed)] \in Nat
    <3>1. Len(closed) \in 0 .. Len(closed)
      BY PanelTypes
    <3> QED
      BY <2>2, <3>1 DEF Tiled
  <2>4. Own \in Nat /\ Own' = Own + 1 /\ iter = since.rows + Own + 1
    BY <1>1, <1>2, <1>3 DEF Own
  <2>5. active.iters = Tile(since.rows, e[Len(closed)], Own)
    BY <2>2 DEF Open
  <2>6. active'.iters = Tile(since.rows, e[Len(closed)], Own + 1)
    <3>1. active \in Blocks
      BY PanelTypes
    <3>2. active'.iters = Append(active.iters, iter)
      BY <1>1, <3>1 DEF Blocks
    <3>3. Append(Tile(since.rows, e[Len(closed)], Own), since.rows + Own + 1)
            = Tile(since.rows, e[Len(closed)], Own + 1)
      BY <1>2, <2>2, <2>3, <2>4, TileEnds
    <3> QED
      BY <2>4, <2>5, <3>2, <3>3
  <2>7. active'.leading = active.leading /\ active'.num = active.num
    BY <1>1, PanelTypes DEF Blocks
  <2>8. Open(e)'
    BY <1>1, <2>2, <2>4, <2>6, <2>7 DEF Open
  <2>9. Tiled(closed, e)'
    BY <1>1, <2>2 DEF Tiled
  <2>10. e[Len(closed)] <= Own + 1
    BY <2>2, <2>3, <2>4
  <2>11. Shaped(e)'
    BY <1>1, <2>2, <2>4, <2>8, <2>9, <2>10 DEF Shaped
  <2> QED
    BY <2>11
<1> QED
  BY <1>1, <1>4, <1>5 DEF Panelled, Handled

\* What the end of an iteration does with the crossings.
LEMMA CrossingsOfClose ==
  ASSUME IInv, Standing, CloseIteration
  PROVE  /\ Newest.pct \in Nat /\ current.pct \in Nat
         /\ Len(constraints) <= Len(constraints')
         /\ Newest.pct - current.pct > 0 => Len(constraints') > since.constraints
<1> DEFINE new == BuildCrossings(current.pct, Newest.pct, Bracket.before, Bracket.after, iter)
<1>1. pc = "crossing" /\ constraints' = constraints \o new
  BY DEF CloseIteration, WriteCrossings
<1>2. Newest.pct \in Nat /\ current.pct \in Nat
  BY <1>1, IterationFacts DEF IInv, Types, MemoryTypes, Snapshots
<1>3. Built(new, current.pct, Newest.pct, Bracket.before, Bracket.after, iter)
  <2>1. Bracket.before \in Int /\ Bracket.after \in Int /\ iter \in Nat
    BY <1>1, IterationFacts DEF IInv, Types, MemoryTypes, Bracket
  <2> QED
    BY <1>2, <2>1, CrossingsBuilt
<1> HIDE DEF new
<1>4. Len(constraints') = Len(constraints) + Len(new) /\ Len(constraints) \in Nat
  <2>1. constraints \in Seq(CrossingLines) /\ new \in Seq(CrossingLines)
    BY <1>3, RowFacts DEF Built
  <2> QED
    BY <1>1, <2>1, ConcatProperties, LenProperties
<1>5. Len(new) \in Nat /\ Len(new) = IF Newest.pct > current.pct THEN Newest.pct - current.pct ELSE 0
  BY <1>3 DEF Built
<1>6. since.constraints \in Nat /\ since.constraints <= Len(constraints)
  BY <1>1, PanelTypes DEF Standing, Handled
<1> QED
  BY <1>2, <1>4, <1>5, <1>6

\* e2 are the ends of blocks with the open one behind those that are closed.
Closes(e, blocks, e2) ==
  /\ Tiled(closed, e) /\ Open(e) /\ e[Len(closed)] <= Own /\ Own \in Nat
  /\ e2[Len(closed) + 1] = Own /\ \A i \in 0 .. Len(closed) : e2[i] = e[i]
  /\ \E last \in [block : Blocks, crossed : Nat] :
       last.block = active /\ blocks = Append(closed, last)

Closed(blocks, e2) ==
  /\ Tiled(blocks, e2)
  /\ Len(blocks) = Len(closed) + 1 /\ e2[Len(blocks)] = Own
  /\ blocks # << >> /\ blocks[Len(blocks)].block = active
  /\ \A i \in 1 .. Len(closed) : blocks[i] = closed[i]

LEMMA BlockCloses ==
  ASSUME IInv, NEW e, NEW blocks, NEW e2, Closes(e, blocks, e2)
  PROVE  Closed(blocks, e2)
<1> DEFINE n == Len(closed)
<1>1. n \in Nat /\ closed \in Seq([block : Blocks, crossed : Nat])
  BY PanelTypes
<1>2. PICK last \in [block : Blocks, crossed : Nat] :
        last.block = active /\ blocks = Append(closed, last)
  BY DEF Closes
<1>3. Len(blocks) = n + 1 /\ blocks \in Seq([block : Blocks, crossed : Nat])
      /\ \A i \in 1 .. n : blocks[i] = closed[i]
  BY <1>1, <1>2, AppendProperties
<1>4. blocks[n + 1] = last
  BY <1>1, <1>2, AppendProperties
<1>5. /\ e[0] = 0 /\ \A i \in 0 .. n : e[i] \in Nat
      /\ \A i \in 1 .. n : /\ e[i - 1] <= e[i]
                           /\ closed[i].block.iters = Tile(since.rows, e[i - 1], e[i])
                           /\ closed[i].block.leading <=> i = 1
  BY DEF Closes, Tiled
<1>6. active.iters = Tile(since.rows, e[n], Own) /\ (active.leading <=> n = 0) /\ e[n] <= Own
  BY DEF Closes, Open
<1>7. e2[n + 1] = Own /\ \A i \in 0 .. n : e2[i] = e[i]
  BY DEF Closes
<1> HIDE DEF n
<1>8. e2[0] = 0 /\ \A i \in 0 .. n + 1 : e2[i] \in Nat
  <2>1. 0 \in 0 .. n
    BY <1>1
  <2>2. \A i \in 0 .. n + 1 : i \in 0 .. n \/ i = n + 1
    BY <1>1
  <2> QED
    BY <1>5, <1>7, <2>1, <2>2 DEF Closes
<1>9. ASSUME NEW i \in 1 .. n + 1
      PROVE  /\ e2[i - 1] <= e2[i]
             /\ blocks[i].block.iters = Tile(since.rows, e2[i - 1], e2[i])
             /\ blocks[i].block.leading <=> i = 1
  <2>1. CASE i \in 1 .. n
    <3>1. i - 1 \in 0 .. n /\ i \in 0 .. n
      BY <1>1, <2>1
    <3>2. e2[i - 1] = e[i - 1] /\ e2[i] = e[i] /\ blocks[i] = closed[i]
      BY <1>3, <1>7, <2>1, <3>1
    <3> QED
      BY <1>5, <2>1, <3>2
  <2>2. CASE i = n + 1
    <3>1. i - 1 = n /\ n \in 0 .. n /\ (i = 1 <=> n = 0)
      BY <1>1, <2>2
    <3>2. e2[i - 1] = e[n] /\ e2[i] = Own /\ blocks[i].block = active
      BY <1>2, <1>4, <1>7, <2>2, <3>1
    <3> QED
      BY <1>6, <3>1, <3>2
  <2>3. i \in 1 .. n \/ i = n + 1
    BY <1>1
  <2> QED
    BY <2>1, <2>2, <2>3
<1>10. Tiled(blocks, e2)
  BY <1>3, <1>8, <1>9 DEF Tiled
<1>11. blocks # << >>
  <2>1. n + 1 # 0
    BY <1>1
  <2> QED
    BY <1>3, <2>1, EmptySeq
<1> QED
  BY <1>2, <1>3, <1>4, <1>7, <1>10, <1>11 DEF n, Closed

\* An iteration that passed a percent closes its block; the loop goes on with another one
\* or ends with this one.
LEMMA PanelClose ==
  ASSUME IInv, Standing, Panelled, CloseIteration
  PROVE  Panelled'
<1> DEFINE crossed == Newest.pct - current.pct
           reached == TicksSeen(Newest) >= manifest.need
<1>1. /\ pc = "crossing" /\ pc' \in {"head", "postflight"}
      /\ ~dry /\ reached => pc' = "postflight"
      /\ closed' = IF crossed > 0
                   THEN Append(closed, [block |-> active, crossed |-> crossed]) ELSE closed
      /\ measurements' = IF crossed > 0 /\ ~active.leading
                         THEN measurements + crossed ELSE measurements
      /\ active' = IF crossed > 0 /\ ~reached
                   THEN [num |-> measurements' + 1, leading |-> FALSE, iters |-> << >>]
                   ELSE active
      /\ UNCHANGED <<rows, since, dry>>
  BY DEF CloseIteration
<1>2. /\ Newest.pct \in Nat /\ current.pct \in Nat
      /\ Len(constraints) <= Len(constraints')
      /\ crossed > 0 => Len(constraints') > since.constraints
  BY CrossingsOfClose
<1>3. /\ Len(constraints) \in Nat /\ Len(constraints') \in Nat /\ since.constraints \in Nat
      /\ measurements \in Nat
  BY RowFacts, RowTypes, PanelTypes DEF IInv, Types, DiskTypes
<1>4. crossed \in Int
  BY <1>2
<1> HIDE DEF crossed, reached
<1>5. closed # << >> => Len(constraints) > since.constraints
  BY <1>1 DEF Panelled, Handled
<1>6. closed' # << >> => Len(constraints') > since'.constraints
  BY <1>1, <1>2, <1>3, <1>5
<1>7. ASSUME closed' = << >> \/ ~dry PROVE \E e : Shaped(e)'
  <2>1. CASE ~(crossed > 0)
    <3>1. UNCHANGED <<closed, active, measurements, rows, since>>
      BY <1>1, <2>1
    <3>2. PICK e : Shaped(e)
      BY <1>1, <1>7, <3>1 DEF Panelled, Handled
    <3>3. Open(e)
      BY <1>1, <3>2 DEF Shaped
    <3>4. Shaped(e)'
      BY <3>1, <3>2, <3>3 DEF Shaped, Tiled, Open, Own
    <3> QED
      BY <3>4
  <2>2. CASE crossed > 0
    <3>1. closed' = Append(closed, [block |-> active, crossed |-> crossed]) /\ crossed \in Nat \ {0}
      BY <1>1, <1>4, <2>2
    <3>2. closed' # << >>
      <4>1. /\ closed \in Seq([block : Blocks, crossed : Nat]) /\ Len(closed) \in Nat
            /\ [block |-> active, crossed |-> crossed] \in [block : Blocks, crossed : Nat]
        BY <3>1, PanelTypes
      <4>2. Len(closed') = Len(closed) + 1
        BY <3>1, <4>1, AppendProperties
      <4>3. Len(<< >>) # Len(closed) + 1
        BY <4>1
      <4> QED
        BY <4>2, <4>3
    <3>3. ~dry
      BY <1>7, <3>2
    <3>4. PICK e : Shaped(e)
      BY <1>1, <3>3 DEF Panelled, Handled
    <3>5. Tiled(closed, e) /\ Open(e) /\ e[Len(closed)] <= Own
          /\ \A i \in 1 .. Len(closed) : closed[i].crossed > 0
      BY <1>1, <3>4 DEF Shaped
    <3>6. Own \in Nat /\ Own' = Own
      BY <1>1, PanelTypes DEF Own, Standing, Handled
    <3> DEFINE e2 == [i \in 0 .. Len(closed) + 1 |-> IF i = Len(closed) + 1 THEN Own ELSE e[i]]
    <3>7. PICK f : f = e2
      OBVIOUS
    <3>8. PICK blocks : blocks = closed'
      OBVIOUS
    <3>9. Closed(blocks, f)
      <4>1. PICK last : last = [block |-> active, crossed |-> crossed]
        OBVIOUS
      <4>2. /\ last \in [block : Blocks, crossed : Nat] /\ last.block = active
            /\ blocks = Append(closed, last)
        BY <3>1, <3>8, <4>1, PanelTypes
      <4>3. f[Len(closed) + 1] = Own /\ \A i \in 0 .. Len(closed) : f[i] = e[i]
        BY <3>7, PanelTypes
      <4>4. Closes(e, blocks, f)
        BY <3>5, <3>6, <4>2, <4>3 DEF Closes
      <4> QED
        BY <4>4, BlockCloses
    <3>10. \A i \in 1 .. Len(blocks) : blocks[i].crossed > 0
      <4>1. /\ closed \in Seq([block : Blocks, crossed : Nat]) /\ Len(closed) \in Nat
            /\ [block |-> active, crossed |-> crossed] \in [block : Blocks, crossed : Nat]
        BY <3>1, PanelTypes
      <4>2. blocks[Len(closed) + 1] = [block |-> active, crossed |-> crossed]
        BY <3>1, <3>8, <4>1, AppendProperties
      <4>3. blocks[Len(closed) + 1].crossed > 0
        BY <3>1, <4>2
      <4>4. ASSUME NEW i \in 1 .. Len(blocks) PROVE blocks[i].crossed > 0
        <5>1. i \in 1 .. Len(closed) \/ i = Len(closed) + 1
          BY <3>9, <4>1 DEF Closed
        <5> QED
          BY <3>5, <3>9, <4>3, <5>1 DEF Closed
      <4> QED
        BY <4>4
    <3> HIDE DEF e2
    <3>11. Tiled(closed, f)'
      BY <1>1, <3>8, <3>9 DEF Closed, Tiled
    <3>12. CASE reached
      <4>1. pc' = "postflight" /\ active' = active
        BY <1>1, <3>3, <3>12
      <4>2. AlreadyRecorded'
        BY <3>8, <3>9, <4>1 DEF Closed, AlreadyRecorded
      <4>3. f[Len(closed')] = Own' /\ Own' <= Own'
        BY <3>6, <3>8, <3>9 DEF Closed
      <4> QED
        BY <3>8, <3>9, <3>10, <3>11, <4>1, <4>2, <4>3 DEF Closed, Shaped
    <3>13. CASE ~reached
      <4>1. active' = [num |-> measurements' + 1, leading |-> FALSE, iters |-> << >>]
        BY <1>1, <2>2, <3>13
      <4>2. measurements <= measurements' /\ measurements' \in Nat
            /\ (active.leading \/ active.num <= measurements')
        BY <1>1, <1>3, <2>2, <3>1, <3>5 DEF Open
      <4>3. active'.iters = Tile(since'.rows, f[Len(closed')], Own')
        <5>1. since.rows \in Nat /\ f[Len(closed')] = Own'
          BY <3>6, <3>8, <3>9, PanelTypes DEF Closed
        <5>2. Tile(since.rows, Own, Own) = << >>
          BY <3>6, <5>1, TileEnds
        <5> QED
          BY <1>1, <3>6, <4>1, <5>1, <5>2
      <4>4. active'.leading <=> Len(closed') = 0
        <5>1. Len(closed') # 0
          BY <3>8, <3>9, PanelTypes DEF Closed
        <5> QED
          BY <4>1, <5>1
      <4>5. ASSUME NEW i \in 1 .. Len(closed')
            PROVE  closed'[i].block.leading \/ closed'[i].block.num <= measurements'
        <5>1. i \in 1 .. Len(closed) \/ i = Len(blocks)
          <6>1. Len(closed) \in Nat
            BY PanelTypes
          <6>2. Len(blocks) = Len(closed) + 1
            BY <3>9 DEF Closed
          <6>3. i \in 1 .. Len(blocks)
            BY <3>8
          <6> QED
            BY <6>1, <6>2, <6>3
        <5>2. CASE i \in 1 .. Len(closed)
          <6>1. closed'[i] = closed[i]
            BY <3>8, <3>9, <5>2 DEF Closed
          <6>2. closed[i].block.leading \/ closed[i].block.num <= measurements
            BY <3>5, <5>2 DEF Open
          <6>3. closed[i].block.num \in Nat
            BY <5>2, PanelTypes
          <6> QED
            BY <1>3, <4>2, <6>1, <6>2, <6>3
        <5>3. CASE i = Len(blocks)
          <6>1. closed'[i].block = active
            BY <3>8, <3>9, <5>3 DEF Closed
          <6> QED
            BY <4>2, <6>1
        <5> QED
          BY <5>1, <5>2, <5>3
      <4>6. active'.num = measurements' + 1
        BY <4>1
      <4>7. Open(f)'
        BY <4>3, <4>4, <4>5, <4>6 DEF Open
      <4>8. f[Len(closed')] <= Own'
        BY <3>6, <3>8, <3>9 DEF Closed
      <4> QED
        BY <3>8, <3>9, <3>10, <3>11, <4>7, <4>8 DEF Closed, Shaped
    <3> QED
      BY <3>12, <3>13
  <2> QED
    BY <2>1, <2>2
<1>8. pc' \in Handled \ {"report"}
  BY <1>1 DEF Handled
<1> QED
  BY <1>1, <1>6, <1>7, <1>8 DEF Panelled

\* The ends of an invocation, and the steps before its loop.
LEMMA PanelEnds ==
  ASSUME Panelled,
         \/ Quit
         \/ Postflight
         \/ (\E d \in BOOLEAN : StartRun(d)) \/ ReadBaseline
  PROVE  Panelled'
<1>1. CASE Quit
  BY <1>1 DEF Quit, Panelled, Handled, LeadingBlock
<1>2. CASE Postflight
  BY <1>2 DEF Postflight, Panelled, Handled
<1>3. CASE (\E d \in BOOLEAN : StartRun(d)) \/ ReadBaseline
  <2>1. pc \notin Handled /\ pc' \notin Handled /\ UNCHANGED <<closed, active, measurements>>
    BY <1>3 DEF StartRun, ReadBaseline, Handled
  <2> QED
    BY <2>1 DEF Panelled, LeadingBlock
<1> QED
  BY <1>1, <1>2, <1>3

LEMMA PanelledNext ==
  ASSUME IInv, IInv', Standing, Panelled, [Next]_vars
  PROVE  Panelled'
<1>1. CASE \/ Proxied \/ \E u \in Costs : Call(u)
           \/ ClaudeExits \/ TakeSnapshot \/ SnapshotFails \/ LeaveWithoutRow \/ LeaveLoop
           \/ Signal \/ UNCHANGED vars
  <2>1. UNCHANGED <<closed, active, measurements, rows, since, constraints, dry>>
    BY <1>1 DEF Proxied, Record, StopProxy, StartProxy, Rollover, Call, ClaudeExits,
                TakeSnapshot, SnapshotFails, LeaveWithoutRow, LeaveLoop, Signal, vars,
                memory, disk
  <2>2. \/ pc' = pc
        \/ pc \in Handled \ {"postflight", "report"} /\ pc' \in Handled
        \/ pc' = "report"
    BY <1>1 DEF Proxied, Record, StopProxy, StartProxy, Rollover, Call, ClaudeExits,
                TakeSnapshot, SnapshotFails, LeaveWithoutRow, LeaveLoop, Signal, vars, Handled
  <2> QED
    BY <2>1, <2>2, PanelQuiet
<1>2. CASE WriteManifest \/ \E d \in BOOLEAN : Resume(d)
  BY <1>2, PanelStart
<1>3. CASE WriteRow
  BY <1>3, PanelRow
<1>4. CASE CloseIteration
  BY <1>4, PanelClose
<1>5. CASE BaselineFails \/ FatalOutput \/ Report \/ Die
  <2>1. Quit
    BY <1>5 DEF BaselineFails, FatalOutput, Report, Die
  <2> QED
    BY <2>1, PanelEnds
<1>6. CASE Postflight \/ (\E d \in BOOLEAN : StartRun(d)) \/ ReadBaseline
  BY <1>6, PanelEnds
<1> QED
  BY <1>1, <1>2, <1>3, <1>4, <1>5, <1>6 DEF Next, Step

LEMMA PanelInductive == ProbeSpec => [](PInv /\ Panelled)
<1>1. PInv /\ PInv' /\ Panelled /\ [Next]_vars => Panelled'
  BY PanelledNext DEF PInv
<1>2. Init => Panelled
  BY InitPanelled
<1> QED
  BY <1>1, <1>2, ProbeInductive, PTL DEF ProbeSpec

-----------------------------------------------------------------------------
\* What the panel gets: blocks that cover the rows of the invocation, the first m of them
\* with a crossing.
Laid(blocks, f, m) ==
  /\ Tiled(blocks, f) /\ f[Len(blocks)] = Own /\ Own \in Nat
  /\ m \in Nat /\ (Len(blocks) = m \/ Len(blocks) = m + 1) /\ DOMAIN blocks = 1 .. Len(blocks)
  /\ \A i \in 1 .. m : blocks[i].crossed > 0
  /\ Len(blocks) = m + 1 => blocks[m + 1].crossed = 0

LEMMA LaidFacts ==
  ASSUME NEW blocks, NEW f, NEW m, Laid(blocks, f, m)
  PROVE  /\ Len(blocks) \in Nat /\ DOMAIN blocks = 1 .. Len(blocks) /\ Tiled(blocks, f)
         /\ f[0] = 0 /\ f[Len(blocks)] = Own
         /\ \A i \in 0 .. Len(blocks) : f[i] \in Nat
         /\ \A i \in 1 .. Len(blocks) :
              /\ blocks[i].block.iters = Tile(since.rows, f[i - 1], f[i])
              /\ f[i - 1] \in Nat /\ f[i] \in Nat /\ f[i - 1] <= f[i]
              /\ blocks[i].block.leading <=> i = 1
<1>1. Len(blocks) \in Nat /\ DOMAIN blocks = 1 .. Len(blocks) /\ Tiled(blocks, f)
      /\ f[Len(blocks)] = Own
  <2>1. m \in Nat /\ (Len(blocks) = m \/ Len(blocks) = m + 1)
    BY DEF Laid
  <2>2. Len(blocks) \in Nat
    BY <2>1
  <2> QED
    BY <2>2 DEF Laid
<1>2. PICK n : n = Len(blocks)
  OBVIOUS
<1>3. /\ f[0] = 0 /\ \A i \in 0 .. n : f[i] \in Nat
      /\ \A i \in 1 .. n : /\ blocks[i].block.iters = Tile(since.rows, f[i - 1], f[i])
                           /\ f[i - 1] <= f[i]
                           /\ blocks[i].block.leading <=> i = 1
  BY <1>1, <1>2 DEF Tiled
<1>4. \A i \in 1 .. n : i - 1 \in 0 .. n /\ i \in 0 .. n
  BY <1>1, <1>2
<1>5. \A i \in 1 .. n : f[i - 1] \in Nat /\ f[i] \in Nat
  BY <1>3, <1>4
<1> QED
  BY <1>1, <1>2, <1>3, <1>5

\* The iterations of neighbouring blocks, by the ends of the blocks.
LEMMA ItersOfTiles ==
  ASSUME NEW blocks, NEW f, NEW m, Laid(blocks, f, m), since.rows \in Nat,
         NEW a \in Nat, NEW b \in Nat, a <= b, b <= Len(blocks)
  PROVE  \E s : /\ ItersOf(blocks, a + 1 .. b) = s
                /\ Len(s) = b - a /\ (a = b => s = << >>)
                /\ (a < b => s # << >> /\ Head(s) = s[1])
                /\ \A i \in 1 .. b - a : s[i] = Tile(since.rows, f[a + i - 1], f[a + i])
<1> DEFINE n == Len(blocks)
<1>0. n \in Nat /\ Tiled(blocks, f)
  BY LaidFacts
<1>1. \A i \in 1 .. n :
        /\ blocks[i].block.iters = Tile(since.rows, f[i - 1], f[i])
        /\ f[i - 1] \in Nat /\ f[i] \in Nat /\ f[i - 1] <= f[i]
  BY LaidFacts
<1> HIDE DEF n
<1>2. PICK w : w = [i \in 1 .. n |-> Tile(since.rows, f[i - 1], f[i])]
  OBVIOUS
<1>3. ASSUME NEW i \in 1 .. n PROVE blocks[i].block.iters = w[i] /\ w[i] \in Seq(Nat)
  <2>1. w[i] = Tile(since.rows, f[i - 1], f[i])
    BY <1>2
  <2> QED
    BY <1>1, <2>1, TileIs
<1>4. ItersOf(blocks, a + 1 .. b) = Slice(w, a, b)
  <2>1. n \in Nat /\ b <= n /\ Len(blocks) = n
    BY <1>0 DEF n
  <2> QED
    BY <1>3, <2>1, ItersOfRange
<1>5. PICK s : s = Slice(w, a, b)
  OBVIOUS
<1>6. s \in [1 .. b - a -> {w[i] : i \in 1 .. n}]
  <2>1. \A i \in 1 .. b - a : a + i \in 1 .. n
    BY <1>0 DEF n
  <2> QED
    BY <1>5, <2>1 DEF Slice
<1>7. Len(s) = b - a
  <2>1. b - a \in Nat
    OBVIOUS
  <2>2. s \in Seq({w[i] : i \in 1 .. n}) /\ DOMAIN s = 1 .. b - a
    BY <1>6, <2>1
  <2> QED
    BY <2>1, <2>2, LenProperties
<1>8. a < b => s # << >> /\ Head(s) = s[1]
  <2>1. s \in Seq({w[i] : i \in 1 .. n})
    <3>1. b - a \in Nat
      OBVIOUS
    <3> QED
      BY <1>6, <3>1
  <2>2. a < b => Len(s) # 0
    BY <1>7
  <2> QED
    BY <2>1, <2>2
<1>9. a = b => s = << >>
  BY <1>5 DEF Slice
<1>10. ASSUME NEW i \in 1 .. b - a PROVE s[i] = Tile(since.rows, f[a + i - 1], f[a + i])
  <2>1. a + i \in 1 .. n
    BY <1>0 DEF n
  <2>2. s[i] = w[a + i]
    BY <1>5 DEF Slice
  <2> QED
    BY <1>2, <2>1, <2>2
<1> QED
  BY <1>4, <1>5, <1>7, <1>8, <1>9, <1>10

\* The blocks the panel tells apart.
Leads(blocks)    == {b \in DOMAIN blocks : blocks[b].block.leading}
Measures(blocks) == {b \in DOMAIN blocks \ Leads(blocks) : blocks[b].crossed > 0}
Rests(blocks)    == DOMAIN blocks \ (Leads(blocks) \cup Measures(blocks))

\* They are neighbours: the leading one, those with a
\* crossing behind it, and at most one more.
LEMMA PanelSets ==
  ASSUME NEW blocks, NEW f, NEW m, Laid(blocks, f, m), Len(blocks) # 0
  PROVE  \E k \in Nat \ {0} :
           /\ Leads(blocks) = 0 + 1 .. 1 /\ Measures(blocks) = 1 + 1 .. k
           /\ Rests(blocks) = k + 1 .. Len(blocks) /\ (Len(blocks) = k \/ Len(blocks) = k + 1)
<1> DEFINE n == Len(blocks)
           k == IF m = 0 THEN 1 ELSE m
<1>1. /\ m \in Nat /\ (n = m \/ n = m + 1) /\ n # 0 /\ DOMAIN blocks = 1 .. n
      /\ \A i \in 1 .. m : blocks[i].crossed > 0
      /\ n = m + 1 => blocks[m + 1].crossed = 0
      /\ \A i \in 1 .. n : blocks[i].block.leading <=> i = 1
  <2>1. /\ m \in Nat /\ (n = m \/ n = m + 1) /\ DOMAIN blocks = 1 .. n
        /\ \A i \in 1 .. m : blocks[i].crossed > 0
        /\ n = m + 1 => blocks[m + 1].crossed = 0
    BY DEF Laid
  <2>2. \A i \in 1 .. n : blocks[i].block.leading <=> i = 1
    BY LaidFacts
  <2>3. n # 0
    OBVIOUS
  <2> HIDE DEF n
  <2> QED
    BY <2>1, <2>2, <2>3
<1> HIDE DEF n
<1>2. k \in Nat \ {0} /\ (n = k \/ n = k + 1) /\ n \in Nat \ {0} /\ (n = m + 1 => m = 0 \/ k = m)
  BY <1>1
<1>3. Leads(blocks) = 1 .. 1
  <2>1. 1 \in 1 .. n
    BY <1>2
  <2> QED
    BY <1>1, <2>1 DEF Leads
<1>4. Measures(blocks) = 2 .. k
  <2>1. ASSUME NEW b \in 1 .. n, b # 1 PROVE blocks[b].crossed > 0 <=> b <= k
    <3>1. CASE m = 0
      BY <1>1, <2>1, <3>1
    <3>2. CASE m # 0
      <4>1. k = m /\ (b \in 1 .. m \/ (b = m + 1 /\ n = m + 1))
        BY <1>1, <2>1, <3>2
      <4>2. b \in 1 .. m => blocks[b].crossed > 0 /\ b <= k
        BY <1>1, <4>1
      <4>3. b = m + 1 /\ n = m + 1 => ~(blocks[b].crossed > 0) /\ ~(b <= k)
        BY <1>1, <4>1
      <4> QED
        BY <4>1, <4>2, <4>3
    <3> QED
      BY <3>1, <3>2
  <2>2. Measures(blocks) = {b \in 1 .. n : b # 1 /\ blocks[b].crossed > 0}
    BY <1>1, <1>3 DEF Measures
  <2>3. \A b \in 2 .. k : b \in 1 .. n /\ b # 1 /\ b <= k
    BY <1>2
  <2>4. \A b \in 1 .. n : b # 1 /\ b <= k => b \in 2 .. k
    BY <1>2
  <2> QED
    BY <2>1, <2>2, <2>3, <2>4
<1>5. (1 .. n) \ (1 .. 1 \cup 2 .. k) = k + 1 .. n
  BY <1>2
<1>6. Rests(blocks) = k + 1 .. n
  BY <1>1, <1>3, <1>4, <1>5 DEF Rests
<1>7. 0 + 1 = 1 /\ 1 + 1 = 2
  OBVIOUS
<1> HIDE DEF k
<1>8. /\ Leads(blocks) = 0 + 1 .. 1 /\ Measures(blocks) = 1 + 1 .. k
      /\ Rests(blocks) = k + 1 .. Len(blocks) /\ (Len(blocks) = k \/ Len(blocks) = k + 1)
  BY <1>2, <1>3, <1>4, <1>6, <1>7 DEF n
<1> QED
  BY <1>2, <1>8

\* So the panel has all the rows, in order.
LEMMA PanelCovers ==
  ASSUME NEW blocks, NEW f, NEW m, Laid(blocks, f, m), since.rows \in Nat, NEW crossings
  PROVE  LET panel == ResultPanel(blocks, crossings)
         IN panel.leading \o FlattenSeq(panel.measured) \o panel.inFlight
              = Tile(since.rows, 0, Own)
<1> DEFINE n        == Len(blocks)
           r        == since.rows
           leading  == Leads(blocks)
           measured == Measures(blocks)
           rest     == Rests(blocks)
           First(s) == IF s = << >> THEN << >> ELSE Head(s)
           panel    == ResultPanel(blocks, crossings)
<1>1. /\ panel.leading = First(ItersOf(blocks, leading))
      /\ panel.measured = ItersOf(blocks, measured)
      /\ panel.inFlight = First(ItersOf(blocks, rest))
  BY DEF ResultPanel, Leads, Measures, Rests
<1>2. /\ n \in Nat /\ DOMAIN blocks = 1 .. n /\ f[0] = 0 /\ f[n] = Own
      /\ \A i \in 0 .. n : f[i] \in Nat
      /\ \A i \in 1 .. n : f[i - 1] <= f[i]
  BY LaidFacts
<1>3. r \in Nat
  OBVIOUS
<1> HIDE DEF panel
<1>4. CASE n = 0
  <2>1. leading = 0 + 1 .. 0 /\ measured = 0 + 1 .. 0 /\ rest = 0 + 1 .. 0
    BY <1>2, <1>4 DEF Leads, Measures, Rests
  <2>2. ItersOf(blocks, 0 + 1 .. 0) = << >>
    BY <1>4, ItersOfTiles
  <2> HIDE DEF leading, measured, rest
  <2>3. panel.leading = << >> /\ panel.measured = << >> /\ panel.inFlight = << >>
    BY <1>1, <2>1, <2>2
  <2>4. FlattenSeq(<< >>) = << >>
    BY DEF FlattenSeq
  <2>5. << >> \o << >> \o << >> = << >>
    OBVIOUS
  <2>6. Tile(r, 0, Own) = << >>
    BY <1>2, <1>4, TileEnds
  <2> QED
    BY <2>3, <2>4, <2>5, <2>6 DEF panel
<1>5. CASE n # 0
  <2>1. PICK k \in Nat \ {0} :
          /\ leading = 0 + 1 .. 1 /\ measured = 1 + 1 .. k /\ rest = k + 1 .. n
          /\ (n = k \/ n = k + 1)
    <3>1. Len(blocks) # 0
      BY <1>5
    <3> QED
      BY <3>1, PanelSets DEF n
  <2>2. /\ leading = 0 + 1 .. 1 /\ measured = 1 + 1 .. k /\ rest = k + 1 .. n
        /\ k \in Nat \ {0} /\ (n = k \/ n = k + 1)
    BY <2>1
  <2> HIDE DEF leading, measured, rest, n, r
  <2>3. n \in Nat /\ n # 0 /\ 1 <= k /\ k <= n
    BY <1>2, <1>5, <2>2
  <2>4. panel.leading = Tile(r, f[0], f[1])
    <3>1. PICK s : /\ ItersOf(blocks, 0 + 1 .. 1) = s /\ s # << >> /\ Head(s) = s[1]
                   /\ \A i \in 1 .. 1 - 0 : s[i] = Tile(r, f[0 + i - 1], f[0 + i])
      <4>1. PICK a, b : a = 0 /\ b = 1
        OBVIOUS
      <4>2. a \in Nat /\ b \in Nat /\ a <= b /\ a < b /\ b <= n
        BY <2>3, <4>1
      <4>3. PICK s : /\ ItersOf(blocks, a + 1 .. b) = s
                     /\ (a < b => s # << >> /\ Head(s) = s[1])
                     /\ \A i \in 1 .. b - a : s[i] = Tile(r, f[a + i - 1], f[a + i])
        BY <4>2, ItersOfTiles DEF n, r
      <4> QED
        BY <4>1, <4>2, <4>3
    <3>2. s[1] = Tile(r, f[0], f[1])
      <4>1. 1 \in 1 .. 1 - 0 /\ 0 + 1 - 1 = 0 /\ 0 + 1 = 1
        OBVIOUS
      <4> QED
        BY <3>1, <4>1
    <3> QED
      BY <1>1, <2>2, <3>1, <3>2
  <2>5. FlattenSeq(panel.measured) = Tile(r, f[1], f[k]) /\ f[1] <= f[k]
    <3>1. PICK s : /\ ItersOf(blocks, 1 + 1 .. k) = s /\ Len(s) = k - 1 /\ (1 = k => s = << >>)
                   /\ \A i \in 1 .. k - 1 : s[i] = Tile(r, f[1 + i - 1], f[1 + i])
      <4>1. PICK a : a = 1
        OBVIOUS
      <4>2. a \in Nat /\ k \in Nat /\ a <= k /\ k <= n
        BY <2>2, <2>3, <4>1
      <4>3. PICK s : /\ ItersOf(blocks, a + 1 .. k) = s /\ Len(s) = k - a /\ (a = k => s = << >>)
                     /\ \A i \in 1 .. k - a : s[i] = Tile(r, f[a + i - 1], f[a + i])
        BY <4>2, ItersOfTiles DEF n, r
      <4> QED
        BY <4>1, <4>3
    <3>2. PICK e : e = [i \in 0 .. k - 1 |-> f[1 + i]]
      OBVIOUS
    <3>3. /\ \A i \in 0 .. k - 1 : e[i] = f[1 + i] /\ e[i] \in Nat
          /\ e[0] = f[1] /\ e[k - 1] = f[k] /\ k - 1 \in Nat
      <4>1. \A i \in 0 .. k - 1 : 1 + i \in 0 .. n
        BY <2>2, <2>3
      <4>2. 0 \in 0 .. k - 1 /\ k - 1 \in 0 .. k - 1 /\ 1 + 0 = 1 /\ 1 + (k - 1) = k /\ k - 1 \in Nat
        BY <2>2, <2>3
      <4> QED
        BY <1>2, <3>2, <4>1, <4>2
    <3>4. ASSUME NEW i \in 1 .. k - 1
          PROVE  e[i - 1] <= e[i] /\ s[i] = Tile(r, e[i - 1], e[i])
      <4>1. /\ i - 1 \in 0 .. k - 1 /\ i \in 0 .. k - 1 /\ 1 + (i - 1) = (1 + i) - 1
            /\ 1 + i \in 1 .. n
        BY <2>2, <2>3
      <4>2. e[i - 1] = f[(1 + i) - 1] /\ e[i] = f[1 + i]
        BY <3>3, <4>1
      <4>3. f[(1 + i) - 1] <= f[1 + i]
        BY <1>2, <4>1
      <4> QED
        BY <3>1, <4>2, <4>3
    <3>5. FlattenSeq(s) = Tile(r, e[0], e[k - 1]) /\ e[0] <= e[k - 1]
      <4>1. PICK l : l = k - 1
        OBVIOUS
      <4>2. /\ l \in Nat /\ Len(s) = l /\ (l = 0 => s = << >>) /\ r \in Nat
            /\ \A i \in 0 .. l : e[i] \in Nat
            /\ \A i \in 1 .. l : e[i - 1] <= e[i]
            /\ \A i \in 1 .. l : s[i] = Tile(r, e[i - 1], e[i])
        BY <1>3, <2>2, <3>1, <3>3, <3>4, <4>1
      <4>3. InARow(r, l, s, e)
        BY <1>3, <4>2 DEF InARow
      <4>4. FlattenSeq(s) = Tile(r, e[0], e[l]) /\ e[0] <= e[l]
        BY <4>3, TilesFlatten
      <4> QED
        BY <4>1, <4>4
    <3> QED
      BY <1>1, <2>2, <3>1, <3>3, <3>5
  <2>6. panel.inFlight = Tile(r, f[k], f[n]) /\ f[k] <= f[n]
    <3>1. PICK s : /\ ItersOf(blocks, k + 1 .. n) = s /\ (k = n => s = << >>)
                   /\ (k < n => s # << >> /\ Head(s) = s[1])
                   /\ \A i \in 1 .. n - k : s[i] = Tile(r, f[k + i - 1], f[k + i])
      BY <2>2, <2>3, ItersOfTiles DEF n, r
    <3>2. f[k] \in Nat /\ f[n] \in Nat
      BY <1>2, <2>2, <2>3
    <3>3. CASE n = k
      <4>1. panel.inFlight = << >>
        BY <1>1, <2>2, <3>1, <3>3
      <4>2. PICK x : x = f[k]
        OBVIOUS
      <4>3. Tile(r, x, x) = << >> /\ x <= x
        BY <1>3, <3>2, <4>2, TileEnds
      <4> QED
        BY <3>3, <4>1, <4>2, <4>3
    <3>4. CASE n = k + 1
      <4>1. k < n /\ k + 1 - 1 = k /\ 1 \in 1 .. n - k
        BY <2>2, <3>4
      <4>2. s[1] = Tile(r, f[k], f[n])
        BY <3>1, <3>4, <4>1
      <4>3. s # << >>
        BY <3>1, <4>1
      <4>4. Head(s) = s[1]
        BY <3>1, <4>1
      <4>5. f[k] <= f[n]
        <5>1. n \in 1 .. n /\ n - 1 = k
          BY <2>2, <2>3, <3>4
        <5> QED
          BY <1>2, <5>1
      <4> QED
        BY <1>1, <2>2, <3>1, <4>2, <4>3, <4>4, <4>5
    <3> QED
      BY <2>2, <3>3, <3>4
  <2>7. r \in Nat /\ f[0] \in Nat /\ f[1] \in Nat /\ f[k] \in Nat /\ f[n] \in Nat /\ f[0] <= f[1]
    <3>1. 0 \in 0 .. n /\ 1 \in 0 .. n /\ k \in 0 .. n /\ n \in 0 .. n /\ 1 \in 1 .. n /\ 1 - 1 = 0
      BY <2>2, <2>3
    <3> QED
      BY <1>2, <1>3, <3>1
  <2>8. Tile(r, f[0], f[1]) \o Tile(r, f[1], f[k]) = Tile(r, f[0], f[k]) /\ f[0] <= f[k]
    <3>1. PICK x, y, z : x = f[0] /\ y = f[1] /\ z = f[k]
      OBVIOUS
    <3>2. x \in Nat /\ y \in Nat /\ z \in Nat /\ x <= y /\ y <= z /\ r \in Nat
      BY <2>5, <2>7, <3>1
    <3>3. Tile(r, x, y) \o Tile(r, y, z) = Tile(r, x, z)
      BY <3>2, TilesJoin
    <3>4. x <= z
      BY <3>2
    <3> QED
      BY <3>1, <3>3, <3>4
  <2>9. Tile(r, f[0], f[k]) \o Tile(r, f[k], f[n]) = Tile(r, f[0], f[n])
    <3>1. PICK x, y, z : x = f[0] /\ y = f[k] /\ z = f[n]
      OBVIOUS
    <3>2. x \in Nat /\ y \in Nat /\ z \in Nat /\ x <= y /\ y <= z /\ r \in Nat
      BY <2>6, <2>7, <2>8, <3>1
    <3>3. Tile(r, x, y) \o Tile(r, y, z) = Tile(r, x, z)
      BY <3>2, TilesJoin
    <3> QED
      BY <3>1, <3>3
  <2>10. panel.leading \o FlattenSeq(panel.measured) \o panel.inFlight = Tile(r, f[0], f[n])
    BY <2>4, <2>5, <2>6, <2>8, <2>9
  <2> QED
    BY <1>2, <2>10 DEF panel, r
<1> QED
  BY <1>4, <1>5

\* What the panel gets behind the loop.
LEMMA PanelGets ==
  ASSUME IInv, Standing, Panelled, Postflight, ~dry \/ Len(constraints) = since.constraints
  PROVE  \E f, m : Laid(closed', f, m)
<1>1. /\ pc = "postflight"
      /\ closed' = IF active.iters # << >> /\ ~AlreadyRecorded
                   THEN Append(closed, [block |-> active, crossed |-> 0])
                   ELSE closed
  BY DEF Postflight
<1>2. closed = << >> \/ ~dry
  <2>1. closed # << >> => Len(constraints) > since.constraints
    BY <1>1 DEF Panelled, Handled
  <2>2. Len(constraints) \in Nat /\ since.constraints \in Nat
    BY RowFacts, PanelTypes
  <2> QED
    BY <2>1, <2>2
<1>3. PICK e : Shaped(e)
  BY <1>1, <1>2 DEF Panelled, Handled
<1>4. /\ Tiled(closed, e) /\ e[Len(closed)] <= Own /\ Own \in Nat
      /\ \A i \in 1 .. Len(closed) : closed[i].crossed > 0
  BY <1>1, <1>3, PanelTypes DEF Shaped, Own, Standing, Handled
<1>5. Len(closed) \in Nat /\ DOMAIN closed = 1 .. Len(closed) /\ since.rows \in Nat
  BY PanelTypes
<1>6. e[Len(closed)] \in Nat
  BY <1>4, <1>5 DEF Tiled
<1>7. CASE active.iters # << >> /\ ~AlreadyRecorded
  <2>1. Open(e)
    BY <1>3, <1>7 DEF Shaped
  <2>2. PICK blocks, last : blocks = closed' /\ last = [block |-> active, crossed |-> 0]
    OBVIOUS
  <2>3. PICK f : f = [i \in 0 .. Len(closed) + 1 |-> IF i = Len(closed) + 1 THEN Own ELSE e[i]]
    OBVIOUS
  <2>4. /\ last \in [block : Blocks, crossed : Nat] /\ last.block = active /\ last.crossed = 0
        /\ blocks = Append(closed, last)
    BY <1>1, <1>7, <2>2, PanelTypes
  <2>5. f[Len(closed) + 1] = Own /\ \A i \in 0 .. Len(closed) : f[i] = e[i]
    BY <1>5, <2>3
  <2>6. Closes(e, blocks, f)
    BY <1>4, <2>1, <2>4, <2>5 DEF Closes
  <2>7. Closed(blocks, f)
    BY <2>6, BlockCloses
  <2>8. /\ Len(blocks) = Len(closed) + 1 /\ blocks[Len(closed) + 1] = last
        /\ blocks \in Seq([block : Blocks, crossed : Nat])
    <3>1. closed \in Seq([block : Blocks, crossed : Nat])
      BY PanelTypes
    <3> QED
      BY <1>5, <2>4, <3>1, AppendProperties
  <2>9. DOMAIN blocks = 1 .. Len(blocks)
    BY <2>8, LenProperties
  <2>10. blocks[Len(closed) + 1].crossed = 0
    BY <2>4, <2>8
  <2>11. \A i \in 1 .. Len(closed) : blocks[i].crossed > 0
    BY <1>4, <2>7 DEF Closed
  <2>12. Laid(blocks, f, Len(closed))
    BY <1>4, <1>5, <2>7, <2>8, <2>9, <2>10, <2>11 DEF Closed, Laid
  <2> QED
    BY <2>2, <2>12
<1>8. CASE ~(active.iters # << >> /\ ~AlreadyRecorded)
  <2>1. closed' = closed
    BY <1>1, <1>8
  <2>2. e[Len(closed)] = Own
    <3>1. CASE Open(e)
      <4>1. active.iters = << >>
        BY <1>4, <1>8, <3>1, OpenIsNew
      <4>2. Tile(since.rows, e[Len(closed)], Own) = << >>
        BY <3>1, <4>1 DEF Open
      <4>3. Len(Tile(since.rows, e[Len(closed)], Own)) = Own - e[Len(closed)]
        BY <1>4, <1>5, <1>6, TileIs
      <4>4. Own - e[Len(closed)] = 0
        BY <4>2, <4>3
      <4> QED
        BY <1>4, <1>6, <4>4
    <3>2. CASE ~Open(e)
      BY <1>3, <3>2 DEF Shaped
    <3> QED
      BY <3>1, <3>2
  <2>3. \A n \in Nat : n # n + 1
    OBVIOUS
  <2>4. Laid(closed, e, Len(closed))
    BY <1>4, <1>5, <2>2, <2>3 DEF Laid
  <2> QED
    BY <2>1, <2>4
<1> QED
  BY <1>7, <1>8

\* Where the panel shows a table, the rows of the invocation are in it once and in order,
\* whatever was interrupted, killed and resumed before; and the headline of a faithful run
\* that was not resumed does not report a contradiction.
THEOREM PanelIsComplete == ProbeSpec => PanelShowsEveryRow
<1>1. ASSUME PInv, Panelled, pc = "postflight", pc' = "report", [Next]_vars
      PROVE  ShownInFull
  <2>1. Postflight
    <3>1. Next
      BY <1>1 DEF vars
    <3> QED
      BY <1>1, <3>1 DEF Next, Step, Proxied, Record, StopProxy, StartProxy, Rollover, StartRun,
         Resume, ReadBaseline, BaselineFails, WriteManifest, Call, ClaudeExits, TakeSnapshot,
         SnapshotFails, LeaveWithoutRow, WriteRow, FatalOutput, CloseIteration, LeaveLoop,
         Report, Signal, Die, Quit
  <2>2. PICK panel : panel = ResultPanel(closed', constraints)
    OBVIOUS
  <2>3. ASSUME ~dry \/ Len(constraints) = since.constraints
        PROVE  panel.leading \o FlattenSeq(panel.measured) \o panel.inFlight
                 = [j \in 1 .. Len(rows) - since.rows |-> since.rows + j]
    <3>1. PICK f, m : Laid(closed', f, m)
      BY <1>1, <2>1, <2>3, PanelGets DEF PInv
    <3>2. since.rows \in Nat /\ Len(rows) \in Nat
      BY <1>1, PanelTypes DEF PInv
    <3>3. panel.leading \o FlattenSeq(panel.measured) \o panel.inFlight
            = Tile(since.rows, 0, Own)
      BY <2>2, <3>1, <3>2, PanelCovers
    <3>4. Tile(since.rows, 0, Own) = [j \in 1 .. Len(rows) - since.rows |-> since.rows + j]
      BY <3>2 DEF Tile, Own
    <3> QED
      BY <3>3, <3>4
  <2>4. ASSUME panel.headline # "insufficient",
               faithful, resumes = 0, TickUnits \in PriorLow .. PriorHigh
        PROVE  panel.headline = "estimate"
    <3>1. panel.headline = Headline(constraints)
      BY <2>2 DEF ResultPanel
    <3>2. manifest # NoManifest
      BY <1>1 DEF PInv, IInv, Placed, Handled
    <3>3. PICK z : Common(z, constraints)
      BY <1>1, <2>4, <3>2, OwnCrossings
    <3>4. ~Contradictory(constraints)
      BY <2>4, <3>3, NoContradiction
    <3> QED
      BY <2>4, <3>1, <3>4 DEF Headline
  <2> QED
    BY <2>2, <2>3, <2>4 DEF ShownInFull
<1>2. PInv /\ Panelled /\ [Next]_vars
        => [pc = "postflight" /\ pc' = "report" => ShownInFull]_vars
  BY <1>1
<1> QED
  BY <1>2, PanelInductive, PTL DEF ProbeSpec, PanelShowsEveryRow

-----------------------------------------------------------------------------
(***************************************************************************)
(* What has to hold for every crossing to contribute.                      *)
(***************************************************************************)

\* Until a run is resumed, all its crossings are those of the one invocation.
FirstInvocation ==
  resumes = 0 => /\ since = NothingYet
                 /\ EveryCrossingContributes

LEMMA FirstInvocationNext ==
  ASSUME IInv, FirstInvocation, [Next]_vars, constraints' \in Seq(CrossingLines), LiveSound'
  PROVE  FirstInvocation'
<1>1. resumes \in Nat
  BY DEF IInv, Types, HistoryTypes
<1>2. resumes' = 0 => resumes = 0 /\ since' = NothingYet
  <2>1. ASSUME NEW d \in BOOLEAN, Resume(d)
        PROVE  resumes' # 0
    BY <1>1, <2>1 DEF Resume
  <2>2. CASE \/ Proxied \/ Signal \/ UNCHANGED vars \/ \E d \in BOOLEAN : StartRun(d)
             \/ \E u \in Costs : Call(u)
    BY <2>2 DEF FirstInvocation, Proxied, Record, StopProxy, StartProxy, Rollover, Signal,
       StartRun, Call, memory, history, vars
  <2>3. CASE BaselineFails \/ FatalOutput \/ Report \/ Die
    BY <2>3 DEF FirstInvocation, BaselineFails, FatalOutput, Report, Die, Quit, history
  <2>4. CASE \/ ReadBaseline \/ WriteManifest \/ ClaudeExits \/ TakeSnapshot \/ SnapshotFails
             \/ LeaveWithoutRow \/ WriteRow \/ CloseIteration \/ LeaveLoop \/ Postflight
    BY <2>4 DEF FirstInvocation, ReadBaseline, WriteManifest, ClaudeExits, TakeSnapshot,
       SnapshotFails, LeaveWithoutRow, WriteRow, CloseIteration, LeaveLoop, Postflight,
       memory, history
  <2> QED
    BY <2>1, <2>2, <2>3, <2>4 DEF Next, Step
\* The invocation goes on: its crossings admit the cost, and they are all there are.
<1>3. ASSUME resumes' = 0, pc' # "off"
      PROVE  EveryCrossingContributes'
  <2>1. since'.constraints = 0
    BY <1>2, <1>3 DEF NothingYet
  <2>2. SubSeq(constraints', 1, Len(constraints')) = constraints'
    OBVIOUS
  <2>3. since'.constraints + 1 = 1
    BY <2>1
  <2>4. SubSeq(constraints', since'.constraints + 1, Len(constraints')) = constraints'
    BY <2>2, <2>3
  <2>5. faithful' =>
          TickUnits \in EstimateC(SubSeq(constraints', since'.constraints + 1,
                                         Len(constraints')), {TickUnits})
    BY <1>3 DEF LiveSound
  <2>6. faithful' => TickUnits \in EstimateC(constraints', {TickUnits})
    BY <2>4, <2>5
  <2> QED
    BY <2>6 DEF EveryCrossingContributes
\* It has ended, and nothing has been written since.
<1>4. ASSUME resumes' = 0, pc' = "off"
      PROVE  EveryCrossingContributes'
  <2>1. constraints' = constraints /\ (faithful' => faithful)
    <3>1. CASE Proxied \/ UNCHANGED vars
      <4>1. constraints' = constraints
        BY <3>1 DEF Proxied, Record, StopProxy, StartProxy, Rollover, disk, vars
      <4>2. faithful' => faithful
        BY <3>1, Zenon DEF Proxied, Record, StopProxy, StartProxy, Rollover, history, vars
      <4> QED
        BY <4>1, <4>2
    <3>2. CASE BaselineFails \/ FatalOutput \/ Report \/ Die
      BY <3>2 DEF BaselineFails, FatalOutput, Report, Die, disk, history
    <3>3. CASE Signal
      BY <3>3 DEF Signal, disk
    <3> QED
      BY <1>4, <3>1, <3>2, <3>3 DEF Next, Step, StartRun, Resume, ReadBaseline,
         WriteManifest, Call, ClaudeExits, TakeSnapshot, SnapshotFails, LeaveWithoutRow,
         WriteRow, CloseIteration, LeaveLoop, Postflight
  <2>2. EveryCrossingContributes
    BY <1>2, <1>4 DEF FirstInvocation
  <2> QED
    BY <2>1, <2>2 DEF EveryCrossingContributes
<1> QED
  BY <1>2, <1>3, <1>4 DEF FirstInvocation

LEMMA FirstInvocationAlways == ProbeSpec => []FirstInvocation
<1>1. Init => FirstInvocation
  <2> SUFFICES ASSUME Init
               PROVE  FirstInvocation
    OBVIOUS
  <2> QED
    BY DEF Init, FirstInvocation, EveryCrossingContributes
<1>2. IInv /\ IInv' /\ LiveSound' /\ FirstInvocation /\ [Next]_vars => FirstInvocation'
  BY FirstInvocationNext DEF IInv, Types, DiskTypes
<1> QED
  BY <1>1, <1>2, InitInv, InvNext, LiveEstimateIsSound, PTL DEF ProbeSpec

\* Every crossing of a run contributes, as probe.py:1686-1687 says, until the run is
\* resumed: then its sums start again at zero, and the run `resumed` shows what becomes
\* of the claim.
THEOREM CrossingsContribute == ProbeSpec => [](resumes = 0 => EveryCrossingContributes)
<1>1. FirstInvocation => (resumes = 0 => EveryCrossingContributes)
  BY DEF FirstInvocation
<1> QED
  BY <1>1, FirstInvocationAlways, PTL

-----------------------------------------------------------------------------
(* The gate.                                                               *)

\* Where percents have no gap and admit the cost, a right prior decides alone.
LEMMA GateWorks ==
  ASSUME NEW s, Consecutive(s), TickUnits \in EstimateC(s, {TickUnits}),
         TickUnits \in PriorLow .. PriorHigh
  PROVE  GateOpen(s, Prior)
           <=> /\ \E m \in LegacyMidpoints(s) : m <= 2 * PriorHigh
               /\ \E m \in LegacyMidpoints(s) : 2 * PriorLow <= m
<1> DEFINE mids == LegacyMidpoints(s)
           all  == Intervals(s) \cup {Prior}
           band == IF mids = {} THEN {0} ELSE mids
           Meets(p) == (\E m \in band : p.dk * m <= 2 * p.hi) /\ (\E m \in band : 2 * p.lo <= p.dk * m)
<1>1. Prior.lo = PriorLow /\ Prior.hi = PriorHigh /\ Prior.dk = 1
      /\ PriorLow \in Nat \ {0} /\ PriorHigh \in Nat
  BY ProbeAssumption DEF Prior
<1>2. s \in Seq(CrossingLines) /\ DOMAIN s = 1 .. Len(s) /\ Len(s) \in Nat
      /\ \A c \in DOMAIN s : s[c] \in CrossingLines
  BY LenProperties DEF Consecutive
<1>3. \A m \in mids : m \in Int
  <2> SUFFICES ASSUME NEW i \in 1 .. Len(s) - 1
               PROVE  (s[i + 1].before - s[i].after) + (s[i + 1].after - s[i].before) \in Int
    BY DEF LegacyMidpoints
  <2>1. PICK a, b : a = s[i] /\ b = s[i + 1]
    OBVIOUS
  <2>2. a \in CrossingLines /\ b \in CrossingLines
    <3>1. i \in DOMAIN s /\ i + 1 \in DOMAIN s
      BY <1>2
    <3> QED
      BY <1>2, <2>1, <3>1
  <2>3. a.before \in Int /\ a.after \in Int /\ b.before \in Int /\ b.after \in Int
    BY <2>2 DEF CrossingLines
  <2> QED
    BY <2>1, <2>3
<1>4. ~Disjoint(all)
  <2>1. ~Contradictory(s)
    BY <1>2, RightPriorAgrees
  <2> QED
    BY <2>1 DEF Contradictory
<1>5. mids # {} => s # << >> /\ band = mids
  <2>1. s = << >> => 1 .. Len(s) - 1 = {}
    OBVIOUS
  <2> QED
    BY <2>1 DEF LegacyMidpoints
<1>6. \A p \in Intervals(s) : (\E m \in mids : p.dk * m <= 2 * p.hi) /\ (\E m \in mids : 2 * p.lo <= p.dk * m)
  BY ConsecutiveGate
<1>7. GateOpen(s, Prior) <=> s # << >> /\ ~Disjoint(all) /\ \A p \in all : Meets(p)
  BY DEF GateOpen
<1> HIDE DEF mids
<1>8. CASE mids = {}
  <2>1. ~(2 * Prior.lo <= Prior.dk * 0)
    BY <1>1
  <2>2. ~Meets(Prior)
    BY <1>8, <2>1
  <2> QED
    BY <1>7, <1>8, <2>2 DEF mids
<1>9. CASE mids # {}
  <2>1. Meets(Prior) <=> (\E m \in mids : m <= 2 * PriorHigh) /\ (\E m \in mids : 2 * PriorLow <= m)
    <3>1. \A m \in mids : Prior.dk * m = m
      BY <1>1, <1>3
    <3> QED
      BY <1>1, <1>5, <1>9, <3>1
  <2>2. \A p \in Intervals(s) : Meets(p)
    BY <1>5, <1>6, <1>9
  <2> HIDE DEF Meets, band
  <2>3. (\A p \in all : Meets(p)) <=> Meets(Prior)
    BY <2>2
  <2> QED
    BY <1>4, <1>5, <1>7, <1>9, <2>1, <2>3 DEF mids
<1> QED
  BY <1>8, <1>9

\* With a right prior the gate of validate_crossings.py opens for a faithful run wherever it
\* has midpoints that the prior does not exclude, on the rebuilt crossings and, unless the
\* run was resumed, on the recorded ones.
THEOREM GateOpens == ProbeSpec => []GatePasses
<1>1. PInv /\ FirstInvocation => GatePasses
  <2> SUFFICES ASSUME PInv, FirstInvocation, faithful, TickUnits \in PriorLow .. PriorHigh
               PROVE  LET Met(mids) == /\ \E m \in mids : m <= 2 * PriorHigh
                                       /\ \E m \in mids : 2 * PriorLow <= m
                          Works(crossings) == GateOpen(crossings, Prior) <=> Met(LegacyMidpoints(crossings))
                      IN /\ Works(Derived)
                         /\ resumes = 0 => Works(RunCrossings(constraints, Derived))
    BY DEF GatePasses
  <2> DEFINE Right(s) == Consecutive(s) /\ TickUnits \in EstimateC(s, {TickUnits})
  <2>1. Right(Derived)
    BY DerivedFacts, EstimateHasTick
  <2>2. resumes = 0 => Right(RunCrossings(constraints, Derived))
    <3> SUFFICES ASSUME resumes = 0 PROVE Right(RunCrossings(constraints, Derived))
      OBVIOUS
    <3>1. CASE constraints = << >>
      BY <2>1, <3>1 DEF RunCrossings
    <3>2. CASE constraints # << >>
      <4>1. Consecutive(constraints)
        BY <3>2, LiveConsecutive
      <4>2. TickUnits \in EstimateC(constraints, {TickUnits})
        BY DEF FirstInvocation, EveryCrossingContributes
      <4> QED
        BY <3>2, <4>1, <4>2 DEF RunCrossings
    <3> QED
      BY <3>1, <3>2
  <2> QED
    BY <2>1, <2>2, GateWorks
<1> QED
  BY <1>1, ProbeInductive, FirstInvocationAlways, PTL

-----------------------------------------------------------------------------
(***************************************************************************)
(* The steps an invocation can take. That each of them is taken in the end *)
(* is fairness, and stays with TLC (Ends); what is proved is that there    *)
(* are only so many of them.                                               *)
(***************************************************************************)

\* The loop's range is not left, and a resumed invocation goes on in it.
InRange ==
  /\ rows # << >> => Len(rows) < IterLimit
  /\ pc \in {"claude", "snapshot", "row"} => iter < IterLimit

\* Where the loop ends.
LoopEnd == 2 + 5 * (IterLimit + 2)

\* How far an invocation is; "off" is its end.
Clock ==
  CASE pc = "baseline" -> 0
    [] pc = "manifest" -> 1
    [] pc = "head" -> 2 + 5 * iter
    [] pc = "claude" -> 3 + 5 * iter
    [] pc = "snapshot" -> 4 + 5 * iter
    [] pc = "row" -> 5 + 5 * iter
    [] pc = "crossing" -> 6 + 5 * iter
    [] pc = "postflight" -> LoopEnd
    [] pc = "report" -> LoopEnd + 1
    [] OTHER -> LoopEnd + 2

\* The probe's own steps move an invocation on, and nothing else takes it back: neither a
\* signal nor its death, nor the proxy.
MovesOn ==
  pc # "off" => /\ Step => Clock' > Clock
                /\ Clock' >= Clock

\* Only the loop writes rows, each for an iteration of its range.
LEMMA InRangeNext ==
  ASSUME IInv, InRange, [Next]_vars
  PROVE  InRange'
<1>1. /\ rows \in Seq(Rows) /\ Len(rows) \in Nat /\ iter \in Nat /\ IterLimit \in Nat
      /\ rows # << >> => Len(rows) # 0
  BY ProbeAssumption DEF IInv, Types, MemoryTypes, DiskTypes
<1>2. CASE WriteRow
  <2>1. /\ iter = Len(rows) + 1 /\ iter < IterLimit /\ pc' = "crossing"
        /\ rows' = Append(rows, [iter |-> iter, units |-> IterUnits])
    BY <1>2 DEF WriteRow, IInv, Placed, InRange
  <2>2. Len(rows') = Len(rows) + 1
    BY <1>1, <2>1
  <2> QED
    BY <1>1, <2>1, <2>2 DEF InRange
<1>3. ASSUME rows' = rows, pc' \notin {"claude", "snapshot", "row"} \/ iter' < IterLimit
      PROVE  InRange'
  BY <1>3 DEF InRange
<1>4. ASSUME NEW u \in Costs, Call(u)
      PROVE  InRange'
  BY <1>3, <1>4 DEF Call, memory, disk
<1>5. CASE ClaudeExits \/ TakeSnapshot
  BY <1>3, <1>5 DEF ClaudeExits, TakeSnapshot, memory, disk, InRange
<1>6. CASE \/ Proxied \/ Signal \/ UNCHANGED vars
  <2>1. UNCHANGED <<rows, pc, iter>>
    BY <1>6 DEF Proxied, Record, StopProxy, StartProxy, Rollover, Signal, memory, disk, vars
  <2> QED
    BY <1>3, <2>1 DEF InRange
<1>7. CASE \/ ReadBaseline \/ BaselineFails \/ WriteManifest \/ SnapshotFails \/ LeaveWithoutRow
           \/ FatalOutput \/ CloseIteration \/ LeaveLoop \/ Postflight \/ Report \/ Die
           \/ \E d \in BOOLEAN : StartRun(d) \/ Resume(d)
  <2>1. rows' = rows
    BY <1>7 DEF ReadBaseline, BaselineFails, WriteManifest, SnapshotFails, LeaveWithoutRow,
       FatalOutput, CloseIteration, LeaveLoop, Postflight, Report, Die, StartRun, Resume, disk
  <2>2. pc' \notin {"claude", "snapshot", "row"}
    BY <1>7 DEF ReadBaseline, BaselineFails, WriteManifest, SnapshotFails, LeaveWithoutRow,
       FatalOutput, CloseIteration, LeaveLoop, Postflight, Report, Die, StartRun, Resume, Quit
  <2> QED
    BY <1>3, <2>1, <2>2
<1> QED
  BY <1>2, <1>4, <1>5, <1>6, <1>7 DEF Next, Step

LEMMA ClockBounds ==
  ASSUME IInv, InRange
  PROVE  /\ Clock \in 0 .. LoopEnd + 2
         /\ pc \in {"head", "claude", "snapshot", "row", "crossing"} => Clock < LoopEnd
<1>1. IterLimit \in Nat /\ iter \in Nat /\ Len(rows) \in Nat /\ (rows = << >> => Len(rows) = 0)
  BY ProbeAssumption DEF IInv, Types, MemoryTypes, DiskTypes
<1>2. pc \in {"head", "claude", "snapshot", "row", "crossing"} => iter <= IterLimit + 1
  BY <1>1 DEF IInv, Placed, InRange
<1>3. LoopEnd \in Nat
  BY <1>1 DEF LoopEnd
<1>4. CASE pc \in {"head", "claude", "snapshot", "row", "crossing"}
  <2>1. /\ pc = "head" => Clock = 2 + 5 * iter
        /\ pc = "claude" => Clock = 3 + 5 * iter
        /\ pc = "snapshot" => Clock = 4 + 5 * iter
        /\ pc = "row" => Clock = 5 + 5 * iter
        /\ pc = "crossing" => Clock = 6 + 5 * iter
    BY DEF Clock
  <2>2. Clock \in Nat /\ Clock <= 6 + 5 * iter
    BY <1>1, <1>4, <2>1
  <2>3. 6 + 5 * iter < LoopEnd
    BY <1>1, <1>2, <1>4 DEF LoopEnd
  <2> QED
    BY <1>1, <1>3, <2>2, <2>3
<1>5. CASE pc \notin {"head", "claude", "snapshot", "row", "crossing"}
  <2>1. \/ pc = "baseline" /\ Clock = 0
        \/ pc = "manifest" /\ Clock = 1
        \/ pc = "postflight" /\ Clock = LoopEnd
        \/ pc = "report" /\ Clock = LoopEnd + 1
        \/ pc = "off" /\ Clock = LoopEnd + 2
    BY <1>5 DEF Clock, IInv, Types, Handled
  <2> QED
    BY <1>3, <1>5, <2>1
<1> QED
  BY <1>4, <1>5

LEMMA StepMovesOn ==
  ASSUME IInv, InRange, Step
  PROVE  Clock' \in Nat /\ Clock' > Clock
<1>1. IterLimit \in Nat /\ iter \in Nat /\ LoopEnd \in Nat
  BY ProbeAssumption DEF IInv, Types, MemoryTypes, LoopEnd
<1>2. /\ pc \in {"head", "claude", "snapshot", "row", "crossing"} => Clock < LoopEnd
      /\ Clock \in Nat
  BY <1>1, ClockBounds
<1>3. /\ pc' = "postflight" => Clock' = LoopEnd
      /\ pc' = "report" => Clock' = LoopEnd + 1
      /\ pc' = "off" => Clock' = LoopEnd + 2
      /\ pc' = "head" => Clock' = 2 + 5 * iter'
  BY DEF Clock, LoopEnd
<1>4. CASE ReadBaseline \/ BaselineFails
  BY <1>1, <1>4 DEF ReadBaseline, BaselineFails, Quit, Clock, LoopEnd
<1>5. CASE WriteManifest
  BY <1>1, <1>3, <1>5 DEF WriteManifest, Clock
<1>6. ASSUME NEW u \in Costs, Call(u)
      PROVE  Clock' \in Nat /\ Clock' > Clock
  BY <1>1, <1>6 DEF Call, memory, Clock
<1>7. CASE ClaudeExits
  <2>1. iter' = iter /\ pc = "claude"
    BY <1>7 DEF ClaudeExits, memory
  <2>2. CASE pc' = "snapshot"
    BY <1>1, <2>1, <2>2 DEF Clock
  <2>3. CASE pc' = "postflight"
    BY <1>1, <1>2, <1>3, <2>1, <2>3
  <2> QED
    BY <1>7, <2>2, <2>3 DEF ClaudeExits
<1>8. CASE TakeSnapshot
  BY <1>1, <1>8 DEF TakeSnapshot, memory, Clock
<1>9. CASE WriteRow
  BY <1>1, <1>9 DEF WriteRow, Clock
<1>10. CASE CloseIteration
  <2>1. pc = "crossing" /\ iter' = iter + 1 /\ pc' \in {"head", "postflight"}
    BY <1>10 DEF CloseIteration
  <2>2. Clock = 6 + 5 * iter
    BY <2>1 DEF Clock
  <2>3. CASE pc' = "head"
    BY <1>1, <1>3, <2>1, <2>2, <2>3
  <2> QED
    BY <1>1, <1>2, <1>3, <2>1, <2>3
<1>11. CASE SnapshotFails \/ LeaveWithoutRow \/ LeaveLoop \/ FatalOutput
  <2>1. /\ pc \in {"head", "snapshot", "row", "crossing"}
        /\ pc' \in {"postflight", "report", "off"}
    BY <1>11 DEF SnapshotFails, LeaveWithoutRow, LeaveLoop, FatalOutput, Quit
  <2> QED
    BY <1>1, <1>2, <1>3, <2>1
<1>12. CASE Postflight \/ Report
  BY <1>1, <1>3, <1>12 DEF Postflight, Report, Quit, Clock
<1> QED
  BY <1>4, <1>5, <1>6, <1>7, <1>8, <1>9, <1>10, <1>11, <1>12 DEF Step

LEMMA NothingTakesBack ==
  ASSUME IInv, InRange, [Next]_vars, pc # "off"
  PROVE  Clock' >= Clock
<1>1. Clock \in 0 .. LoopEnd + 2
  BY ClockBounds
<1>2. IterLimit \in Nat /\ LoopEnd \in Nat
  BY ProbeAssumption DEF LoopEnd
<1>3. CASE Step
  <2>1. Clock' \in Nat /\ Clock' > Clock
    BY <1>3, StepMovesOn
  <2>2. Clock \in Nat
    BY <1>1, <1>2
  <2> QED
    BY <2>1, <2>2
<1>4. CASE Proxied \/ Signal \/ UNCHANGED vars
  <2>1. UNCHANGED <<pc, iter>>
    BY <1>4 DEF Proxied, Record, StopProxy, StartProxy, Rollover, Signal, memory, vars
  <2>2. Clock' = Clock
    BY <2>1 DEF Clock, LoopEnd
  <2> QED
    BY <1>1, <2>2
<1>5. CASE Die
  <2>1. Clock' = LoopEnd + 2
    BY <1>5 DEF Die, Quit, Clock, LoopEnd
  <2> QED
    BY <1>1, <1>2, <2>1
<1> QED
  BY <1>3, <1>4, <1>5 DEF Next, StartRun, Resume

\* An invocation takes at most LoopEnd + 2 steps of its own, and all of a run's together,
\* however often it is resumed, stay in the loop's range (probe.py:1442 with
\* load_resume_state): whatever the calls cost, and whatever the proxy and the signals
\* do, every step brings the invocation nearer to its end.
THEOREM InvocationIsBounded ==
  ProbeSpec => [](InRange /\ Clock \in 0 .. LoopEnd + 2) /\ [][MovesOn]_vars
<1>1. Init => InRange
  BY DEF Init, InRange
<1>2. IInv /\ InRange => Clock \in 0 .. LoopEnd + 2
  BY ClockBounds
<1>3. IInv /\ InRange /\ [Next]_vars => [MovesOn]_vars
  BY StepMovesOn, NothingTakesBack DEF MovesOn
<1>4. IInv /\ InRange /\ [Next]_vars => IInv' /\ InRange'
  BY InvNext, InRangeNext
<1> QED
  BY <1>1, <1>2, <1>3, <1>4, InitInv, PTL DEF ProbeSpec
=============================================================================
