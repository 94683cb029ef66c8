---------------------------- MODULE CapacityProbe ----------------------------
(***************************************************************************)
(* tools/capacity_probe/probe.py: a probe sends prompts through a proxy    *)
(* until the utilization has crossed enough percents, and records every    *)
(* step in a run directory from which an interrupted run is resumed.       *)
(*                                                                         *)
(* Units are the priced input-equivalent tokens; TickUnits of them are one *)
(* percent upstream, which is what the probe is there to find out. The     *)
(* sizes of the prompts, and with them the probe's estimate of the way to  *)
(* the next percent, are free: any call in CallUnits may come next.        *)
(***************************************************************************)
EXTENDS Crossings, CapacityReport, FiniteSets

CONSTANTS
  TickUnits,      (* the true cost of one percent                          *)
  CallUnits,      (* what a call may cost                                  *)
  Positions,      (* the use of the window before the run                  *)
  TargetTicks,    (* TARGET_5H_TICKS or TARGET_7D_TICKS                    *)
  DryIterations,  (* DRY_ITERATIONS                                        *)
  IterLimit,      (* the end of the loop's range, 10_000 in the code       *)
  PriorLow,       (* prior_C, the default cost of a percent *)
  PriorHigh,      (* with PRIOR_C_SLOP on both sides        *)
  NoManifest,     (* manifest.json is not there                            *)
  MaxPending,     (* bound: answers not recorded yet                       *)
  MaxResumes,     (* bound: resumed invocations                            *)
  MaxStops,       (* bound: signals and deaths of the probe                *)
  MaxFaults       (* bound: stops of the proxy and rollovers of the window *)

ASSUME ProbeAssumption ==
  /\ TickUnits \in Nat \ {0} /\ CallUnits \subseteq Nat \ {0} /\ Positions \subseteq Nat
  /\ PriorLow \in Nat \ {0} /\ PriorHigh \in Nat /\ PriorLow <= PriorHigh
  /\ TargetTicks \in Nat \ {0} /\ DryIterations \in Nat /\ IterLimit \in Nat
  /\ NoManifest \notin [need : Int, pct : Int]
  /\ MaxPending \in Nat /\ MaxResumes \in Nat /\ MaxStops \in Nat /\ MaxFaults \in Nat

VARIABLES
  spent,        (* what the upstream has charged, of the window and before *)
  origin,       (* the part of spent that earlier windows hold             *)
  up,           (* the proxy answers                                       *)
  counted,      (* its token counters                                      *)
  shown,        (* its utilization gauge, in percent                       *)
  pending,      (* answers it has forwarded and not recorded yet           *)
  pc,           (* where the probe is, "off" when none runs                *)
  interrupted,
  dry,          (* --dry-run                                               *)
  iter,         (* iter_num                                                *)
  current,      (* the snapshot after the last complete iteration          *)
  total,        (* total_units                                             *)
  active,       (* active_tick                                             *)
  closed,       (* closed_ticks                                            *)
  measurements, (* measurements_done                                       *)
  manifest,     (* manifest.json: the need and the percent of the baseline *)
  snapshots,    (* snapshots.jsonl                                         *)
  rows,         (* iterations.jsonl                                        *)
  constraints,  (* position-constraints.jsonl, recorded_crossings with it  *)
  since,        (* history: the lengths of the two when this invocation    *)
                (* began                                                   *)
  cut,          (* history: iterations whose crossings a death left out    *)
  faithful,     (* history: since the baseline the gauge and the counters  *)
                (* have followed one window in the order of its charges    *)
  replaced,     (* history: the proxy was restarted since the baseline     *)
  resumes,      (* history: resumed invocations so far                     *)
  stops,        (* history: signals and deaths so far                      *)
  faults        (* history: stops of the proxy and rollovers so far        *)

upstream == <<spent, origin>>
proxy    == <<up, counted, shown, pending>>
memory   == <<interrupted, dry, iter, current, total, active, closed, measurements, since>>
disk     == <<manifest, snapshots, rows, constraints>>
history  == <<cut, faithful, replaced, resumes, stops, faults>>
vars     == <<upstream, proxy, pc, memory, disk, history>>

Snapshots == [label : Nat, units : Nat, pct : Nat]
Rows      == [iter : Nat, units : Int]
Blocks    == [num : Nat, leading : BOOLEAN, iters : Seq(Nat)]

NoSnapshot   == [label |-> 0, units |-> 0, pct |-> 0]
NothingYet   == [rows |-> 0, constraints |-> 0]
LeadingBlock == [num |-> 0, leading |-> TRUE, iters |-> << >>]

\* The places inside the loop and behind it: the signal handler is installed.
Handled == {"head", "claude", "snapshot", "row", "crossing", "postflight", "report"}

ProbeTypeOK ==
  /\ spent \in Nat /\ origin \in Nat
  /\ up \in BOOLEAN /\ counted \in Nat /\ shown \in Nat
  /\ pending \in Seq([units : CallUnits, pct : Nat])
  /\ pc \in Handled \cup {"off", "baseline", "manifest"}
  /\ interrupted \in BOOLEAN /\ dry \in BOOLEAN
  /\ iter \in Nat /\ total \in Int /\ measurements \in Nat
  /\ current \in Snapshots
  /\ active \in Blocks
  /\ closed \in Seq([block : Blocks, crossed : Nat])
  /\ manifest = NoManifest \/ (manifest.need \in Nat \ {0} /\ manifest.pct \in Nat)
  /\ snapshots \in Seq(Snapshots)
  /\ rows \in Seq(Rows)
  /\ constraints \in Seq(CrossingLines)
  /\ since \in [rows : Nat, constraints : Nat]
  /\ cut \subseteq Nat
  /\ faithful \in BOOLEAN /\ replaced \in BOOLEAN
  /\ resumes \in Nat /\ stops \in Nat /\ faults \in Nat

-----------------------------------------------------------------------------
Percent(units) == (units - origin) \div TickUnits

Labelled(n) == {j \in DOMAIN snapshots : snapshots[j].label = n}

\* Snapshots are looked up by label in a dictionary: the last one of a label counts.
SnapshotOf(n) ==
  snapshots[CHOOSE j \in Labelled(n) : \A i \in Labelled(n) : i <= j]

Newest == snapshots[Len(snapshots)]

TicksSeen(snap) == snap.pct - manifest.pct

Reading(label) == [label |-> label, units |-> counted, pct |-> shown]

\* The proxy may have recorded nothing so far: its gauge reads zero.
Init ==
  /\ spent \in Positions /\ origin = 0
  /\ up = TRUE /\ counted = 0 /\ pending = << >>
  /\ shown \in {0, Percent(spent)}
  /\ pc = "off" /\ interrupted = FALSE /\ dry = FALSE
  /\ iter = 0 /\ current = NoSnapshot /\ total = 0
  /\ active = LeadingBlock /\ closed = << >> /\ measurements = 0
  /\ manifest = NoManifest
  /\ snapshots = << >> /\ rows = << >> /\ constraints = << >>
  /\ since = NothingYet /\ cut = {} /\ faithful = FALSE /\ replaced = FALSE
  /\ resumes = 0 /\ stops = 0 /\ faults = 0

-----------------------------------------------------------------------------
\* The upstream and the proxy, as far as the probe depends on them.

\* An answer is recorded: the counters and the gauge move together. The proxy does
\* this when it has forwarded the answer, possibly after claude has exited.
Record(i) ==
  /\ i \in DOMAIN pending
  /\ counted' = counted + pending[i].units
  /\ shown' = pending[i].pct
  /\ pending' = [j \in 1 .. Len(pending) - 1 |-> pending[IF j < i THEN j ELSE j + 1]]
  /\ faithful' = (faithful /\ i = 1)
  /\ UNCHANGED <<upstream, up, pc, memory, disk, cut, replaced, resumes, stops, faults>>

\* The proxy goes away with what it has not recorded.
StopProxy ==
  /\ up /\ faults < MaxFaults
  /\ up' = FALSE
  /\ pending' = << >>
  /\ faithful' = (faithful /\ pending = << >>)
  /\ faults' = faults + 1
  /\ UNCHANGED <<upstream, counted, shown, pc, memory, disk, cut, replaced, resumes, stops>>

\* Another one takes its place, primed with a call or not.
StartProxy ==
  /\ ~up
  /\ up' = TRUE
  /\ counted' = 0
  /\ shown' \in {0, Percent(spent)}
  /\ faithful' = FALSE
  /\ replaced' = (replaced \/ snapshots # << >>)
  /\ UNCHANGED <<upstream, pending, pc, memory, disk, cut, resumes, stops, faults>>

\* The window starts again at zero.
Rollover ==
  /\ faults < MaxFaults
  /\ origin' = spent
  /\ faithful' = FALSE
  /\ faults' = faults + 1
  /\ UNCHANGED <<spent, proxy, pc, memory, disk, cut, replaced, resumes, stops>>

-----------------------------------------------------------------------------
\* The end of an invocation.
Quit ==
  /\ pc' = "off"
  /\ interrupted' = FALSE /\ dry' = FALSE
  /\ iter' = 0 /\ current' = NoSnapshot /\ total' = 0 /\ since' = NothingYet
  /\ active' = LeadingBlock /\ closed' = << >> /\ measurements' = 0

\* A new run, in a directory of its own.
StartRun(d) ==
  /\ pc = "off" /\ up
  /\ manifest = NoManifest /\ snapshots = << >>
  /\ pc' = "baseline"
  /\ dry' = d
  /\ UNCHANGED <<upstream, proxy, interrupted, iter, current, total, active, closed,
                 measurements, since, disk, history>>

ReadBaseline ==
  /\ pc = "baseline" /\ up
  /\ snapshots' = Append(snapshots, Reading(0))
  /\ current' = Reading(0)
  /\ faithful' = (pending = << >> /\ shown = Percent(spent))
  /\ pc' = "manifest"
  /\ UNCHANGED <<upstream, proxy, interrupted, dry, iter, total, active, closed,
                 measurements, since, manifest, rows, constraints, cut, replaced, resumes, stops, faults>>

\* The baseline cannot be read: the exception ends the probe.
BaselineFails ==
  /\ pc = "baseline" /\ ~up
  /\ Quit
  /\ UNCHANGED <<upstream, proxy, disk, history>>

\* Mutant of Need: the crossing that only anchors the first measurement is forgotten.
NeedNoAnchor(pct) == TargetTicks - (IF pct = 0 THEN 1 ELSE 0)

\* The crossings to wait for: one more than ticks, unless the baseline is zero.
Need(pct) == TargetTicks + 1 - (IF pct = 0 THEN 1 ELSE 0)

WriteManifest ==
  /\ pc = "manifest"
  /\ manifest' = [need |-> Need(current.pct), pct |-> current.pct]
  /\ iter' = 1
  /\ pc' = "head"
  /\ UNCHANGED <<upstream, proxy, interrupted, dry, current, total, active, closed,
                 measurements, since, snapshots, rows, constraints, history>>

\* load_resume_state walks the rows up to the first one without a snapshot.
Walked ==
  CHOOSE n \in 0 .. Len(rows) :
    /\ \A i \in 1 .. n : Labelled(rows[i].iter) # {}
    /\ n < Len(rows) => Labelled(rows[n + 1].iter) = {}

\* Mutant of Resumed: the last snapshot of the file is the current one.
ResumedFromNewest == Newest

\* The snapshot a resumed run goes on from.
Resumed == IF Walked = 0 THEN SnapshotOf(0) ELSE SnapshotOf(rows[Walked].iter)

\* Mutant of NextIter: the last iteration is taken for unfinished.
NextIterAgain == IF rows = << >> THEN 1 ELSE rows[Len(rows)].iter

NextIter == IF rows = << >> THEN 1 ELSE rows[Len(rows)].iter + 1

\* --resume, with or without --dry-run: what the run has recorded stays, and the sum
\* of the units starts again.
Resume(d) ==
  /\ pc = "off" /\ up
  /\ manifest # NoManifest
  /\ resumes < MaxResumes
  /\ resumes' = resumes + 1
  /\ dry' = d
  /\ current' = Resumed
  /\ iter' = NextIter
  /\ since' = [rows |-> Len(rows), constraints |-> Len(constraints)]
  /\ pc' = IF TicksSeen(Resumed) >= manifest.need THEN "report" ELSE "head"
  /\ UNCHANGED <<upstream, proxy, interrupted, total, active, closed, measurements, disk,
                 cut, faithful, replaced, stops, faults>>

-----------------------------------------------------------------------------
\* What the next call may cost: choose_prompt_size picks a prompt by the estimated way to
\* the next percent, and claude may fail before it sends it.
Costs == CallUnits \cup {0}

\* claude sends one request, which costs units upstream, or fails before it sends
\* any. A dry run sends none.
Call(u) ==
  /\ pc = "head" /\ ~interrupted /\ iter < IterLimit
  /\ u > 0 => up /\ ~dry /\ Len(pending) < MaxPending
  /\ spent' = spent + u
  /\ pending' = IF u = 0 THEN pending
                ELSE Append(pending, [units |-> u, pct |-> Percent(spent + u)])
  /\ pc' = "claude"
  /\ UNCHANGED <<origin, up, counted, shown, memory, disk, history>>

ClaudeExits ==
  /\ pc = "claude"
  /\ pc' = IF interrupted THEN "postflight" ELSE "snapshot"
  /\ UNCHANGED <<upstream, proxy, memory, disk, history>>

TakeSnapshot ==
  /\ pc = "snapshot" /\ up
  /\ snapshots' = Append(snapshots, Reading(iter))
  /\ pc' = "row"
  /\ UNCHANGED <<upstream, proxy, memory, manifest, rows, constraints, history>>

\* Mutant of SnapshotFails: the probe tries again.
SnapshotRetried ==
  /\ pc = "snapshot" /\ ~up
  /\ UNCHANGED vars

SnapshotFails ==
  /\ pc = "snapshot" /\ ~up
  /\ interrupted' = TRUE
  /\ pc' = "postflight"
  /\ UNCHANGED <<upstream, proxy, dry, iter, current, total, active, closed,
                 measurements, since, disk, history>>

\* A signal that came with the snapshot: its iteration gets no row.
LeaveWithoutRow ==
  /\ pc = "row" /\ interrupted
  /\ pc' = "report"
  /\ UNCHANGED <<upstream, proxy, memory, disk, history>>

\* Mutant of IterUnits: the usage since the snapshot before in the file.
IterUnitsSinceLast == Newest.units - snapshots[Len(snapshots) - 1].units

IterUnits == Newest.units - current.units

WriteRow ==
  /\ pc = "row" /\ ~interrupted
  /\ rows' = Append(rows, [iter |-> iter, units |-> IterUnits])
  /\ total' = total + IterUnits
  /\ active' = [active EXCEPT !.iters = Append(@, iter)]
  /\ pc' = "crossing"
  /\ UNCHANGED <<upstream, proxy, interrupted, dry, iter, current, closed, measurements,
                 since, manifest, snapshots, constraints, history>>

\* claude printed one of the fatal messages and nothing was counted: the probe dies.
FatalOutput ==
  /\ pc = "crossing" /\ ~dry
  /\ IterUnits = 0
  /\ cut' = cut \cup {iter}
  /\ Quit
  /\ UNCHANGED <<upstream, proxy, disk, faithful, replaced, resumes, stops, faults>>

\* Mutant of Bracket: total is taken for the sum before the iteration.
BracketLate == [before |-> total, after |-> total + IterUnits]

\* The sums before and after the iteration.
Bracket == [before |-> total - IterUnits, after |-> total]

\* The rest of an iteration. A crossing is recorded and closes the block of
\* iterations; the block after it is a measurement, unless the target is reached.
CloseIteration ==
  LET crossed == Newest.pct - current.pct
      reached == TicksSeen(Newest) >= manifest.need
  IN /\ pc = "crossing"
     /\ constraints' = WriteCrossings(constraints,
          BuildCrossings(current.pct, Newest.pct, Bracket.before, Bracket.after, iter))
     /\ closed' = IF crossed > 0
                  THEN Append(closed, [block |-> active, crossed |-> crossed])
                  ELSE closed
     /\ measurements' = IF crossed > 0 /\ ~active.leading
                        THEN measurements + crossed ELSE measurements
     /\ active' = IF crossed > 0 /\ ~reached
                  THEN [num |-> measurements' + 1, leading |-> FALSE, iters |-> << >>]
                  ELSE active
     /\ current' = Newest
     /\ iter' = iter + 1
     /\ pc' = IF (dry /\ iter >= DryIterations) \/ (~dry /\ reached)
              THEN "postflight" ELSE "head"
     /\ UNCHANGED <<upstream, proxy, interrupted, dry, total, since,
                    manifest, snapshots, rows, history>>

LeaveLoop ==
  /\ pc = "head"
  /\ interrupted \/ iter >= IterLimit
  /\ pc' = "postflight"
  /\ UNCHANGED <<upstream, proxy, memory, disk, history>>

\* Mutant of AlreadyRecorded: any closed block will do.
AlreadyRecordedAny == closed # << >>

\* The last closed block is the active one.
AlreadyRecorded ==
  /\ closed # << >>
  /\ LET last == closed[Len(closed)].block
     IN last.leading = active.leading /\ last.num = active.num

\* prior_C, an interval of one tick.
Prior == [lo |-> PriorLow, hi |-> PriorHigh, dk |-> 1]

\* estimate_C raises: the pairs and prior_C contradict one another.
Contradictory(crossings) == Disjoint(Intervals(crossings) \cup {Prior})

\* The footer's running estimate, after this many ticks, while the loop runs.
RunningEstimate(ticks, crossings) ==
  CASE Contradictory(crossings) -> "disjoint"
    [] ~Contradictory(crossings) /\ ticks < 2 -> "waiting"
    [] OTHER -> "estimate"

\* The headline of the result panel: the pairwise interval, unless there is no crossing
\* or a contradiction.
Headline(crossings) ==
  CASE crossings = << >> -> "insufficient"
    [] crossings # << >> /\ Contradictory(crossings) -> "disjoint"
    [] OTHER -> "estimate"

\* The iterations of the chosen blocks, in the order of the blocks.
ItersOf(blocks, chosen) ==
  LET some[n \in 0 .. Len(blocks)] ==
        IF n = 0 THEN << >>
        ELSE IF n \in chosen THEN Append(some[n - 1], blocks[n].block.iters)
        ELSE some[n - 1]
  IN some[Len(blocks)]

\* What the panel shows of the blocks: nothing without a crossing, else the iterations of
\* each measurement, of the first leading block and of the first one in flight.
ResultPanel(blocks, crossings) ==
  LET leading      == {b \in DOMAIN blocks : blocks[b].block.leading}
      measured     == {b \in DOMAIN blocks \ leading : blocks[b].crossed > 0}
      OnlyFirst(s) == IF s = << >> THEN << >> ELSE Head(s)
  IN [headline |-> Headline(crossings),
      leading  |-> OnlyFirst(ItersOf(blocks, leading)),
      measured |-> ItersOf(blocks, measured),
      inFlight |-> OnlyFirst(ItersOf(blocks, DOMAIN blocks \ (leading \cup measured)))]

\* A block left open is shown as in flight.
Postflight ==
  /\ pc = "postflight"
  /\ closed' = IF active.iters # << >> /\ ~AlreadyRecorded
               THEN Append(closed, [block |-> active, crossed |-> 0])
               ELSE closed
  /\ pc' = "report"
  /\ UNCHANGED <<upstream, proxy, interrupted, dry, iter, current, total, active,
                 measurements, since, disk, history>>

\* report.py runs over the directory, and the probe is done.
Report ==
  /\ pc = "report"
  /\ Quit
  /\ UNCHANGED <<upstream, proxy, disk, history>>

-----------------------------------------------------------------------------
\* SIGINT or SIGTERM: the handler sets a flag.
Signal ==
  /\ pc \in Handled /\ ~interrupted /\ stops < MaxStops
  /\ interrupted' = TRUE
  /\ stops' = stops + 1
  /\ UNCHANGED <<upstream, proxy, pc, dry, iter, current, total, active, closed,
                 measurements, since, disk, cut, faithful, replaced, resumes, faults>>

\* The probe is killed, between any two of its steps.
Die ==
  /\ pc # "off" /\ stops < MaxStops
  /\ Quit
  /\ stops' = stops + 1
  /\ cut' = IF pc = "crossing" THEN cut \cup {iter} ELSE cut
  /\ UNCHANGED <<upstream, proxy, disk, faithful, replaced, resumes, faults>>

Proxied == (\E i \in DOMAIN pending : Record(i)) \/ StopProxy \/ StartProxy \/ Rollover

\* What an invocation does by itself once it is started; claude's exit is assumed.
Step ==
  \/ ReadBaseline \/ BaselineFails \/ WriteManifest
  \/ \E u \in Costs : Call(u)
  \/ ClaudeExits \/ TakeSnapshot \/ SnapshotFails \/ LeaveWithoutRow
  \/ WriteRow \/ FatalOutput \/ CloseIteration
  \/ LeaveLoop \/ Postflight \/ Report

Next ==
  \/ Proxied
  \/ \E d \in BOOLEAN : StartRun(d) \/ Resume(d)
  \/ Step
  \/ Signal
  \/ Die

ProbeSpec == Init /\ [][Next]_vars /\ WF_vars(Step)

-----------------------------------------------------------------------------
\* Every row is the next iteration, has its snapshot, and holds the usage between
\* that snapshot and the one of the row before: interruptions that leave snapshots
\* without rows, deaths and resumed runs neither lose a unit nor count one twice.
\* So the rows sum up to the last reading less the baseline, and the walk of
\* load_resume_state never meets its break.
RowsTelescope ==
  \A i \in DOMAIN rows :
    /\ rows[i].iter = i
    /\ Labelled(i) # {} /\ Labelled(i - 1) # {}
    /\ rows[i].units = SnapshotOf(i).units - SnapshotOf(i - 1).units

\* The percents that row i passed.
Passed(i) == SnapshotOf(i - 1).pct + 1 .. SnapshotOf(i).pct

\* The two streams stay in lockstep (crossings.py:153-155): a row that passes a
\* percent has a crossing for it, with a bracket as wide as the row's units, unless
\* the probe died between the two writes; and there is no other crossing.
StreamsInLockstep ==
  /\ \A c \in 1 .. Len(constraints) :
       /\ constraints[c].iter \in DOMAIN rows
       /\ constraints[c].k \in Passed(constraints[c].iter)
       /\ constraints[c].after - constraints[c].before = rows[constraints[c].iter].units
       /\ \A d \in 1 .. c - 1 :
            constraints[c].iter = constraints[d].iter => constraints[c].k # constraints[d].k
  /\ \A i \in DOMAIN rows \ cut :
       i < iter \/ pc = "off" =>
         \A k \in Passed(i) :
           \E c \in DOMAIN constraints : constraints[c].iter = i /\ constraints[c].k = k

\* The percent after each row, that of the baseline at zero.
Percents == [n \in 0 .. Len(rows) |-> SnapshotOf(n).pct]

Derived == DeriveCrossings(rows, Percents)

\* The crossings can be rebuilt from the rows and admit the true cost of a tick, however
\* often the run was interrupted, killed and resumed. (Where the gauge fell or lost its
\* window, crossings.py:238-249 raises or the rows say nothing true: not faithful.)
DerivedSound ==
  faithful => ~Falls(rows, Percents) /\ TickUnits \in EstimateC(Derived, {TickUnits})

\* All the crossings of a run admit it (probe.py:1686-1687 "Q0 cancels under pairwise
\* subtraction, so every crossing contributes").
EveryCrossingContributes ==
  faithful => TickUnits \in EstimateC(constraints, {TickUnits})

\* The report's measured ticks bracket the true cost of a tick, and the midpoint that
\* bounds.json publishes is off by no more than the widths of its brackets.
TicksBracketed ==
  LET ticks   == MeasuredTicks(snapshots)
      summary == BoundsSummary(ticks)
      slack   == SumFunction([t \in ticks |-> t[1].post - t[1].pre + t[2].post - t[2].pre])
  IN faithful =>
       /\ \A t \in ticks : TickUnits \in t[2].pre - t[1].post .. t[2].post - t[1].pre
       /\ summary.mid - 2 * summary.clean * TickUnits \in -slack .. slack

\* No call was so large that it passed two percents.
SmallSteps == \A b \in DetectBoundaries(snapshots) : ~b.coarse

\* The crossings one invocation records admit the true cost of a tick. The footer of a
\* run that was not resumed never reports a contradiction, as long as the prior is right,
\* and what it shows as the running estimate has been narrowed by a pair of crossings
\* (probe.py:926-929), as long as no call passed two percents.
LiveSound ==
  faithful /\ pc # "off" =>
    /\ TickUnits \in
         EstimateC(SubSeq(constraints, since.constraints + 1, Len(constraints)), {TickUnits})
    /\ resumes = 0 /\ manifest # NoManifest =>
         LET footer == RunningEstimate(TicksSeen(current), constraints)
         IN /\ TickUnits \in PriorLow .. PriorHigh => footer # "disjoint"
            /\ footer = "estimate" /\ SmallSteps => Pairs(constraints) # {}

Completed == pc \in {"postflight", "report"} /\ ~interrupted /\ ~dry
             /\ TicksSeen(current) >= manifest.need

\* A run that ends by reaching its target has measured the ticks it announced
\* (probe.py:1251 "target: {target_ticks} ticks"), but for one where its baseline is zero:
\* there the first crossing is counted as a tick (probe.py:1282) and anchors one all the
\* same (probe.py:1437-1438). A run from zero that goes on to its target in one invocation
\* has measured exactly that one tick fewer than it claims when it ends (probe.py:1718).
MeasuresWhatItNeeds ==
  LET measured == Cardinality(MeasuredTicks(snapshots))
  IN Completed /\ faithful /\ SmallSteps =>
       /\ manifest.pct # 0 => measured >= TargetTicks
       /\ measured >= TargetTicks - 1
       /\ manifest.pct = 0 /\ resumes = 0 => measured = TargetTicks - 1

\* The gate of validate_crossings.py, with a right prior: it opens for a faithful run just
\* where the run has midpoints and the prior does not exclude all of them on one side. So
\* the crossings never contradict one another, and the legacy estimate and the new one
\* agree (validate_crossings.py:154-165): the rebuilt ones, and the recorded ones unless
\* the run was resumed. A run without two consecutive percents is turned away.
GatePasses ==
  LET Met(mids) == (\E m \in mids : m <= 2 * PriorHigh) /\ (\E m \in mids : 2 * PriorLow <= m)
      Works(crossings) == GateOpen(crossings, Prior) <=> Met(LegacyMidpoints(crossings))
  IN faithful /\ TickUnits \in PriorLow .. PriorHigh =>
       /\ Works(Derived)
       /\ resumes = 0 => Works(RunCrossings(constraints, Derived))

\* Every row of the invocation is in the result panel once and in order: there is one
\* leading block and at most one in flight, the panel shows no more. A dry run in which a
\* percent was passed all the same is left out: it goes on with a block that is closed
\* (probe.py:1711-1715). And where a faithful run was not resumed, the headline is an
\* estimate, as long as the prior is right.
ShownInFull ==
  LET panel == ResultPanel(closed', constraints)
  IN panel.headline # "insufficient" =>
       /\ ~dry \/ Len(constraints) = since.constraints =>
            panel.leading \o FlattenSeq(panel.measured) \o panel.inFlight
              = [j \in 1 .. Len(rows) - since.rows |-> since.rows + j]
       /\ faithful /\ resumes = 0 /\ TickUnits \in PriorLow .. PriorHigh =>
            panel.headline = "estimate"

\* Where the result panel shows a table, it is complete (probe.py:1726-1728).
PanelShowsEveryRow == [][pc = "postflight" /\ pc' = "report" => ShownInFull]_vars

\* Every invocation comes to its end, also when the proxy has gone for good and with
\* signals at any moment, provided that claude exits: the probe waits for it without a
\* time-out (probe.py:1509).
Ends == (pc # "off") ~> (pc = "off")

\* The log the run directory holds: the baseline's counter and the one after each row.
Readings ==
  IF manifest = NoManifest THEN << >>
  ELSE << SnapshotOf(0).units >> \o [i \in DOMAIN rows |-> SnapshotOf(rows[i].iter).units]

Log == INSTANCE UsageLog WITH used <- counted, readings <- Readings, same <- ~replaced

\* The rows are a log of readings of the proxy's counters.
ImplementsLog == Log!LogSpec
=============================================================================
