---------------------------- MODULE RunDirectories ----------------------------
(***************************************************************************)
(* What the legacy probe and report.py keep of every run in a directory    *)
(* named for its start, and how later invocations find it: --continue,     *)
(* --resume and the comparison with the previous run. CapacityProbe has    *)
(* the inside of one run; here a run is the ticks its snapshots hold.      *)
(*                                                                         *)
(* A file is written by truncating it and filling it, so a probe that is   *)
(* killed in between leaves it empty, which is no JSON.                    *)
(***************************************************************************)
EXTENDS Integers, Sequences, FiniteSetsExt

CONSTANTS
  None,       (* a file or a result that is not there *)
  Torn,       (* a file that was truncated and not filled *)
  MaxDirs,    (* bound: runs started *)
  MaxRuns,    (* bound: runs started, resumed or continued *)
  MaxTicks,   (* bound: clean ticks of all runs *)
  MaxDeaths   (* bound: kills of the probe *)

Windows == {"5h", "7d"}

ASSUME RunsAssumption ==
  /\ MaxDirs \in Nat /\ MaxRuns \in Nat /\ MaxTicks \in Nat /\ MaxDeaths \in Nat
  /\ None # Torn /\ \A file \in {None, Torn} : file \notin [Windows -> Nat]
  /\ \A w \in Windows, d \in BOOLEAN : [window |-> w, dry |-> d] \notin {None, Torn}

VARIABLES
  dirs,      (* the directories, in the order of their names *)
  stage,     (* what the probe writes next, "off" when none runs *)
  open,      (* the file of that stage is truncated and not filled *)
  job,       (* its directory, window and --dry-run, and whether it was    *)
             (* given its directory in another spelling than the listed one *)
  compared,  (* the previous run its result is compared with *)
  left,      (* the invocations to come *)
  deaths     (* the kills and failures so far *)

runVars == <<dirs, stage, open, job, compared, left, deaths>>

NoTicks == [w \in Windows |-> 0]

NewDirectory(n) ==
  [dryName |-> n, manifest |-> None, ticks |-> NoTicks, bounds |-> None, report |-> None]

NoJob == [dir |-> 0, window |-> "5h", dry |-> FALSE, respelled |-> FALSE]

Stages == {"manifest", "measure", "compare", "bounds", "report"}

Whole(file) == file \notin {None, Torn}

\* Mutant of Derived: the report is written first.
ReportFirst == << "report", "bounds" >>

\* The files report.py derives that are read again, in the order it writes them. The two
\* before them, crossings.jsonl and measured_ticks.jsonl, are for people.
Derived == << "bounds", "report" >>

RunsInit ==
  /\ dirs = << >>
  /\ stage = "off" /\ open = FALSE /\ job = NoJob /\ compared = None
  /\ left \in {0, MaxRuns} /\ deaths = 0

-----------------------------------------------------------------------------
\* An invocation begins.
Invoked == stage = "off" /\ left > 0 /\ left' = left - 1

\* A new run, named for its start, a later one greater: with-proxy.sh looks for the word
\* --dry-run to put "dryrun-" before the name, the probe takes --run-dir as it comes.
StartRun(w, d, dryName) ==
  /\ Invoked /\ Len(dirs) < MaxDirs
  /\ dirs' = Append(dirs, NewDirectory(dryName))
  /\ job' = [dir |-> Len(dirs'), window |-> w, dry |-> d, respelled |-> FALSE]
  /\ stage' = "manifest"
  /\ UNCHANGED <<open, compared, deaths>>

\* A run is taken up again: it measures on, or has its target already.
TakeUp(r, w, d, respelled) ==
  /\ job' = [dir |-> r, window |-> w, dry |-> d, respelled |-> respelled]
  /\ stage' \in {"measure", Derived[1]}
  /\ UNCHANGED <<dirs, open, compared, deaths>>

\* Mutant of Resume: the manifest is not asked for.
ResumeUnread(r, w, d) == Invoked /\ \E respelled \in BOOLEAN : TakeUp(r, w, d, respelled)

\* --resume <dir>, in any spelling: a directory whose manifest can be read and has the
\* window.
Resume(r, w, d) ==
  /\ Invoked
  /\ Whole(dirs[r].manifest)
  /\ dirs[r].manifest.window = w
  /\ \E respelled \in BOOLEAN : TakeUp(r, w, d, respelled)

\* resolve_continue_run: the runs --continue may choose from.
Candidates(w, d) ==
  {r \in DOMAIN dirs : Whole(dirs[r].manifest)
                       /\ dirs[r].manifest.window = w /\ dirs[r].manifest.dry = d}

\* The greatest name: "dryrun-" is greater than a date.
Newest(chosen) ==
  LET dryNamed == {r \in chosen : dirs[r].dryName}
  IN Max(IF dryNamed = {} THEN chosen ELSE dryNamed)

\* --continue: the one with the greatest name, spelled as it is listed.
Continue(w, d) ==
  /\ Invoked
  /\ Candidates(w, d) # {}
  /\ TakeUp(Newest(Candidates(w, d)), w, d, FALSE)

TicksOf(r) == dirs[r].ticks["5h"] + dirs[r].ticks["7d"]

\* The loop measures a tick of one window or the other.
Measure(w) ==
  /\ stage = "measure" /\ ~job.dry
  /\ MapThenSumSet(TicksOf, DOMAIN dirs) < MaxTicks
  /\ dirs' = [dirs EXCEPT ![job.dir].ticks[w] = @ + 1]
  /\ UNCHANGED <<stage, open, job, compared, left, deaths>>

\* Mutant of EndMeasuring: a run that was interrupted is not reported.
EndMeasuringUnreported ==
  /\ stage = "measure"
  /\ \/ stage' = "compare" /\ UNCHANGED job
     \/ stage' = "off" /\ job' = NoJob
  /\ UNCHANGED <<dirs, open, compared, left, deaths>>

\* The loop ends; a signal that came with a snapshot skips the comparison.
EndMeasuring ==
  /\ stage = "measure"
  /\ stage' \in {"compare", Derived[1]}
  /\ UNCHANGED <<dirs, open, job, compared, left, deaths>>

\* find_previous_run: a run of the window, not dry by its name, with a result. Its own
\* directory is left out by the spelling of its path.
Comparable ==
  {r \in DOMAIN dirs : /\ r = job.dir => job.respelled
                       /\ ~dirs[r].dryName
                       /\ dirs[r].bounds # None
                       /\ Whole(dirs[r].manifest)
                       /\ dirs[r].manifest.window = job.window}

\* compute_previous_comparison: the newest one, if its bounds can be read and hold a
\* measurement.
Compare ==
  /\ stage = "compare"
  /\ compared' =
       IF Comparable = {} THEN None
       ELSE LET r == Newest(Comparable)
            IN IF Whole(dirs[r].bounds) /\ dirs[r].bounds[job.window] > 0
               THEN [dir |-> r, ticks |-> dirs[r].bounds[job.window]]
               ELSE None
  /\ stage' = Derived[1]
  /\ UNCHANGED <<dirs, open, job, left, deaths>>

-----------------------------------------------------------------------------
\* The stage behind the one whose file has been written.
After(s) ==
  CASE s = "manifest" -> "measure" [] s = Derived[1] -> Derived[2] [] s = Derived[2] -> "off"

\* What the file of a stage holds. bounds.json and report.md are of the snapshots as they
\* are; the manifest says whether the run is dry.
Content(s) ==
  CASE s = "manifest" -> [window |-> job.window, dry |-> job.dry]
    [] s = "bounds"   -> dirs[job.dir].ticks
    [] s = "report"   -> [dry |-> dirs[job.dir].manifest.dry, ticks |-> dirs[job.dir].ticks]

WithFile(s, content) ==
  CASE s = "manifest" -> [dirs EXCEPT ![job.dir].manifest = content]
    [] s = "bounds"   -> [dirs EXCEPT ![job.dir].bounds = content]
    [] s = "report"   -> [dirs EXCEPT ![job.dir].report = content]

\* write_text opens the file ...
Truncate ==
  /\ stage \in {"manifest", "bounds", "report"} /\ ~open
  /\ dirs' = WithFile(stage, Torn)
  /\ open' = TRUE
  /\ UNCHANGED <<stage, job, compared, left, deaths>>

\* ... and fills it.
Fill ==
  /\ open
  /\ dirs' = WithFile(stage, Content(stage))
  /\ open' = FALSE
  /\ stage' = After(stage)
  /\ IF stage' = "off" THEN job' = NoJob /\ compared' = None ELSE UNCHANGED <<job, compared>>
  /\ UNCHANGED <<left, deaths>>

\* The probe is killed, or gives up.
Die ==
  /\ stage \in Stages /\ deaths < MaxDeaths
  /\ stage' = "off" /\ open' = FALSE /\ job' = NoJob /\ compared' = None
  /\ deaths' = deaths + 1
  /\ UNCHANGED <<dirs, left>>

Invocation ==
  \E w \in Windows, d \in BOOLEAN :
    \/ \E dryName \in BOOLEAN : StartRun(w, d, dryName)
    \/ \E r \in DOMAIN dirs : Resume(r, w, d)
    \/ Continue(w, d)

RunNext ==
  \/ Invocation
  \/ \E w \in Windows : Measure(w)
  \/ EndMeasuring \/ Compare \/ Truncate \/ Fill
  \/ Die

-----------------------------------------------------------------------------
\* The previous result that a run is compared with (probe.py:504-531) was measured: it
\* shows no tick that the snapshots of that run do not have. And it is up to date, all its
\* ticks are in it, however it was interrupted and resumed, unless an invocation died; only
\* a run resumed in another spelling is compared with an older state of its own.
ComparisonIsCurrent ==
  compared # None =>
    LET ticks == dirs[compared.dir].ticks[job.window]
    IN /\ compared.ticks \in 1 .. ticks
       /\ deaths = 0 /\ (job.respelled => compared.dir # job.dir) => compared.ticks = ticks

\* The derived files run behind in the order they are written: a report never tells of
\* a tick that bounds.json does not have, nor bounds.json of one the snapshots do not
\* have, wherever a kill falls and however often the run is resumed.
DerivedFilesKeepOrder ==
  \A r \in DOMAIN dirs : \A w \in Windows :
    LET d == dirs[r]
    IN /\ Whole(d.bounds) => d.bounds[w] <= d.ticks[w]
       /\ Whole(d.report) /\ Whole(d.bounds) => d.report.ticks[w] <= d.bounds[w]
       /\ d.report # None => d.bounds # None
=============================================================================
