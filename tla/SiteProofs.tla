----------------------------- MODULE SiteProofs -----------------------------
(***************************************************************************)
(* Proofs about Site: what report.py derives stays behind what the probe   *)
(* measured, in the order the files are written; a comparison shows what   *)
(* the other run has measured; md_to_html shows each report as it is       *)
(* meant; and the site is that of the last build that finished.            *)
(***************************************************************************)
EXTENDS Site, Sums

Tallies   == [Windows -> Nat]
Manifests == [window : Windows, dry : BOOLEAN] \cup {None, Torn}
Reports   == [dry : BOOLEAN, ticks : Tallies] \cup {None, Torn}

Directories ==
  [dryName : BOOLEAN, manifest : Manifests, ticks : Tallies,
   bounds : Tallies \cup {None, Torn}, report : Reports]

\* a tells of no tick that b does not have.
Behind(a, b) == \A w \in Windows : a[w] <= b[w]

\* The property of one directory, with the report behind the snapshots too: bounds.json may
\* be torn when it is written again.
InOrder(d) ==
  /\ Whole(d.bounds) => Behind(d.bounds, d.ticks)
  /\ Whole(d.report) => Behind(d.report.ticks, d.ticks)
  /\ Whole(d.report) /\ Whole(d.bounds) => Behind(d.report.ticks, d.bounds)
  /\ d.report # None => d.bounds # None

\* While the report is written, bounds.json is that of the snapshots.
JobInOrder ==
  /\ stage \in Stages \ {"manifest"} => Whole(dirs[job.dir].manifest)
  /\ stage = "report" => dirs[job.dir].bounds = dirs[job.dir].ticks

DirInv ==
  /\ dirs \in Seq(Directories)
  /\ job.window \in Windows /\ job.dry \in BOOLEAN
  /\ open => stage \in {"manifest", "bounds", "report"}
  /\ \A r \in DOMAIN dirs : InOrder(dirs[r])
  /\ job.dir \in DOMAIN dirs => JobInOrder

LEMMA DirInit == ASSUME SiteInit PROVE DirInv
  BY DEF SiteInit, RunsInit, DirInv, NoJob, Windows, JobInOrder, Stages

\* A step that changes directory r, or none, for one that is in order again.
LEMMA OneDirectory ==
  ASSUME dirs \in Seq(Directories), \A r \in DOMAIN dirs : InOrder(dirs[r]),
         NEW r, NEW d, r \in DOMAIN dirs => d \in Directories /\ InOrder(d),
         dirs' = [dirs EXCEPT ![r] = d]
  PROVE  /\ dirs' \in Seq(Directories) /\ DOMAIN dirs' = DOMAIN dirs
         /\ \A k \in DOMAIN dirs' : InOrder(dirs'[k])
         /\ r \in DOMAIN dirs => dirs'[r] = d
<1>1. \A k \in DOMAIN dirs : dirs'[k] = IF k = r THEN d ELSE dirs[k]
  OBVIOUS
<1>2. dirs' \in Seq(Directories) /\ DOMAIN dirs' = DOMAIN dirs
  <2>1. DOMAIN dirs = 1 .. Len(dirs) /\ Len(dirs) \in Nat /\ DOMAIN dirs' = DOMAIN dirs
    OBVIOUS
  <2>2. \A k \in DOMAIN dirs : dirs'[k] \in Directories
    BY <1>1
  <2>3. dirs' \in [1 .. Len(dirs) -> Directories]
    BY <2>1, <2>2
  <2> QED
    BY <2>1, <2>3
<1>3. ASSUME NEW k \in DOMAIN dirs'
      PROVE  InOrder(dirs'[k])
  <2>1. CASE k = r
    BY <1>1, <1>2, <2>1 DEF InOrder
  <2>2. CASE k # r
    BY <1>1, <1>2, <2>2 DEF InOrder
  <2> QED
    BY <2>1, <2>2
<1> QED
  BY <1>1, <1>2, <1>3

LEMMA FileNames ==
  /\ Derived[1] = "bounds" /\ Derived[2] = "report"
  /\ After("manifest") = "measure" /\ After("bounds") = "report" /\ After("report") = "off"
  BY DEF Derived, After

\* The greatest of some of the first naturals.
LEMMA MaxIs ==
  ASSUME NEW n \in Nat, NEW S, S \subseteq 1 .. n, S # {}
  PROVE  Max(S) \in S /\ \A y \in S : Max(S) >= y
<1> DEFINE short == {n - x : x \in S}
<1>1. short \subseteq Nat /\ short # {}
  <2>1. \A x \in S : n - x \in Nat /\ n - x \in short
    OBVIOUS
  <2> QED
    BY <2>1
<1> HIDE DEF short
<1>2. PICK m \in short : \A k \in short : m <= k
  BY <1>1, LeastNatural
<1>3. PICK x \in S : m = n - x
  BY <1>2 DEF short
<1>4. \A y \in S : n - y \in short
  BY DEF short
<1>5. \A y \in S : x >= y
  BY <1>2, <1>3, <1>4
<1> QED
  BY <1>3, <1>5 DEF Max

\* The greatest name is one of those it is chosen from.
LEMMA NewestIs ==
  ASSUME dirs \in Seq(Directories), NEW chosen, chosen \subseteq DOMAIN dirs, chosen # {}
  PROVE  Newest(chosen) \in chosen
<1> DEFINE dryNamed == {r \in chosen : dirs[r].dryName}
           S == IF dryNamed = {} THEN chosen ELSE dryNamed
<1>1. S \subseteq 1 .. Len(dirs) /\ S # {} /\ S \subseteq chosen /\ Len(dirs) \in Nat
  OBVIOUS
<1>2. Newest(chosen) = Max(S)
  BY DEF Newest
<1> HIDE DEF S
<1> QED
  BY <1>1, <1>2, MaxIs

\* What an invocation begins with.
LEMMA InvocationKeeps ==
  ASSUME DirInv, Invocation
  PROVE  DirInv'
<1> USE DEF DirInv
<1>1. ASSUME NEW w \in Windows, NEW d \in BOOLEAN, NEW n \in BOOLEAN, StartRun(w, d, n)
      PROVE  DirInv'
  <2> DEFINE new == NewDirectory(n)
  <2>1. new \in Directories /\ InOrder(new)
    BY DEF NewDirectory, NoTicks, Directories, Manifests, Reports, Tallies, InOrder, Whole
  <2>2. dirs' = Append(dirs, new) /\ stage' = "manifest" /\ open' = open /\ stage = "off"
        /\ job' = [dir |-> Len(dirs'), window |-> w, dry |-> d, respelled |-> FALSE]
    BY <1>1 DEF StartRun, Invoked
  <2> HIDE DEF new
  <2>3. dirs' \in Seq(Directories) /\ Len(dirs') \in Nat
    BY <2>1, <2>2
  <2>4. \A r \in DOMAIN dirs' : dirs'[r] = new \/ (r \in DOMAIN dirs /\ dirs'[r] = dirs[r])
    BY <2>1, <2>2
  <2>5. ASSUME NEW r \in DOMAIN dirs'
        PROVE  InOrder(dirs'[r])
    BY <2>1, <2>4 DEF InOrder
  <2> QED
    BY <2>2, <2>3, <2>5 DEF JobInOrder
<1>2. ASSUME NEW r, NEW w \in Windows, NEW d \in BOOLEAN, NEW o, Whole(dirs[r].manifest),
             Invoked, TakeUp(r, w, d, o)
      PROVE  DirInv'
  <2>0. /\ UNCHANGED <<dirs, open>> /\ stage' \in {"measure", Derived[1]}
        /\ job' = [dir |-> r, window |-> w, dry |-> d, respelled |-> o]
    BY <1>2 DEF TakeUp
  <2>1. \A k \in DOMAIN dirs' : InOrder(dirs'[k])
    BY <2>0 DEF InOrder
  <2>2. JobInOrder'
    BY <1>2, <2>0, FileNames DEF JobInOrder, Whole
  <2>3. open' => stage' \in {"manifest", "bounds", "report"}
    BY <1>2, <2>0 DEF Invoked
  <2> QED
    BY <2>0, <2>1, <2>2, <2>3
<1>3. ASSUME NEW w \in Windows, NEW d \in BOOLEAN, NEW r \in DOMAIN dirs, Resume(r, w, d)
      PROVE  DirInv'
  BY <1>2, <1>3 DEF Resume
<1>4. ASSUME NEW w \in Windows, NEW d \in BOOLEAN, Continue(w, d)
      PROVE  DirInv'
  <2>1. /\ Invoked /\ Candidates(w, d) # {} /\ Candidates(w, d) \subseteq DOMAIN dirs
        /\ TakeUp(Newest(Candidates(w, d)), w, d, FALSE)
    BY <1>4 DEF Continue, Candidates
  <2>2. PICK r : r = Newest(Candidates(w, d))
    OBVIOUS
  <2>3. r \in Candidates(w, d)
    BY <2>1, <2>2, NewestIs
  <2> QED
    BY <1>2, <2>1, <2>2, <2>3 DEF Candidates
<1> QED
  BY <1>1, <1>3, <1>4 DEF Invocation

\* One more tick is measured.
LEMMA MeasureKeeps ==
  ASSUME DirInv, NEW w \in Windows, Measure(w)
  PROVE  DirInv'
<1> DEFINE r == job.dir
           d == [dirs[r] EXCEPT !.ticks[w] = @ + 1]
<1>1. /\ dirs' = [dirs EXCEPT ![r] = d] /\ stage = "measure"
      /\ UNCHANGED <<stage, open, job>>
  BY DEF Measure
<1>2. ASSUME r \in DOMAIN dirs
      PROVE  d \in Directories /\ InOrder(d) /\ d.manifest = dirs[r].manifest
  <2>1. dirs[r] \in Directories /\ InOrder(dirs[r])
    BY <1>2 DEF DirInv
  <2>2. dirs[r].ticks \in Tallies /\ dirs[r].ticks[w] + 1 \in Nat
    BY <2>1 DEF Directories, Tallies
  <2>3. d = [dirs[r] EXCEPT !.ticks = [dirs[r].ticks EXCEPT ![w] = dirs[r].ticks[w] + 1]]
    OBVIOUS
  <2>4. /\ d.manifest = dirs[r].manifest /\ d.bounds = dirs[r].bounds /\ d.report = dirs[r].report
        /\ d.ticks = [dirs[r].ticks EXCEPT ![w] = dirs[r].ticks[w] + 1] /\ d.ticks \in Tallies
    BY <2>1, <2>2, <2>3 DEF Directories, Tallies
  <2>5. d \in Directories
    BY <2>1, <2>3, <2>4 DEF Directories
  <2>6. \A v \in Windows : dirs[r].ticks[v] \in Nat /\ d.ticks[v] \in Nat
                           /\ dirs[r].ticks[v] <= d.ticks[v]
    BY <2>2, <2>4 DEF Tallies
  <2>7. /\ Whole(dirs[r].bounds) => dirs[r].bounds \in Tallies
        /\ Whole(dirs[r].report) => dirs[r].report.ticks \in Tallies
    BY <2>1 DEF Directories, Reports, Whole
  <2>8. \A v \in Windows : /\ Whole(dirs[r].bounds) => dirs[r].bounds[v] \in Nat
                           /\ Whole(dirs[r].report) => dirs[r].report.ticks[v] \in Nat
    BY <2>7 DEF Tallies
  <2> HIDE DEF d
  <2>9. InOrder(d)
    <3>1. Whole(d.bounds) => Behind(d.bounds, d.ticks)
      BY <2>1, <2>4, <2>6, <2>8 DEF InOrder, Behind
    <3>2. Whole(d.report) => Behind(d.report.ticks, d.ticks)
      BY <2>1, <2>4, <2>6, <2>8 DEF InOrder, Behind
    <3>3. /\ Whole(d.report) /\ Whole(d.bounds) => Behind(d.report.ticks, d.bounds)
          /\ d.report # None => d.bounds # None
      BY <2>1, <2>4 DEF InOrder
    <3> QED
      BY <3>1, <3>2, <3>3 DEF InOrder
  <2> QED
    BY <2>4, <2>5, <2>9
<1> HIDE DEF d
<1>3. /\ dirs' \in Seq(Directories) /\ DOMAIN dirs' = DOMAIN dirs
      /\ \A k \in DOMAIN dirs' : InOrder(dirs'[k])
      /\ r \in DOMAIN dirs => dirs'[r] = d
  BY <1>1, <1>2, OneDirectory DEF DirInv
<1>4. job.dir \in DOMAIN dirs => JobInOrder'
  BY <1>1, <1>2, <1>3 DEF DirInv, JobInOrder
<1> QED
  BY <1>1, <1>3, <1>4 DEF DirInv

\* The file of a stage is truncated.
LEMMA TruncateKeeps ==
  ASSUME DirInv, Truncate
  PROVE  DirInv'
<1> DEFINE r == job.dir
<1>1. /\ stage \in {"manifest", "bounds", "report"} /\ dirs' = WithFile(stage, Torn)
      /\ UNCHANGED <<stage, job>>
  BY DEF Truncate
<1>2. ASSUME NEW d, dirs' = [dirs EXCEPT ![r] = d],
             r \in DOMAIN dirs => /\ d \in Directories /\ InOrder(d)
                                  /\ d.ticks = dirs[r].ticks
                                  /\ stage # "manifest" => d.manifest = dirs[r].manifest
                                  /\ stage = "report" => d.bounds = dirs[r].bounds
      PROVE  DirInv'
  <2>1. /\ dirs' \in Seq(Directories) /\ DOMAIN dirs' = DOMAIN dirs
        /\ \A k \in DOMAIN dirs' : InOrder(dirs'[k])
        /\ r \in DOMAIN dirs => dirs'[r] = d
    BY <1>2, OneDirectory DEF DirInv
  <2>2. job.dir \in DOMAIN dirs => JobInOrder'
    BY <1>1, <1>2, <2>1 DEF DirInv, JobInOrder
  <2> QED
    BY <1>1, <2>1, <2>2 DEF DirInv
<1>3. r \in DOMAIN dirs => dirs[r] \in Directories /\ InOrder(dirs[r]) /\ JobInOrder
  BY DEF DirInv
<1>4. CASE stage = "manifest"
  <2> DEFINE d == [dirs[r] EXCEPT !.manifest = Torn]
  <2>1. dirs' = [dirs EXCEPT ![r] = d]
    BY <1>1, <1>4 DEF WithFile
  <2>2. r \in DOMAIN dirs => d \in Directories /\ InOrder(d) /\ d.ticks = dirs[r].ticks
    BY <1>3 DEF Directories, Manifests, InOrder
  <2> QED
    BY <1>2, <1>4, <2>1, <2>2
<1>5. CASE stage = "bounds"
  <2> DEFINE d == [dirs[r] EXCEPT !.bounds = Torn]
  <2>1. dirs' = [dirs EXCEPT ![r] = d]
    BY <1>1, <1>5 DEF WithFile
  <2>2. r \in DOMAIN dirs => /\ d \in Directories /\ InOrder(d) /\ d.ticks = dirs[r].ticks
                             /\ d.manifest = dirs[r].manifest
    BY <1>3, RunsAssumption DEF Directories, InOrder, Whole
  <2> QED
    BY <1>2, <1>5, <2>1, <2>2
<1>6. CASE stage = "report"
  <2> DEFINE d == [dirs[r] EXCEPT !.report = Torn]
  <2>1. dirs' = [dirs EXCEPT ![r] = d]
    BY <1>1, <1>6 DEF WithFile
  <2>2. r \in DOMAIN dirs => dirs[r].bounds # None
    BY <1>3, <1>6, RunsAssumption DEF JobInOrder, Directories, Tallies
  <2>3. r \in DOMAIN dirs => /\ d \in Directories /\ InOrder(d) /\ d.ticks = dirs[r].ticks
                             /\ d.manifest = dirs[r].manifest /\ d.bounds = dirs[r].bounds
    BY <1>3, <2>2 DEF Directories, Reports, InOrder, Whole
  <2> QED
    BY <1>2, <2>1, <2>3
<1> QED
  BY <1>1, <1>4, <1>5, <1>6

\* The file of a stage is filled.
LEMMA FillKeeps ==
  ASSUME DirInv, Fill
  PROVE  DirInv'
<1> DEFINE r == job.dir
<1>1. /\ stage \in {"manifest", "bounds", "report"} /\ dirs' = WithFile(stage, Content(stage))
      /\ ~open' /\ stage' = After(stage)
      /\ IF stage' = "off" THEN job' = NoJob ELSE job' = job
  BY DEF Fill, DirInv
<1>2. job'.window \in Windows /\ job'.dry \in BOOLEAN
  <2>1. NoJob.window \in Windows /\ NoJob.dry \in BOOLEAN
    BY DEF NoJob, Windows
  <2>2. job' = NoJob \/ job' = job
    BY <1>1
  <2> QED
    BY <2>1, <2>2 DEF DirInv
<1>3. ASSUME NEW d, dirs' = [dirs EXCEPT ![r] = d],
             r \in DOMAIN dirs => d \in Directories /\ InOrder(d)
      PROVE  /\ dirs' \in Seq(Directories) /\ DOMAIN dirs' = DOMAIN dirs
             /\ \A k \in DOMAIN dirs' : InOrder(dirs'[k])
             /\ r \in DOMAIN dirs => dirs'[r] = d
  BY <1>3, OneDirectory DEF DirInv
<1>4. r \in DOMAIN dirs => dirs[r] \in Directories /\ InOrder(dirs[r]) /\ JobInOrder
  BY DEF DirInv
<1>5. CASE stage = "manifest"
  <2> DEFINE d == [dirs[r] EXCEPT !.manifest = [window |-> job.window, dry |-> job.dry]]
  <2>1. dirs' = [dirs EXCEPT ![r] = d] /\ stage' = "measure" /\ job' = job
    BY <1>1, <1>5, FileNames DEF WithFile, Content
  <2>2. [window |-> job.window, dry |-> job.dry] \in Manifests
        /\ Whole([window |-> job.window, dry |-> job.dry])
    BY RunsAssumption DEF DirInv, Manifests, Whole
  <2>3. r \in DOMAIN dirs => d \in Directories /\ InOrder(d) /\ Whole(d.manifest)
    BY <1>4, <2>2 DEF Directories, InOrder, Whole
  <2>4. r \in DOMAIN dirs => JobInOrder'
    BY <1>3, <2>1, <2>3 DEF JobInOrder
  <2> QED
    BY <1>1, <1>2, <1>3, <2>1, <2>3, <2>4 DEF DirInv
<1>6. CASE stage = "bounds"
  <2> DEFINE d == [dirs[r] EXCEPT !.bounds = dirs[r].ticks]
  <2>1. dirs' = [dirs EXCEPT ![r] = d] /\ stage' = "report" /\ job' = job
    BY <1>1, <1>6, FileNames DEF WithFile, Content
  <2>2. ASSUME r \in DOMAIN dirs
        PROVE  d \in Directories /\ InOrder(d) /\ d.manifest = dirs[r].manifest
               /\ d.bounds = d.ticks
    <3>1. dirs[r].ticks \in Tallies
      BY <1>4, <2>2 DEF Directories
    <3>2. dirs[r].ticks # None /\ \A w \in Windows : dirs[r].ticks[w] <= dirs[r].ticks[w]
      BY <3>1, RunsAssumption DEF Tallies
    <3> QED
      BY <1>4, <2>2, <3>1, <3>2 DEF Directories, InOrder, Behind
  <2>3. r \in DOMAIN dirs => JobInOrder'
    BY <1>3, <1>4, <1>6, <2>1, <2>2 DEF JobInOrder, Stages
  <2> QED
    BY <1>1, <1>2, <1>3, <2>1, <2>2, <2>3 DEF DirInv
<1>7. CASE stage = "report"
  <2> DEFINE new == [dry |-> dirs[r].manifest.dry, ticks |-> dirs[r].ticks]
             d == [dirs[r] EXCEPT !.report = new]
  <2>1. dirs' = [dirs EXCEPT ![r] = d] /\ stage' = "off"
    BY <1>1, <1>7, FileNames DEF WithFile, Content
  <2>2. ASSUME r \in DOMAIN dirs
        PROVE  d \in Directories /\ InOrder(d)
    <3>1. dirs[r].ticks \in Tallies /\ dirs[r].bounds = dirs[r].ticks
          /\ Whole(dirs[r].manifest) /\ dirs[r].manifest \in Manifests
      BY <1>4, <1>7, <2>2 DEF Directories, JobInOrder, Stages
    <3>2. new \in Reports
      BY <3>1 DEF Manifests, Reports, Whole
    <3>3. /\ dirs[r].ticks # None
          /\ \A w \in Windows : dirs[r].ticks[w] <= dirs[r].ticks[w]
      BY <3>1, RunsAssumption DEF Tallies
    <3>4. /\ d.report = new /\ d.bounds = dirs[r].bounds /\ d.ticks = dirs[r].ticks
          /\ d \in Directories /\ new.ticks = dirs[r].ticks
      BY <1>4, <2>2, <3>2 DEF Directories
    <3> HIDE DEF new, d
    <3> QED
      BY <1>4, <2>2, <3>1, <3>3, <3>4 DEF InOrder, Behind
  <2>3. JobInOrder'
    BY <2>1 DEF JobInOrder, Stages
  <2> QED
    BY <1>1, <1>2, <1>3, <2>1, <2>2, <2>3 DEF DirInv
<1> QED
  BY <1>1, <1>5, <1>6, <1>7

LEMMA DirNext ==
  ASSUME DirInv, [SiteNext]_siteVars
  PROVE  DirInv'
<1> SUFFICES ASSUME DirInv
             PROVE  DirInv'
  OBVIOUS
<1>1. CASE Invocation
  BY <1>1, InvocationKeeps
<1>2. ASSUME NEW w \in Windows, Measure(w)
      PROVE  DirInv'
  BY <1>2, MeasureKeeps
<1>3. CASE Truncate \/ Fill
  BY <1>3, TruncateKeeps, FillKeeps
<1>4. ASSUME UNCHANGED <<dirs, job>>, stage' \notin {"manifest", "report"}, ~open',
             stage' \in Stages => stage \in Stages \ {"manifest"}
      PROVE  DirInv'
  <2>1. \A k \in DOMAIN dirs' : InOrder(dirs'[k])
    BY <1>4 DEF DirInv, InOrder
  <2>2. job.dir \in DOMAIN dirs => JobInOrder'
    BY <1>4 DEF DirInv, JobInOrder
  <2> QED
    BY <1>4, <2>1, <2>2 DEF DirInv
<1>5. CASE EndMeasuring \/ Compare
  <2>1. /\ UNCHANGED <<dirs, job, open>> /\ stage' \in {"compare", "bounds"}
        /\ stage \in {"measure", "compare"}
    BY <1>5, FileNames DEF EndMeasuring, Compare
  <2> QED
    BY <1>4, <2>1 DEF DirInv, Stages
<1>6. CASE Die
  <2>1. dirs' = dirs /\ job' = NoJob /\ stage' = "off" /\ ~open'
    BY <1>6 DEF Die
  <2>2. \A k \in DOMAIN dirs' : InOrder(dirs'[k])
    BY <2>1 DEF DirInv, InOrder
  <2>3. JobInOrder'
    BY <2>1 DEF JobInOrder, Stages
  <2> QED
    BY <2>1, <2>2, <2>3 DEF DirInv, NoJob, Windows
<1>7. CASE UNCHANGED <<dirs, stage, open, job>>
  BY <1>7 DEF DirInv, InOrder, JobInOrder
<1> QED
  BY <1>1, <1>2, <1>3, <1>5, <1>6, <1>7
     DEF SiteNext, RunNext, Publish, siteVars, runVars

\* What report.py derives keeps its order (report.py writes bounds.json, then report.md):
\* no report tells of a tick that bounds.json does not have, nor bounds.json of one the
\* snapshots do not have, for any number of runs, resumes, kills and ticks, also while
\* runs are published and built.
THEOREM DerivedFilesStayInOrder == SiteSpec => []DerivedFilesKeepOrder
<1>1. DirInv => DerivedFilesKeepOrder
  BY DEF DirInv, InOrder, Behind, DerivedFilesKeepOrder
<1> QED
  BY <1>1, DirInit, DirNext, PTL DEF SiteSpec

-----------------------------------------------------------------------------
(* Comparisons are with what was measured.                                  *)

\* What the comparison holds while it is kept.
ComparedIsReal ==
  compared # None =>
    /\ stage \in {"bounds", "report"}
    /\ compared.dir \in DOMAIN dirs
    /\ compared.dir = job.dir => job.respelled
    /\ compared.ticks \in 1 .. dirs[compared.dir].ticks[job.window]
    /\ deaths = 0 /\ compared.dir # job.dir =>
         compared.ticks = dirs[compared.dir].ticks[job.window]

\* Unless an invocation died, each has reported all its run has measured.
UpToDate ==
  deaths = 0 =>
    \A r \in DOMAIN dirs :
      (stage \in Stages => r # job.dir) /\ Whole(dirs[r].bounds) => dirs[r].bounds = dirs[r].ticks

FoundInv ==
  /\ stage \in Stages \cup {"off"} /\ deaths \in Nat
  /\ stage \in Stages => job.dir \in DOMAIN dirs
  /\ ComparedIsReal
  /\ UpToDate

LEMMA FoundInit == ASSUME SiteInit PROVE FoundInv
  BY DEF SiteInit, RunsInit, FoundInv, ComparedIsReal, UpToDate, Stages

\* A step within an invocation that changes its own directory only.
LEMMA FoundStays ==
  ASSUME FoundInv, UNCHANGED <<job, compared, deaths>>, DOMAIN dirs' = DOMAIN dirs,
         \A k \in DOMAIN dirs \ {job.dir} : dirs'[k] = dirs[k],
         stage \in Stages, stage' \in Stages,
         compared # None => /\ stage' \in {"bounds", "report"}
                            /\ \A k \in DOMAIN dirs : dirs'[k].ticks = dirs[k].ticks
  PROVE  FoundInv'
<1>1. ComparedIsReal'
  BY DEF FoundInv, ComparedIsReal
<1>2. UpToDate'
  BY DEF FoundInv, UpToDate, Whole
<1> QED
  BY <1>1, <1>2 DEF FoundInv

\* The comparison is with a run that measured what it shows.
LEMMA CompareFinds ==
  ASSUME DirInv, FoundInv, Compare
  PROVE  FoundInv'
<1>1. stage' = "bounds" /\ UNCHANGED <<dirs, job, deaths>> /\ stage = "compare"
  BY FileNames DEF Compare
<1>2. UpToDate'
  BY <1>1 DEF FoundInv, UpToDate, Whole, Stages
<1>3. CASE compared' = None
  BY <1>1, <1>2, <1>3 DEF FoundInv, ComparedIsReal, Stages
<1>4. CASE compared' # None
  <2>1. PICK r : r = Newest(Comparable)
    OBVIOUS
  <2>2. /\ Comparable # {} /\ Whole(dirs[r].bounds) /\ dirs[r].bounds[job.window] > 0
        /\ compared' = [dir |-> r, ticks |-> dirs[r].bounds[job.window]]
    BY <1>4, <2>1 DEF Compare
  <2>3. Comparable \subseteq DOMAIN dirs
    BY DEF Comparable
  <2>4. r \in Comparable
    BY <2>1, <2>2, <2>3, NewestIs DEF DirInv
  <2>5. r \in DOMAIN dirs /\ (r = job.dir => job.respelled)
    BY <2>4 DEF Comparable
  <2>6. dirs[r] \in Directories /\ InOrder(dirs[r]) /\ job.window \in Windows
    BY <2>5 DEF DirInv
  <2>7. dirs[r].bounds \in Tallies /\ dirs[r].ticks \in Tallies /\ Behind(dirs[r].bounds, dirs[r].ticks)
    BY <2>2, <2>6 DEF Directories, Whole, InOrder
  <2>8. dirs[r].bounds[job.window] \in 1 .. dirs[r].ticks[job.window]
    BY <2>2, <2>6, <2>7 DEF Tallies, Behind
  <2>9. deaths = 0 /\ r # job.dir => dirs[r].bounds = dirs[r].ticks
    BY <2>2, <2>5 DEF FoundInv, UpToDate
  <2>10. ComparedIsReal'
    BY <1>1, <2>2, <2>5, <2>8, <2>9 DEF ComparedIsReal
  <2> QED
    BY <1>1, <1>2, <2>10 DEF FoundInv, Stages
<1> QED
  BY <1>3, <1>4

\* An invocation begins in a directory that is there.
LEMMA InvocationFinds ==
  ASSUME DirInv, FoundInv, Invocation
  PROVE  FoundInv'
<1>1. stage = "off" /\ UNCHANGED <<compared, deaths>>
  BY DEF Invocation, StartRun, Resume, Continue, TakeUp, Invoked
<1>2. compared' = None
  BY <1>1 DEF FoundInv, ComparedIsReal
<1>3. ASSUME NEW w, NEW d, NEW n, StartRun(w, d, n)
      PROVE  /\ job'.dir \in DOMAIN dirs' /\ stage' \in Stages
             /\ \A k \in DOMAIN dirs' \ {job'.dir} : k \in DOMAIN dirs /\ dirs'[k] = dirs[k]
  <2>1. /\ dirs' = Append(dirs, NewDirectory(n)) /\ stage' = "manifest"
        /\ job' = [dir |-> Len(dirs'), window |-> w, dry |-> d, respelled |-> FALSE]
    BY <1>3 DEF StartRun
  <2> QED
    BY <2>1 DEF DirInv, Stages
<1>4. ASSUME NEW r \in DOMAIN dirs, NEW w, NEW d, NEW o, TakeUp(r, w, d, o)
      PROVE  job'.dir \in DOMAIN dirs' /\ stage' \in Stages /\ dirs' = dirs
  BY <1>4, FileNames DEF TakeUp, Stages
<1>5. ASSUME NEW w, NEW d, Continue(w, d)
      PROVE  job'.dir \in DOMAIN dirs' /\ stage' \in Stages /\ dirs' = dirs
  <2>1. /\ Candidates(w, d) # {} /\ Candidates(w, d) \subseteq DOMAIN dirs
        /\ TakeUp(Newest(Candidates(w, d)), w, d, FALSE)
    BY <1>5 DEF Continue, Candidates
  <2> QED
    BY <1>4, <2>1, NewestIs DEF DirInv
<1>6. /\ job'.dir \in DOMAIN dirs' /\ stage' \in Stages
      /\ \A k \in DOMAIN dirs' \ {job'.dir} : k \in DOMAIN dirs /\ dirs'[k] = dirs[k]
  BY <1>3, <1>4, <1>5 DEF Invocation, Resume
<1>7. UpToDate'
  BY <1>1, <1>6 DEF FoundInv, UpToDate, Whole, Stages
<1> QED
  BY <1>1, <1>2, <1>6, <1>7 DEF FoundInv, ComparedIsReal

LEMMA FoundNext ==
  ASSUME DirInv, FoundInv, [SiteNext]_siteVars
  PROVE  FoundInv'
<1> SUFFICES ASSUME DirInv, FoundInv
             PROVE  FoundInv'
  OBVIOUS
<1>1. CASE Invocation
  BY <1>1, InvocationFinds
<1>2. ASSUME NEW w \in Windows, Measure(w)
      PROVE  FoundInv'
  <2>1. UNCHANGED <<job, compared, stage, deaths>> /\ stage = "measure"
        /\ dirs' = [dirs EXCEPT ![job.dir].ticks[w] = @ + 1]
    BY <1>2 DEF Measure
  <2>2. compared = None /\ stage \in Stages
    BY <2>1 DEF FoundInv, ComparedIsReal, Stages
  <2> QED
    BY <2>1, <2>2, FoundStays
<1>3. ASSUME NEW content, dirs' = WithFile(stage, content), UNCHANGED <<job, compared, deaths>>,
             stage \in {"manifest", "bounds", "report"}, stage' \in Stages,
             compared # None => stage' \in {"bounds", "report"}
      PROVE  FoundInv'
  <2>1. /\ DOMAIN dirs' = DOMAIN dirs /\ \A k \in DOMAIN dirs \ {job.dir} : dirs'[k] = dirs[k]
    BY <1>3 DEF WithFile
  <2>2. \A k \in DOMAIN dirs : dirs'[k].ticks = dirs[k].ticks
    <3>1. \A k \in DOMAIN dirs : dirs[k] \in Directories
      BY DEF DirInv
    <3> QED
      BY <1>3, <3>1 DEF WithFile, Directories
  <2>3. stage \in Stages
    BY <1>3 DEF Stages
  <2> QED
    BY <1>3, <2>1, <2>2, <2>3, FoundStays
<1>4. CASE Truncate
  <2>1. UNCHANGED <<job, compared, stage, deaths>> /\ dirs' = WithFile(stage, Torn)
        /\ stage \in {"manifest", "bounds", "report"}
    BY <1>4 DEF Truncate
  <2>2. stage \in Stages /\ (compared # None => stage \in {"bounds", "report"})
    BY <2>1 DEF FoundInv, ComparedIsReal, Stages
  <2> QED
    BY <1>3, <2>1, <2>2
<1>5. CASE Fill
  <2>1. /\ dirs' = WithFile(stage, Content(stage)) /\ stage' = After(stage) /\ deaths' = deaths
        /\ stage \in {"manifest", "bounds", "report"}
        /\ IF stage' = "off" THEN compared' = None ELSE UNCHANGED <<job, compared>>
    BY <1>5 DEF Fill, DirInv
  <2>2. CASE stage = "report"
    <3>1. stage' = "off" /\ compared' = None
      BY <2>1, <2>2, FileNames
    <3>2. job.dir \in DOMAIN dirs /\ dirs[job.dir].bounds = dirs[job.dir].ticks
      BY <2>2 DEF FoundInv, DirInv, JobInOrder, Stages
    <3>3. \A k \in DOMAIN dirs : dirs[k] \in Directories
      BY DEF DirInv
    <3>4. /\ DOMAIN dirs' = DOMAIN dirs
          /\ \A k \in DOMAIN dirs : dirs'[k].bounds = dirs[k].bounds /\ dirs'[k].ticks = dirs[k].ticks
      BY <2>1, <2>2, <3>3 DEF WithFile, Directories
    <3>5. UpToDate'
      BY <2>1, <2>2, <3>2, <3>4 DEF FoundInv, UpToDate, Whole
    <3> QED
      BY <2>1, <3>1, <3>5 DEF FoundInv, ComparedIsReal, Stages
  <2>3. CASE stage = "bounds"
    BY <1>3, <2>1, <2>3, FileNames DEF Stages
  <2>4. CASE stage = "manifest"
    <3>1. stage' = "measure" /\ compared = None
      BY <2>1, <2>4, FileNames DEF FoundInv, ComparedIsReal
    <3> QED
      BY <1>3, <2>1, <2>4, <3>1 DEF Stages
  <2> QED
    BY <2>1, <2>2, <2>3, <2>4
<1>6. CASE EndMeasuring
  <2>1. UNCHANGED <<dirs, job, compared, deaths>> /\ stage = "measure" /\ stage' \in {"compare", "bounds"}
    BY <1>6, FileNames DEF EndMeasuring
  <2>2. compared = None
    BY <2>1 DEF FoundInv, ComparedIsReal
  <2> QED
    BY <2>1, <2>2, FoundStays DEF Stages
<1>7. CASE Compare
  BY <1>7, CompareFinds
<1>8. CASE Die
  <2>1. dirs' = dirs /\ stage' = "off" /\ compared' = None /\ deaths' = deaths + 1 /\ deaths \in Nat
    BY <1>8 DEF Die, FoundInv
  <2>2. deaths' \in Nat /\ deaths' # 0
    BY <2>1
  <2> QED
    BY <2>1, <2>2 DEF FoundInv, ComparedIsReal, UpToDate, Stages
<1>9. CASE UNCHANGED <<dirs, stage, job, compared, deaths>>
  BY <1>9 DEF FoundInv, ComparedIsReal, UpToDate, Whole
<1> QED
  BY <1>1, <1>2, <1>4, <1>5, <1>6, <1>7, <1>8, <1>9
     DEF SiteNext, RunNext, Publish, siteVars, runVars

\* A comparison shows ticks the other run measured, and unless an invocation died all of
\* them, however runs are interrupted, resumed and continued (compute_previous_comparison
\* reads what finish wrote): only a run resumed in another spelling meets an older state
\* of its own. For any number of runs, invocations and ticks.
THEOREM ComparisonsAreCurrent == SiteSpec => []ComparisonIsCurrent
<1>1. FoundInv => ComparisonIsCurrent
  BY DEF FoundInv, ComparedIsReal, ComparisonIsCurrent
<1> QED
  BY <1>1, DirInit, DirNext, FoundInit, FoundNext, PTL DEF SiteSpec

-----------------------------------------------------------------------------
(* md_to_html shows every report as it is meant.                            *)

Plain == {"blank", "hr", "heading", "quote", "row", "divider", "item", "text"}

\* Line i goes on with what the line before it is part of.
GoesOn(text, i) ==
  i > 1 /\ text[i] # "blank" /\ ~Alone(text[i]) /\ Class(text[i - 1]) = Class(text[i])

\* The blocks of the runs that end before line i.
HtmlBefore(text, i) ==
  {[kind |-> Class(text[r[1]]),
    lines |-> {k \in r[1] .. r[2] : text[k] # "divider"}] : r \in {m \in MaximalRuns(text) : m[2] < i}}

LEMMA Classes ==
  ASSUME NEW l \in Plain
  PROVE  /\ HasBar(l) <=> Class(l) = "table"
         /\ IsItem(l) <=> Class(l) = "list"
         /\ l = "text" <=> Class(l) = "paragraph"
         /\ l = "quote" <=> Class(l) = "quote"
         /\ l = "blank" <=> Class(l) = "blank"
         /\ l = "heading" <=> Class(l) = "heading"
         /\ l = "hr" <=> Class(l) = "hr"
         /\ Alone(l) <=> Class(l) \in {"heading", "hr"}
         /\ Single(l) <=> Class(l) \in {"heading", "hr", "blank"}
         /\ Class(l) = "table" <=> l \in {"row", "divider"}
         /\ Class(l) \in {"table", "list", "paragraph", "quote", "blank", "heading", "hr"}
  BY DEF Plain, HasBar, IsItem, Class, Alone, Single

\* Where a line is of the class of the block it comes behind, it belongs to it; the first
\* one that is not does not.
LEMMA WithinIsClass ==
  ASSUME NEW text \in Seq(Kinds), InSubset(text), NEW k \in DOMAIN text,
         NEW c \in {"table", "list", "paragraph", "quote"},
         (k > 1 /\ Class(text[k - 1]) = c) \/ Class(text[k]) = c
  PROVE  Within(text, k, c) <=> Class(text[k]) = c
<1>1. /\ text[k] \in Plain
      /\ text[k] = "divider" => k > 1 /\ text[k - 1] = "row"
      /\ text[k] = "row" /\ (k = 1 \/ ~HasBar(text[k - 1])) => StartsTable(text, k)
  BY DEF InSubset, Plain
<1>2. k > 1 => text[k - 1] \in Plain
  <2>1. k > 1 => k - 1 \in DOMAIN text
    OBVIOUS
  <2> QED
    BY <2>1 DEF InSubset, Plain
<1>3. CASE c # "paragraph"
  BY <1>1, <1>3, Classes DEF Within
<1>4. CASE c = "paragraph"
  <2>1. Within(text, k, c) <=> ~EndsParagraph(text, k)
    BY <1>4 DEF Within
  <2>2. CASE Class(text[k]) = c
    BY <1>1, <1>4, <2>1, <2>2, Classes DEF EndsParagraph
  <2>3. CASE Class(text[k]) # c
    <3>1. k > 1 /\ text[k - 1] = "text"
      BY <1>2, <1>4, <2>3, Classes
    <3>2. text[k] # "divider" /\ text[k] # "text"
      BY <1>1, <1>4, <2>3, <3>1, Classes
    <3>3. text[k] = "row" => StartsTable(text, k)
      BY <1>1, <3>1 DEF HasBar
    <3> QED
      BY <1>1, <2>1, <2>3, <3>2, <3>3 DEF EndsParagraph, StartsTable, Plain
  <2> QED
    BY <2>2, <2>3
<1> QED
  BY <1>3, <1>4

\* The inner loops stop behind the last line of the class.
LEMMA PastIsEnd ==
  ASSUME NEW text \in Seq(Kinds), InSubset(text), NEW i \in DOMAIN text,
         NEW c \in {"table", "list", "paragraph", "quote"}, Class(text[i]) = c
  PROVE  /\ Past(text, i, c) \in i + 1 .. Len(text) + 1
         /\ \A k \in i .. Past(text, i, c) - 1 : Class(text[k]) = c
         /\ Past(text, i, c) <= Len(text) => Class(text[Past(text, i, c)]) # c
<1> DEFINE ends == {j \in i .. Len(text) + 1 : j = Len(text) + 1 \/ Class(text[j]) # c}
<1>1. Len(text) \in Nat /\ DOMAIN text = 1 .. Len(text) /\ i \in 1 .. Len(text)
  OBVIOUS
<1>2. ends \subseteq Nat /\ Len(text) + 1 \in ends
  BY <1>1
<1> HIDE DEF ends
<1>3. PICK e \in ends : \A j \in ends : e <= j
  BY <1>2, LeastNatural
<1>4. e \in i .. Len(text) + 1 /\ e # i /\ (e <= Len(text) => Class(text[e]) # c)
  BY <1>1, <1>3 DEF ends
<1>5. ASSUME NEW k \in i .. e - 1
      PROVE  Class(text[k]) = c
  BY <1>1, <1>3, <1>4 DEF ends
<1>6. \A k \in i .. e - 1 : Within(text, k, c)
  <2>1. \A k \in i .. e - 1 : k \in DOMAIN text
    BY <1>1, <1>4
  <2> QED
    BY <1>5, <2>1, WithinIsClass
<1>7. e <= Len(text) => ~Within(text, e, c)
  <2> SUFFICES ASSUME e <= Len(text) PROVE ~Within(text, e, c)
    OBVIOUS
  <2>1. e - 1 \in i .. e - 1 /\ e \in DOMAIN text /\ e > 1
    BY <1>1, <1>4
  <2>2. Class(text[e - 1]) = c
    BY <1>5, <2>1
  <2> QED
    BY <1>4, <2>1, <2>2, WithinIsClass
<1> DEFINE Stop(j) == /\ \A k \in i .. j - 1 : Within(text, k, c)
                      /\ j <= Len(text) => ~Within(text, j, c)
<1>8. ASSUME NEW j \in i .. Len(text) + 1, Stop(j)
      PROVE  j = e
  <2>1. CASE j < e
    <3>1. j \in i .. e - 1 /\ j <= Len(text)
      BY <1>1, <1>4, <2>1
    <3> QED
      BY <1>6, <1>8, <3>1
  <2>2. CASE e < j
    <3>1. e \in i .. j - 1 /\ e <= Len(text)
      BY <1>1, <1>4, <2>2
    <3> QED
      BY <1>7, <1>8, <3>1
  <2> QED
    BY <1>1, <1>4, <2>1, <2>2
<1>9. Stop(e)
  BY <1>6, <1>7
<1> HIDE DEF Stop
<1>10. Past(text, i, c) = e
  <2>1. Past(text, i, c) = CHOOSE j \in i .. Len(text) + 1 : Stop(j)
    BY DEF Past, Stop
  <2> QED
    BY <1>4, <1>8, <1>9, <2>1
<1> QED
  BY <1>1, <1>4, <1>5, <1>10

\* The kind of a block is the class of the line it begins at, and so of all its lines.
LEMMA BlockIsRun ==
  ASSUME NEW text \in Seq(Kinds), InSubset(text), NEW i \in DOMAIN text, ~GoesOn(text, i),
         text[i] # "blank"
  PROVE  LET b == BlockAt(text, i)
         IN /\ b.kind = Class(text[i]) /\ b.from = i
            /\ b.next \in i + 1 .. Len(text) + 1
            /\ \A k \in i .. b.next - 1 : Class(text[k]) = Class(text[i])
            /\ Alone(text[i]) => b.next = i + 1
            /\ ~Alone(text[i]) /\ b.next <= Len(text) => Class(text[b.next]) # Class(text[i])
<1> DEFINE b == BlockAt(text, i)
<1>1. /\ text[i] \in Plain
      /\ text[i] = "divider" => i > 1 /\ text[i - 1] = "row"
      /\ text[i] = "row" /\ (i = 1 \/ ~HasBar(text[i - 1])) => StartsTable(text, i)
  BY DEF InSubset, Plain
<1>2. b.kind = KindAt(text, i) /\ b.from = i
      /\ b.next = IF Single(text[i]) THEN i + 1 ELSE Past(text, i, KindAt(text, i))
  BY DEF BlockAt
<1> HIDE DEF b
<1>3. i > 1 => text[i - 1] \in Plain
  <2>1. i > 1 => i - 1 \in DOMAIN text
    OBVIOUS
  <2> QED
    BY <2>1 DEF InSubset, Plain
<1>4. KindAt(text, i) = Class(text[i])
  <2>1. CASE Single(text[i]) \/ text[i] = "quote"
    BY <1>1, <2>1 DEF KindAt, Class, Single, StartsTable, HasBar, IsItem
  <2>2. CASE text[i] \in {"row", "divider"}
    <3>1. i > 1 => Class(text[i - 1]) # "table"
      BY <1>1, <2>2, Classes DEF GoesOn
    <3>2. text[i] = "row" /\ (i > 1 => ~HasBar(text[i - 1]))
      BY <1>1, <1>3, <2>2, <3>1, Classes DEF HasBar
    <3>3. StartsTable(text, i)
      BY <1>1, <3>2
    <3> QED
      BY <3>2, <3>3 DEF KindAt, Class, Single, IsItem
  <2>3. CASE text[i] \in {"item", "text"}
    BY <2>3 DEF KindAt, Class, Single, StartsTable, HasBar, IsItem
  <2> QED
    BY <1>1, <2>1, <2>2, <2>3 DEF Plain, Single
<1>5. CASE Alone(text[i])
  <2>1. b.next = i + 1
    BY <1>1, <1>2, <1>5, Classes
  <2> QED
    BY <1>2, <1>4, <1>5, <2>1 DEF b
<1>6. CASE ~Alone(text[i])
  <2>1. Class(text[i]) \in {"table", "list", "paragraph", "quote"} /\ ~Single(text[i])
    BY <1>1, <1>6, Classes
  <2>2. b.next = Past(text, i, Class(text[i]))
    BY <1>2, <1>4, <2>1
  <2> QED
    BY <1>2, <1>4, <1>6, <2>1, <2>2, PastIsEnd DEF b
<1> QED
  BY <1>5, <1>6

\* The runs before n are those before i and the one from i on.
RunAdded(text, i, n) ==
  {m \in MaximalRuns(text) : m[2] < n}
    = {m \in MaximalRuns(text) : m[2] < i} \cup {<<i, n - 1>>}

\* The next maximal run is the one the block stands for.
LEMMA NextRun ==
  ASSUME NEW text \in Seq(Kinds), InSubset(text), NEW i \in DOMAIN text, ~GoesOn(text, i),
         text[i] # "blank", NEW n \in i + 1 .. Len(text) + 1,
         \A k \in i .. n - 1 : Class(text[k]) = Class(text[i]),
         Alone(text[i]) => n = i + 1,
         ~Alone(text[i]) /\ n <= Len(text) => Class(text[n]) # Class(text[i])
  PROVE  RunAdded(text, i, n)
<1>1. /\ Len(text) \in Nat /\ DOMAIN text = 1 .. Len(text) /\ i \in 1 .. Len(text)
      /\ n - 1 \in 1 .. Len(text) /\ n - 1 >= i
  OBVIOUS
<1>2. \A k \in DOMAIN text : text[k] \in Plain
  BY DEF InSubset, Plain
<1>3. \A k, m \in DOMAIN text : Class(text[k]) = Class(text[m]) =>
        (Alone(text[k]) <=> Alone(text[m])) /\ (text[k] = "blank" <=> text[m] = "blank")
  BY <1>2, Classes
<1>4. ASSUME NEW r \in MaximalRuns(text), i <= r[2], r[2] < n
      PROVE  r = <<i, n - 1>>
  <2>1. /\ r \in (DOMAIN text) \X (DOMAIN text) /\ r[1] <= r[2]
        /\ \A k \in r[1] .. r[2] : text[k] # "blank" /\ Class(text[k]) = Class(text[r[1]])
        /\ Alone(text[r[1]]) => r[1] = r[2]
        /\ ~Alone(text[r[1]]) => /\ r[1] > 1 => Class(text[r[1] - 1]) # Class(text[r[1]])
                                 /\ r[2] < Len(text) => Class(text[r[2] + 1]) # Class(text[r[1]])
    BY DEF MaximalRuns
  <2>2. PICK p \in DOMAIN text, q \in DOMAIN text : r = <<p, q>>
    BY <2>1
  <2>3. p <= q /\ i <= q /\ q < n /\ p \in Nat /\ q \in Nat /\ q \in i .. n - 1
    BY <1>1, <1>4, <2>1, <2>2
  <2>4. Class(text[q]) = Class(text[p]) /\ Class(text[q]) = Class(text[i])
    <3>1. q \in p .. q
      BY <2>3
    <3>2. Class(text[q]) = Class(text[p])
      BY <2>1, <2>2, <3>1
    <3> QED
      BY <2>3, <3>2
  <2>5. CASE Alone(text[i])
    <3>1. n = i + 1 /\ q = i
      BY <1>1, <2>3, <2>5
    <3>2. Alone(text[p])
      BY <1>1, <1>3, <2>4, <2>5
    <3>3. p = q
      BY <2>1, <2>2, <3>2
    <3> QED
      BY <1>1, <2>2, <3>1, <3>3
  <2>6. CASE ~Alone(text[i])
    <3>1. ~Alone(text[p])
      BY <1>3, <2>4, <2>6
    <3>2. /\ p > 1 => Class(text[p - 1]) # Class(text[p])
          /\ q < Len(text) => Class(text[q + 1]) # Class(text[p])
      BY <2>1, <2>2, <3>1
    <3>3. ~(p < i)
      <4> SUFFICES ASSUME p < i PROVE FALSE
        OBVIOUS
      <4>1. i - 1 \in p .. q /\ i > 1
        BY <1>1, <2>3
      <4>2. Class(text[i - 1]) = Class(text[p])
        BY <2>1, <2>2, <4>1
      <4> QED
        BY <2>4, <2>6, <4>1, <4>2 DEF GoesOn
    <3>4. ~(p > i)
      <4> SUFFICES ASSUME p > i PROVE FALSE
        OBVIOUS
      <4>1. p - 1 \in i .. n - 1 /\ p > 1
        BY <1>1, <2>3
      <4>2. Class(text[p - 1]) = Class(text[i])
        BY <4>1
      <4> QED
        BY <2>4, <3>2, <4>1, <4>2
    <3>5. ~(q < n - 1)
      <4> SUFFICES ASSUME q < n - 1 PROVE FALSE
        OBVIOUS
      <4>1. q + 1 \in i .. n - 1 /\ q < Len(text)
        BY <1>1, <2>3
      <4>2. Class(text[q + 1]) = Class(text[i])
        BY <4>1
      <4> QED
        BY <2>4, <3>2, <4>1, <4>2
    <3> QED
      BY <1>1, <2>2, <2>3, <3>3, <3>4, <3>5
  <2> QED
    BY <2>5, <2>6
<1>5. <<i, n - 1>> \in MaximalRuns(text)
  <2>1. <<i, n - 1>> \in (DOMAIN text) \X (DOMAIN text) /\ i <= n - 1
    BY <1>1
  <2>2. ASSUME NEW k \in i .. n - 1
        PROVE  text[k] # "blank" /\ Class(text[k]) = Class(text[i])
    <3>1. k \in DOMAIN text /\ Class(text[k]) = Class(text[i])
      BY <1>1
    <3> QED
      BY <1>3, <3>1
  <2>3. ~Alone(text[i]) => /\ i > 1 => Class(text[i - 1]) # Class(text[i])
                           /\ n - 1 < Len(text) => Class(text[(n - 1) + 1]) # Class(text[i])
    <3>1. (n - 1) + 1 = n /\ (n - 1 < Len(text) => n <= Len(text))
      BY <1>1
    <3> QED
      BY <3>1 DEF GoesOn
  <2>4. Alone(text[i]) => i = n - 1
    BY <1>1
  <2> QED
    BY <2>1, <2>2, <2>3, <2>4 DEF MaximalRuns
<1>6. \A r \in MaximalRuns(text) : r[2] \in Nat
  BY <1>1 DEF MaximalRuns
<1>7. n - 1 < n /\ \A x \in Nat : x < i => x < n
  BY <1>1
<1>8. ASSUME NEW r \in MaximalRuns(text), r[2] < n
      PROVE  r[2] < i \/ r = <<i, n - 1>>
  BY <1>1, <1>4, <1>6, <1>8
<1> QED
  BY <1>5, <1>6, <1>7, <1>8 DEF RunAdded

\* The text of a quote comes out as it is, in one block.
LEMMA QuoteComesOut ==
  ASSUME NEW text \in Seq(Kinds), InSubset(text), NEW i \in DOMAIN text, ~GoesOn(text, i)
  PROVE  Shows(text, BlockAt(text, i)) = ComesOut(text, BlockAt(text, i))
<1>1. PICK b : b = BlockAt(text, i)
  OBVIOUS
<1>2. CASE b.kind # "quote"
  BY <1>1, <1>2 DEF Shows
<1>3. CASE b.kind = "quote"
  <2>1. text[i] # "blank"
    BY <1>1, <1>3 DEF BlockAt, KindAt, Single
  <2>2. /\ Class(text[i]) = "quote" /\ b.from = i /\ b.next \in i + 1 .. Len(text) + 1
        /\ \A k \in i .. b.next - 1 : Class(text[k]) = "quote"
    BY <1>1, <1>3, <2>1, BlockIsRun
  <2>3. PICK n \in i + 1 .. Len(text) + 1 : n = b.next
    BY <2>2
  <2>4. /\ Len(text) \in Nat /\ i \in 1 .. Len(text) /\ n - i \in Nat /\ n - i >= 1
        /\ \A k \in i .. n - 1 : k \in DOMAIN text /\ text[k] \in Plain
    <3>1. Len(text) \in Nat /\ DOMAIN text = 1 .. Len(text) /\ i \in 1 .. Len(text)
      OBVIOUS
    <3>2. n - i \in Nat /\ n - i >= 1 /\ \A k \in i .. n - 1 : k \in DOMAIN text
      BY <3>1
    <3> QED
      BY <3>1, <3>2 DEF InSubset, Plain
  <2>5. ComesOut(text, b) = i .. n - 1
    <3>1. \A k \in i .. n - 1 : text[k] = "quote"
      BY <2>2, <2>3, <2>4, Classes
    <3> QED
      BY <2>2, <2>3, <3>1 DEF ComesOut
  <2>6. PICK m \in Nat \ {0} : m = n - i
    BY <2>4
  <2>7. PICK inner : inner = Quoted(b)
    OBVIOUS
  <2>8. inner = [k \in 1 .. m |-> "text"]
    BY <2>2, <2>3, <2>6, <2>7 DEF Quoted
  <2>9. /\ inner \in Seq(Kinds) /\ Len(inner) = m /\ DOMAIN inner = 1 .. m
        /\ \A k \in 1 .. m : inner[k] = "text"
    <3>1. "text" \in Kinds
      BY DEF Kinds
    <3>2. DOMAIN inner = 1 .. m /\ \A k \in 1 .. m : inner[k] = "text"
      BY <2>8
    <3>3. inner \in [1 .. m -> Kinds]
      BY <2>8, <3>1
    <3>4. inner \in Seq(Kinds)
      BY <2>6, <3>3
    <3>5. Len(inner) = m
      BY <2>6, <3>2, <3>4
    <3> QED
      BY <3>2, <3>4, <3>5
  <2>10. InSubset(inner) /\ 1 \in DOMAIN inner /\ Class("text") = "paragraph"
    BY <2>6, <2>9 DEF InSubset, Class
  <2>11. PICK c : c = BlockAt(inner, 1)
    OBVIOUS
  <2>12. c.from = 1 /\ c.next = Past(inner, 1, "paragraph")
    BY <2>6, <2>9, <2>11 DEF BlockAt, KindAt, Single, StartsTable, HasBar, IsItem
  <2>13. c.next = m + 1
    <3>1. /\ c.next \in 2 .. m + 1
          /\ c.next <= m => Class(inner[c.next]) # "paragraph"
      <4>1. Class(inner[1]) = "paragraph"
        BY <2>6, <2>9, <2>10
      <4>2. /\ Past(inner, 1, "paragraph") \in 1 + 1 .. Len(inner) + 1
            /\ Past(inner, 1, "paragraph") <= Len(inner)
                 => Class(inner[Past(inner, 1, "paragraph")]) # "paragraph"
        BY <2>9, <2>10, <4>1, PastIsEnd
      <4> QED
        BY <2>6, <2>9, <2>12, <4>2
    <3> QED
      BY <2>6, <2>9, <2>10, <3>1
  <2>14. ComesOut(inner, c) = 1 .. m
    BY <2>6, <2>9, <2>12, <2>13 DEF ComesOut
  <2>15. Shows(text, b) = {i + k - 1 : k \in 1 .. m}
    BY <1>3, <2>2, <2>7, <2>11, <2>14 DEF Shows
  <2>16. {i + k - 1 : k \in 1 .. m} = i .. n - 1
    <3>1. \A k \in 1 .. m : i + k - 1 \in i .. n - 1
      BY <2>4, <2>6
    <3>2. \A k \in i .. n - 1 : k - i + 1 \in 1 .. m /\ i + (k - i + 1) - 1 = k
      BY <2>4, <2>6
    <3> QED
      BY <3>1, <3>2
  <2> QED
    BY <1>1, <2>5, <2>15, <2>16
<1> QED
  BY <1>2, <1>3

\* A round of the loop shows the next run, block for block.
LEMMA RoundShowsRun ==
  ASSUME NEW text \in Seq(Kinds), InSubset(text), NEW i \in DOMAIN text, ~GoesOn(text, i)
  PROVE  LET b == BlockAt(text, i)
             shown == Shows(text, b)
         IN /\ b.next \in i + 1 .. Len(text) + 1
            /\ b.next <= Len(text) => ~GoesOn(text, b.next)
            /\ shown \subseteq DOMAIN text
            /\ HtmlBefore(text, b.next)
                 = IF shown = {} THEN HtmlBefore(text, i)
                   ELSE HtmlBefore(text, i) \cup {[kind |-> b.kind, lines |-> shown]}
<1>1. /\ Len(text) \in Nat /\ DOMAIN text = 1 .. Len(text) /\ i \in 1 .. Len(text)
  OBVIOUS
<1>2. \A k \in DOMAIN text : text[k] \in Plain
  BY DEF InSubset, Plain
<1>3. PICK b : b = BlockAt(text, i)
  OBVIOUS
<1>4. PICK shown : shown = Shows(text, b)
  OBVIOUS
<1>5. shown = {k \in b.from .. b.next - 1 : text[k] \notin {"blank", "divider"}}
  BY <1>3, <1>4, QuoteComesOut DEF ComesOut
<1> SUFFICES /\ b.next \in i + 1 .. Len(text) + 1
             /\ b.next <= Len(text) => ~GoesOn(text, b.next)
             /\ shown \subseteq DOMAIN text
             /\ HtmlBefore(text, b.next)
                  = IF shown = {} THEN HtmlBefore(text, i)
                    ELSE HtmlBefore(text, i) \cup {[kind |-> b.kind, lines |-> shown]}
  BY <1>3, <1>4
<1>6. CASE text[i] = "blank"
  <2>1. b.from = i /\ b.next = i + 1
    BY <1>3, <1>6 DEF BlockAt, Single
  <2>2. shown = {}
    BY <1>1, <1>5, <1>6, <2>1
  <2>3. b.next <= Len(text) => ~GoesOn(text, b.next)
    <3> SUFFICES ASSUME i + 1 <= Len(text) PROVE ~GoesOn(text, i + 1)
      BY <2>1
    <3>1. (i + 1) - 1 = i /\ i + 1 \in DOMAIN text
      BY <1>1
    <3>2. Class(text[i]) = "blank" /\ (Class(text[i + 1]) = "blank" => text[i + 1] = "blank")
      BY <1>2, <1>6, <3>1, Classes
    <3> QED
      BY <3>1, <3>2 DEF GoesOn
  <2>4. ASSUME NEW r \in MaximalRuns(text)
        PROVE  r[2] < i + 1 <=> r[2] < i
    <3>1. /\ r \in (DOMAIN text) \X (DOMAIN text) /\ r[1] <= r[2]
          /\ \A k \in r[1] .. r[2] : text[k] # "blank"
      BY DEF MaximalRuns
    <3>2. r[2] \in r[1] .. r[2] /\ r[2] \in 1 .. Len(text)
      BY <1>1, <3>1
    <3>3. r[2] # i
      BY <1>6, <3>1, <3>2
    <3> QED
      BY <1>1, <3>2, <3>3
  <2>5. HtmlBefore(text, i + 1) = HtmlBefore(text, i)
    BY <2>4 DEF HtmlBefore
  <2> QED
    BY <1>1, <2>1, <2>2, <2>3, <2>5
<1>7. CASE text[i] # "blank"
  <2>1. /\ b.kind = Class(text[i]) /\ b.from = i
        /\ b.next \in i + 1 .. Len(text) + 1
        /\ \A k \in i .. b.next - 1 : Class(text[k]) = Class(text[i])
        /\ Alone(text[i]) => b.next = i + 1
        /\ ~Alone(text[i]) /\ b.next <= Len(text) => Class(text[b.next]) # Class(text[i])
    BY <1>3, <1>7, BlockIsRun
  <2>2. PICK n \in i + 1 .. Len(text) + 1 : n = b.next
    BY <2>1
  <2>3. {m \in MaximalRuns(text) : m[2] < n}
           = {m \in MaximalRuns(text) : m[2] < i} \cup {<<i, n - 1>>}
    <3>1. /\ \A k \in i .. n - 1 : Class(text[k]) = Class(text[i])
          /\ Alone(text[i]) => n = i + 1
          /\ ~Alone(text[i]) /\ n <= Len(text) => Class(text[n]) # Class(text[i])
      BY <2>1, <2>2
    <3>2. RunAdded(text, i, n)
      BY <1>7, <3>1, NextRun
    <3> QED
      BY <3>2 DEF RunAdded
  <2>4. \A k \in i .. n - 1 : k \in DOMAIN text /\ text[k] # "blank"
    <3>1. \A k \in i .. n - 1 : k \in DOMAIN text
      BY <1>1
    <3> QED
      BY <1>2, <1>7, <2>1, <2>2, <3>1, Classes
  <2>5. shown = {k \in i .. n - 1 : text[k] # "divider"} /\ shown \subseteq DOMAIN text
    BY <1>5, <2>1, <2>2, <2>4
  <2>6. i \in shown
    <3>1. text[i] = "divider" => i > 1 /\ text[i - 1] = "row"
      BY DEF InSubset
    <3>2. text[i] # "divider"
      <4> SUFFICES ASSUME text[i] = "divider" PROVE FALSE
        OBVIOUS
      <4>1. Class(text[i]) = "table" /\ Class(text[i - 1]) = "table" /\ ~Alone(text[i]) /\ i > 1
        BY <3>1 DEF Class, Alone
      <4> QED
        BY <4>1 DEF GoesOn
    <3> QED
      BY <1>1, <2>5, <3>2
  <2>7. HtmlBefore(text, n) = HtmlBefore(text, i) \cup {[kind |-> Class(text[i]), lines |-> shown]}
    <3> DEFINE Block(r) == [kind |-> Class(text[r[1]]),
                            lines |-> {k \in r[1] .. r[2] : text[k] # "divider"}]
    <3>1. Block(<<i, n - 1>>) = [kind |-> Class(text[i]), lines |-> shown]
      BY <2>5
    <3>2. \A j : HtmlBefore(text, j) = {Block(r) : r \in {m \in MaximalRuns(text) : m[2] < j}}
      BY DEF HtmlBefore
    <3> HIDE DEF Block
    <3> QED
      BY <2>3, <3>1, <3>2
  <2>8. b.next <= Len(text) => ~GoesOn(text, b.next)
    <3> SUFFICES ASSUME n <= Len(text) PROVE ~GoesOn(text, n)
      BY <2>2
    <3>1. n - 1 \in i .. n - 1 /\ n \in DOMAIN text
      BY <1>1
    <3>2. Class(text[n - 1]) = Class(text[i]) /\ n - 1 \in DOMAIN text
      BY <2>1, <2>2, <2>4, <3>1
    <3>3. CASE Alone(text[i])
      BY <1>2, <3>1, <3>2, <3>3, Classes DEF GoesOn
    <3>4. CASE ~Alone(text[i])
      BY <2>1, <2>2, <3>2, <3>4 DEF GoesOn
    <3> QED
      BY <3>3, <3>4
  <2> QED
    BY <2>1, <2>2, <2>5, <2>6, <2>7, <2>8
<1> QED
  BY <1>6, <1>7

\* Before the first line nothing is shown, behind the last one everything.
LEMMA HtmlEnds ==
  ASSUME NEW text \in Seq(Kinds)
  PROVE  /\ HtmlBefore(text, 1) = {} /\ ~GoesOn(text, 1)
         /\ HtmlBefore(text, Len(text) + 1) = ExpectedHtml(text)
<1>1. Len(text) \in Nat /\ DOMAIN text = 1 .. Len(text)
  OBVIOUS
<1>2. \A r \in MaximalRuns(text) : r[2] \in 1 .. Len(text)
  BY <1>1 DEF MaximalRuns
<1>3. {m \in MaximalRuns(text) : m[2] < 1} = {}
  BY <1>1, <1>2
<1>4. {m \in MaximalRuns(text) : m[2] < Len(text) + 1} = MaximalRuns(text)
  BY <1>1, <1>2
<1> QED
  BY <1>3, <1>4 DEF HtmlBefore, ExpectedHtml, GoesOn

-----------------------------------------------------------------------------
(* Every report is a document of the subset that md_to_html is for.         *)

\* Documents of the subset that may come behind others.
Readable(s) == s \in Seq(Kinds) /\ InSubset(s) /\ (Len(s) > 0 => s[1] # "divider")

\* What InSubset asks of line k.
LineFits(s, k) ==
  /\ s[k] \in Plain
  /\ s[k] = "divider" => k > 1 /\ s[k - 1] = "row"
  /\ s[k] = "row" /\ (k = 1 \/ ~HasBar(s[k - 1])) => StartsTable(s, k)

LEMMA FitsIsSubset ==
  ASSUME NEW s
  PROVE  InSubset(s) <=> \A k \in DOMAIN s : LineFits(s, k)
  BY DEF InSubset, LineFits, Plain

LEMMA ReadableJoins ==
  ASSUME NEW s, NEW t, Readable(s), Readable(t)
  PROVE  Readable(s \o t)
<1> DEFINE u == s \o t
<1>1. /\ s \in Seq(Kinds) /\ t \in Seq(Kinds) /\ Len(s) \in Nat /\ Len(t) \in Nat
      /\ u \in Seq(Kinds) /\ Len(u) = Len(s) + Len(t)
      /\ DOMAIN s = 1 .. Len(s) /\ DOMAIN t = 1 .. Len(t) /\ DOMAIN u = 1 .. Len(u)
  BY DEF Readable
<1>2. /\ \A k \in 1 .. Len(s) : u[k] = s[k]
      /\ \A k \in 1 .. Len(t) : u[Len(s) + k] = t[k]
  BY <1>1
<1> HIDE DEF u
<1>3. ASSUME NEW k \in 1 .. Len(s)
      PROVE  LineFits(u, k)
  <2>1. LineFits(s, k)
    BY <1>1, <1>3, FitsIsSubset DEF Readable
  <2>2. u[k] = s[k] /\ (k > 1 => u[k - 1] = s[k - 1])
    <3>1. k > 1 => k - 1 \in 1 .. Len(s)
      BY <1>1
    <3> QED
      BY <1>2, <3>1
  <2>3. StartsTable(s, k) => StartsTable(u, k)
    <3>1. k < Len(s) => k < Len(u) /\ k + 1 \in 1 .. Len(s)
      BY <1>1
    <3> QED
      BY <1>2, <2>2, <3>1 DEF StartsTable
  <2> QED
    BY <1>1, <2>1, <2>2, <2>3 DEF LineFits
<1>4. ASSUME NEW k \in 1 .. Len(t)
      PROVE  LineFits(u, Len(s) + k)
  <2>1. LineFits(t, k) /\ (k = 1 => t[k] # "divider")
    BY <1>1, <1>4, FitsIsSubset DEF Readable
  <2>2. u[Len(s) + k] = t[k] /\ (k > 1 => u[(Len(s) + k) - 1] = t[k - 1])
    <3>1. k > 1 => k - 1 \in 1 .. Len(t) /\ (Len(s) + k) - 1 = Len(s) + (k - 1)
      BY <1>1
    <3> QED
      BY <1>2, <3>1
  <2>3. StartsTable(t, k) => StartsTable(u, Len(s) + k)
    <3>1. k < Len(t) => /\ Len(s) + k < Len(u) /\ k + 1 \in 1 .. Len(t)
                        /\ (Len(s) + k) + 1 = Len(s) + (k + 1)
      BY <1>1
    <3>2. k < Len(t) => u[(Len(s) + k) + 1] = t[k + 1]
      BY <1>2, <3>1
    <3> QED
      BY <2>2, <3>1, <3>2 DEF StartsTable
  <2>4. k > 1 => Len(s) + k > 1 /\ Len(s) + k # 1
    BY <1>1
  <2>5. CASE k = 1
    BY <2>1, <2>2, <2>3, <2>5 DEF LineFits
  <2>6. CASE k # 1
    BY <1>1, <2>1, <2>2, <2>3, <2>4, <2>6 DEF LineFits
  <2> QED
    BY <2>5, <2>6
<1>5. ASSUME NEW k \in DOMAIN u
      PROVE  LineFits(u, k)
  <2>1. CASE k <= Len(s)
    BY <1>1, <1>3, <2>1
  <2>2. CASE k > Len(s)
    <3>1. k - Len(s) \in 1 .. Len(t) /\ Len(s) + (k - Len(s)) = k
      BY <1>1, <2>2
    <3> QED
      BY <1>4, <3>1
  <2> QED
    BY <1>1, <2>1, <2>2
<1>6. Len(u) > 0 => u[1] # "divider"
  <2>1. CASE Len(s) > 0
    <3>1. 1 \in 1 .. Len(s)
      BY <1>1, <2>1
    <3> QED
      BY <1>2, <2>1, <3>1 DEF Readable
  <2>2. CASE Len(s) = 0 /\ Len(t) > 0
    <3>1. 1 \in 1 .. Len(t) /\ Len(s) + 1 = 1
      BY <1>1, <2>2
    <3> QED
      BY <1>2, <2>2, <3>1 DEF Readable
  <2> QED
    BY <1>1, <2>1, <2>2
<1> QED
  BY <1>1, <1>5, <1>6, FitsIsSubset DEF Readable, u

\* A table goes on with any number of rows.
LEMMA RowsJoin ==
  ASSUME NEW s, Readable(s), Len(s) > 0, s[Len(s)] = "divider", NEW n \in Nat
  PROVE  Readable(s \o [i \in 1 .. n |-> "row"])
<1> DEFINE t == [i \in 1 .. n |-> "row"]
           u == s \o t
<1>1. /\ s \in Seq(Kinds) /\ t \in Seq(Kinds) /\ Len(s) \in Nat /\ Len(t) = n
      /\ u \in Seq(Kinds) /\ Len(u) = Len(s) + n
      /\ DOMAIN s = 1 .. Len(s) /\ DOMAIN u = 1 .. Len(u)
  BY DEF Readable, Kinds
<1>2. /\ \A k \in 1 .. Len(s) : u[k] = s[k]
      /\ \A k \in 1 .. Len(u) : k > Len(s) => u[k] = "row"
  BY <1>1
<1> HIDE DEF u, t
<1>3. ASSUME NEW k \in 1 .. Len(s)
      PROVE  LineFits(u, k)
  <2>1. LineFits(s, k)
    BY <1>1, <1>3, FitsIsSubset DEF Readable
  <2>2. u[k] = s[k] /\ (k > 1 => u[k - 1] = s[k - 1])
    <3>1. k > 1 => k - 1 \in 1 .. Len(s)
      BY <1>1
    <3> QED
      BY <1>2, <3>1
  <2>3. StartsTable(s, k) => StartsTable(u, k)
    <3>1. k < Len(s) => k < Len(u) /\ k + 1 \in 1 .. Len(s)
      BY <1>1
    <3> QED
      BY <1>2, <2>2, <3>1 DEF StartsTable
  <2> QED
    BY <1>1, <2>1, <2>2, <2>3 DEF LineFits
<1>4. ASSUME NEW k \in 1 .. Len(u), k > Len(s)
      PROVE  LineFits(u, k)
  <2>1. u[k] = "row" /\ k # 1 /\ k - 1 \in 1 .. Len(u)
    BY <1>1, <1>2, <1>4
  <2>2. u[k - 1] \in {"row", "divider"}
    <3>1. CASE k - 1 = Len(s)
      BY <1>1, <1>2, <2>1, <3>1
    <3>2. CASE k - 1 > Len(s)
      BY <1>2, <2>1, <3>2
    <3> QED
      BY <1>1, <1>4, <3>1, <3>2
  <2> QED
    BY <2>1, <2>2 DEF LineFits, Plain, HasBar
<1>5. \A k \in DOMAIN u : LineFits(u, k)
  BY <1>1, <1>3, <1>4
<1>6. Len(u) > 0 => u[1] # "divider"
  <2>1. 1 \in 1 .. Len(s)
    BY <1>1
  <2> QED
    BY <1>2, <2>1 DEF Readable
<1> QED
  BY <1>1, <1>5, <1>6, FitsIsSubset DEF Readable, u, t

LEMMA ItemsReadable ==
  ASSUME NEW n \in Nat
  PROVE  Readable([i \in 1 .. n |-> "item"])
<1> DEFINE t == [i \in 1 .. n |-> "item"]
<1>1. t \in Seq(Kinds) /\ DOMAIN t = 1 .. n /\ \A k \in 1 .. n : t[k] = "item"
  BY DEF Kinds
<1> HIDE DEF t
<1>2. \A k \in DOMAIN t : LineFits(t, k)
  BY <1>1 DEF LineFits, Plain
<1>3. Len(t) > 0 => t[1] # "divider"
  BY <1>1
<1> QED
  BY <1>1, <1>2, <1>3, FitsIsSubset DEF Readable, t

\* One line that is of no table.
LEMMA LineReadable ==
  ASSUME NEW l \in {"blank", "hr", "heading", "quote", "item", "text"}
  PROVE  Readable(<< l >>)
<1>1. << l >> \in Seq(Kinds) /\ Len(<< l >>) = 1 /\ << l >>[1] = l /\ DOMAIN << l >> = {1}
  BY DEF Kinds
<1>2. LineFits(<< l >>, 1)
  BY <1>1 DEF LineFits, Plain
<1> QED
  BY <1>1, <1>2, FitsIsSubset DEF Readable

\* The head of a table and its divider.
LEMMA HeadReadable == Readable(<< "row", "divider" >>)
<1> DEFINE t == << "row", "divider" >>
<1>1. t \in Seq(Kinds) /\ Len(t) = 2 /\ t[1] = "row" /\ t[2] = "divider" /\ DOMAIN t = {1, 2}
  BY DEF Kinds
<1> HIDE DEF t
<1>2. LineFits(t, 1) /\ LineFits(t, 2)
  BY <1>1 DEF LineFits, Plain, StartsTable, HasBar
<1> QED
  BY <1>1, <1>2, FitsIsSubset DEF Readable, t

LEMMA LastOfJoined ==
  ASSUME NEW s, NEW t, s \in Seq(Kinds), t \in Seq(Kinds), Len(t) > 0
  PROVE  Len(s \o t) > 0 /\ (s \o t)[Len(s \o t)] = t[Len(t)]
<1>1. Len(s) \in Nat /\ Len(t) \in Nat /\ Len(s \o t) = Len(s) + Len(t)
  OBVIOUS
<1>2. \A k \in 1 .. Len(t) : (s \o t)[Len(s) + k] = t[k]
  BY <1>1
<1> QED
  BY <1>1, <1>2

LEMMA TwoLines == ASSUME NEW l, NEW m PROVE << l, m >> = << l >> \o << m >>
<1> DEFINE u == << l >> \o << m >>
<1>1. u \in Seq({l, m}) /\ Len(u) = 2 /\ u[1] = l /\ u[2] = m
  <2>1. /\ << l >> \in Seq({l, m}) /\ << m >> \in Seq({l, m})
        /\ Len(<< l >>) = 1 /\ Len(<< m >>) = 1
    OBVIOUS
  <2> QED
    BY <2>1
<1> HIDE DEF u
<1>2. << l, m >> \in Seq({l, m}) /\ Len(<< l, m >>) = 2 /\ << l, m >>[1] = l /\ << l, m >>[2] = m
  OBVIOUS
<1>3. u = << l, m >>
  BY <1>1, <1>2
<1> QED
  BY <1>3 DEF u

\* The pieces the report is put together from.
LEMMA PiecesReadable ==
  /\ Readable(<< >>) /\ Readable(<< "heading", "blank" >>) /\ Readable(<< "quote", "blank" >>)
  /\ Readable(<< "blank" >>) /\ Readable(Paragraph)
  /\ Readable(<< "item", "item", "blank" >>) /\ Readable(<< "item", "item", "item", "blank" >>)
  /\ Readable(<< "heading", "blank", "row", "divider" >>)
<1>1. Readable(<< >>)
  BY DEF Readable, InSubset
<1>2. \A s, t : Readable(s) /\ Readable(t) => Readable(s \o t)
  BY ReadableJoins
<1>3. \A l \in {"blank", "hr", "heading", "quote", "item", "text"} : Readable(<< l >>)
  BY LineReadable
<1>4. \A l, m \in {"blank", "hr", "heading", "quote", "item", "text"} : Readable(<< l, m >>)
  <2> TAKE l, m \in {"blank", "hr", "heading", "quote", "item", "text"}
  <2>1. << l, m >> = << l >> \o << m >>
    BY TwoLines
  <2>2. Readable(<< l >> \o << m >>)
    BY <1>2, <1>3
  <2> QED
    BY <2>1, <2>2
<1>5. << "item", "item", "blank" >> = << "item" >> \o << "item", "blank" >>
      /\ << "item", "item", "item", "blank" >> = << "item", "item" >> \o << "item", "blank" >>
      /\ << "heading", "blank", "row", "divider" >>
           = << "heading", "blank" >> \o << "row", "divider" >>
  OBVIOUS
<1>6. /\ Readable(<< "item" >> \o << "item", "blank" >>)
      /\ Readable(<< "item", "item" >> \o << "item", "blank" >>)
      /\ Readable(<< "heading", "blank" >> \o << "row", "divider" >>)
  BY <1>2, <1>3, <1>4, HeadReadable
<1>7. Readable(Paragraph)
  BY <1>4 DEF Paragraph
<1> QED
  BY <1>1, <1>3, <1>4, <1>5, <1>6, <1>7

LEMMA TablesReadable ==
  /\ Readable(<< "row", "divider", "row", "row", "row", "blank" >>)
  /\ Readable(BaselineSection)
  /\ \A n \in Nat : Readable(BoundsTable(n)) /\ Readable(TickTable(n))
<1>1. \A s, t : Readable(s) /\ Readable(t) => Readable(s \o t)
  BY ReadableJoins
<1>2. \A n \in Nat : Readable(<< "row", "divider" >> \o [i \in 1 .. n |-> "row"])
  <2> TAKE n \in Nat
  <2>1. Len(<< "row", "divider" >>) = 2 /\ << "row", "divider" >>[2] = "divider"
    OBVIOUS
  <2> QED
    BY <2>1, HeadReadable, RowsJoin
<1>3. \A n \in Nat : Readable(<< "row", "divider" >> \o [i \in 1 .. n |-> "row"] \o << "blank" >>)
  BY <1>1, <1>2, PiecesReadable
<1>4. Readable(<< "row", "divider", "row", "row", "row", "blank" >>)
  <2> DEFINE t == << "row", "divider", "row", "row", "row", "blank" >>
  <2>1. /\ t \in Seq(Kinds) /\ Len(t) = 6 /\ DOMAIN t = 1 .. 6
        /\ t[1] = "row" /\ t[2] = "divider" /\ t[3] = "row" /\ t[4] = "row" /\ t[5] = "row"
        /\ t[6] = "blank"
    BY DEF Kinds
  <2> HIDE DEF t
  <2>2. LineFits(t, 1) /\ LineFits(t, 2)
    BY <2>1 DEF LineFits, Plain, StartsTable, HasBar
  <2>3. LineFits(t, 3) /\ LineFits(t, 4) /\ LineFits(t, 5) /\ LineFits(t, 6)
    BY <2>1 DEF LineFits, Plain, HasBar
  <2>4. \A k \in DOMAIN t : LineFits(t, k)
    BY <2>1, <2>2, <2>3
  <2> QED
    BY <2>1, <2>4, FitsIsSubset DEF Readable, t
<1>5. Readable(BaselineSection)
  <2>1. BaselineSection = << "heading", "blank" >>
                          \o << "row", "divider", "row", "row", "row", "blank" >>
    BY DEF BaselineSection
  <2> QED
    BY <1>1, <1>4, <2>1, PiecesReadable
<1> QED
  BY <1>3, <1>4, <1>5, PiecesReadable DEF BoundsTable, TickTable

LEMMA TableBehind ==
  ASSUME NEW s, Readable(s), NEW n \in Nat
  PROVE  Readable(s \o << "heading", "blank", "row", "divider" >> \o [i \in 1 .. n |-> "row"])
<1>1. PICK t : t = << "heading", "blank", "row", "divider" >>
  OBVIOUS
<1>2. Len(t) = 4 /\ t[4] = "divider" /\ Readable(t)
  BY <1>1, PiecesReadable
<1>3. Readable(s \o t)
  BY <1>2, ReadableJoins
<1>4. Len(s \o t) > 0 /\ (s \o t)[Len(s \o t)] = t[Len(t)]
  <2>1. s \in Seq(Kinds) /\ t \in Seq(Kinds) /\ Len(t) > 0
    BY <1>2 DEF Readable
  <2> QED
    BY <2>1, LastOfJoined
<1> QED
  BY <1>1, <1>2, <1>3, <1>4, RowsJoin

LEMMA SectionsReadable ==
  ASSUME NEW ticks \in Tallies, NEW dry \in BOOLEAN
  PROVE  /\ Readable(Under(BoundsTable, ticks)) /\ Readable(Under(TickTable, ticks))
         /\ Readable(ReportHead(dry)) /\ Readable(AuditSection) /\ Readable(EstimatesSection)
<1>1. \A s, t : Readable(s) /\ Readable(t) => Readable(s \o t)
  BY ReadableJoins
<1>2. \A n \in Nat : Readable([i \in 1 .. n |-> "item"])
  BY ItemsReadable
<1>3. ticks["5h"] \in Nat /\ ticks["7d"] \in Nat
  BY DEF Tallies, Windows
<1>4. Readable(Under(BoundsTable, ticks)) /\ Readable(Under(TickTable, ticks))
  <2>1. /\ Readable(BoundsTable(ticks["5h"])) /\ Readable(BoundsTable(ticks["7d"]))
        /\ Readable(TickTable(ticks["5h"])) /\ Readable(TickTable(ticks["7d"]))
    BY <1>3, TablesReadable
  <2>2. \A s, t : Readable(s) /\ Readable(t) =>
          Readable(<< "heading", "blank" >> \o s \o << "heading", "blank" >> \o t)
    BY <1>1, PiecesReadable, Zenon
  <2> QED
    BY <2>1, <2>2 DEF Under
<1>5. Readable(ReportHead(dry))
  <2>1. Readable(IF dry THEN << "quote", "blank" >> ELSE << >>)
    BY PiecesReadable
  <2>2. Readable([i \in 1 .. 9 |-> "item"])
    BY <1>2
  <2>3. \A s, t : Readable(s) /\ Readable(t) =>
          Readable(<< "heading", "blank" >> \o s \o t \o << "blank" >>)
    BY <1>1, PiecesReadable, Zenon
  <2> QED
    BY <2>1, <2>2, <2>3 DEF ReportHead
<1>6. Readable(AuditSection)
  <2>1. Readable([i \in 1 .. 13 |-> "item"])
    BY <1>2
  <2>2. \A s : Readable(s) => Readable(<< "heading", "blank" >> \o s \o << "blank" >> \o Paragraph)
    BY <1>1, PiecesReadable, Zenon
  <2> QED
    BY <2>1, <2>2 DEF AuditSection
<1>7. Readable(EstimatesSection)
  <2>1. Readable(<< "heading", "blank" >> \o Paragraph \o << "item", "item", "item", "blank" >>
                 \o Paragraph \o << "item", "item", "blank" >> \o Paragraph)
    BY <1>1, PiecesReadable, Zenon
  <2>2. \A s : Readable(s) =>
          Readable(s \o << "heading", "blank", "row", "divider" >> \o [i \in 1 .. 6 |-> "row"]
                   \o << "blank" >>)
    BY <1>1, PiecesReadable, TableBehind
  <2> QED
    BY <2>1, <2>2 DEF EstimatesSection
<1> QED
  BY <1>4, <1>5, <1>6, <1>7

\* Whatever a run or its directory in results/ has for a report.
LEMMA ReportsReadable ==
  ASSUME NEW report, report # None,
         report \in Reports \/ \E d \in Documents : report = [lines |-> d]
  PROVE  LinesOf(report) \in Seq(Kinds) /\ InSubset(LinesOf(report))
<1>1. CASE report = Torn
  <2>1. LinesOf(report) = << "blank" >>
    BY <1>1 DEF LinesOf
  <2> QED
    BY <2>1, PiecesReadable DEF Readable
<1>2. CASE report # Torn /\ \E d \in Documents : report = [lines |-> d]
  <2>1. PICK d \in Documents : report = [lines |-> d]
    BY <1>2
  <2>2. LinesOf(report) = d
    BY <1>2, <2>1 DEF LinesOf
  <2> QED
    BY <2>2, SiteAssumption
<1>3. CASE report # Torn /\ report \in Reports
  <2>1. report \in [dry : BOOLEAN, ticks : Tallies]
    BY <1>3 DEF Reports
  <2>2. "lines" \notin DOMAIN report /\ report.dry \in BOOLEAN /\ report.ticks \in Tallies
    BY <2>1
  <2>3. LinesOf(report) = ReportLines(report)
    BY <1>3, <2>2 DEF LinesOf
  <2>4. \A s, t : Readable(s) /\ Readable(t) => Readable(s \o t)
    BY ReadableJoins
  <2>5. \A h, b, e, u, v, a :
          Readable(h) /\ Readable(b) /\ Readable(e) /\ Readable(u) /\ Readable(v) /\ Readable(a)
            => Readable(h \o b \o e \o << "heading", "blank" >> \o Paragraph \o u
                        \o << "heading", "blank" >> \o u
                        \o << "heading", "blank" >> \o Paragraph \o v \o a)
    BY <2>4, PiecesReadable, ZenonT(30)
  <2>6. Readable(ReportLines(report))
    BY <2>2, <2>5, SectionsReadable, TablesReadable DEF ReportLines
  <2> QED
    BY <2>3, <2>6 DEF Readable
<1> QED
  BY <1>1, <1>2, <1>3

-----------------------------------------------------------------------------
(* The runs are sorted by their start.                                      *)

\* In the order of list.sort, run j of s is not behind run i.
Upto(s, j, i) == s[j].started < s[i].started \/ (s[j].started = s[i].started /\ j <= i)

Ahead(s, i) == {j \in DOMAIN s : Upto(s, j, i)}

Starting(s) == DOMAIN s = 1 .. Len(s) /\ Len(s) \in Nat /\ \A i \in DOMAIN s : s[i].started \in Nat

Sorted(s) == \A i, j \in DOMAIN s : i <= j => s[i].started <= s[j].started

LEMMA FirstNaturals ==
  ASSUME NEW n \in Nat
  PROVE  IsFiniteSet(1 .. n) /\ Cardinality(1 .. n) = n
<1>1. IsFiniteSet(1 .. n) /\ Cardinality(1 .. n) = IF 1 > n THEN 0 ELSE n - 1 + 1
  BY FS_Interval
<1> QED
  BY <1>1

LEMMA RankIsPlace ==
  ASSUME NEW s, Starting(s)
  PROVE  /\ \A i \in DOMAIN s : Rank(s, i) \in DOMAIN s
         /\ \A i, j \in DOMAIN s : Upto(s, j, i) /\ j # i => Rank(s, j) < Rank(s, i)
         /\ \A i, j \in DOMAIN s : i # j => Rank(s, i) # Rank(s, j)
<1>1. \A i : Rank(s, i) = Cardinality(Ahead(s, i))
  BY DEF Rank, Ahead, Upto
<1>2. IsFiniteSet(DOMAIN s) /\ Cardinality(DOMAIN s) = Len(s)
  BY FirstNaturals DEF Starting
<1>3. \A i \in DOMAIN s : /\ IsFiniteSet(Ahead(s, i)) /\ Cardinality(Ahead(s, i)) <= Len(s)
                          /\ Cardinality(Ahead(s, i)) \in Nat
  <2> TAKE i \in DOMAIN s
  <2>1. Ahead(s, i) \in SUBSET (DOMAIN s)
    BY DEF Ahead
  <2> QED
    BY <1>2, <2>1, FS_Subset, FS_CardinalityType
<1>4. ASSUME NEW i \in DOMAIN s
      PROVE  Cardinality(Ahead(s, i)) > 0
  <2>1. i \in Ahead(s, i)
    BY DEF Ahead, Upto, Starting
  <2>2. Cardinality(Ahead(s, i)) # 0
    BY <1>3, <2>1, FS_EmptySet
  <2> QED
    BY <1>3, <2>2
<1>5. ASSUME NEW i \in DOMAIN s, NEW j \in DOMAIN s, Upto(s, j, i), j # i
      PROVE  Cardinality(Ahead(s, j)) < Cardinality(Ahead(s, i))
  <2>1. \A k \in DOMAIN s : Upto(s, k, j) => Upto(s, k, i)
    BY <1>5 DEF Starting, Upto
  <2>2. ~Upto(s, i, j) /\ Upto(s, i, i)
    BY <1>5 DEF Starting, Upto
  <2>3. Ahead(s, j) \in SUBSET Ahead(s, i) /\ i \in Ahead(s, i) /\ i \notin Ahead(s, j)
    BY <2>1, <2>2 DEF Ahead
  <2>4. Cardinality(Ahead(s, j)) <= Cardinality(Ahead(s, i))
        /\ Cardinality(Ahead(s, j)) # Cardinality(Ahead(s, i))
    BY <1>3, <2>3, FS_Subset
  <2> QED
    BY <1>3, <2>4
<1>6. \A i, j \in DOMAIN s : Upto(s, i, j) \/ Upto(s, j, i)
  BY DEF Starting, Upto
<1>7. \A i \in DOMAIN s : Rank(s, i) \in DOMAIN s
  BY <1>1, <1>3, <1>4 DEF Starting
<1>8. \A i, j \in DOMAIN s : Upto(s, j, i) /\ j # i => Rank(s, j) < Rank(s, i)
  BY <1>1, <1>5
<1>9. \A i, j \in DOMAIN s : i # j => Rank(s, i) # Rank(s, j)
  <2> TAKE i, j \in DOMAIN s
  <2>1. Rank(s, i) \in Nat /\ Rank(s, j) \in Nat
    BY <1>1, <1>3
  <2> QED
    BY <1>6, <1>8, <2>1
<1> QED
  BY <1>7, <1>8, <1>9

LEMMA SortingSorts ==
  ASSUME NEW s, Starting(s), NEW t, t = ByStart(s)
  PROVE  /\ DOMAIN t = DOMAIN s /\ Sorted(t)
         /\ {t[k] : k \in DOMAIN s} = {s[i] : i \in DOMAIN s}
<1> DEFINE f == [i \in DOMAIN s |-> Rank(s, i)]
           At(k) == CHOOSE i \in DOMAIN s : Rank(s, i) = k
<1>1. IsFiniteSet(DOMAIN s)
  BY FS_Interval DEF Starting
<1>2. f \in Injection(DOMAIN s, DOMAIN s)
  <2>1. f \in [DOMAIN s -> DOMAIN s] /\ \A a, b \in DOMAIN s : f[a] = f[b] => a = b
    BY RankIsPlace
  <2> QED
    BY <2>1 DEF Injection, IsInjective
<1>3. f \in Surjection(DOMAIN s, DOMAIN s)
  BY <1>1, <1>2, FS_Injection
<1>4. \A k \in DOMAIN s : \E i \in DOMAIN s : Rank(s, i) = k
  BY <1>3 DEF Surjection
<1>5. \A k \in DOMAIN s : At(k) \in DOMAIN s /\ Rank(s, At(k)) = k
  BY <1>4
<1>6. DOMAIN t = DOMAIN s /\ \A k \in DOMAIN s : t[k] = s[At(k)]
  BY DEF ByStart
<1> HIDE DEF f, At
<1>7. \A i \in DOMAIN s : Rank(s, i) \in DOMAIN s /\ At(Rank(s, i)) = i
  BY <1>5, RankIsPlace
<1>8. {t[k] : k \in DOMAIN s} = {s[i] : i \in DOMAIN s}
  BY <1>5, <1>6, <1>7
<1>9. ASSUME NEW k \in DOMAIN s, NEW m \in DOMAIN s, k <= m
      PROVE  s[At(k)].started <= s[At(m)].started
  <2>1. CASE s[At(m)].started < s[At(k)].started
    <3>1. Upto(s, At(m), At(k)) /\ At(m) # At(k)
      BY <1>5, <2>1 DEF Upto, Starting
    <3>2. m < k
      BY <1>5, <3>1, RankIsPlace
    <3> QED
      BY <1>9, <3>2 DEF Starting
  <2> QED
    BY <1>5, <2>1 DEF Starting
<1> QED
  BY <1>6, <1>8, <1>9 DEF Sorted

\* What a run looks like in the index.
Card(e) == [started |-> e.started, ticks |-> e.bounds]

\* Its page.
Page(e) == [started |-> e.started, ticks |-> e.bounds, html |-> ExpectedHtml(LinesOf(e.report))]

\* Runs that all start at different times are rendered in the order of their start.
LEMMA StrictlySortedIsRendered ==
  ASSUME NEW R, Starting(R), \A i, j \in DOMAIN R : i < j => R[i].started < R[j].started,
         NEW entries, entries = {R[i] : i \in DOMAIN R}
  PROVE  Rendered(entries) = [index |-> [i \in DOMAIN R |-> Card(R[i])],
                              pages |-> {Page(R[i]) : i \in DOMAIN R}]
<1>1. PICK n \in Nat : DOMAIN R = 1 .. n
  BY DEF Starting
<1>2. \A i, j \in 1 .. n : R[i].started <= R[j].started <=> i <= j
  <2> TAKE i, j \in 1 .. n
  <2>1. R[i].started \in Nat /\ R[j].started \in Nat
    BY <1>1 DEF Starting
  <2>2. /\ i < j => R[i].started < R[j].started
        /\ j < i => R[j].started < R[i].started
    BY <1>1
  <2>3. i = j => R[i].started = R[j].started
    OBVIOUS
  <2> QED
    BY <2>1, <2>2, <2>3
<1>3. ASSUME NEW m \in 0 .. n
      PROVE  /\ IsFiniteSet({R[i] : i \in 1 .. m})
             /\ Cardinality({R[i] : i \in 1 .. m}) = m
  <2> DEFINE T == {R[i] : i \in 1 .. m}
             f == [i \in 1 .. m |-> R[i]]
  <2>1. IsFiniteSet(1 .. m) /\ Cardinality(1 .. m) = m
    BY FirstNaturals
  <2>2. \A a, b \in 1 .. m : R[a] = R[b] => a = b
    <3> TAKE a, b \in 1 .. m
    <3>1. a \in 1 .. n /\ b \in 1 .. n
      BY <1>1
    <3>2. R[a] = R[b] => R[a].started <= R[b].started /\ R[b].started <= R[a].started
      BY <1>1, <3>1 DEF Starting
    <3> QED
      BY <1>2, <3>1, <3>2
  <2>3. f \in Bijection(1 .. m, T)
    <3>1. f \in [1 .. m -> T] /\ (\A a, b \in 1 .. m : f[a] = f[b] => a = b)
          /\ \A t \in T : \E a \in 1 .. m : f[a] = t
      BY <2>2
    <3> QED
      BY <3>1 DEF Bijection, Injection, Surjection, IsInjective
  <2>4. ExistsBijection(1 .. m, T)
    BY <2>3 DEF ExistsBijection
  <2> QED
    BY <2>1, <2>4, FS_Bijection
<1>4. Cardinality(entries) = n
  <2>1. n \in 0 .. n /\ entries = {R[i] : i \in 1 .. n}
    BY <1>1
  <2>2. Cardinality({R[i] : i \in 1 .. n}) = n
    BY <1>3, <2>1, Zenon
  <2> QED
    BY <2>1, <2>2, Zenon
<1>5. ASSUME NEW i \in 1 .. n
      PROVE  Cardinality({f \in entries : f.started <= R[i].started}) = i
  <2>1. {f \in entries : f.started <= R[i].started} = {R[j] : j \in 1 .. i}
    <3>1. {f \in entries : f.started <= R[i].started}
             = {R[j] : j \in {k \in 1 .. n : R[k].started <= R[i].started}}
      BY <1>1
    <3>2. {k \in 1 .. n : R[k].started <= R[i].started} = {k \in 1 .. n : k <= i}
      BY <1>2
    <3>3. {k \in 1 .. n : k <= i} = 1 .. i
      OBVIOUS
    <3> QED
      BY <3>1, <3>2, <3>3
  <2>2. i \in 0 .. n
    OBVIOUS
  <2>3. Cardinality({R[j] : j \in 1 .. i}) = i
    BY <1>3, <2>2, Zenon
  <2> QED
    BY <2>1, <2>3, Zenon
<1>6. ASSUME NEW i \in 1 .. n
      PROVE  (CHOOSE e \in entries : Cardinality({f \in entries : f.started <= e.started}) = i) = R[i]
  <2>1. R[i] \in entries
    BY <1>1
  <2>2. \A e \in entries : Cardinality({f \in entries : f.started <= e.started}) = i => e = R[i]
    BY <1>1, <1>5
  <2> QED
    BY <1>5, <2>1, <2>2
<1>7. [i \in 1 .. Cardinality(entries) |->
         LET nth == CHOOSE e \in entries : Cardinality({f \in entries : f.started <= e.started}) = i
         IN [started |-> nth.started, ticks |-> nth.bounds]]
      = [i \in 1 .. n |-> [started |-> R[i].started, ticks |-> R[i].bounds]]
  BY <1>4, <1>6
<1>8. {[started |-> e.started, ticks |-> e.bounds,
        html |-> ExpectedHtml(LinesOf(e.report))] : e \in entries} = {Page(R[i]) : i \in 1 .. n}
  BY <1>1 DEF Page
<1> QED
  BY <1>1, <1>7, <1>8 DEF Rendered, Card

-----------------------------------------------------------------------------
(* A build that ends well shows what was published.                         *)

ReportFiles == Reports \cup {[lines |-> d] : d \in Documents}

Entries == [started : Nat, manifest : Manifests, bounds : Tallies \cup {None, Torn},
            report : ReportFiles]

\* The runs that the directories in ns hold.
RunsIn(ns) == {results[n] : n \in {m \in ns : IsRun(results[m])}}

\* The page of the run at hand, before it is written.
Opened(e) == [started |-> e.started, ticks |-> None, html |-> {}]

\* k of the runs R, in the order of their start, have their pages, and runs are the others.
Rendering(R, k) ==
  /\ R \in Seq(Entries) /\ k \in 0 .. Len(R) /\ Len(R) = k + Len(runs)
  /\ \A i \in 1 .. Len(runs) : runs[i] = R[k + i]
  /\ {R[i] : i \in 1 .. Len(R)} = RunsIn(Names)
  /\ \A i, j \in 1 .. Len(R) : i <= j => R[i].started <= R[j].started
  /\ \A i, j \in 1 .. k : i < j => R[i].started < R[j].started
  /\ building = "page" => k < Len(R) /\ \A i \in 1 .. k : R[i].started < R[k + 1].started
  /\ site = [index |-> [i \in 1 .. Len(R) |-> Card(R[i])],
             pages |-> {Page(R[i]) : i \in 1 .. k}
                         \cup (IF building = "page" THEN {Opened(R[k + 1])} ELSE {})]

\* The conversion is at the beginning of a block and has shown those before.
Converting ==
  /\ runs # << >> /\ doc = LinesOf(Head(runs).report)
  /\ out = HtmlBefore(doc, line)
  /\ line <= Len(doc) => ~GoesOn(doc, line)

BuilderTyped ==
  /\ DOMAIN results = Names
  /\ \A n \in Names : results[n] # None => results[n] \in Entries
  /\ building \in {"off", "load", "clean", "index", "pages", "page"}
  /\ toLoad \subseteq Names
  /\ runs \in Seq(Entries) /\ \A i \in 1 .. Len(runs) : Loadable(runs[i])
  /\ doc \in Seq(Kinds) /\ InSubset(doc) /\ line \in 1 .. Len(doc) + 1
  /\ \A b \in out : b.lines \subseteq DOMAIN doc
  /\ published \in Nat /\ builds \in Nat

Building ==
  /\ building = "off" => runs = << >>
  /\ building = "load" =>
       {runs[i] : i \in 1 .. Len(runs)} = RunsIn(Names \ toLoad)
  /\ building \in {"clean", "index"} =>
       /\ {runs[i] : i \in 1 .. Len(runs)} = RunsIn(Names)
       /\ \A i, j \in 1 .. Len(runs) : i <= j => runs[i].started <= runs[j].started
  /\ building = "index" => site = NoSite
  /\ building \in {"pages", "page"} => \E R, k : Rendering(R, k)
  /\ building = "page" => Converting
  /\ building \in {"off", "load", "clean"} /\ good # None => site = Rendered(good)

BuildInv == BuilderTyped /\ Building

LEMMA BuildInit == ASSUME SiteInit PROVE BuildInv
<1>1. PICK d \in Documents :
        results = [n \in Names |->
                    IF n = Archived
                    THEN [started |-> 0, bounds |-> NoTicks, report |-> [lines |-> d],
                          manifest |-> [window |-> "5h", dry |-> FALSE]]
                    ELSE None]
  BY DEF SiteInit
<1>2. [started |-> 0, bounds |-> NoTicks, report |-> [lines |-> d],
       manifest |-> [window |-> "5h", dry |-> FALSE]] \in Entries
  <2>1. NoTicks \in Tallies /\ [window |-> "5h", dry |-> FALSE] \in Manifests
    BY DEF NoTicks, Tallies, Manifests, Windows
  <2>2. [lines |-> d] \in ReportFiles
    BY DEF ReportFiles
  <2> QED
    BY <2>1, <2>2 DEF Entries
<1>4. << >> \in Seq(Entries) /\ Len(<< >>) = 0 /\ << >> \in Seq(Kinds) /\ InSubset(<< >>)
  BY DEF InSubset
<1>5. /\ building = "off" /\ toLoad = {} /\ runs = << >> /\ doc = << >> /\ line = 1 /\ out = {}
      /\ good = None /\ published = 0 /\ builds = 0
  BY DEF SiteInit
<1>6. \A n \in Names : results[n] # None => results[n] \in Entries
  BY <1>1, <1>2
<1>7. BuilderTyped
  <2>1. DOMAIN results = Names
    BY <1>1
  <2>2. runs \in Seq(Entries) /\ \A i \in 1 .. Len(runs) : Loadable(runs[i])
    BY <1>4, <1>5
  <2>3. line \in 1 .. Len(doc) + 1 /\ doc \in Seq(Kinds) /\ InSubset(doc)
    BY <1>4, <1>5
  <2> QED
    BY <1>5, <1>6, <2>1, <2>2, <2>3 DEF BuilderTyped
<1>8. Building
  BY <1>5 DEF Building
<1> QED
  BY <1>7, <1>8 DEF BuildInv

\* What EndBuild leaves.
LEMMA EndKeeps ==
  ASSUME BuildInv, EndBuild, UNCHANGED <<results, published>>, builds' \in Nat,
         good' # None => site' = Rendered(good')
  PROVE  BuildInv'
<1>1. /\ building' = "off" /\ toLoad' = {} /\ runs' = << >> /\ doc' = << >> /\ line' = 1 /\ out' = {}
  BY DEF EndBuild
<1>2. << >> \in Seq(Entries) /\ Len(<< >>) = 0 /\ << >> \in Seq(Kinds) /\ InSubset(<< >>)
  BY DEF InSubset
<1>3. BuilderTyped'
  BY <1>1, <1>2 DEF BuildInv, BuilderTyped
<1>4. Building'
  BY <1>1 DEF Building
<1> QED
  BY <1>3, <1>4 DEF BuildInv

\* A step of the probes changes nothing of a build.
LEMMA ProbesKeep ==
  ASSUME BuildInv, UNCHANGED <<results, builderVars, published>>
  PROVE  BuildInv'
<1>1. /\ results' = results /\ building' = building /\ toLoad' = toLoad /\ runs' = runs /\ doc' = doc
      /\ line' = line /\ out' = out /\ site' = site /\ good' = good /\ builds' = builds
      /\ published' = published
  BY DEF builderVars
<1>2. BuilderTyped'
  BY <1>1 DEF BuildInv, BuilderTyped
<1>3. RunsIn(Names)' = RunsIn(Names) /\ RunsIn(Names \ toLoad)' = RunsIn(Names \ toLoad)
  BY <1>1 DEF RunsIn, IsRun
<1>4. \A R, k : Rendering(R, k)' <=> Rendering(R, k)
  BY <1>1, <1>3 DEF Rendering
<1>5. Converting' <=> Converting
  BY <1>1 DEF Converting
<1>6. Building'
  <2>1. Building' <=> Building
    BY <1>1, <1>3, <1>4, <1>5, ZenonT(30) DEF Building
  <2> QED
    BY <2>1 DEF BuildInv
<1> QED
  BY <1>2, <1>6 DEF BuildInv

LEMMA PublishKeeps ==
  ASSUME DirInv, BuildInv, NEW r \in DOMAIN dirs, NEW n \in Names \ {Archived}, Publish(r, n)
  PROVE  BuildInv'
<1> DEFINE e == [started |-> r, manifest |-> dirs[r].manifest,
                 bounds |-> dirs[r].bounds, report |-> dirs[r].report]
<1>1. /\ building = "off" /\ results' = [results EXCEPT ![n] = e] /\ published' = published + 1
      /\ UNCHANGED <<building, toLoad, runs, doc, line, out, site, good, builds>>
  BY DEF Publish, builderVars
<1>2. e \in Entries
  <2>1. dirs[r] \in Directories /\ r \in Nat
    BY DEF DirInv
  <2> QED
    BY <2>1 DEF Directories, Entries, ReportFiles
<1> HIDE DEF e
<1>3. /\ DOMAIN results' = Names
      /\ \A m \in Names : results'[m] # None => results'[m] \in Entries
  BY <1>1, <1>2 DEF BuildInv, BuilderTyped
<1>4. BuilderTyped'
  BY <1>1, <1>3 DEF BuildInv, BuilderTyped
<1>5. Building'
  BY <1>1 DEF BuildInv, Building
<1> QED
  BY <1>4, <1>5 DEF BuildInv

LEMMA StartKeeps ==
  ASSUME BuildInv, StartBuild, UNCHANGED <<results, published>>
  PROVE  BuildInv'
<1>1. /\ building = "off" /\ building' = "load" /\ toLoad' = Names /\ builds' = builds + 1
      /\ UNCHANGED <<results, published, runs, doc, line, out, site, good>>
  BY DEF StartBuild
<1>2. BuilderTyped'
  BY <1>1 DEF BuildInv, BuilderTyped
<1>3. runs' = << >> /\ {runs'[i] : i \in 1 .. Len(runs')} = {}
  BY <1>1 DEF BuildInv, Building
<1>4. RunsIn(Names \ toLoad)' = {}
  BY <1>1 DEF RunsIn
<1>5. Building'
  BY <1>1, <1>3, <1>4 DEF BuildInv, Building
<1> QED
  BY <1>2, <1>5 DEF BuildInv

LEMMA LoadKeeps ==
  ASSUME BuildInv, Load, UNCHANGED <<results, published>>
  PROVE  BuildInv'
<1>1. /\ building = "load" /\ toLoad # {}
      /\ IsRun(results[Looked]) => Loadable(results[Looked])
      /\ runs' = IF IsRun(results[Looked]) THEN Append(runs, results[Looked]) ELSE runs
      /\ toLoad' = toLoad \ {Looked}
      /\ UNCHANGED <<building, doc, line, out, site, good, builds, results, published>>
  BY DEF Load
<1>2. PICK n : n = Looked
  OBVIOUS
<1>3. n \in toLoad
  <2>1. toLoad \subseteq Nat
    BY SiteAssumption DEF BuildInv, BuilderTyped
  <2>2. \E m \in toLoad : \A k \in toLoad : m <= k
    BY <1>1, <2>1, LeastNatural
  <2> QED
    BY <1>2, <2>2 DEF Looked
<1>4. n \in Names /\ runs \in Seq(Entries) /\ (IsRun(results[n]) => results[n] \in Entries)
  BY <1>3 DEF BuildInv, BuilderTyped, IsRun
<1>5. /\ runs' \in Seq(Entries) /\ \A i \in 1 .. Len(runs') : Loadable(runs'[i])
      /\ {runs'[i] : i \in 1 .. Len(runs')} = RunsIn(Names \ toLoad')
  <2>0. /\ \A i \in 1 .. Len(runs) : Loadable(runs[i])
        /\ {runs[i] : i \in 1 .. Len(runs)} = RunsIn(Names \ toLoad)
    BY <1>1 DEF BuildInv, BuilderTyped, Building
  <2>1. CASE IsRun(results[n])
    <3>1. runs' = Append(runs, results[n]) /\ Loadable(results[n])
      BY <1>1, <1>2, <2>1
    <3>2. /\ runs' \in Seq(Entries) /\ Len(runs') = Len(runs) + 1 /\ Len(runs) \in Nat
          /\ runs'[Len(runs) + 1] = results[n] /\ \A i \in 1 .. Len(runs) : runs'[i] = runs[i]
      BY <1>4, <2>1, <3>1
    <3>3. \A i \in 1 .. Len(runs') : i = Len(runs) + 1 \/ i \in 1 .. Len(runs)
      BY <3>2
    <3>4. \A i \in 1 .. Len(runs) : i \in 1 .. Len(runs')
      BY <3>2
    <3>5. \A i \in 1 .. Len(runs') : Loadable(runs'[i])
      <4> TAKE i \in 1 .. Len(runs')
      <4>1. runs'[i] = results[n] \/ (i \in 1 .. Len(runs) /\ runs'[i] = runs[i])
        BY <3>2, <3>3
      <4> QED
        BY <2>0, <3>1, <4>1 DEF Loadable
    <3>6. {runs'[i] : i \in 1 .. Len(runs')} = {runs[i] : i \in 1 .. Len(runs)} \cup {results[n]}
      <4>1. Len(runs) + 1 \in 1 .. Len(runs')
        BY <3>2
      <4> QED
        BY <3>2, <3>3, <3>4, <4>1
    <3>7. RunsIn(Names \ toLoad') = RunsIn(Names \ toLoad) \cup {results[n]}
      BY <1>1, <1>2, <1>3, <1>4, <2>1 DEF RunsIn
    <3> QED
      BY <2>0, <3>2, <3>5, <3>6, <3>7
  <2>2. CASE ~IsRun(results[n])
    <3>1. runs' = runs
      BY <1>1, <1>2, <2>2
    <3>2. RunsIn(Names \ toLoad') = RunsIn(Names \ toLoad)
      BY <1>1, <1>2, <1>3, <1>4, <2>2 DEF RunsIn
    <3> QED
      BY <1>4, <2>0, <3>1, <3>2
  <2> QED
    BY <2>1, <2>2
<1>6. BuilderTyped'
  BY <1>1, <1>5 DEF BuildInv, BuilderTyped
<1>7. RunsIn(Names \ toLoad)' = RunsIn(Names \ toLoad')
  BY <1>1 DEF RunsIn, IsRun
<1>8. Building'
  BY <1>1, <1>5, <1>7 DEF BuildInv, Building
<1> QED
  BY <1>6, <1>8 DEF BuildInv

\* RunsIn and the like for a step that leaves results alone.
LEMMA SameResults ==
  ASSUME UNCHANGED results
  PROVE  RunsIn(Names)' = RunsIn(Names)
  BY DEF RunsIn, IsRun

LEMMA EntriesStart ==
  ASSUME NEW s \in Seq(Entries)
  PROVE  /\ Len(s) \in Nat /\ DOMAIN s = 1 .. Len(s)
         /\ \A i \in 1 .. Len(s) : s[i] \in Entries /\ s[i].started \in Nat
<1>1. \A e \in Entries : e.started \in Nat
  BY DEF Entries
<1>2. Len(s) \in Nat /\ DOMAIN s = 1 .. Len(s) /\ \A i \in 1 .. Len(s) : s[i] \in Entries
  OBVIOUS
<1> QED
  BY <1>1, <1>2

LEMMA SortKeeps ==
  ASSUME BuildInv, SortRuns, UNCHANGED <<results, published>>
  PROVE  BuildInv'
<1>1. /\ building = "load" /\ toLoad = {} /\ runs' = ByStart(runs) /\ building' = "clean"
      /\ UNCHANGED <<toLoad, doc, line, out, site, good, builds, results, published>>
  BY DEF SortRuns
<1>2. runs \in Seq(Entries) /\ \A i \in 1 .. Len(runs) : Loadable(runs[i])
  BY DEF BuildInv, BuilderTyped
<1>3. Starting(runs) /\ Len(runs) \in Nat /\ DOMAIN runs = 1 .. Len(runs)
  BY <1>2, EntriesStart DEF Starting
<1>4. /\ DOMAIN runs' = 1 .. Len(runs) /\ Sorted(runs')
      /\ {runs'[k] : k \in 1 .. Len(runs)} = {runs[i] : i \in 1 .. Len(runs)}
  <2>1. PICK s : s = runs
    OBVIOUS
  <2>2. PICK t : t = ByStart(s)
    OBVIOUS
  <2>3. Starting(s) /\ DOMAIN s = 1 .. Len(s) /\ runs' = t
    BY <1>1, <1>3, <2>1, <2>2
  <2>4. DOMAIN t = 1 .. Len(s) /\ Sorted(t) /\ {t[k] : k \in 1 .. Len(s)} = {s[i] : i \in 1 .. Len(s)}
    <3>1. DOMAIN t = DOMAIN s /\ Sorted(t) /\ {t[k] : k \in DOMAIN s} = {s[i] : i \in DOMAIN s}
      <4>1. Starting(s) /\ t = ByStart(s)
        BY <2>2, <2>3
      <4> QED
        BY <4>1, SortingSorts
    <3> QED
      BY <2>3, <3>1
  <2> QED
    BY <2>1, <2>3, <2>4 DEF Sorted
<1>5. \A k \in 1 .. Len(runs) : \E i \in 1 .. Len(runs) : runs'[k] = runs[i]
  BY <1>4
<1>6. /\ runs' \in Seq(Entries) /\ Len(runs') = Len(runs)
      /\ \A i \in 1 .. Len(runs') : Loadable(runs'[i])
  <2>1. \A k \in 1 .. Len(runs) : runs'[k] \in Entries
    <3>1. \A i \in 1 .. Len(runs) : runs[i] \in Entries
      BY <1>2
    <3> QED
      BY <1>5, <3>1
  <2>2. runs' = [k \in 1 .. Len(runs) |-> runs'[k]]
    BY <1>1, <1>3 DEF ByStart
  <2>3. runs' \in Seq(Entries)
    BY <1>3, <2>1, <2>2
  <2>4. Len(runs') = Len(runs)
    BY <1>3, <1>4, <2>3
  <2>5. \A i \in 1 .. Len(runs) : Loadable(runs'[i])
    BY <1>2, <1>5 DEF Loadable
  <2> QED
    BY <2>3, <2>4, <2>5
<1>7. /\ {runs'[i] : i \in 1 .. Len(runs')} = RunsIn(Names)
      /\ \A i, j \in 1 .. Len(runs') : i <= j => runs'[i].started <= runs'[j].started
  <2>1. {runs[i] : i \in 1 .. Len(runs)} = RunsIn(Names)
    BY <1>1 DEF BuildInv, Building, RunsIn
  <2> QED
    BY <1>4, <1>6, <2>1 DEF Sorted
<1>8. BuilderTyped'
  BY <1>1, <1>6 DEF BuildInv, BuilderTyped
<1>9. Building'
  BY <1>1, <1>7, SameResults DEF BuildInv, Building
<1> QED
  BY <1>8, <1>9 DEF BuildInv

LEMMA CleanKeeps ==
  ASSUME BuildInv, Clean, UNCHANGED <<results, published>>
  PROVE  BuildInv'
<1>1. /\ building = "clean" /\ building' = "index" /\ site' = NoSite
      /\ UNCHANGED <<toLoad, runs, doc, line, out, good, builds, results, published>>
  BY DEF Clean
<1>2. BuilderTyped'
  BY <1>1 DEF BuildInv, BuilderTyped
<1>3. Building'
  BY <1>1, SameResults DEF BuildInv, Building
<1> QED
  BY <1>2, <1>3 DEF BuildInv

LEMMA IndexKeeps ==
  ASSUME BuildInv, WriteIndex, UNCHANGED <<results, published>>
  PROVE  BuildInv'
<1>1. /\ building = "index" /\ building' = "pages"
      /\ site' = [site EXCEPT !.index =
                [i \in DOMAIN runs |-> [started |-> runs[i].started, ticks |-> runs[i].bounds]]]
      /\ UNCHANGED <<toLoad, runs, doc, line, out, good, builds, results, published>>
  BY DEF WriteIndex
<1>2. BuilderTyped'
  BY <1>1 DEF BuildInv, BuilderTyped
<1>3. /\ runs \in Seq(Entries) /\ site = NoSite
      /\ {runs[i] : i \in 1 .. Len(runs)} = RunsIn(Names)
      /\ \A i, j \in 1 .. Len(runs) : i <= j => runs[i].started <= runs[j].started
  BY <1>1 DEF BuildInv, BuilderTyped, Building
<1>4. DOMAIN runs = 1 .. Len(runs) /\ Len(runs) \in Nat /\ 0 \in 0 .. Len(runs)
      /\ Len(runs) = 0 + Len(runs) /\ \A i \in 1 .. Len(runs) : 0 + i = i
  BY <1>3
<1>5. site' = [index |-> [i \in 1 .. Len(runs) |-> Card(runs[i])], pages |-> {}]
  BY <1>1, <1>3, <1>4 DEF NoSite, Card
<1>6. PICK R : R = runs
  OBVIOUS
<1>7. Rendering(R, 0)'
  <2>1. {Page(R[i]) : i \in 1 .. 0} = {}
    OBVIOUS
  <2>2. \A i, j \in 1 .. 0 : i < j => R[i].started < R[j].started
    OBVIOUS
  <2>3. site' = [index |-> [i \in 1 .. Len(R) |-> Card(R[i])],
                 pages |-> {Page(R[i]) : i \in 1 .. 0} \cup {}]
    BY <1>5, <1>6, <2>1
  <2>4. runs' = R /\ building' # "page"
    BY <1>1, <1>6
  <2>5. /\ R \in Seq(Entries) /\ {R[i] : i \in 1 .. Len(R)} = RunsIn(Names)'
        /\ \A i, j \in 1 .. Len(R) : i <= j => R[i].started <= R[j].started
    BY <1>1, <1>3, <1>6, SameResults
  <2>6. /\ 0 \in 0 .. Len(R) /\ Len(R) = 0 + Len(R) /\ \A i \in 1 .. Len(R) : R[i] = R[0 + i]
    BY <1>4, <1>6
  <2> QED
    BY <2>2, <2>3, <2>4, <2>5, <2>6 DEF Rendering
<1>8. Building'
  <2>1. (\E x, k : Rendering(x, k))'
    BY <1>7
  <2> QED
    BY <1>1, <2>1 DEF Building
<1> QED
  BY <1>2, <1>8 DEF BuildInv

\* The next run's page is not there: it starts behind all that have one.
LEMMA OpenKeeps ==
  ASSUME BuildInv, OpenPage, UNCHANGED <<results, published>>
  PROVE  BuildInv'
<1>1. /\ building = "pages" /\ runs # << >> /\ building' = "page"
      /\ \A p \in site.pages : p.started # Head(runs).started
      /\ site' = [site EXCEPT !.pages =
                @ \cup {[started |-> Head(runs).started, ticks |-> None, html |-> {}]}]
      /\ doc' = LinesOf(Head(runs).report) /\ line' = 1 /\ out' = {}
      /\ UNCHANGED <<toLoad, runs, good, builds, results, published>>
  BY DEF OpenPage
<1>2. PICK R, k : Rendering(R, k)
  BY <1>1 DEF BuildInv, Building
<1>3. /\ runs \in Seq(Entries) /\ Len(runs) \in Nat /\ Len(runs) # 0
      /\ \A i \in 1 .. Len(runs) : Loadable(runs[i])
  BY <1>1 DEF BuildInv, BuilderTyped
<1>4. Head(runs) = runs[1] /\ 1 \in 1 .. Len(runs) /\ runs[1] \in Entries
  BY <1>1, <1>3
<1>5. /\ R \in Seq(Entries) /\ k \in 0 .. Len(R) /\ Len(R) \in Nat /\ k \in Nat
      /\ Len(R) = k + Len(runs) /\ runs[1] = R[k + 1] /\ k + 1 \in 1 .. Len(R) /\ k < Len(R)
      /\ \A i \in 1 .. k : i \in 1 .. Len(R) /\ i <= k + 1
  <2>1. /\ R \in Seq(Entries) /\ k \in 0 .. Len(R) /\ Len(R) = k + Len(runs)
        /\ \A i \in 1 .. Len(runs) : runs[i] = R[k + i]
    BY <1>2 DEF Rendering
  <2>2. Len(R) \in Nat /\ k \in Nat
    BY <2>1
  <2> QED
    BY <1>3, <1>4, <2>1, <2>2
<1>6. site.pages = {Page(R[i]) : i \in 1 .. k}
      /\ site = [index |-> [i \in 1 .. Len(R) |-> Card(R[i])],
                 pages |-> {Page(R[i]) : i \in 1 .. k}]
  BY <1>1, <1>2 DEF Rendering
<1>7. ASSUME NEW i \in 1 .. k
      PROVE  R[i].started < R[k + 1].started
  <2>1. Page(R[i]) \in site.pages /\ Page(R[i]).started = R[i].started
    BY <1>6 DEF Page
  <2>2. R[i].started # R[k + 1].started
    BY <1>1, <1>4, <1>5, <2>1
  <2>3. R[i].started <= R[k + 1].started
    BY <1>2, <1>5 DEF Rendering
  <2>4. R[i].started \in Nat /\ R[k + 1].started \in Nat
    BY <1>5, EntriesStart
  <2> QED
    BY <2>2, <2>3, <2>4
<1>8. site' = [index |-> [i \in 1 .. Len(R) |-> Card(R[i])],
               pages |-> {Page(R[i]) : i \in 1 .. k} \cup {Opened(R[k + 1])}]
  BY <1>1, <1>4, <1>5, <1>6 DEF Opened
<1>9. Rendering(R, k)'
  BY <1>1, <1>2, <1>5, <1>7, <1>8, SameResults DEF Rendering
<1>10. doc' \in Seq(Kinds) /\ InSubset(doc')
  <2>1. Head(runs).report # None /\ Head(runs).report \in ReportFiles
    BY <1>3, <1>4 DEF Entries, Loadable
  <2> QED
    BY <1>1, <2>1, ReportsReadable DEF ReportFiles
<1>11. line' \in 1 .. Len(doc') + 1
  BY <1>1, <1>10
<1>12. BuilderTyped'
  BY <1>1, <1>10, <1>11 DEF BuildInv, BuilderTyped
<1>13. Converting'
  BY <1>1, <1>10, HtmlEnds DEF Converting
<1>14. Building'
  <2>1. (\E x, y : Rendering(x, y))'
    BY <1>9
  <2> QED
    BY <1>1, <1>13, <2>1 DEF Building
<1> QED
  BY <1>12, <1>14 DEF BuildInv

LEMMA ConvertKeeps ==
  ASSUME BuildInv, Convert, UNCHANGED <<results, published>>
  PROVE  BuildInv'
<1>1. PICK b : b = BlockAt(doc, line)
  OBVIOUS
<1>2. PICK shown : shown = Shows(doc, b)
  OBVIOUS
<1>3. /\ building = "page" /\ line <= Len(doc) /\ line' = b.next
      /\ out' = IF shown = {} THEN out ELSE out \cup {[kind |-> b.kind, lines |-> shown]}
      /\ UNCHANGED <<building, toLoad, runs, doc, site, good, builds, results, published>>
  BY <1>1, <1>2 DEF Convert
<1>4. /\ doc \in Seq(Kinds) /\ InSubset(doc) /\ line \in DOMAIN doc /\ ~GoesOn(doc, line)
      /\ out = HtmlBefore(doc, line)
  <2>1. doc \in Seq(Kinds) /\ InSubset(doc) /\ line \in 1 .. Len(doc) + 1
    BY DEF BuildInv, BuilderTyped
  <2>2. line \in DOMAIN doc
    BY <1>3, <2>1
  <2> QED
    BY <1>3, <2>1, <2>2 DEF BuildInv, Building, Converting
<1>5. /\ b.next \in line + 1 .. Len(doc) + 1
      /\ b.next <= Len(doc) => ~GoesOn(doc, b.next)
      /\ shown \subseteq DOMAIN doc
      /\ HtmlBefore(doc, b.next)
           = IF shown = {} THEN HtmlBefore(doc, line)
             ELSE HtmlBefore(doc, line) \cup {[kind |-> b.kind, lines |-> shown]}
  BY <1>1, <1>2, <1>4, RoundShowsRun
<1>6. line' \in 1 .. Len(doc') + 1 /\ out' = HtmlBefore(doc', line')
      /\ (line' <= Len(doc') => ~GoesOn(doc', line'))
  <2>1. line \in Nat /\ Len(doc) \in Nat
    BY <1>4
  <2> QED
    BY <1>3, <1>4, <1>5, <2>1
<1>7. \A x \in out' : x.lines \subseteq DOMAIN doc'
  BY <1>3, <1>5 DEF BuildInv, BuilderTyped
<1>8. BuilderTyped'
  BY <1>3, <1>6, <1>7 DEF BuildInv, BuilderTyped
<1>9. Converting'
  BY <1>3, <1>6 DEF BuildInv, Building, Converting
<1>10. (\E R, k : Rendering(R, k))'
  <2>1. PICK R, k : Rendering(R, k)
    BY <1>3 DEF BuildInv, Building
  <2>2. Rendering(R, k)'
    BY <1>3, <2>1, SameResults DEF Rendering
  <2> QED
    BY <2>2
<1>11. Building'
  BY <1>3, <1>9, <1>10 DEF Building
<1> QED
  BY <1>8, <1>11 DEF BuildInv

\* The page at hand is written with all that its report shows.
LEMMA WriteKeeps ==
  ASSUME BuildInv, WritePage, UNCHANGED <<results, published>>
  PROVE  BuildInv'
<1>1. /\ building = "page" /\ building' = "pages" /\ line > Len(doc)
      /\ site' = [site EXCEPT !.pages =
                {p \in @ : p.started # Head(runs).started}
                \cup {[started |-> Head(runs).started, ticks |-> Head(runs).bounds, html |-> out]}]
      /\ runs' = Tail(runs)
      /\ UNCHANGED <<toLoad, doc, line, out, good, builds, results, published>>
  BY DEF WritePage
<1>2. PICK R, k : Rendering(R, k)
  BY <1>1 DEF BuildInv, Building
<1>3. /\ runs \in Seq(Entries) /\ runs # << >>
      /\ doc = LinesOf(Head(runs).report) /\ out = HtmlBefore(doc, line)
      /\ \A i \in 1 .. Len(runs) : Loadable(runs[i])
      /\ doc \in Seq(Kinds) /\ line \in 1 .. Len(doc) + 1
  BY <1>1 DEF BuildInv, BuilderTyped, Building, Converting
<1>4. Len(runs) \in Nat /\ Len(runs) # 0 /\ Head(runs) = runs[1] /\ 1 \in 1 .. Len(runs)
  BY <1>3
<1>5. /\ R \in Seq(Entries) /\ k \in 0 .. Len(R) /\ Len(R) = k + Len(runs)
      /\ \A i \in 1 .. Len(runs) : runs[i] = R[k + i]
      /\ \A i \in 1 .. k : R[i].started < R[k + 1].started
      /\ site = [index |-> [i \in 1 .. Len(R) |-> Card(R[i])],
                 pages |-> {Page(R[i]) : i \in 1 .. k} \cup {Opened(R[k + 1])}]
  BY <1>1, <1>2 DEF Rendering
<1>6. PICK e : e = R[k + 1]
  OBVIOUS
<1>7. /\ Len(R) \in Nat /\ k \in Nat /\ k + 1 \in 1 .. Len(R) /\ k + 1 \in 0 .. Len(R)
      /\ Head(runs) = e /\ e.started \in Nat
      /\ \A i \in 1 .. k : i \in 1 .. Len(R) /\ R[i].started \in Nat /\ R[i].started < e.started
  <2>1. Len(R) \in Nat /\ k \in Nat /\ k + 1 \in 1 .. Len(R) /\ k + 1 \in 0 .. Len(R)
        /\ \A i \in 1 .. k : i \in 1 .. Len(R)
    BY <1>4, <1>5
  <2> QED
    BY <1>4, <1>5, <1>6, <2>1, EntriesStart
<1>8. out = ExpectedHtml(LinesOf(e.report))
  <2>1. line = Len(doc) + 1
    BY <1>1, <1>3
  <2>2. HtmlBefore(doc, Len(doc) + 1) = ExpectedHtml(doc)
    BY <1>3, HtmlEnds
  <2>3. PICK d : d = doc
    OBVIOUS
  <2>4. out = HtmlBefore(d, Len(d) + 1) /\ HtmlBefore(d, Len(d) + 1) = ExpectedHtml(d)
    BY <1>3, <2>1, <2>2, <2>3
  <2>5. d = LinesOf(e.report)
    BY <1>3, <1>7, <2>3
  <2> QED
    BY <2>4, <2>5
<1>9. site' = [index |-> [i \in 1 .. Len(R) |-> Card(R[i])],
               pages |-> {Page(R[i]) : i \in 1 .. k + 1}]
  <2>1. \A i \in 1 .. k : Page(R[i]).started = R[i].started /\ R[i].started # e.started
    BY <1>7 DEF Page
  <2>2. Opened(e).started = e.started
    BY DEF Opened
  <2>3. {p \in {Page(R[i]) : i \in 1 .. k} \cup {Opened(e)} : p.started # e.started}
          = {Page(R[i]) : i \in 1 .. k}
    BY <2>1, <2>2
  <2>4. [started |-> e.started, ticks |-> e.bounds, html |-> out] = Page(e)
    BY <1>8 DEF Page
  <2>5. 1 .. k + 1 = (1 .. k) \cup {k + 1}
    BY <1>7
  <2>6. {Page(R[i]) : i \in 1 .. k + 1} = {Page(R[i]) : i \in 1 .. k} \cup {Page(e)}
    BY <1>6, <2>5
  <2>7. site = [index |-> [i \in 1 .. Len(R) |-> Card(R[i])],
                pages |-> {Page(R[i]) : i \in 1 .. k} \cup {Opened(e)}]
    BY <1>5, <1>6
  <2>8. site' = [site EXCEPT !.pages = {p \in site.pages : p.started # e.started} \cup {Page(e)}]
    BY <1>1, <1>7, <2>4
  <2> QED
    BY <2>3, <2>6, <2>7, <2>8
<1>10. /\ runs' \in Seq(Entries) /\ Len(runs') = Len(runs) - 1
       /\ \A i \in 1 .. Len(runs') : i + 1 \in 1 .. Len(runs) /\ runs'[i] = runs[i + 1]
  BY <1>1, <1>3, <1>4
<1>11. /\ Len(R) = (k + 1) + Len(runs')
       /\ \A i \in 1 .. Len(runs') : runs'[i] = R[(k + 1) + i]
  <2>1. Len(R) = (k + 1) + Len(runs')
    BY <1>4, <1>5, <1>7, <1>10
  <2>2. \A i \in 1 .. Len(runs') : runs'[i] = R[k + (i + 1)] /\ k + (i + 1) = (k + 1) + i
    BY <1>5, <1>7, <1>10
  <2> QED
    BY <2>1, <2>2
<1>12. \A i, j \in 1 .. k + 1 : i < j => R[i].started < R[j].started
  <2> TAKE i, j \in 1 .. k + 1
  <2>1. CASE j = k + 1
    BY <1>6, <1>7, <2>1
  <2>2. CASE j # k + 1 /\ i < j
    <3>1. i \in 1 .. k /\ j \in 1 .. k
      BY <1>7, <2>2
    <3> QED
      BY <1>2, <3>1 DEF Rendering
  <2> QED
    BY <2>1, <2>2
<1>13. Rendering(R, k + 1)'
  <2>1. {R[i] : i \in 1 .. Len(R)} = RunsIn(Names)'
        /\ \A i, j \in 1 .. Len(R) : i <= j => R[i].started <= R[j].started
    BY <1>1, <1>2, SameResults DEF Rendering
  <2> QED
    BY <1>1, <1>5, <1>7, <1>9, <1>11, <1>12, <2>1 DEF Rendering
<1>14. \A i \in 1 .. Len(runs') : Loadable(runs'[i])
  BY <1>3, <1>10 DEF Loadable
<1>15. BuilderTyped'
  BY <1>1, <1>10, <1>14 DEF BuildInv, BuilderTyped
<1>16. Building'
  <2>1. (\E x, y : Rendering(x, y))'
    BY <1>13
  <2> QED
    BY <1>1, <2>1 DEF Building
<1> QED
  BY <1>15, <1>16 DEF BuildInv

\* A build that comes to its end has rendered what is published.
LEMMA FinishKeeps ==
  ASSUME BuildInv, FinishBuild, UNCHANGED <<results, published>>
  PROVE  BuildInv'
<1>1. /\ building = "pages" /\ runs = << >> /\ EndBuild /\ good' = RunsIn(Names)
      /\ UNCHANGED <<site, builds>>
  BY DEF FinishBuild, RunsIn
<1>2. PICK R, k : Rendering(R, k)
  BY <1>1 DEF BuildInv, Building
<1>3. /\ R \in Seq(Entries) /\ k \in 0 .. Len(R) /\ Len(R) = k + Len(runs)
      /\ {R[i] : i \in 1 .. Len(R)} = RunsIn(Names)
      /\ \A i, j \in 1 .. k : i < j => R[i].started < R[j].started
      /\ site = [index |-> [i \in 1 .. Len(R) |-> Card(R[i])],
                 pages |-> {Page(R[i]) : i \in 1 .. k}]
  BY <1>1, <1>2 DEF Rendering
<1>4. Len(R) \in Nat /\ k = Len(R) /\ DOMAIN R = 1 .. Len(R)
  <2>1. Len(R) \in Nat /\ Len(runs) = 0 /\ DOMAIN R = 1 .. Len(R)
    BY <1>1, <1>3
  <2> QED
    BY <1>3, <2>1
<1>5. Starting(R)
  BY <1>3, EntriesStart DEF Starting
<1>6. PICK entries : entries = RunsIn(Names)
  OBVIOUS
<1>7. Rendered(entries) = [index |-> [i \in DOMAIN R |-> Card(R[i])],
                           pages |-> {Page(R[i]) : i \in DOMAIN R}]
  <2>1. entries = {R[i] : i \in DOMAIN R} /\ \A i, j \in DOMAIN R : i < j => R[i].started < R[j].started
    BY <1>3, <1>4, <1>6
  <2> QED
    BY <1>5, <2>1, StrictlySortedIsRendered
<1>8. site' = Rendered(entries) /\ good' = entries
  BY <1>1, <1>3, <1>4, <1>6, <1>7
<1>9. good' # None => site' = Rendered(good')
  BY <1>8 DEF Rendered
<1>10. builds' \in Nat
  BY <1>1 DEF BuildInv, BuilderTyped
<1> QED
  BY <1>1, <1>9, <1>10, EndKeeps

LEMMA OtherEndsKeep ==
  ASSUME BuildInv, LoadFails \/ PageIsThere \/ KillBuild, UNCHANGED <<results, published>>
  PROVE  BuildInv'
<1>1. EndBuild /\ site' = site /\ builds' \in Nat
  BY DEF LoadFails, PageIsThere, KillBuild, BuildInv, BuilderTyped
<1>2. good' = None \/ (good' = good /\ building \in {"off", "load", "clean"})
  BY DEF LoadFails, PageIsThere, KillBuild
<1>3. good' # None => site' = Rendered(good')
  <2> SUFFICES ASSUME good' # None PROVE site' = Rendered(good')
    OBVIOUS
  <2>1. good' = good /\ site = Rendered(good)
    BY <1>2 DEF BuildInv, Building
  <2> QED
    BY <1>1, <2>1 DEF Rendered
<1> QED
  BY <1>1, <1>3, EndKeeps

LEMMA BuildNext ==
  ASSUME DirInv, BuildInv, [SiteNext]_siteVars
  PROVE  BuildInv'
<1>1. CASE RunNext /\ UNCHANGED <<results, builderVars, published>>
  BY <1>1, ProbesKeep
<1>2. ASSUME NEW r \in DOMAIN dirs, NEW n \in Names \ {Archived}, Publish(r, n)
      PROVE  BuildInv'
  BY <1>2, PublishKeeps
<1>3. ASSUME StartBuild \/ Build \/ KillBuild, UNCHANGED <<runVars, results, published>>
      PROVE  BuildInv'
  <2>1. UNCHANGED <<results, published>>
    BY <1>3
  <2> QED
    BY <1>3, <2>1, StartKeeps, LoadKeeps, SortKeeps, CleanKeeps, IndexKeeps, OpenKeeps,
       ConvertKeeps, WriteKeeps, FinishKeeps, OtherEndsKeep DEF Build
<1>4. CASE UNCHANGED siteVars
  <2>1. UNCHANGED <<results, builderVars, published>>
    BY <1>4 DEF siteVars
  <2> QED
    BY <2>1, ProbesKeep
<1> QED
  BY <1>1, <1>2, <1>3, <1>4 DEF SiteNext

\* The site is that of the last build that finished, block for block (build-site.py main,
\* md_to_html): a line per run in the index in the order of their start, and for each a
\* page that shows every run of lines of its report once; also after builds that found a
\* file unreadable, for any number of names, runs, copies, kills and builds and for
\* archived reports of any length.
THEOREM SiteIsLastBuild == SiteSpec => []SiteShowsLastBuild
<1>1. BuildInv => SiteShowsLastBuild
  BY DEF BuildInv, Building, SiteShowsLastBuild
<1> QED
  BY <1>1, DirInit, DirNext, BuildInit, BuildNext, PTL DEF SiteSpec

-----------------------------------------------------------------------------
(* Types.                                                                   *)

\* Nothing tells of a directory that is not there.
StartsKnown ==
  /\ \A n \in Names : results[n] # None => results[n].started <= Len(dirs)
  /\ \A i \in 1 .. Len(runs) : runs[i].started <= Len(dirs)
  /\ \A p \in site.pages : p.started \in 0 .. Len(dirs)

ProbeTyped == left \in Nat /\ deaths \in Nat /\ open \in BOOLEAN

LEMMA TypesInit == ASSUME SiteInit PROVE ProbeTyped /\ StartsKnown
<1>1. left \in Nat /\ deaths \in Nat /\ open \in BOOLEAN
  <2>1. left \in Nat /\ deaths \in Nat
    BY RunsAssumption DEF SiteInit, RunsInit
  <2>2. open = FALSE
    BY DEF SiteInit, RunsInit
  <2> QED
    BY <2>1, <2>2
<1>2. dirs = << >> /\ runs = << >> /\ site.pages = {}
  BY DEF SiteInit, RunsInit, NoSite
<1>3. \A n \in Names : results[n] # None => results[n].started = 0
  BY DEF SiteInit
<1>4. StartsKnown
  BY <1>2, <1>3 DEF StartsKnown
<1> QED
  BY <1>1, <1>4 DEF ProbeTyped

\* No directory is removed.
LEMMA DirectoriesStay ==
  ASSUME DirInv, DirInv', [SiteNext]_siteVars
  PROVE  Len(dirs) \in Nat /\ Len(dirs') \in Nat /\ Len(dirs) <= Len(dirs')
<1>1. Len(dirs) \in Nat /\ Len(dirs') \in Nat /\ DOMAIN dirs = 1 .. Len(dirs)
      /\ DOMAIN dirs' = 1 .. Len(dirs')
  BY DEF DirInv
<1>2. ASSUME NEW w, NEW d, NEW n, StartRun(w, d, n)
      PROVE  Len(dirs) <= Len(dirs')
  <2>1. dirs' = Append(dirs, NewDirectory(n))
    BY <1>2 DEF StartRun
  <2>2. Len(dirs') = Len(dirs) + 1
    BY <2>1 DEF DirInv
  <2> QED
    BY <1>1, <2>2
<1>3. CASE \E w \in Windows : Measure(w)
  <2>1. DOMAIN dirs' = DOMAIN dirs
    BY <1>3 DEF Measure
  <2> QED
    BY <1>1, <2>1
<1>4. CASE Truncate \/ Fill
  <2>1. stage \in {"manifest", "bounds", "report"}
    BY <1>4 DEF Truncate, Fill, DirInv
  <2>2. DOMAIN dirs' = DOMAIN dirs
    BY <1>4, <2>1 DEF Truncate, Fill, WithFile
  <2> QED
    BY <1>1, <2>2
<1>5. CASE dirs' = dirs
  BY <1>1, <1>5
<1> QED
  BY <1>1, <1>2, <1>3, <1>4, <1>5
     DEF SiteNext, RunNext, Invocation, Resume, Continue, TakeUp, EndMeasuring, Compare, Die, Publish,
         siteVars, runVars

LEMMA TypedNext ==
  ASSUME ProbeTyped, [SiteNext]_siteVars
  PROVE  ProbeTyped'
<1>1. CASE Invocation
  <2>1. Invoked /\ UNCHANGED <<open, deaths>>
    BY <1>1 DEF Invocation, StartRun, Resume, Continue, TakeUp
  <2> QED
    BY <2>1 DEF Invoked, ProbeTyped
<1>2. CASE Truncate \/ Fill
  <2>1. UNCHANGED <<left, deaths>> /\ (open' = TRUE \/ open' = FALSE)
    BY <1>2 DEF Truncate, Fill
  <2>2. open' \in BOOLEAN
    BY <2>1, Zenon
  <2>3. left' \in Nat /\ deaths' \in Nat
    BY <2>1 DEF ProbeTyped
  <2> QED
    BY <2>2, <2>3 DEF ProbeTyped
<1>3. CASE Die
  <2>1. left' = left /\ deaths' = deaths + 1 /\ open' = FALSE
    BY <1>3 DEF Die
  <2>2. open' \in BOOLEAN
    BY <2>1, Zenon
  <2>3. left' \in Nat /\ deaths' \in Nat
    BY <2>1 DEF ProbeTyped
  <2> QED
    BY <2>2, <2>3 DEF ProbeTyped
<1>4. CASE UNCHANGED <<left, deaths, open>>
  BY <1>4 DEF ProbeTyped
<1>5. ASSUME NEW w \in Windows, Measure(w)
      PROVE  ProbeTyped'
  BY <1>4, <1>5 DEF Measure
<1>6. CASE EndMeasuring \/ Compare
  BY <1>4, <1>6 DEF EndMeasuring, Compare
<1> QED
  BY <1>1, <1>2, <1>3, <1>4, <1>5, <1>6 DEF SiteNext, RunNext, Publish, siteVars, runVars

LEMMA StartsNext ==
  ASSUME DirInv, DirInv', BuildInv, BuildInv', StartsKnown, [SiteNext]_siteVars
  PROVE  StartsKnown'
<1>1. Len(dirs) \in Nat /\ Len(dirs') \in Nat /\ Len(dirs) <= Len(dirs')
  BY DirectoriesStay
<1>2. /\ \A n \in Names : results[n] # None => results[n].started \in Nat
      /\ \A n \in Names : results'[n] # None => results'[n].started \in Nat
      /\ \A i \in 1 .. Len(runs) : runs[i].started \in Nat
      /\ \A i \in 1 .. Len(runs') : runs'[i].started \in Nat
  <2>1. \A e \in Entries : e.started \in Nat
    BY DEF Entries
  <2>2. /\ \A n \in Names : results[n] # None => results[n] \in Entries
        /\ \A n \in Names : results'[n] # None => results'[n] \in Entries
        /\ runs \in Seq(Entries) /\ runs' \in Seq(Entries)
    BY DEF BuildInv, BuilderTyped
  <2> QED
    BY <2>1, <2>2, EntriesStart
<1>3. ASSUME \A n \in Names : results'[n] # None =>
               results'[n].started <= Len(dirs) \/ results'[n] = results[n],
             \A i \in 1 .. Len(runs') :
               \/ \E j \in 1 .. Len(runs) : runs'[i] = runs[j]
               \/ \E n \in Names : results[n] # None /\ runs'[i] = results[n],
             \A p \in site'.pages :
               p \in site.pages \/ \E j \in 1 .. Len(runs) : p.started = runs[j].started
      PROVE  StartsKnown'
  <2>1. \A n \in Names : results'[n] # None => results'[n].started <= Len(dirs')
    <3> TAKE n \in Names
    <3> HAVE results'[n] # None
    <3>1. results'[n].started <= Len(dirs)
      BY <1>3 DEF StartsKnown
    <3> QED
      BY <1>1, <1>2, <3>1
  <2>2. \A i \in 1 .. Len(runs') : runs'[i].started <= Len(dirs')
    <3> TAKE i \in 1 .. Len(runs')
    <3>1. runs'[i].started <= Len(dirs)
      BY <1>3 DEF StartsKnown
    <3> QED
      BY <1>1, <1>2, <3>1
  <2>3. \A p \in site'.pages : p.started \in 0 .. Len(dirs')
    <3> TAKE p \in site'.pages
    <3>1. CASE p \in site.pages
      BY <1>1, <3>1 DEF StartsKnown
    <3>2. CASE \E j \in 1 .. Len(runs) : p.started = runs[j].started
      BY <1>1, <1>2, <3>2 DEF StartsKnown
    <3> QED
      BY <1>3, <3>1, <3>2
  <2> QED
    BY <2>1, <2>2, <2>3 DEF StartsKnown
<1>4. CASE UNCHANGED <<results, runs, site>>
  BY <1>3, <1>4
<1>5. ASSUME NEW r \in DOMAIN dirs, NEW n \in Names \ {Archived}, Publish(r, n)
      PROVE  StartsKnown'
  <2> DEFINE e == [started |-> r, manifest |-> dirs[r].manifest,
                   bounds |-> dirs[r].bounds, report |-> dirs[r].report]
  <2>1. results' = [results EXCEPT ![n] = e] /\ runs' = runs /\ site' = site /\ DOMAIN results = Names
    BY <1>5 DEF Publish, builderVars, BuildInv, BuilderTyped
  <2>2. e.started <= Len(dirs)
    BY DEF DirInv
  <2> HIDE DEF e
  <2>3. \A m \in Names : results'[m] = results[m] \/ results'[m] = e
    BY <2>1
  <2>4. \A m \in Names : results'[m] # None => results'[m].started <= Len(dirs) \/ results'[m] = results[m]
    BY <2>2, <2>3
  <2> QED
    BY <1>3, <2>1, <2>4
<1>6. ASSUME runs' = << >>, results' = results, site' = site \/ site' = NoSite
      PROVE  StartsKnown'
  <2>1. Len(runs') = 0 /\ NoSite.pages = {}
    BY <1>6 DEF NoSite
  <2> QED
    BY <1>3, <1>6, <2>1
<1>7. runs \in Seq(Entries)
  BY DEF BuildInv, BuilderTyped
<1>8. CASE Load /\ UNCHANGED results
  <2>1. PICK n : n = Looked
    OBVIOUS
  <2>2. /\ runs' = IF IsRun(results[n]) THEN Append(runs, results[n]) ELSE runs
        /\ site' = site /\ toLoad # {}
    BY <1>8, <2>1 DEF Load
  <2>3. n \in Names
    <3>1. toLoad \subseteq Nat /\ toLoad \subseteq Names
      BY SiteAssumption DEF BuildInv, BuilderTyped
    <3>2. \E m \in toLoad : \A k \in toLoad : m <= k
      BY <2>2, <3>1, LeastNatural
    <3> QED
      BY <2>1, <3>1, <3>2 DEF Looked
  <2>4. CASE IsRun(results[n])
    <3>1. runs' = Append(runs, results[n]) /\ results[n] # None
      BY <2>2, <2>4 DEF IsRun
    <3>2. \A i \in 1 .. Len(runs') : runs'[i] = results[n] \/ (i \in 1 .. Len(runs) /\ runs'[i] = runs[i])
      BY <1>7, <3>1
    <3> QED
      BY <1>3, <1>8, <2>2, <2>3, <3>1, <3>2
  <2>5. CASE ~IsRun(results[n])
    BY <1>4, <1>8, <2>2, <2>5
  <2> QED
    BY <2>4, <2>5
<1>9. CASE SortRuns /\ UNCHANGED results
  <2>1. PICK s : s = runs
    OBVIOUS
  <2>2. PICK t : t = ByStart(s)
    OBVIOUS
  <2>3. runs' = t /\ site' = site /\ Starting(s) /\ s \in Seq(Entries)
    BY <1>7, <1>9, <2>1, <2>2, EntriesStart DEF SortRuns, Starting
  <2>4. DOMAIN t = DOMAIN s /\ {t[k] : k \in DOMAIN s} = {s[i] : i \in DOMAIN s}
    <3>1. Starting(s) /\ t = ByStart(s)
      BY <2>2, <2>3
    <3> QED
      BY <3>1, SortingSorts, SMTT(30)
  <2>5. t \in Seq(Entries)
    BY <2>3 DEF BuildInv, BuilderTyped
  <2>6. \A i \in 1 .. Len(t) : \E j \in 1 .. Len(s) : t[i] = s[j]
    <3>1. DOMAIN t = 1 .. Len(t) /\ DOMAIN s = 1 .. Len(s)
      BY <2>3, <2>5
    <3>2. \A i \in DOMAIN s : \E j \in DOMAIN s : t[i] = s[j]
      BY <2>4
    <3> QED
      BY <2>4, <3>1, <3>2
  <2> QED
    BY <1>3, <1>9, <2>1, <2>3, <2>6
<1>10. CASE (OpenPage \/ WritePage) /\ UNCHANGED results
  <2>1. Len(runs) \in Nat /\ runs # << >>
    BY <1>7, <1>10 DEF OpenPage, WritePage, BuildInv, Building, Converting
  <2>2. Len(runs) # 0 /\ Head(runs) = runs[1] /\ 1 \in 1 .. Len(runs)
    BY <1>7, <2>1
  <2>3. \A i \in 1 .. Len(Tail(runs)) : i + 1 \in 1 .. Len(runs) /\ Tail(runs)[i] = runs[i + 1]
    BY <1>7, <2>1
  <2>4. \A i \in 1 .. Len(runs') : \E j \in 1 .. Len(runs) : runs'[i] = runs[j]
    BY <1>10, <2>3 DEF OpenPage, WritePage
  <2>5. site = [index |-> site.index, pages |-> site.pages]
    <3>1. PICK R, k : Rendering(R, k)
      BY <1>10 DEF OpenPage, WritePage, BuildInv, Building
    <3> QED
      BY <3>1 DEF Rendering
  <2>6. \A p \in site'.pages : p \in site.pages \/ p.started = Head(runs).started
    <3>1. CASE OpenPage
      BY <2>5, <3>1 DEF OpenPage
    <3>2. CASE WritePage
      BY <2>5, <3>2 DEF WritePage
    <3> QED
      BY <1>10, <3>1, <3>2
  <2>7. \A p \in site'.pages : p \in site.pages \/ \E j \in 1 .. Len(runs) : p.started = runs[j].started
    BY <2>2, <2>6
  <2> QED
    BY <1>3, <1>10, <2>4, <2>7
<1>11. CASE WriteIndex /\ UNCHANGED results
  <2>1. site = NoSite /\ runs' = runs
    BY <1>11 DEF WriteIndex, BuildInv, Building
  <2>2. site'.pages = site.pages
    BY <1>11, <2>1 DEF WriteIndex, NoSite
  <2> QED
    BY <1>3, <1>11, <2>1, <2>2
<1>12. CASE Clean /\ UNCHANGED results
  <2>1. site'.pages = {} /\ runs' = runs
    BY <1>12 DEF Clean, NoSite
  <2> QED
    BY <1>3, <1>12, <2>1
<1>13. CASE (LoadFails \/ PageIsThere \/ FinishBuild \/ KillBuild) /\ UNCHANGED results
  <2>1. runs' = << >> /\ site' = site
    BY <1>13 DEF LoadFails, PageIsThere, FinishBuild, KillBuild, EndBuild
  <2> QED
    BY <1>6, <1>13, <2>1
<1>14. CASE (StartBuild \/ Convert) /\ UNCHANGED results
  BY <1>4, <1>14 DEF StartBuild, Convert
<1>15. CASE RunNext /\ UNCHANGED <<results, builderVars, published>>
  BY <1>4, <1>15 DEF builderVars
<1>16. CASE UNCHANGED siteVars
  BY <1>4, <1>16 DEF siteVars, builderVars
<1> QED
  BY <1>5, <1>8, <1>9, <1>10, <1>11, <1>12, <1>13, <1>14, <1>15, <1>16 DEF SiteNext, Build

\* Every variable keeps to its type, and to the others (build-site.py): the directory of
\* the probe at work is there with a manifest that can be read, the loop of md_to_html
\* stays within its document and shows lines of it only, and no page tells of a run
\* nobody started.
THEOREM SiteTypeCorrect == SiteSpec => []SiteTypeOK
<1>1. DirInv /\ FoundInv /\ BuildInv /\ ProbeTyped /\ StartsKnown => SiteTypeOK
  <2> SUFFICES ASSUME DirInv, FoundInv, BuildInv, ProbeTyped, StartsKnown
               PROVE  SiteTypeOK
    OBVIOUS
  <2>1. /\ stage \in Stages \cup {"off"} /\ open \in BOOLEAN
        /\ stage \in Stages => job.dir \in DOMAIN dirs
    BY DEF FoundInv, ProbeTyped
  <2>2. stage \in Stages \ {"manifest"} => Whole(dirs[job.dir].manifest)
    BY <2>1 DEF DirInv, JobInOrder
  <2>3. \A p \in site.pages : p.started \in 0 .. Len(dirs)
    BY DEF StartsKnown
  <2> QED
    BY <2>1, <2>2, <2>3 DEF SiteTypeOK, ProbeTyped, BuildInv, BuilderTyped
<1> QED
  BY <1>1, DirInit, DirNext, FoundInit, FoundNext, BuildInit, BuildNext, TypesInit, TypedNext,
     StartsNext, PTL DEF SiteSpec

-----------------------------------------------------------------------------
(* The steps a build can take. That each of them is taken in the end is     *)
(* fairness, and stays with TLC (BuildEnds); what is proved is that there   *)
(* are only so many of them.                                                *)

\* What a build still has to do: the stages behind the one it is at, then what is left
\* of that one, then what is left of the page at hand.
Left ==
  << CASE building = "load"  -> 4
       [] building = "clean" -> 3
       [] building = "index" -> 2
       [] building = "off"   -> 0
       [] OTHER              -> 1,
     CASE building = "load"  -> Cardinality(toLoad)
       [] building = "pages" -> 2 * Len(runs) + 1
       [] building = "page"  -> 2 * Len(runs)
       [] OTHER              -> 0,
     IF building = "page" THEN Len(doc) + 1 - line ELSE 0 >>

\* Less is left, in the order of the three, which has no infinite descent.
Less(a, b) ==
  \/ a[1] < b[1]
  \/ a[1] = b[1] /\ a[2] < b[2]
  \/ a[1] = b[1] /\ a[2] = b[2] /\ a[3] < b[3]

\* Every step of a build leaves less to do, and nothing else leaves more.
ComesNearer ==
  building # "off" => /\ BuildStep => Less(Left', Left)
                      /\ Left' = Left \/ Less(Left', Left)

LEMMA LeftIs ==
  ASSUME BuildInv
  PROVE  /\ IsFiniteSet(toLoad) /\ Cardinality(toLoad) \in Nat
         /\ Len(runs) \in Nat /\ Len(doc) \in Nat /\ line \in 1 .. Len(doc) + 1
         /\ Left \in Nat \X Nat \X Nat
<1>1. IsFiniteSet(toLoad) /\ Cardinality(toLoad) \in Nat
  <2>1. toLoad \subseteq Names /\ IsFiniteSet(Names)
    BY SiteAssumption DEF BuildInv, BuilderTyped
  <2> QED
    BY <2>1, FS_Subset, FS_CardinalityType
<1>2. Len(runs) \in Nat /\ Len(doc) \in Nat /\ line \in 1 .. Len(doc) + 1
  BY DEF BuildInv, BuilderTyped
<1>3. Len(doc) + 1 - line \in Nat /\ 2 * Len(runs) \in Nat /\ 2 * Len(runs) + 1 \in Nat
  BY <1>2
<1> QED
  BY <1>1, <1>2, <1>3 DEF Left

\* The end of a build.
LEMMA EndIsLess ==
  ASSUME building \in {"load", "clean", "index", "pages", "page"}, building' = "off"
  PROVE  Less(Left', Left)
  BY DEF Left, Less

LEMMA LoadIsNearer ==
  ASSUME BuildInv, Load
  PROVE  Less(Left', Left)
<1>1. building = "load" /\ building' = "load" /\ toLoad # {} /\ toLoad' = toLoad \ {Looked}
  BY DEF Load
<1>2. Looked \in toLoad
  <2>1. toLoad \subseteq Nat
    BY SiteAssumption DEF BuildInv, BuilderTyped
  <2>2. \E m \in toLoad : \A k \in toLoad : m <= k
    BY <1>1, <2>1, LeastNatural
  <2> QED
    BY <2>2 DEF Looked
<1>3. IsFiniteSet(toLoad) /\ Cardinality(toLoad) \in Nat
  BY LeftIs
<1>4. Cardinality(toLoad') = Cardinality(toLoad) - 1
  BY <1>1, <1>2, <1>3, FS_RemoveElement
<1>5. /\ Left[1] = 4 /\ Left'[1] = 4
      /\ Left[2] = Cardinality(toLoad) /\ Left'[2] = Cardinality(toLoad')
  BY <1>1 DEF Left
<1> QED
  BY <1>3, <1>4, <1>5 DEF Less

\* md_to_html's loop: no round stays at the line it began at.
LEMMA ConvertIsNearer ==
  ASSUME BuildInv, Convert
  PROVE  Less(Left', Left)
<1>1. PICK b : b = BlockAt(doc, line)
  OBVIOUS
<1>2. /\ building = "page" /\ building' = "page" /\ line <= Len(doc) /\ line' = b.next
      /\ runs' = runs /\ doc' = doc
  BY <1>1 DEF Convert
<1>3. Len(runs) \in Nat /\ Len(doc) \in Nat /\ line \in 1 .. Len(doc) + 1
  BY LeftIs
<1>4. line \in DOMAIN doc /\ ~GoesOn(doc, line) /\ doc \in Seq(Kinds) /\ InSubset(doc)
  BY <1>2, <1>3 DEF BuildInv, BuilderTyped, Building, Converting
<1>5. b.next \in line + 1 .. Len(doc) + 1
  BY <1>1, <1>4, RoundShowsRun
<1>6. /\ Left[1] = 1 /\ Left'[1] = 1
      /\ Left[2] = 2 * Len(runs) /\ Left'[2] = 2 * Len(runs)
      /\ Left[3] = Len(doc) + 1 - line /\ Left'[3] = Len(doc) + 1 - b.next
  BY <1>2 DEF Left
<1> QED
  BY <1>3, <1>5, <1>6 DEF Less

LEMMA PagesAreNearer ==
  ASSUME BuildInv, OpenPage \/ WritePage
  PROVE  Less(Left', Left)
<1>1. Len(runs) \in Nat /\ runs \in Seq(Entries)
  BY DEF BuildInv, BuilderTyped
<1>2. CASE OpenPage
  <2>1. /\ Left[1] = 1 /\ Left'[1] = 1
        /\ Left[2] = 2 * Len(runs) + 1 /\ Left'[2] = 2 * Len(runs)
    BY <1>2 DEF OpenPage, Left
  <2> QED
    BY <1>1, <2>1 DEF Less
<1>3. CASE WritePage
  <2>1. building = "page" /\ building' = "pages" /\ runs' = Tail(runs) /\ runs # << >>
    BY <1>3 DEF WritePage, BuildInv, Building, Converting
  <2>2. Len(runs') = Len(runs) - 1
    BY <1>1, <2>1
  <2>3. /\ Left[1] = 1 /\ Left'[1] = 1
        /\ Left[2] = 2 * Len(runs) /\ Left'[2] = 2 * Len(runs') + 1
    BY <2>1 DEF Left
  <2> QED
    BY <1>1, <2>2, <2>3 DEF Less
<1> QED
  BY <1>2, <1>3

LEMMA BuildIsNearer ==
  ASSUME BuildInv, Build
  PROVE  Less(Left', Left)
<1>1. CASE SortRuns
  BY <1>1 DEF SortRuns, Left, Less
<1>2. CASE Clean
  BY <1>2 DEF Clean, Left, Less
<1>3. CASE WriteIndex
  BY <1>3 DEF WriteIndex, Left, Less
<1>4. CASE LoadFails \/ PageIsThere \/ FinishBuild
  BY <1>4, EndIsLess DEF LoadFails, PageIsThere, FinishBuild, EndBuild
<1> QED
  BY <1>1, <1>2, <1>3, <1>4, LoadIsNearer, ConvertIsNearer, PagesAreNearer DEF Build

LEMMA NothingLeavesMore ==
  ASSUME BuildInv, [SiteNext]_siteVars, building # "off"
  PROVE  Left' = Left \/ Less(Left', Left)
<1>1. CASE UNCHANGED builderVars
  BY <1>1 DEF builderVars, Left
<1>2. CASE KillBuild
  <2>1. building \in {"load", "clean", "index", "pages", "page"}
    BY DEF BuildInv, BuilderTyped
  <2> QED
    BY <1>2, <2>1, EndIsLess DEF KillBuild, EndBuild
<1>3. CASE Build
  BY <1>3, BuildIsNearer
<1>4. ~StartBuild /\ ~\E r \in DOMAIN dirs, n \in Names \ {Archived} : Publish(r, n)
  BY DEF StartBuild, Publish
<1> QED
  BY <1>1, <1>2, <1>3, <1>4 DEF SiteNext, siteVars

\* A build has only so many steps to take (build-site.py main): it looks at each directory
\* once and makes each page once, and no round of md_to_html's loop stays where it is, for
\* every report that report.py prints and every archived one of its kinds of lines.
THEOREM BuildIsBounded ==
  SiteSpec => [](Left \in Nat \X Nat \X Nat) /\ [][ComesNearer]_siteVars
<1>1. BuildInv => Left \in Nat \X Nat \X Nat
  BY LeftIs
<1>2. BuildInv /\ [SiteNext]_siteVars => [ComesNearer]_siteVars
  BY BuildIsNearer, NothingLeavesMore DEF ComesNearer, BuildStep
<1> QED
  BY <1>1, <1>2, DirInit, DirNext, BuildInit, BuildNext, PTL DEF SiteSpec
=============================================================================
