--------------------------------- MODULE Site ---------------------------------
(***************************************************************************)
(* scripts/build-site.py over published runs: copies of run directories    *)
(* are committed to results/, and each build renders what it finds there   *)
(* into a site that replaces the one before. report.md is converted by     *)
(* md_to_html, one round of its loop per step.                             *)
(***************************************************************************)
EXTENDS RunDirectories, Markdown

CONSTANTS
  Names,        (* the directories of results/, Archived among them        *)
  Archived,     (* a run of an older probe, published from the beginning   *)
  Documents,    (* what its report may be, as kinds of lines               *)
  MaxCopied,    (* bound: runs there may be when a copy or a build is made *)
  MaxWork       (* bound: copies made, builds, and kills of a build        *)

ASSUME SiteAssumption ==
  /\ Names \subseteq Nat /\ IsFiniteSet(Names) /\ Archived \in Names
  /\ \A d \in Documents : d \in Seq(Kinds) /\ InSubset(d)
  /\ MaxCopied \in Nat /\ MaxWork \in Nat

VARIABLES
  results,    (* per name a published run, or None                         *)
  building,   (* "off", "load", "clean", "index", "pages", "page"          *)
  toLoad,     (* the directories not looked at yet                         *)
  runs,       (* the runs loaded, then those without a page                *)
  doc,        (* md_to_html: the lines,                                    *)
  line,       (* the line it is at,                                        *)
  out,        (* the blocks so far                                         *)
  site,       (* the output directory: the index and the pages             *)
  good,       (* history: the runs of the last build that finished, None   *)
              (* once one that did not has touched the output              *)
  published,  (* the copies so far                                         *)
  builds      (* the builds and kills so far                               *)

builderVars == <<building, toLoad, runs, doc, line, out, site, good, builds>>
siteVars    == <<runVars, results, builderVars, published>>

NoSite == [index |-> None, pages |-> {}]

-----------------------------------------------------------------------------
\* The lines report.py prints, as kinds.
Paragraph == << "text", "blank" >>

BoundsTable(n) ==
  IF n = 0 THEN Paragraph ELSE << "row", "divider", "row", "row", "row", "blank" >>

TickTable(n) ==
  IF n = 0 THEN Paragraph
  ELSE << "row", "divider" >> \o [i \in 1 .. n |-> "row"] \o << "blank" >>

Under(section(_), ticks) ==
  << "heading", "blank" >> \o section(ticks["5h"]) \o
  << "heading", "blank" >> \o section(ticks["7d"])

ReportHead(dry) ==
  << "heading", "blank" >>
  \o (IF dry THEN << "quote", "blank" >> ELSE << >>)
  \o [i \in 1 .. 9 |-> "item"] \o << "blank" >>

BaselineSection ==
  << "heading", "blank", "row", "divider", "row", "row", "row", "blank" >>

EstimatesSection ==
  << "heading", "blank" >> \o Paragraph \o << "item", "item", "item", "blank" >>
  \o Paragraph \o << "item", "item", "blank" >> \o Paragraph
  \o << "heading", "blank", "row", "divider" >> \o [i \in 1 .. 6 |-> "row"] \o << "blank" >>

AuditSection ==
  << "heading", "blank" >> \o [i \in 1 .. 13 |-> "item"] \o << "blank" >> \o Paragraph

ReportLines(report) ==
  ReportHead(report.dry) \o BaselineSection \o EstimatesSection
  \o << "heading", "blank" >> \o Paragraph \o Under(BoundsTable, report.ticks)
  \o << "heading", "blank" >> \o Under(BoundsTable, report.ticks)
  \o << "heading", "blank" >> \o Paragraph \o Under(TickTable, report.ticks)
  \o AuditSection

\* A report that was truncated and not filled is an empty document.
LinesOf(report) ==
  CASE report = Torn -> << "blank" >>
    [] report # Torn /\ "lines" \in DOMAIN report -> report.lines
    [] OTHER -> ReportLines(report)

-----------------------------------------------------------------------------
SiteInit ==
  /\ RunsInit
  /\ \E d \in Documents :
       results = [n \in Names |->
                    IF n = Archived
                    THEN [started |-> 0, bounds |-> NoTicks, report |-> [lines |-> d],
                          manifest |-> [window |-> "5h", dry |-> FALSE]]
                    ELSE None]
  /\ building = "off" /\ toLoad = {} /\ runs = << >>
  /\ doc = << >> /\ line = 1 /\ out = {}
  /\ site = NoSite
  /\ good = None
  /\ published = 0 /\ builds = 0

\* What a build reads was copied before it began, and a kill leaves in a directory what
\* a copy made meanwhile holds: so the probes may come first.
ProbesAreOver == stage = "off" /\ left = 0 /\ Len(dirs) <= MaxCopied

\* A run directory is copied and committed as it is, under a name that need not be its
\* own; a build works on a checkout.
Publish(r, n) ==
  /\ ProbesAreOver
  /\ building = "off" /\ published + builds < MaxWork
  /\ results' = [results EXCEPT ![n] =
                   [started |-> r, manifest |-> dirs[r].manifest,
                    bounds |-> dirs[r].bounds, report |-> dirs[r].report]]
  /\ published' = published + 1
  /\ UNCHANGED <<runVars, builderVars>>

\* Mutant of StartBuild: the output is removed before anything is read.
StartBuildCleaning ==
  /\ ProbesAreOver
  /\ building = "off" /\ published + builds < MaxWork
  /\ building' = "load"
  /\ toLoad' = Names
  /\ site' = NoSite
  /\ builds' = builds + 1
  /\ UNCHANGED <<runs, doc, line, out, good>>

StartBuild ==
  /\ ProbesAreOver
  /\ building = "off" /\ published + builds < MaxWork
  /\ building' = "load"
  /\ toLoad' = Names
  /\ builds' = builds + 1
  /\ UNCHANGED <<runs, doc, line, out, site, good>>

\* The end of a build, whose variables are gone.
EndBuild ==
  /\ building' = "off"
  /\ toLoad' = {} /\ runs' = << >> /\ doc' = << >> /\ line' = 1 /\ out' = {}

\* load_run raises without the three files, or for one that is no JSON.
Loadable(entry) == Whole(entry.bounds) /\ Whole(entry.manifest) /\ entry.report # None

\* A directory without a manifest is no run.
IsRun(entry) == entry # None /\ entry.manifest # None

\* The directories are looked at in the order of their names.
Looked == CHOOSE m \in toLoad : \A k \in toLoad : m <= k

Load ==
  /\ building = "load" /\ toLoad # {}
  /\ IsRun(results[Looked]) => Loadable(results[Looked])
  /\ runs' = IF IsRun(results[Looked]) THEN Append(runs, results[Looked]) ELSE runs
  /\ toLoad' = toLoad \ {Looked}
  /\ UNCHANGED <<building, doc, line, out, site, good, builds>>

LoadFails ==
  /\ building = "load" /\ toLoad # {}
  /\ IsRun(results[Looked]) /\ ~Loadable(results[Looked])
  /\ EndBuild
  /\ UNCHANGED <<site, good, builds>>

\* list.sort is stable: a run comes behind those that started earlier and those that
\* started with it and came before it.
Rank(s, i) ==
  Cardinality({j \in DOMAIN s :
                 s[j].started < s[i].started \/ (s[j].started = s[i].started /\ j <= i)})

ByStart(s) == [k \in DOMAIN s |-> s[CHOOSE i \in DOMAIN s : Rank(s, i) = k]]

SortRuns ==
  /\ building = "load" /\ toLoad = {} /\ runs # << >>
  /\ runs' = ByStart(runs)
  /\ building' = "clean"
  /\ UNCHANGED <<toLoad, doc, line, out, site, good, builds>>

\* The output directory is removed and made again, with the stylesheet.
Clean ==
  /\ building = "clean"
  /\ site' = NoSite
  /\ building' = "index"
  /\ UNCHANGED <<toLoad, runs, doc, line, out, good, builds>>

\* build_index: a line per run.
WriteIndex ==
  /\ building = "index"
  /\ site' = [site EXCEPT !.index =
                [i \in DOMAIN runs |-> [started |-> runs[i].started, ticks |-> runs[i].bounds]]]
  /\ building' = "pages"
  /\ UNCHANGED <<toLoad, runs, doc, line, out, good, builds>>

\* The directory of a page is made ...
OpenPage ==
  /\ building = "pages" /\ runs # << >>
  /\ \A p \in site.pages : p.started # Head(runs).started
  /\ site' = [site EXCEPT !.pages =
                @ \cup {[started |-> Head(runs).started, ticks |-> None, html |-> {}]}]
  /\ doc' = LinesOf(Head(runs).report)
  /\ line' = 1 /\ out' = {}
  /\ building' = "page"
  /\ UNCHANGED <<toLoad, runs, good, builds>>

\* ... and must not be there, as it is when a run was published under two names.
PageIsThere ==
  /\ building = "pages" /\ runs # << >>
  /\ \E p \in site.pages : p.started = Head(runs).started
  /\ EndBuild
  /\ good' = None
  /\ UNCHANGED <<site, builds>>

\* One round of md_to_html.
Convert ==
  LET b == BlockAt(doc, line)
      shown == Shows(doc, b)
  IN /\ building = "page" /\ line <= Len(doc)
     /\ line' = b.next
     /\ out' = IF shown = {} THEN out ELSE out \cup {[kind |-> b.kind, lines |-> shown]}
     /\ UNCHANGED <<building, toLoad, runs, doc, site, good, builds>>

WritePage ==
  /\ building = "page" /\ line > Len(doc)
  /\ site' = [site EXCEPT !.pages =
                {p \in @ : p.started # Head(runs).started}
                \cup {[started |-> Head(runs).started, ticks |-> Head(runs).bounds, html |-> out]}]
  /\ runs' = Tail(runs)
  /\ building' = "pages"
  /\ UNCHANGED <<toLoad, doc, line, out, good, builds>>

FinishBuild ==
  /\ building = "pages" /\ runs = << >>
  /\ EndBuild
  /\ good' = {results[n] : n \in {m \in Names : IsRun(results[m])}}
  /\ UNCHANGED <<site, builds>>

KillBuild ==
  /\ building # "off" /\ published + builds < MaxWork
  /\ EndBuild
  /\ good' = IF building \in {"load", "clean"} THEN good ELSE None
  /\ builds' = builds + 1
  /\ UNCHANGED site

Build ==
  \/ Load \/ LoadFails \/ SortRuns \/ Clean \/ WriteIndex
  \/ OpenPage \/ PageIsThere \/ Convert \/ WritePage \/ FinishBuild

SiteNext ==
  \/ RunNext /\ UNCHANGED <<results, builderVars, published>>
  \/ \E r \in DOMAIN dirs, n \in Names \ {Archived} : Publish(r, n)
  \/ (StartBuild \/ Build \/ KillBuild) /\ UNCHANGED <<runVars, results, published>>

BuildStep == Build /\ UNCHANGED <<runVars, results, published>>

SiteSpec == SiteInit /\ [][SiteNext]_siteVars /\ WF_siteVars(BuildStep)

-----------------------------------------------------------------------------
SiteTypeOK ==
  /\ stage \in Stages \cup {"off"} /\ open \in BOOLEAN
  /\ stage \in Stages => job.dir \in DOMAIN dirs
  /\ stage \in Stages \ {"manifest"} => Whole(dirs[job.dir].manifest)
  /\ left \in Nat /\ deaths \in Nat
  /\ DOMAIN results = Names
  /\ building \in {"off", "load", "clean", "index", "pages", "page"}
  /\ toLoad \subseteq Names
  /\ doc \in Seq(Kinds) /\ line \in 1 .. Len(doc) + 1
  /\ \A b \in out : b.lines \subseteq DOMAIN doc
  /\ \A p \in site.pages : p.started \in 0 .. Len(dirs)
  /\ published \in Nat /\ builds \in Nat

\* What a set of runs looks like: a line each in the index, by their start, and a page
\* each with its cards and its report.
Rendered(entries) ==
  [index |-> [i \in 1 .. Cardinality(entries) |->
                LET nth == CHOOSE e \in entries :
                             Cardinality({f \in entries : f.started <= e.started}) = i
                IN [started |-> nth.started, ticks |-> nth.bounds]],
   pages |-> {[started |-> e.started, ticks |-> e.bounds,
               html |-> ExpectedHtml(LinesOf(e.report))] : e \in entries}]

\* The site is that of the last build that finished, block for block, also after builds
\* that found something unreadable: they fail before they remove anything. Only a build
\* that is killed or meets two copies of a run leaves something else.
SiteShowsLastBuild == building = "off" /\ good # None => site = Rendered(good)

\* Every build ends: md_to_html comes to the end of each report.
BuildEnds == (building # "off") ~> (building = "off")
=============================================================================
