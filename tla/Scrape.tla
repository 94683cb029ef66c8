------------------------------- MODULE Scrape -------------------------------
(***************************************************************************)
(* Metrics.ServeHTTP running beside Record: one scrape reads a key's       *)
(* counters, its utilization gauges and its cost at three different        *)
(* moments, holding the read lock of the maps and waiting for the key's    *)
(* costMu, which a recorder may keep while it writes the estimates file.   *)
(* Calls of Record are numbered, so that what a scrape shows can be        *)
(* compared with the calls it stems from. One process, from its start on.  *)
(***************************************************************************)
EXTENDS Metrics

CONSTANTS
  Nobody,     (* the key of a scrape that is not running              *)
  Followed,   (* the calls of Record that are followed to the scrapes *)
  MaxScrapes  (* bound: scrapes                                       *)

ASSUME ScrapeAssumption ==
  /\ Nobody \notin Keys
  /\ Followed \subseteq Nat \ {0}
  /\ MaxScrapes \in Nat

VARIABLES
  series,   (* keys that Record has been called for                          *)
  scraping, (* the key being scraped, and Metrics.mu read-locked, or Nobody *)
  stage,    (* what the scrape reads next                                   *)
  shown,    (* the calls whose effects the scrape's text shows              *)
  call,     (* history: number of the call each recorder is in, or was in   *)
  paid,     (* history: calls whose cost has been settled, by key           *)
  source,   (* history: the call each gauge value is from                 *)
  scrapes   (* history: scrapes so far                                      *)

view == <<series, scraping, stage, shown, call, paid, source, scrapes>>
scrapeVars == <<vars, view>>

\* A call that is not followed has number 0.
Number(n) == IF n \in Followed THEN n ELSE 0
NothingShown == [source |-> [w \in Windows |-> 0], paid |-> {}]

ScrapeTypeOK ==
  /\ TypeOK
  /\ series \subseteq Keys
  /\ scraping \in Keys \cup {Nobody}
  /\ stage \in {"closed", "gauges", "cost", "done"}
  /\ shown \in [source : [Windows -> Followed \cup {0}], paid : SUBSET Followed]
  /\ call \in [Recorders -> Followed \cup {0}]
  /\ paid \in [Keys -> SUBSET Followed]
  /\ source \in [Keys -> [Windows -> Followed \cup {0}]]
  /\ scrapes \in 0 .. MaxScrapes

ScrapeInit ==
  /\ Init
  /\ series = {}
  /\ scraping = Nobody
  /\ stage = "closed"
  /\ shown = NothingShown
  /\ call = [r \in Recorders |-> 0]
  /\ paid = [k \in Keys |-> {}]
  /\ source = [k \in Keys |-> [w \in Windows |-> 0]]
  /\ scrapes = 0

-----------------------------------------------------------------------------
(* Record, with the lock of the maps.                                      *)

\* getCounters and getGauges look a series up under the read lock and take the
\* write lock, for which a running scrape must end, only to add a new one.
EnterRecord(r, e) ==
  /\ e.key \in series \/ scraping = Nobody
  /\ Begin(r, e)
  /\ series' = series \cup {e.key}
  /\ call' = [call EXCEPT ![r] = Number(started')]
  /\ UNCHANGED <<scraping, stage, shown, paid, source, scrapes>>

SettleCost(r) ==
  /\ AddCost(r)
  /\ paid' = [paid EXCEPT ![Key(r)] = @ \cup ({call[r]} \cap Followed)]
  /\ UNCHANGED <<series, scraping, stage, shown, call, source, scrapes>>

ShowUtilization(r) ==
  /\ StoreGauges(r)
  /\ source' = [source EXCEPT ![Key(r)] =
                  [w \in Windows |-> IF event[r].util[w] = NoUtil
                                     THEN @[w] ELSE call[r]]]
  /\ UNCHANGED <<series, scraping, stage, shown, call, paid, scrapes>>

\* Mutant of Estimate: the file is rewritten under the lock of the maps as well.
EstimateLockingMaps(r) ==
  /\ \/ UpdateEstimates(r)
     \/ ReadEstimates(r) /\ scraping = Nobody
     \/ OpenTruncated(r)
     \/ WriteEstimates(r)
     \/ WriteFails(r)
  /\ UNCHANGED view

Estimate(r) ==
  /\ \/ UpdateEstimates(r)
     \/ ReadEstimates(r)
     \/ OpenTruncated(r)
     \/ WriteEstimates(r)
     \/ WriteFails(r)
  /\ UNCHANGED view

-----------------------------------------------------------------------------
(* ServeHTTP, as far as one key is concerned.                              *)

\* Mutant of Families: the cost is shown before the utilization.
CostFirst == <<"cost", "gauges", "done">>

\* The metric families in the order they are written.
Families == <<"gauges", "cost", "done">>
After(family) ==
  CHOOSE next \in {Families[i] : i \in 2 .. 3} :
    \E i \in 1 .. 2 : Families[i] = family /\ Families[i + 1] = next

\* The maps are read-locked; the request and token counters, which no property
\* here relates to the rest, come first.
OpenScrape(k) ==
  /\ scraping = Nobody
  /\ scrapes < MaxScrapes
  /\ scraping' = k
  /\ scrapes' = scrapes + 1
  /\ stage' = Families[1]
  /\ UNCHANGED <<vars, series, shown, call, paid, source>>

ReadGauges ==
  /\ scraping # Nobody /\ stage = "gauges"
  /\ shown' = [shown EXCEPT !.source = source[scraping]]
  /\ stage' = After("gauges")
  /\ UNCHANGED <<vars, series, scraping, call, paid, source, scrapes>>

\* ccnb_cost_total is read under the key's costMu.
ReadCost ==
  /\ scraping # Nobody /\ stage = "cost"
  /\ Acquirable(scraping)
  /\ shown' = [shown EXCEPT !.paid = paid[scraping]]
  /\ stage' = After("cost")
  /\ UNCHANGED <<vars, series, scraping, call, paid, source, scrapes>>

\* The capacities are read under costMu too; then the maps are unlocked.
EndScrape ==
  /\ scraping # Nobody /\ stage = "done"
  /\ Acquirable(scraping)
  /\ scraping' = Nobody
  /\ stage' = "closed"
  /\ shown' = NothingShown
  /\ UNCHANGED <<vars, series, call, paid, source, scrapes>>

ScrapeStep == ReadGauges \/ ReadCost \/ EndScrape

ScrapeFinished == Finished /\ scraping = Nobody /\ UNCHANGED view

RecordStep(r) ==
  SettleCost(r) \/ ShowUtilization(r) \/ Estimate(r)

ScrapeNext ==
  \/ \E r \in Recorders, e \in Events : EnterRecord(r, e)
  \/ \E r \in Recorders : RecordStep(r)
  \/ \E k \in series : OpenScrape(k)
  \/ ScrapeStep
  \/ ScrapeFinished

ScrapeSpec == ScrapeInit /\ [][ScrapeNext]_scrapeVars

\* Goroutines keep running, and both locks wake their waiters in turn.
FairScrapeSpec ==
  /\ ScrapeSpec
  /\ \A r \in Recorders : SF_scrapeVars(RecordStep(r))
  /\ SF_scrapeVars(ScrapeStep)

-----------------------------------------------------------------------------
\* A scrape that shows a call's utilization shows its cost as well: Record adds
\* the cost before it stores the gauges (metrics.go:169-197), ServeHTTP reads
\* the gauges before the cost (metrics.go:465-502), and both orders are needed.
CostCoversUtilization ==
  stage = "done" =>
    \A w \in Windows : shown.source[w] # 0 => shown.source[w] \in shown.paid

\* Scrapes and calls of Record end, although a scrape keeps the maps locked while it
\* waits for a costMu that a recorder holds across the rewrite of the estimates file
\* (metrics.go:494-502, 209-213): no recorder that has found its series may need the
\* maps meanwhile, whether or not the file can be written.
LocksAreGivenBack ==
  /\ scraping # Nobody ~> scraping = Nobody
  /\ \A r \in Recorders : pc[r] # "idle" ~> pc[r] = "idle"
=============================================================================
