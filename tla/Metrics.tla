------------------------------ MODULE Metrics -------------------------------
(***************************************************************************)
(* Metrics (metrics.go): concurrent calls of Record, the gauges each one   *)
(* updates under its gaugeSet's costMu, and the estimates file that all    *)
(* gaugeSets share, across process restarts.                               *)
(*                                                                         *)
(* A recorder is a goroutine inside Record; it runs one event after        *)
(* another. Record takes costMu twice, once to add the cost and once to    *)
(* move the estimators and persist them, and other recorders run between   *)
(* the two. The estimates file is read, opened with O_TRUNC and written in *)
(* three steps, under the lock of one key alone.                           *)
(***************************************************************************)
EXTENDS CapacityEstimate

CONSTANTS
  Recorders,     (* goroutines that may be inside Record                    *)
  Keys,          (* org/upstream pairs                                      *)
  Events,        (* the events Record may be called with                    *)
  InitialFiles,  (* contents the first process may find on disk             *)
  NoUtil,        (* an utilization header that is absent                    *)
  NoUsage,       (* event.Usage = nil                                       *)
  Unpriced,      (* event.Usage present, its model not in the pricing table *)
  NoEvent,       (* the event of a recorder that is not in Record           *)
  Unlocked,      (* a free costMu                                           *)
  MaxRecords,    (* bound: calls of Record                                  *)
  MaxRestarts,   (* bound: crashes                                          *)
  MaxFaults      (* bound: failed os.WriteFile calls                        *)

Entries  == [Keys -> [Windows -> Estimators]]
NoEntries == [k \in Keys |-> [w \in Windows |-> NoEstimator]]

\* quota_estimates.json: missing, of an older schema, not parseable (truncated
\* or overwritten in part), or current. A key without an entry reads as zero.
Files == [kind : {"absent", "old", "torn", "ok"}, entries : Entries]
TornFile     == [kind |-> "torn", entries |-> NoEntries]
Saved(image) == [kind |-> "ok", entries |-> image]

ASSUME EventsAssumption ==
  Events \subseteq [key : Keys, cost : Nat \cup {NoUsage, Unpriced},
                    util : [Windows -> Nat \cup {NoUtil}]]
ASSUME MarkersAssumption ==
  /\ {NoUsage, Unpriced, NoUtil} \cap Nat = {}
  /\ NoUsage # Unpriced
  /\ Unlocked \notin Recorders
  /\ NoEvent \notin Events
ASSUME FilesAssumption ==
  InitialFiles \subseteq {f \in Files : f.kind \in {"absent", "old"}}
ASSUME BoundsAssumption ==
  MaxRecords \in Nat /\ MaxRestarts \in Nat /\ MaxFaults \in Nat

VARIABLES
  requests,  (* ccnb_requests_total by key                                  *)
  noModel,   (* requests counted in the unknown-model token counters        *)
  gauge,     (* the utilization gauges, atomics outside costMu              *)
  costMu,    (* the recorder holding a key's costMu, or Unlocked            *)
  cost,      (* cumulativeCost by key                                       *)
  snap,      (* fiveHourSnap and sevenDaySnap by key                        *)
  est,       (* fiveHourEst and sevenDayEst by key                          *)
  file,      (* quota_estimates.json                                        *)
  pc,        (* the step of Record each recorder is at                      *)
  event,     (* Record's argument                                           *)
  image,     (* pe.Estimates, the map persistEstimates is about to write    *)
  spent,     (* history: priced cost recorded by key, over all processes    *)
  started,   (* history: calls of Record so far                             *)
  restarts,  (* history: crashes so far                                     *)
  faults,    (* history: failed writes so far                               *)
  rewrites   (* history: "apart" as long as, in this process, no write has  *)
             (* failed and none began inside another one, else "mixed"      *)

shared == <<requests, noModel, gauge, costMu, cost, snap, est>>
local  == <<pc, event, image>>
history == <<spent, started, restarts, faults, rewrites>>
vars == <<shared, file, local, history>>

Steps == {"idle", "cost", "gauges", "estimate", "read", "open", "write"}
Persisting == {"read", "open", "write"}

TypeOK ==
  /\ requests \in [Keys -> Nat]
  /\ noModel \in Nat
  /\ gauge \in [Keys -> [Windows -> Nat]]
  /\ costMu \in [Keys -> Recorders \cup {Unlocked}]
  /\ cost \in [Keys -> Nat]
  /\ snap \in [Keys -> [Windows -> Snapshots]]
  /\ est \in Entries
  /\ file \in Files
  /\ pc \in [Recorders -> Steps]
  /\ event \in [Recorders -> Events \cup {NoEvent}]
  /\ \A r \in Recorders : pc[r] # "idle" => event[r] \in Events
  /\ image \in [Recorders -> Entries]
  /\ spent \in [Keys -> Nat]
  /\ started \in Nat /\ restarts \in Nat /\ faults \in Nat
  /\ rewrites \in {"apart", "mixed"}

-----------------------------------------------------------------------------
\* loadEstimates: only a file that parses and has the current schema counts.
Loaded(f) == IF f.kind = "ok" THEN f.entries ELSE NoEntries

\* Everything NewMetrics starts from, given the file on disk.
FreshProcess(f) ==
  /\ requests = [k \in Keys |-> 0]
  /\ noModel = 0
  /\ gauge = [k \in Keys |-> [w \in Windows |-> 0]]
  /\ costMu = [k \in Keys |-> Unlocked]
  /\ cost = [k \in Keys |-> 0]
  /\ snap = [k \in Keys |-> [w \in Windows |-> NoSnapshot]]
  /\ est = Loaded(f)
  /\ pc = [r \in Recorders |-> "idle"]
  /\ event = [r \in Recorders |-> NoEvent]
  /\ image = [r \in Recorders |-> NoEntries]

Init ==
  /\ file \in InitialFiles
  /\ FreshProcess(file)
  /\ spent = [k \in Keys |-> 0]
  /\ started = 0 /\ restarts = 0 /\ faults = 0
  /\ rewrites = "apart"

-----------------------------------------------------------------------------
(* Record, one action for each stretch that no other recorder can split.   *)

Key(r) == event[r].key
Goto(r, step) == pc' = [pc EXCEPT ![r] = step]

\* Leaving Record drops its locals.
Return(r) ==
  /\ pc' = [pc EXCEPT ![r] = "idle"]
  /\ event' = [event EXCEPT ![r] = NoEvent]
  /\ image' = [image EXCEPT ![r] = NoEntries]

\* Mutant of Acquirable: the lock is not waited for.
LockIgnored(k) == TRUE

Acquirable(k) == costMu[k] = Unlocked

\* Record is called: the series' counters are found or created and bumped.
Begin(r, e) ==
  /\ pc[r] = "idle"
  /\ started < MaxRecords
  /\ started' = started + 1
  /\ event' = [event EXCEPT ![r] = e]
  /\ requests' = [requests EXCEPT ![e.key] = @ + 1]
  /\ Goto(r, "cost")
  /\ UNCHANGED <<noModel, gauge, costMu, cost, snap, est, file, image,
                 spent, restarts, faults, rewrites>>

\* A priced event adds its cost under costMu; an unpriced one is counted
\* without the lock; an event without usage does neither.
AddCost(r) ==
  /\ pc[r] = "cost"
  /\ LET k == Key(r)
         c == event[r].cost
     IN \/ /\ c \in Nat
           /\ Acquirable(k)
           /\ cost' = [cost EXCEPT ![k] = @ + c]
           /\ spent' = [spent EXCEPT ![k] = @ + c]
           /\ UNCHANGED noModel
        \/ /\ c = Unpriced
           /\ noModel' = noModel + 1
           /\ UNCHANGED <<cost, spent>>
        \/ /\ c = NoUsage
           /\ UNCHANGED <<noModel, cost, spent>>
  /\ Goto(r, "gauges")
  /\ UNCHANGED <<requests, gauge, costMu, snap, est, file, event, image,
                 started, restarts, faults, rewrites>>

\* The utilization gauges take the headers' values, without the lock. A
\* response without a quota header ends here; one with other headers than these
\* goes on.
StoreGauges(r) ==
  /\ pc[r] = "gauges"
  /\ gauge' = [gauge EXCEPT ![Key(r)] =
                 [w \in Windows |-> IF event[r].util[w] = NoUtil
                                    THEN @[w] ELSE event[r].util[w]]]
  /\ \/ /\ Goto(r, "estimate")
        /\ UNCHANGED <<event, image>>
     \/ /\ \A w \in Windows : event[r].util[w] = NoUtil
        /\ Return(r)
  /\ UNCHANGED <<requests, noModel, costMu, cost, snap, est, file, history>>

\* What the second critical section computes for one window of the event.
Estimated(r, w) ==
  LET k == Key(r)
      u == event[r].util[w]
  IN IF u = NoUtil THEN Unchanged(snap[k][w], est[k][w])
     ELSE UpdateCapacityEstimate(snap[k][w], est[k][w], u, cost[k])

\* Under costMu both windows move; the lock is kept while the file is written.
UpdateEstimates(r) ==
  /\ pc[r] = "estimate"
  /\ LET k == Key(r)
         changed == \E w \in Windows : Estimated(r, w).changed
     IN /\ Acquirable(k)
        /\ snap' = [snap EXCEPT ![k] = [w \in Windows |-> Estimated(r, w).snap]]
        /\ est' = [est EXCEPT ![k] = [w \in Windows |-> Estimated(r, w).est]]
        /\ \/ /\ changed
              /\ costMu' = [costMu EXCEPT ![k] = r]
              /\ Goto(r, "read")
              /\ UNCHANGED <<event, image>>
           \/ /\ ~changed
              /\ Return(r)
              /\ UNCHANGED costMu
  /\ UNCHANGED <<requests, noModel, gauge, cost, file, history>>

-----------------------------------------------------------------------------
(* persistEstimates: the holder of one key's costMu rewrites the file.     *)

\* Mutant of ReadBack: the file is rewritten with this key's entry alone.
OthersDropped == NoEntries

\* What is read back: the entries of a current file, else an empty map.
ReadBack == Loaded(file)

\* os.ReadFile, then this key's entry is set in the map.
ReadEstimates(r) ==
  /\ pc[r] = "read"
  /\ image' = [image EXCEPT ![r] = [ReadBack EXCEPT ![Key(r)] = est[Key(r)]]]
  /\ Goto(r, "open")
  /\ rewrites' = IF \E s \in Recorders \ {r} : pc[s] \in {"open", "write"}
                 THEN "mixed" ELSE rewrites
  /\ UNCHANGED <<shared, file, event, spent, started, restarts, faults>>

\* os.WriteFile opens the file with O_TRUNC.
OpenTruncated(r) ==
  /\ pc[r] = "open"
  /\ file' = TornFile
  /\ Goto(r, "write")
  /\ UNCHANGED <<shared, event, image, history>>

Release(r) == costMu' = [costMu EXCEPT ![Key(r)] = Unlocked]

\* The bytes go to offset 0. If another recorder wrote the file since it was
\* truncated here and its text was longer, the tail of that text remains.
WriteEstimates(r) ==
  /\ pc[r] = "write"
  /\ \/ file' = Saved(image[r])
     \/ file.kind = "ok" /\ file.entries # image[r] /\ file' = TornFile
  /\ Release(r)
  /\ Return(r)
  /\ UNCHANGED <<requests, noModel, gauge, cost, snap, est, history>>

\* os.WriteFile fails, opening (the file is as it was) or writing (what was
\* there may be cut short): a warning is logged and Record returns.
WriteFails(r) ==
  /\ pc[r] \in {"open", "write"}
  /\ faults < MaxFaults
  /\ faults' = faults + 1
  /\ rewrites' = "mixed"
  /\ \/ UNCHANGED file
     \/ pc[r] = "write" /\ file.kind = "ok" /\ file' = TornFile
  /\ Release(r)
  /\ Return(r)
  /\ UNCHANGED <<requests, noModel, gauge, cost, snap, est,
                 spent, started, restarts>>

-----------------------------------------------------------------------------
\* The process dies at any point and the next one loads what is on disk.
Restart ==
  /\ restarts < MaxRestarts
  /\ restarts' = restarts + 1
  /\ rewrites' = "apart"
  /\ requests' = [k \in Keys |-> 0]
  /\ noModel' = 0
  /\ gauge' = [k \in Keys |-> [w \in Windows |-> 0]]
  /\ costMu' = [k \in Keys |-> Unlocked]
  /\ cost' = [k \in Keys |-> 0]
  /\ snap' = [k \in Keys |-> [w \in Windows |-> NoSnapshot]]
  /\ est' = Loaded(file)
  /\ pc' = [r \in Recorders |-> "idle"]
  /\ event' = [r \in Recorders |-> NoEvent]
  /\ image' = [r \in Recorders |-> NoEntries]
  /\ UNCHANGED <<file, spent, started, faults>>

Quiet == \A r \in Recorders : pc[r] = "idle"

\* The bound on calls is reached and every recorder has returned.
Finished ==
  /\ started = MaxRecords
  /\ Quiet
  /\ UNCHANGED vars

Step(r) ==
  \/ AddCost(r)
  \/ StoreGauges(r)
  \/ UpdateEstimates(r)
  \/ ReadEstimates(r)
  \/ OpenTruncated(r)
  \/ WriteEstimates(r)
  \/ WriteFails(r)

Next ==
  \/ \E r \in Recorders, e \in Events : Begin(r, e)
  \/ \E r \in Recorders : Step(r)
  \/ Restart
  \/ Finished

Spec == Init /\ [][Next]_vars

-----------------------------------------------------------------------------
\* No dollar enters a window's running estimate twice: whatever the recorders'
\* interleaving, rollovers, crashes and reloads, neither the estimate in memory
\* nor the one on disk has accumulated more cost than was ever recorded for its
\* key (metrics.go:277 adds a delta that nothing else may add again).
EveryDollarOnce ==
  \A k \in Keys, w \in Windows :
    /\ est[k][w].cost <= spent[k]
    /\ file.kind = "ok" => file.entries[k][w].cost <= spent[k]

\* A current file never holds more than memory does for any key: an entry another
\* key's recorder read long ago may be written back late, but it is only ever an
\* earlier estimate, so a reload can lose measurements and never invent them.
DiskNeverAhead ==
  file.kind = "ok" =>
    \A k \in Keys, w \in Windows :
      /\ file.entries[k][w].cost <= est[k][w].cost
      /\ file.entries[k][w].util <= est[k][w].util

\* Between calls of Record the file holds every key's estimates, those of the keys
\* that were not persisted last included (metrics.go:356-357), also after a crash in
\* the middle of a write; failed writes and rewrites that mix are excepted.
DiskMatchesMemory ==
  Quiet /\ rewrites = "apart" => est = Loaded(file)

\* The same for rewrites that mix (metrics.go:356-357 "We preserve other org/upstream
\* entries from the existing file"): without a failed write or a crash, the file
\* holds every key's estimates whenever no recorder is at work.
OthersPreserved ==
  Quiet /\ faults = 0 /\ restarts = 0 => est = Loaded(file)

\* What a recorder is about to write for its own key is that key's estimates as
\* they are in memory: costMu stays locked from the update to the end of the
\* write (metrics.go:356 "Called with gs.costMu held by the caller"), so no other
\* recorder moves them meanwhile.
OwnEntryCurrent ==
  \A r \in Recorders :
    pc[r] \in {"open", "write"} => image[r][Key(r)] = est[Key(r)]
=============================================================================
