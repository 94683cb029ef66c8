---------------------------- MODULE MetricsProofs ---------------------------
(***************************************************************************)
(* What Metrics guarantees for every set of recorders and keys, every set  *)
(* of events and every number of calls, crashes and failed writes; and     *)
(* what a scrape that runs beside it shows.                                *)
(***************************************************************************)
EXTENDS Scrape, TLAPS

\* The estimate in memory and the cost not yet attributed to a tick are backed by
\* recorded cost, and the anchor never lies ahead of the cost.
Backed ==
  \A k \in Keys, w \in Windows :
    /\ snap[k][w].cost <= cost[k]
    /\ est[k][w].cost + (cost[k] - snap[k][w].cost) <= spent[k]

\* One estimator is an earlier value of another.
Earlier(e, f) == e.cost <= f.cost /\ e.util <= f.util
AllEarlier(f, g) == \A k \in Keys, w \in Windows : Earlier(f[k][w], g[k][w])

\* What is on disk, or on its way there, is an earlier value of what is in memory.
DiskBehind == file.kind = "ok" => AllEarlier(file.entries, est)
ImagesBehind ==
  \A r \in Recorders : pc[r] \in {"open", "write"} => AllEarlier(image[r], est)

\* costMu is held by whoever persists the key, and by nobody else.
Locking ==
  \A r \in Recorders : pc[r] \in Persisting => costMu[Key(r)] = r

\* The inductive invariant: EveryDollarOnce says nothing of the cost since the
\* anchor, nor of the images other recorders are about to write.
IInv == TypeOK /\ Backed /\ DiskBehind /\ ImagesBehind /\ Locking /\ OwnEntryCurrent

-----------------------------------------------------------------------------
(* The pure update.                                                        *)

\* updateCapacityEstimate returns a snapshot, an estimator and a flag: every
\* subtraction in it is guarded.
LEMMA UpdateType ==
  ASSUME NEW s \in Snapshots, NEW e \in Estimators, NEW u \in Nat, NEW c \in Nat
  PROVE  /\ UpdateCapacityEstimate(s, e, u, c).snap \in Snapshots
         /\ UpdateCapacityEstimate(s, e, u, c).est \in Estimators
         /\ UpdateCapacityEstimate(s, e, u, c).changed \in BOOLEAN
  BY DEF UpdateCapacityEstimate, RolledOver, Moved, Unchanged, Accumulated, Anchor,
         Snapshots, Estimators

\* updateCapacityEstimate only ever raises the estimate, leaves the anchor at or
\* below the current cost, and pays for what it adds by moving the anchor.
LEMMA UpdateAccounts ==
  ASSUME NEW s \in Snapshots, NEW e \in Estimators, NEW u \in Nat, NEW c \in Nat,
         s.cost <= c
  PROVE  LET R == UpdateCapacityEstimate(s, e, u, c)
         IN /\ Earlier(e, R.est)
            /\ R.snap.cost <= c
            /\ R.est.cost + (c - R.snap.cost) <= e.cost + (c - s.cost)
  BY DEF UpdateCapacityEstimate, RolledOver, Moved, Unchanged, Accumulated, Anchor,
         Snapshots, Estimators, Earlier

\* What a recorder about to move the estimators computes has the right type.
LEMMA EstimatedType ==
  ASSUME TypeOK, NEW r \in Recorders, pc[r] # "idle", NEW w \in Windows
  PROVE  /\ Key(r) \in Keys
         /\ Estimated(r, w).snap \in Snapshots
         /\ Estimated(r, w).est \in Estimators
         /\ Estimated(r, w).changed \in BOOLEAN
<1>1. /\ Key(r) \in Keys
      /\ event[r].util[w] \in Nat \cup {NoUtil}
  BY EventsAssumption DEF TypeOK, Key
<1>2. /\ snap[Key(r)][w] \in Snapshots
      /\ est[Key(r)][w] \in Estimators
      /\ cost[Key(r)] \in Nat
  BY <1>1 DEF TypeOK, Entries
<1>3. CASE event[r].util[w] = NoUtil
  BY <1>1, <1>2, <1>3 DEF Estimated, Unchanged
<1>4. CASE event[r].util[w] \in Nat
  <2>1. event[r].util[w] # NoUtil
    BY <1>4, MarkersAssumption
  <2>2. Estimated(r, w) = UpdateCapacityEstimate(snap[Key(r)][w], est[Key(r)][w],
                                                 event[r].util[w], cost[Key(r)])
    BY <2>1 DEF Estimated
  <2> QED BY <1>1, <1>2, <1>4, <2>2, UpdateType
<1> QED BY <1>1, <1>3, <1>4

\* It keeps the key's books as UpdateAccounts says.
LEMMA EstimatedAccounts ==
  ASSUME TypeOK, Backed, NEW r \in Recorders, pc[r] # "idle", NEW w \in Windows
  PROVE  LET k == Key(r)
         IN /\ Earlier(est[k][w], Estimated(r, w).est)
            /\ Estimated(r, w).snap.cost <= cost[k]
            /\ Estimated(r, w).est.cost + (cost[k] - Estimated(r, w).snap.cost)
                 <= spent[k]
<1> DEFINE k == Key(r)
           R == Estimated(r, w)
<1>1. /\ k \in Keys
      /\ event[r].util[w] \in Nat \cup {NoUtil}
  BY EventsAssumption DEF TypeOK, Key
<1>2. /\ snap[k][w] \in Snapshots
      /\ est[k][w] \in Estimators
      /\ cost[k] \in Nat
      /\ spent[k] \in Nat
  BY <1>1 DEF TypeOK, Entries
<1>3. /\ snap[k][w].cost <= cost[k]
      /\ est[k][w].cost + (cost[k] - snap[k][w].cost) <= spent[k]
  BY <1>1 DEF Backed
<1>4. R.snap \in Snapshots /\ R.est \in Estimators
  BY EstimatedType
<1>5. CASE event[r].util[w] = NoUtil
  <2>1. R.snap = snap[k][w] /\ R.est = est[k][w]
    BY <1>5 DEF Estimated, Unchanged
  <2> QED BY <1>2, <1>3, <2>1 DEF Earlier, Estimators
<1>6. CASE event[r].util[w] \in Nat
  <2>1. R = UpdateCapacityEstimate(snap[k][w], est[k][w], event[r].util[w], cost[k])
    BY <1>6, MarkersAssumption DEF Estimated
  <2>2. /\ Earlier(est[k][w], R.est)
        /\ R.snap.cost <= cost[k]
        /\ R.est.cost + (cost[k] - R.snap.cost)
             <= est[k][w].cost + (cost[k] - snap[k][w].cost)
    BY <1>2, <1>3, <1>6, <2>1, UpdateAccounts
  <2>3. R.snap.cost \in Nat /\ R.est.cost \in Nat
    BY <1>4 DEF Snapshots, Estimators
  <2>4. snap[k][w].cost \in Nat /\ est[k][w].cost \in Nat
    BY <1>2 DEF Snapshots, Estimators
  <2>5. R.est.cost + (cost[k] - R.snap.cost) <= spent[k]
    BY <1>2, <1>3, <2>2, <2>3, <2>4
  <2> QED BY <2>2, <2>5
<1> QED BY <1>1, <1>5, <1>6

-----------------------------------------------------------------------------
(* Type correctness.                                                       *)

LEMMA ZeroTypes ==
  /\ NoSnapshot \in Snapshots
  /\ NoEstimator \in Estimators
  /\ NoEntries \in Entries
  /\ TornFile \in Files
  BY DEF NoSnapshot, NoEstimator, NoEntries, TornFile, Snapshots, Estimators, Entries, Files

LEMMA LoadedType ==
  ASSUME NEW f \in Files
  PROVE  Loaded(f) \in Entries
  BY ZeroTypes DEF Loaded, Files

LEMMA TypeInit == Init => TypeOK
<1> SUFFICES ASSUME Init PROVE TypeOK
  OBVIOUS
<1>1. file \in Files
  BY FilesAssumption DEF Init
<1>2. est \in Entries
  BY <1>1, LoadedType DEF Init, FreshProcess
<1>3. snap \in [Keys -> [Windows -> Snapshots]]
  BY ZeroTypes DEF Init, FreshProcess
<1> QED
  BY <1>1, <1>2, <1>3, ZeroTypes DEF Init, FreshProcess, TypeOK, Steps

LEMMA TypeNext == TypeOK /\ [Next]_vars => TypeOK'
<1> SUFFICES ASSUME TypeOK, [Next]_vars PROVE TypeOK'
  OBVIOUS
<1> USE DEF Steps
<1>1. ASSUME NEW r \in Recorders, NEW e \in Events, Begin(r, e)
      PROVE  TypeOK'
  BY <1>1, EventsAssumption DEF TypeOK, Begin, Goto
<1>2. ASSUME NEW r \in Recorders, AddCost(r)
      PROVE  TypeOK'
  <2>1. Key(r) \in Keys /\ pc[r] # "idle"
    BY <1>2, EventsAssumption DEF TypeOK, AddCost, Key
  <2>2. cost' \in [Keys -> Nat] /\ spent' \in [Keys -> Nat] /\ noModel' \in Nat
    BY <1>2, <2>1 DEF TypeOK, AddCost
  <2> QED BY <1>2, <2>1, <2>2 DEF TypeOK, AddCost, Goto
<1>3. ASSUME NEW r \in Recorders, StoreGauges(r)
      PROVE  TypeOK'
  <2>1. Key(r) \in Keys /\ pc[r] # "idle"
    BY <1>3, EventsAssumption DEF TypeOK, StoreGauges, Key
  <2>2. \A w \in Windows : event[r].util[w] \in Nat \cup {NoUtil}
    BY <1>3, <2>1, EventsAssumption DEF TypeOK
  <2>3. gauge' \in [Keys -> [Windows -> Nat]]
    <3>1. gauge \in [Keys -> [Windows -> Nat]]
      BY DEF TypeOK
    <3>2. PICK g : g = [w \in Windows |-> IF event[r].util[w] = NoUtil
                                          THEN gauge[Key(r)][w] ELSE event[r].util[w]]
      OBVIOUS
    <3>3. g \in [Windows -> Nat]
      BY <2>1, <2>2, <3>1, <3>2
    <3>4. gauge' = [gauge EXCEPT ![Key(r)] = g]
      BY <1>3, <3>2 DEF StoreGauges
    <3> QED BY <2>1, <3>1, <3>3, <3>4
  <2>4. /\ pc' \in [Recorders -> Steps]
        /\ event' \in [Recorders -> Events \cup {NoEvent}]
        /\ image' \in [Recorders -> Entries]
    <3>1. pc' \in [Recorders -> Steps]
      BY <1>3 DEF TypeOK, StoreGauges, Goto, Return, Steps
    <3>2. event' \in [Recorders -> Events \cup {NoEvent}]
      BY <1>3 DEF TypeOK, StoreGauges, Goto, Return
    <3>3. image' \in [Recorders -> Entries]
      BY <1>3, ZeroTypes DEF TypeOK, StoreGauges, Goto, Return
    <3> QED BY <3>1, <3>2, <3>3
  <2>5. ASSUME NEW q \in Recorders, pc'[q] # "idle" PROVE event'[q] \in Events
    BY <1>3, <2>5 DEF TypeOK, StoreGauges, Goto, Return
  <2>6. UNCHANGED <<requests, noModel, costMu, cost, snap, est, file, history>>
    BY <1>3 DEF StoreGauges
  <2> QED BY <2>3, <2>4, <2>5, <2>6 DEF TypeOK, history
<1>4. ASSUME NEW r \in Recorders, UpdateEstimates(r)
      PROVE  TypeOK'
  <2>1. Key(r) \in Keys /\ pc[r] # "idle"
    BY <1>4, EventsAssumption DEF TypeOK, UpdateEstimates, Key
  <2>2. /\ [w \in Windows |-> Estimated(r, w).snap] \in [Windows -> Snapshots]
        /\ [w \in Windows |-> Estimated(r, w).est] \in [Windows -> Estimators]
    BY <2>1, EstimatedType
  <2>3. snap' \in [Keys -> [Windows -> Snapshots]] /\ est' \in Entries
    BY <1>4, <2>1, <2>2 DEF TypeOK, UpdateEstimates, Entries
  <2>4. costMu' \in [Keys -> Recorders \cup {Unlocked}]
    BY <1>4, <2>1 DEF TypeOK, UpdateEstimates
  <2>5. /\ pc' \in [Recorders -> Steps]
        /\ event' \in [Recorders -> Events \cup {NoEvent}]
        /\ \A q \in Recorders : pc'[q] # "idle" => event'[q] \in Events
        /\ image' \in [Recorders -> Entries]
    <3>1. CASE Goto(r, "read") /\ UNCHANGED <<event, image>>
      BY <2>1, <3>1 DEF TypeOK, Goto
    <3>2. CASE Return(r)
      BY <3>2, ZeroTypes DEF TypeOK, Return
    <3> QED BY <1>4, <3>1, <3>2 DEF UpdateEstimates
  <2> QED BY <1>4, <2>3, <2>4, <2>5 DEF TypeOK, UpdateEstimates, history
<1>5. ASSUME NEW r \in Recorders, ReadEstimates(r)
      PROVE  TypeOK'
  <2>1. Key(r) \in Keys /\ pc[r] # "idle"
    BY <1>5, EventsAssumption DEF TypeOK, ReadEstimates, Key
  <2>2. ReadBack \in Entries
    BY LoadedType DEF ReadBack, TypeOK
  <2>3. [ReadBack EXCEPT ![Key(r)] = est[Key(r)]] \in Entries
    BY <2>1, <2>2 DEF TypeOK, Entries
  <2>4. rewrites' \in {"apart", "mixed"}
    BY <1>5 DEF TypeOK, ReadEstimates
  <2> QED BY <1>5, <2>1, <2>3, <2>4 DEF TypeOK, ReadEstimates, Goto, shared
<1>6. ASSUME NEW r \in Recorders, OpenTruncated(r)
      PROVE  TypeOK'
  BY <1>6, ZeroTypes DEF TypeOK, OpenTruncated, Goto, shared, history
<1>7. ASSUME NEW r \in Recorders, Release(r), pc[r] # "idle"
      PROVE  costMu' \in [Keys -> Recorders \cup {Unlocked}]
  BY <1>7 DEF TypeOK, Release
<1>8. ASSUME NEW r \in Recorders, WriteEstimates(r)
      PROVE  TypeOK'
  <2>1. image[r] \in Entries /\ pc[r] # "idle"
    BY <1>8 DEF TypeOK, WriteEstimates
  <2>2. file' \in Files
    BY <1>8, <2>1, ZeroTypes DEF WriteEstimates, Saved, Files
  <2> QED BY <1>7, <1>8, <2>1, <2>2, ZeroTypes
          DEF TypeOK, WriteEstimates, Return, history
<1>9. ASSUME NEW r \in Recorders, WriteFails(r)
      PROVE  TypeOK'
  <2>1. file' \in Files /\ pc[r] # "idle"
    BY <1>9, ZeroTypes DEF TypeOK, WriteFails
  <2> QED BY <1>7, <1>9, <2>1, ZeroTypes DEF TypeOK, WriteFails, Return
<1>10. CASE Restart
  <2>1. est' \in Entries
    BY <1>10, LoadedType DEF TypeOK, Restart
  <2>2. snap' \in [Keys -> [Windows -> Snapshots]]
    BY <1>10, ZeroTypes DEF Restart
  <2> QED BY <1>10, <2>1, <2>2, ZeroTypes DEF TypeOK, Restart
<1>11. CASE UNCHANGED vars
  BY <1>11 DEF TypeOK, vars, shared, local, history
<1> QED
  BY <1>1, <1>2, <1>3, <1>4, <1>5, <1>6, <1>8, <1>9, <1>10, <1>11
  DEF Next, Step, Finished

\* Every variable of Metrics keeps its type.
THEOREM TypeCorrect == Spec => []TypeOK
  BY TypeInit, TypeNext, PTL DEF Spec

-----------------------------------------------------------------------------
(* The inductive invariant.                                                *)

\* The estimate in memory only grows while a process runs, so whatever was
\* earlier stays earlier.
LEMMA EarlierStays ==
  ASSUME NEW f \in Entries, NEW g \in Entries, NEW h \in Entries,
         AllEarlier(f, g), AllEarlier(g, h)
  PROVE  AllEarlier(f, h)
  BY DEF AllEarlier, Earlier, Entries, Estimators

LEMMA NothingIsEarlier ==
  ASSUME NEW g \in Entries
  PROVE  AllEarlier(NoEntries, g)
  BY DEF AllEarlier, Earlier, Entries, Estimators, NoEntries, NoEstimator

LEMMA IInvInit == Init => IInv
<1> SUFFICES ASSUME Init PROVE IInv
  OBVIOUS
<1>1. TypeOK
  BY TypeInit
<1>2. file.kind # "ok"
  BY FilesAssumption DEF Init
<1>3. Backed
  BY <1>2 DEF Backed, Init, FreshProcess, Loaded, NoEntries, NoEstimator, NoSnapshot
<1>4. DiskBehind /\ ImagesBehind /\ Locking /\ OwnEntryCurrent
  BY <1>2 DEF DiskBehind, ImagesBehind, Locking, OwnEntryCurrent, Persisting,
              Init, FreshProcess
<1> QED BY <1>1, <1>3, <1>4 DEF IInv

\* A step that leaves the estimates, the file, the locks and everything a
\* persisting recorder holds alone keeps the parts of IInv about them.
LEMMA BookkeepingStep ==
  ASSUME IInv, TypeOK', NEW r \in Recorders,
         UNCHANGED <<est, file, costMu>>,
         pc[r] \notin Persisting, pc'[r] \notin Persisting,
         \A q \in Recorders \ {r} : pc'[q] = pc[q] /\ event'[q] = event[q]
                                     /\ image'[q] = image[q]
  PROVE  DiskBehind' /\ ImagesBehind' /\ Locking' /\ OwnEntryCurrent'
<1>1. DiskBehind'
  BY DEF IInv, DiskBehind, AllEarlier
<1>2. \A q \in Recorders : pc'[q] \in Persisting =>
        q # r /\ pc'[q] = pc[q] /\ event'[q] = event[q] /\ image'[q] = image[q]
  OBVIOUS
<1>3. ImagesBehind' /\ Locking' /\ OwnEntryCurrent'
  BY <1>2 DEF IInv, ImagesBehind, AllEarlier, Locking, OwnEntryCurrent, Persisting, Key
<1> QED BY <1>1, <1>3

\* Releasing the lock of the key it persisted, a recorder keeps IInv if what it
\* leaves on disk is an earlier value of what is in memory.
LEMMA ReleasingStep ==
  ASSUME IInv, TypeOK', NEW r \in Recorders, pc[r] \in Persisting,
         Release(r), Return(r), DiskBehind',
         UNCHANGED <<cost, snap, est, spent>>
  PROVE  IInv'
<1>1. Backed'
  BY DEF IInv, Backed
<1>2. \A q \in Recorders : pc'[q] \in Persisting =>
        q # r /\ pc'[q] = pc[q] /\ event'[q] = event[q] /\ image'[q] = image[q]
  BY DEF Return, Persisting, IInv, TypeOK
<1>3. \A q \in Recorders : pc[q] \in Persisting =>
        costMu[Key(q)] = q /\ Key(q) \in Keys
  BY EventsAssumption DEF IInv, TypeOK, Locking, Key, Persisting
<1>4. Locking'
  <2> SUFFICES ASSUME NEW q \in Recorders, pc'[q] \in Persisting
               PROVE  costMu'[Key(q)'] = q
    BY DEF Locking
  <2>1. Key(q)' = Key(q) /\ Key(q) # Key(r)
    BY <1>2, <1>3 DEF Key
  <2> QED BY <1>2, <1>3, <2>1 DEF Release, IInv, TypeOK
<1>5. ImagesBehind' /\ OwnEntryCurrent'
  BY <1>2 DEF IInv, ImagesBehind, AllEarlier, OwnEntryCurrent, Persisting, Key
<1> QED BY <1>1, <1>4, <1>5 DEF IInv

\* Moving the estimators under an acquired lock.
LEMMA UpdatingStep ==
  ASSUME IInv, TypeOK', NEW r \in Recorders, UpdateEstimates(r)
  PROVE  IInv'
<1> DEFINE k == Key(r)
<1>1. k \in Keys /\ pc[r] = "estimate" /\ costMu[k] = Unlocked
  BY EventsAssumption DEF IInv, TypeOK, UpdateEstimates, Key, Acquirable
<1>2. /\ \A w \in Windows : snap'[k][w] = Estimated(r, w).snap
      /\ \A w \in Windows : est'[k][w] = Estimated(r, w).est
      /\ \A q \in Keys \ {k} : snap'[q] = snap[q] /\ est'[q] = est[q]
      /\ cost' = cost /\ spent' = spent /\ file' = file
  BY <1>1 DEF IInv, TypeOK, Entries, UpdateEstimates, history
<1>3. Backed'
  <2> SUFFICES ASSUME NEW q \in Keys, NEW w \in Windows
               PROVE  /\ snap'[q][w].cost <= cost[q]
                      /\ est'[q][w].cost + (cost[q] - snap'[q][w].cost) <= spent[q]
    BY <1>2 DEF Backed
  <2>1. CASE q = k
    BY <1>1, <1>2, <2>1, EstimatedAccounts DEF IInv
  <2>2. CASE q # k
    BY <1>2, <2>2 DEF IInv, Backed
  <2> QED BY <2>1, <2>2
<1>4. AllEarlier(est, est')
  <2> SUFFICES ASSUME NEW q \in Keys, NEW w \in Windows
               PROVE  Earlier(est[q][w], est'[q][w])
    BY DEF AllEarlier
  <2>1. CASE q = k
    BY <1>1, <1>2, <2>1, EstimatedAccounts DEF IInv
  <2>2. CASE q # k
    BY <1>2, <2>2 DEF IInv, TypeOK, Entries, Estimators, Earlier
  <2> QED BY <2>1, <2>2
<1>5. est \in Entries /\ est' \in Entries /\ file \in Files
  BY DEF IInv, TypeOK
<1>6. DiskBehind'
  BY <1>2, <1>4, <1>5, EarlierStays DEF IInv, DiskBehind, Files
<1>7. \A q \in Recorders : pc[q] \in Persisting => q # r /\ Key(q) # k /\ Key(q) \in Keys
  BY <1>1, MarkersAssumption, EventsAssumption
  DEF IInv, Locking, Persisting, TypeOK, Key
<1>8. \A q \in Recorders \ {r} :
        pc'[q] = pc[q] /\ event'[q] = event[q] /\ image'[q] = image[q]
  BY DEF IInv, TypeOK, UpdateEstimates, Goto, Return
<1>9. pc'[r] \notin {"open", "write"}
  BY DEF IInv, TypeOK, UpdateEstimates, Goto, Return
<1>10. ImagesBehind'
  <2> SUFFICES ASSUME NEW q \in Recorders, pc'[q] \in {"open", "write"}
               PROVE  AllEarlier(image'[q], est')
    BY DEF ImagesBehind
  <2>1. pc[q] \in {"open", "write"} /\ image'[q] = image[q]
    BY <1>8, <1>9
  <2>2. AllEarlier(image[q], est) /\ image[q] \in Entries
    BY <2>1 DEF IInv, ImagesBehind, TypeOK
  <2> QED BY <1>4, <1>5, <2>1, <2>2, EarlierStays
<1>11. Locking'
  <2> SUFFICES ASSUME NEW q \in Recorders, pc'[q] \in Persisting
               PROVE  costMu'[Key(q)'] = q
    BY DEF Locking
  <2>1. CASE q = r
    <3>1. event'[r] = event[r] /\ costMu' = [costMu EXCEPT ![k] = r]
      BY <2>1 DEF IInv, TypeOK, UpdateEstimates, Return, Persisting
    <3> QED BY <1>1, <2>1, <3>1 DEF Key, IInv, TypeOK
  <2>2. CASE q # r
    <3>1. pc[q] \in Persisting /\ Key(q)' = Key(q) /\ Key(q) # k /\ Key(q) \in Keys
      BY <1>7, <1>8, <2>2 DEF Key
    <3>2. costMu[Key(q)] = q
      BY <3>1 DEF IInv, Locking
    <3> QED BY <3>1, <3>2 DEF UpdateEstimates, IInv, TypeOK
  <2> QED BY <2>1, <2>2
<1>12. OwnEntryCurrent'
  <2> SUFFICES ASSUME NEW q \in Recorders, pc'[q] \in {"open", "write"}
               PROVE  image'[q][Key(q)'] = est'[Key(q)']
    BY DEF OwnEntryCurrent
  <2>1. q # r /\ pc[q] \in {"open", "write"} /\ image'[q] = image[q] /\ Key(q)' = Key(q)
    BY <1>8, <1>9 DEF Key
  <2>2. est'[Key(q)] = est[Key(q)]
    BY <1>2, <1>7, <2>1 DEF Persisting
  <2> QED BY <2>1, <2>2 DEF IInv, OwnEntryCurrent
<1> QED BY <1>3, <1>6, <1>10, <1>11, <1>12 DEF IInv

\* Reading the file back and setting the key's entry.
LEMMA ReadingStep ==
  ASSUME IInv, TypeOK', NEW r \in Recorders, ReadEstimates(r)
  PROVE  IInv'
<1>1. Key(r) \in Keys /\ pc[r] = "read" /\ pc'[r] = "open"
  BY EventsAssumption DEF IInv, TypeOK, ReadEstimates, Key, Goto
<1>2. /\ UNCHANGED <<cost, snap, est, file, costMu, event, spent>>
      /\ \A q \in Recorders \ {r} : pc'[q] = pc[q] /\ image'[q] = image[q]
      /\ image'[r] = [ReadBack EXCEPT ![Key(r)] = est[Key(r)]]
  BY DEF IInv, TypeOK, ReadEstimates, Goto, shared
<1>3. ReadBack \in Entries /\ est \in Entries
  BY LoadedType DEF ReadBack, IInv, TypeOK
<1>4. AllEarlier(ReadBack, est)
  BY <1>3, NothingIsEarlier DEF ReadBack, Loaded, IInv, DiskBehind
<1>5. AllEarlier(image'[r], est)
  BY <1>1, <1>2, <1>3, <1>4 DEF AllEarlier, Earlier, Entries, Estimators
<1>6. Backed' /\ DiskBehind'
  BY <1>2 DEF IInv, Backed, DiskBehind, AllEarlier
<1>7. ImagesBehind'
  BY <1>2, <1>5 DEF IInv, ImagesBehind, AllEarlier
<1>8. Locking'
  BY <1>1, <1>2 DEF IInv, Locking, Key, Persisting
<1>9. OwnEntryCurrent'
  <2>1. image'[r][Key(r)] = est[Key(r)]
    BY <1>1, <1>2, <1>3 DEF Entries
  <2> QED BY <1>2, <2>1 DEF IInv, OwnEntryCurrent, Key
<1> QED BY <1>6, <1>7, <1>8, <1>9 DEF IInv

\* Every step of Metrics preserves the invariant.
LEMMA IInvNext == IInv /\ [Next]_vars => IInv'
<1> SUFFICES ASSUME IInv, [Next]_vars PROVE IInv'
  OBVIOUS
<1>0. TypeOK /\ TypeOK'
  BY TypeNext DEF IInv
<1>1. ASSUME NEW r \in Recorders, NEW e \in Events, Begin(r, e)
      PROVE  IInv'
  <2>1. Backed'
    BY <1>1 DEF IInv, Backed, Begin
  <2>2. DiskBehind' /\ ImagesBehind' /\ Locking' /\ OwnEntryCurrent'
    BY <1>0, <1>1, BookkeepingStep DEF Begin, Goto, TypeOK, Persisting
  <2> QED BY <1>0, <2>1, <2>2 DEF IInv
<1>2. ASSUME NEW r \in Recorders, AddCost(r)
      PROVE  IInv'
  <2>1. Backed'
    <3>1. CASE UNCHANGED <<cost, spent>>
      BY <1>2, <3>1 DEF AddCost, IInv, Backed
    <3>2. CASE /\ event[r].cost \in Nat
               /\ cost' = [cost EXCEPT ![Key(r)] = @ + event[r].cost]
               /\ spent' = [spent EXCEPT ![Key(r)] = @ + event[r].cost]
      <4> SUFFICES ASSUME NEW k \in Keys, NEW w \in Windows
                   PROVE  /\ snap[k][w].cost <= cost'[k]
                          /\ est[k][w].cost + (cost'[k] - snap[k][w].cost) <= spent'[k]
        BY <1>2 DEF AddCost, Backed
      <4>1. /\ cost[k] \in Nat /\ spent[k] \in Nat
            /\ snap[k][w].cost \in Nat /\ est[k][w].cost \in Nat
        BY <1>0 DEF TypeOK, Entries, Estimators, Snapshots
      <4>2. /\ snap[k][w].cost <= cost[k]
            /\ est[k][w].cost + (cost[k] - snap[k][w].cost) <= spent[k]
        BY DEF IInv, Backed
      <4>3. \E c \in Nat : cost'[k] = cost[k] + c /\ spent'[k] = spent[k] + c
        <5>1. CASE k = Key(r)
          BY <1>0, <3>2, <5>1 DEF TypeOK
        <5>2. CASE k # Key(r)
          <6>1. cost'[k] = cost[k] + 0 /\ spent'[k] = spent[k] + 0
            BY <1>0, <3>2, <4>1, <5>2 DEF TypeOK
          <6> QED BY <6>1
        <5> QED BY <5>1, <5>2
      <4> QED BY <4>1, <4>2, <4>3
    <3> QED BY <1>2, <3>1, <3>2 DEF AddCost
  <2>2. DiskBehind' /\ ImagesBehind' /\ Locking' /\ OwnEntryCurrent'
    BY <1>0, <1>2, BookkeepingStep DEF AddCost, Goto, TypeOK, Persisting
  <2> QED BY <1>0, <2>1, <2>2 DEF IInv
<1>3. ASSUME NEW r \in Recorders, StoreGauges(r)
      PROVE  IInv'
  <2>1. Backed'
    BY <1>3 DEF IInv, Backed, StoreGauges, history
  <2>2. DiskBehind' /\ ImagesBehind' /\ Locking' /\ OwnEntryCurrent'
    BY <1>0, <1>3, BookkeepingStep DEF StoreGauges, Goto, Return, TypeOK, Persisting
  <2> QED BY <1>0, <2>1, <2>2 DEF IInv
<1>4. ASSUME NEW r \in Recorders, OpenTruncated(r)
      PROVE  IInv'
  <2>1. Backed' /\ DiskBehind'
    BY <1>4 DEF OpenTruncated, TornFile, shared, history, IInv, Backed, DiskBehind
  <2>2. ImagesBehind' /\ Locking' /\ OwnEntryCurrent'
    BY <1>0, <1>4 DEF OpenTruncated, Goto, shared, history, IInv, ImagesBehind,
                      AllEarlier, Locking, OwnEntryCurrent, Persisting, Key, TypeOK
  <2> QED BY <1>0, <2>1, <2>2 DEF IInv
<1>5. ASSUME NEW r \in Recorders, WriteEstimates(r)
      PROVE  IInv'
  <2>1. DiskBehind'
    BY <1>5 DEF WriteEstimates, Saved, TornFile, IInv, DiskBehind, ImagesBehind, AllEarlier
  <2> QED BY <1>0, <1>5, <2>1, ReleasingStep DEF WriteEstimates, Persisting, history
<1>6. ASSUME NEW r \in Recorders, WriteFails(r)
      PROVE  IInv'
  <2>1. DiskBehind'
    BY <1>6 DEF WriteFails, TornFile, IInv, DiskBehind, AllEarlier
  <2> QED BY <1>0, <1>6, <2>1, ReleasingStep DEF WriteFails, Persisting
<1>7. CASE Restart
  <2>1. est \in Entries /\ file \in Files /\ est' = Loaded(file) /\ file' = file
    BY <1>0, <1>7 DEF TypeOK, Restart
  <2>2. AllEarlier(est', est)
    BY <2>1, NothingIsEarlier DEF Loaded, IInv, DiskBehind
  <2>3. Backed'
    <3> SUFFICES ASSUME NEW k \in Keys, NEW w \in Windows
                 PROVE  est'[k][w].cost <= spent[k]
      BY <1>0, <1>7 DEF Backed, Restart, NoSnapshot, TypeOK, Entries, Estimators
    <3>1. /\ cost[k] \in Nat /\ spent[k] \in Nat /\ snap[k][w].cost \in Nat
          /\ est[k][w].cost \in Nat /\ est'[k][w].cost \in Nat
      BY <1>0 DEF TypeOK, Entries, Estimators, Snapshots
    <3>2. est'[k][w].cost <= est[k][w].cost
      BY <2>2 DEF AllEarlier, Earlier
    <3>3. /\ snap[k][w].cost <= cost[k]
          /\ est[k][w].cost + (cost[k] - snap[k][w].cost) <= spent[k]
      BY DEF IInv, Backed
    <3> QED BY <3>1, <3>2, <3>3
  <2>4. DiskBehind'
    BY <1>0, <2>1 DEF DiskBehind, Loaded, AllEarlier, Earlier, TypeOK, Entries, Estimators
  <2>5. ImagesBehind' /\ Locking' /\ OwnEntryCurrent'
    BY <1>7 DEF Restart, ImagesBehind, Locking, OwnEntryCurrent, Persisting
  <2> QED BY <1>0, <2>3, <2>4, <2>5 DEF IInv
<1>8. CASE UNCHANGED vars
  BY <1>0, <1>8 DEF vars, shared, local, history, IInv, Backed, DiskBehind, ImagesBehind,
                    AllEarlier, Locking, OwnEntryCurrent, Key
<1> QED
  BY <1>0, <1>1, <1>2, <1>3, <1>4, <1>5, <1>6, <1>7, <1>8, UpdatingStep, ReadingStep
  DEF Next, Step, Finished

THEOREM Inductive == Spec => []IInv
  BY IInvInit, IInvNext, PTL DEF Spec

-----------------------------------------------------------------------------
(* What follows from it.                                                   *)

\* For any number of recorders, keys, events, crashes and failed writes, no cost
\* is accumulated twice, in memory or on disk.
THEOREM NoDollarTwice == Spec => []EveryDollarOnce
<1>1. IInv => EveryDollarOnce
  <2> SUFFICES ASSUME IInv, NEW k \in Keys, NEW w \in Windows
               PROVE  /\ est[k][w].cost <= spent[k]
                      /\ file.kind = "ok" => file.entries[k][w].cost <= spent[k]
    BY DEF EveryDollarOnce
  <2>1. /\ cost[k] \in Nat /\ spent[k] \in Nat /\ snap[k][w].cost \in Nat
        /\ est[k][w].cost \in Nat /\ file.entries[k][w].cost \in Nat
    BY DEF IInv, TypeOK, Files, Entries, Estimators, Snapshots
  <2>2. est[k][w].cost <= spent[k]
    BY <2>1 DEF IInv, Backed
  <2>3. ASSUME file.kind = "ok" PROVE file.entries[k][w].cost <= est[k][w].cost
    BY <2>3 DEF IInv, DiskBehind, AllEarlier, Earlier
  <2> QED BY <2>1, <2>2, <2>3
<1> QED BY <1>1, Inductive, PTL

\* A reload can lose measurements and never invent them.
THEOREM DiskIsEarlier == Spec => []DiskNeverAhead
<1>1. IInv => DiskNeverAhead
  BY DEF IInv, DiskBehind, DiskNeverAhead, AllEarlier, Earlier
<1> QED BY <1>1, Inductive, PTL

\* What a recorder is about to write for its own key is never stale.
THEOREM OwnEntryNeverStale == Spec => []OwnEntryCurrent
<1>1. IInv => OwnEntryCurrent
  BY DEF IInv
<1> QED BY <1>1, Inductive, PTL

-----------------------------------------------------------------------------
(* The file between calls, while rewrites stay apart.                      *)

Rewriting == {"open", "write"}

\* A recorder is about to bring the file up to date with this key.
Awaited(k) == \E r \in Recorders : pc[r] = "read" /\ Key(r) = k

OneRewrite == \A q, r \in Recorders : pc[q] \in Rewriting /\ pc[r] \in Rewriting => q = r
Truncated  == \A r \in Recorders : pc[r] = "write" => file.kind # "ok"
ImagesCurrent ==
  \A r \in Recorders : pc[r] \in Rewriting =>
    \A k \in Keys : Awaited(k) \/ image[r][k] = est[k]
FileCurrent ==
  (\A r \in Recorders : pc[r] \notin Rewriting) =>
    \A k \in Keys : Awaited(k) \/ Loaded(file)[k] = est[k]

Apart == OneRewrite /\ Truncated /\ ImagesCurrent /\ FileCurrent
ApartInv == rewrites = "apart" => Apart

\* An estimator that is not reported as changed is not changed.
LEMMA UnreportedIsUnchanged ==
  ASSUME TypeOK, NEW r \in Recorders, pc[r] # "idle",
         \A w \in Windows : ~Estimated(r, w).changed
  PROVE  [w \in Windows |-> Estimated(r, w).est] = est[Key(r)]
<1>1. est[Key(r)] \in [Windows -> Estimators]
  BY EventsAssumption DEF TypeOK, Entries, Key
<1>2. ASSUME NEW w \in Windows PROVE Estimated(r, w).est = est[Key(r)][w]
  BY DEF Estimated, UpdateCapacityEstimate, Moved, Unchanged, Accumulated
<1> QED BY <1>1, <1>2

\* A step between calls of persistEstimates that moves no estimate.
LEMMA ApartBookkeeping ==
  ASSUME TypeOK, ApartInv, NEW r \in Recorders,
         UNCHANGED <<est, file, rewrites>>,
         pc[r] \notin Persisting, pc'[r] \notin Persisting,
         \A q \in Recorders \ {r} : pc'[q] = pc[q] /\ event'[q] = event[q]
                                     /\ image'[q] = image[q]
  PROVE  ApartInv'
<1> SUFFICES ASSUME rewrites' = "apart" PROVE Apart'
  BY DEF ApartInv
<1>1. Apart
  BY DEF ApartInv
<1>2. \A q \in Recorders : pc'[q] \in Persisting \/ pc[q] \in Persisting =>
        q # r /\ pc'[q] = pc[q] /\ event'[q] = event[q] /\ image'[q] = image[q]
  OBVIOUS
<1>3. \A k \in Keys : Awaited(k) => Awaited(k)'
  BY <1>2 DEF Awaited, Key, Persisting
<1>4. OneRewrite' /\ Truncated'
  BY <1>1, <1>2 DEF Apart, OneRewrite, Truncated, Rewriting, Persisting
<1>5. ImagesCurrent'
  BY <1>1, <1>2, <1>3 DEF Apart, ImagesCurrent, Rewriting, Persisting
<1>6. FileCurrent'
  BY <1>1, <1>2, <1>3 DEF Apart, FileCurrent, Rewriting, Persisting, Loaded
<1> QED BY <1>4, <1>5, <1>6 DEF Apart

LEMMA ApartUpdate ==
  ASSUME TypeOK, ApartInv, NEW r \in Recorders, UpdateEstimates(r)
  PROVE  ApartInv'
<1>1. Key(r) \in Keys /\ pc[r] = "estimate"
  BY EventsAssumption DEF TypeOK, UpdateEstimates, Key
<1>2. \A q \in Recorders \ {r} :
        pc'[q] = pc[q] /\ event'[q] = event[q] /\ image'[q] = image[q]
  BY DEF TypeOK, UpdateEstimates, Goto, Return
<1>3. file' = file /\ rewrites' = rewrites
  BY DEF UpdateEstimates, history
<1>4. est' = [est EXCEPT ![Key(r)] = [w \in Windows |-> Estimated(r, w).est]]
  BY DEF UpdateEstimates
<1>5. CASE \E w \in Windows : Estimated(r, w).changed
  <2> SUFFICES ASSUME rewrites' = "apart" PROVE Apart'
    BY DEF ApartInv
  <2>1. Apart
    BY <1>3 DEF ApartInv
  <2>2. pc'[r] = "read" /\ event'[r] = event[r]
    BY <1>5 DEF UpdateEstimates, Goto, TypeOK
  <2>3. \A q \in Recorders : pc'[q] \in Rewriting \/ pc[q] \in Rewriting =>
          q # r /\ pc'[q] = pc[q] /\ image'[q] = image[q]
    BY <1>1, <1>2, <2>2 DEF Rewriting
  <2>4. \A k \in Keys : Awaited(k) => Awaited(k)'
    BY <1>1, <1>2 DEF Awaited, Key
  <2>5. ASSUME NEW k \in Keys, k = Key(r) PROVE Awaited(k)'
    BY <2>2, <2>5 DEF Awaited, Key
  <2>6. \A k \in Keys : k # Key(r) => est'[k] = est[k]
    BY <1>4 DEF TypeOK, Entries
  <2>7. \A k \in Keys : Awaited(k)' \/ (~Awaited(k) /\ est'[k] = est[k])
    BY <2>4, <2>5, <2>6
  <2>8. OneRewrite' /\ Truncated'
    BY <1>3, <2>1, <2>3 DEF Apart, OneRewrite, Truncated, Rewriting
  <2>9. ImagesCurrent'
    BY <2>1, <2>3, <2>7 DEF Apart, ImagesCurrent
  <2>10. FileCurrent'
    BY <1>3, <2>1, <2>3, <2>7 DEF Apart, FileCurrent, Loaded
  <2> QED BY <2>8, <2>9, <2>10 DEF Apart
<1>6. CASE \A w \in Windows : ~Estimated(r, w).changed
  <2>1. est' = est
    BY <1>1, <1>4, <1>6, UnreportedIsUnchanged DEF TypeOK, Entries
  <2>2. pc'[r] = "idle"
    BY <1>6 DEF UpdateEstimates, Return, TypeOK
  <2> QED BY <1>1, <1>2, <1>3, <2>1, <2>2, ApartBookkeeping DEF Persisting
<1> QED BY <1>5, <1>6

LEMMA ApartRead ==
  ASSUME TypeOK, ApartInv, NEW r \in Recorders, ReadEstimates(r)
  PROVE  ApartInv'
<1> SUFFICES ASSUME rewrites' = "apart" PROVE Apart'
  BY DEF ApartInv
<1>1. rewrites = "apart" /\ \A q \in Recorders \ {r} : pc[q] \notin Rewriting
  BY DEF ReadEstimates, Rewriting, TypeOK
<1>2. Apart
  BY <1>1 DEF ApartInv
<1>3. /\ Key(r) \in Keys /\ pc[r] = "read" /\ pc'[r] = "open"
      /\ \A q \in Recorders \ {r} : pc'[q] = pc[q] /\ image'[q] = image[q]
      /\ image'[r] = [ReadBack EXCEPT ![Key(r)] = est[Key(r)]]
      /\ UNCHANGED <<est, file, event>>
  BY EventsAssumption DEF TypeOK, ReadEstimates, Key, Goto, shared
<1>4. \A q \in Recorders : pc[q] \notin Rewriting
  BY <1>1, <1>3 DEF Rewriting
<1>5. \A k \in Keys : Awaited(k) \/ Loaded(file)[k] = est[k]
  BY <1>2, <1>4 DEF Apart, FileCurrent
<1>6. \A k \in Keys : k # Key(r) /\ Awaited(k) => Awaited(k)'
  BY <1>3 DEF Awaited, Key
<1>7. ReadBack \in Entries
  BY LoadedType DEF ReadBack, TypeOK
<1>8. ASSUME NEW k \in Keys PROVE Awaited(k)' \/ image'[r][k] = est'[k]
  <2>1. CASE k = Key(r)
    BY <1>3, <1>7, <2>1 DEF Entries
  <2>2. CASE k # Key(r)
    <3>1. image'[r][k] = Loaded(file)[k]
      BY <1>3, <1>7, <2>2 DEF Entries, ReadBack
    <3> QED BY <1>3, <1>5, <1>6, <2>2, <3>1
  <2> QED BY <2>1, <2>2
<1>9. \A q \in Recorders : pc'[q] \in Rewriting => q = r
  BY <1>3, <1>4
<1>10. OneRewrite' /\ Truncated' /\ ImagesCurrent' /\ FileCurrent'
  BY <1>3, <1>8, <1>9
  DEF OneRewrite, Truncated, ImagesCurrent, FileCurrent, Rewriting
<1> QED BY <1>10 DEF Apart

LEMMA ApartOpen ==
  ASSUME TypeOK, ApartInv, NEW r \in Recorders, OpenTruncated(r)
  PROVE  ApartInv'
<1> SUFFICES ASSUME rewrites' = "apart" PROVE Apart'
  BY DEF ApartInv
<1>1. /\ pc[r] = "open" /\ pc'[r] = "write" /\ file'.kind = "torn"
      /\ \A q \in Recorders \ {r} : pc'[q] = pc[q]
      /\ UNCHANGED <<est, event, image, rewrites>>
  BY DEF TypeOK, OpenTruncated, Goto, TornFile, shared, history
<1>2. Apart
  BY <1>1 DEF ApartInv
<1>3. \A q \in Recorders : pc'[q] \in Rewriting <=> pc[q] \in Rewriting
  BY <1>1 DEF Rewriting
<1>4. \A k \in Keys : Awaited(k) => Awaited(k)'
  BY <1>1 DEF Awaited, Key
<1>5. OneRewrite' /\ Truncated'
  BY <1>1, <1>2, <1>3 DEF Apart, OneRewrite, Truncated
<1>6. ImagesCurrent'
  BY <1>1, <1>2, <1>3, <1>4 DEF Apart, ImagesCurrent
<1>7. FileCurrent'
  BY <1>1 DEF FileCurrent, Rewriting
<1> QED BY <1>5, <1>6, <1>7 DEF Apart

LEMMA ApartWrite ==
  ASSUME TypeOK, ApartInv, NEW r \in Recorders, WriteEstimates(r)
  PROVE  ApartInv'
<1> SUFFICES ASSUME rewrites' = "apart" PROVE Apart'
  BY DEF ApartInv
<1>1. /\ pc[r] = "write" /\ pc'[r] = "idle"
      /\ \A q \in Recorders \ {r} : pc'[q] = pc[q] /\ event'[q] = event[q]
      /\ UNCHANGED <<est, rewrites>>
  BY DEF TypeOK, WriteEstimates, Return, history
<1>2. Apart
  BY <1>1 DEF ApartInv
<1>3. file' = Saved(image[r])
  BY <1>1, <1>2 DEF WriteEstimates, Apart, Truncated
<1>4. \A q \in Recorders : pc'[q] \notin Rewriting
  BY <1>1, <1>2 DEF Apart, OneRewrite, Rewriting
<1>5. \A k \in Keys : Awaited(k) => Awaited(k)'
  BY <1>1 DEF Awaited, Key
<1>6. Loaded(file)' = image[r]
  BY <1>3 DEF Loaded, Saved
<1>7. \A k \in Keys : Awaited(k) \/ image[r][k] = est[k]
  BY <1>1, <1>2 DEF Apart, ImagesCurrent, Rewriting
<1>8. FileCurrent'
  BY <1>1, <1>5, <1>6, <1>7 DEF FileCurrent
<1>9. OneRewrite' /\ Truncated' /\ ImagesCurrent'
  BY <1>4 DEF OneRewrite, Truncated, ImagesCurrent, Rewriting
<1> QED BY <1>8, <1>9 DEF Apart

LEMMA ApartInit == Init => ApartInv
<1> SUFFICES ASSUME Init PROVE Apart
  BY DEF ApartInv
<1> QED BY DEF Init, FreshProcess, Apart, OneRewrite, Truncated, ImagesCurrent,
               FileCurrent, Rewriting

LEMMA ApartNext == TypeOK /\ ApartInv /\ [Next]_vars => ApartInv'
<1> SUFFICES ASSUME TypeOK, ApartInv, [Next]_vars PROVE ApartInv'
  OBVIOUS
<1>1. ASSUME NEW r \in Recorders, NEW e \in Events, Begin(r, e)
      PROVE  ApartInv'
  BY <1>1, ApartBookkeeping DEF Begin, Goto, TypeOK, Persisting
<1>2. ASSUME NEW r \in Recorders, AddCost(r)
      PROVE  ApartInv'
  BY <1>2, ApartBookkeeping DEF AddCost, Goto, TypeOK, Persisting
<1>3. ASSUME NEW r \in Recorders, StoreGauges(r)
      PROVE  ApartInv'
  BY <1>3, ApartBookkeeping DEF StoreGauges, Goto, Return, TypeOK, Persisting, history
<1>4. ASSUME NEW r \in Recorders, WriteFails(r)
      PROVE  ApartInv'
  BY <1>4 DEF WriteFails, ApartInv
<1>5. CASE Restart
  <2>1. Apart'
    BY <1>5 DEF Restart, Apart, OneRewrite, Truncated, ImagesCurrent, FileCurrent,
                Rewriting, Loaded
  <2> QED BY <2>1 DEF ApartInv
<1>6. CASE UNCHANGED vars
  BY <1>6 DEF vars, shared, local, history, ApartInv, Apart, OneRewrite, Truncated,
              ImagesCurrent, FileCurrent, Awaited, Key, Loaded
<1> QED
  BY <1>1, <1>2, <1>3, <1>4, <1>5, <1>6, ApartUpdate, ApartRead, ApartOpen, ApartWrite
  DEF Next, Step, Finished

\* While rewrites stay apart, the file holds every key's estimates between calls: for
\* any number of keys and recorders, only a mixed rewrite or a failed write loses one.
THEOREM DiskKeepsUp == Spec => []DiskMatchesMemory
<1>1. TypeOK /\ ApartInv => DiskMatchesMemory
  <2> SUFFICES ASSUME TypeOK, ApartInv, Quiet, rewrites = "apart" PROVE est = Loaded(file)
    BY DEF DiskMatchesMemory
  <2>1. \A k \in Keys : ~Awaited(k)
    BY DEF Quiet, Awaited
  <2>2. \A k \in Keys : Loaded(file)[k] = est[k]
    BY <2>1 DEF ApartInv, Apart, FileCurrent, Quiet, Rewriting
  <2>3. est \in Entries /\ Loaded(file) \in Entries
    BY LoadedType DEF TypeOK
  <2> QED BY <2>2, <2>3 DEF Entries
<1>2. TypeOK /\ ApartInv /\ [Next]_vars => (TypeOK /\ ApartInv)'
  BY TypeNext, ApartNext
<1>3. Init => TypeOK /\ ApartInv
  BY TypeInit, ApartInit
<1> QED BY <1>1, <1>2, <1>3, PTL DEF Spec
-----------------------------------------------------------------------------
(* The endpoint.                                                           *)

\* What a scrape may be part of: every step of ScrapeNext is a step of Record or
\* leaves Metrics alone.
LEMMA ScrapeIsMetrics ==
  ASSUME [ScrapeNext]_scrapeVars
  PROVE  [Next]_vars
<1>1. ASSUME NEW r \in Recorders, NEW e \in Events, EnterRecord(r, e) PROVE Next
  BY <1>1 DEF EnterRecord, Next
<1>2. ASSUME NEW r \in Recorders, RecordStep(r) PROVE Next
  BY <1>2 DEF RecordStep, SettleCost, ShowUtilization, Estimate, Next, Step
<1>3. ASSUME NEW k \in series, OpenScrape(k) PROVE UNCHANGED vars
  BY <1>3 DEF OpenScrape
<1>4. ASSUME ScrapeStep PROVE UNCHANGED vars
  BY <1>4 DEF ScrapeStep, ReadGauges, ReadCost, EndScrape
<1>5. ASSUME ScrapeFinished PROVE UNCHANGED vars
  BY <1>5 DEF ScrapeFinished, Finished
<1>6. ASSUME UNCHANGED scrapeVars PROVE UNCHANGED vars
  BY <1>6 DEF scrapeVars
<1> QED BY <1>1, <1>2, <1>3, <1>4, <1>5, <1>6 DEF ScrapeNext

\* Scrapes change nothing that Record works with: Metrics beside its endpoint is
\* Metrics, so that everything proved of the recorders holds while they are scraped.
THEOREM ScrapesOnlyRead == ScrapeSpec => Spec
<1>1. ScrapeInit => Init
  BY DEF ScrapeInit
<1>2. [ScrapeNext]_scrapeVars => [Next]_vars
  BY ScrapeIsMetrics
<1> QED BY <1>1, <1>2, PTL DEF ScrapeSpec, Spec

\* A recorder about to store its gauges has settled the cost of its call.
SettledFirst ==
  \A r \in Recorders : pc[r] = "gauges" /\ call[r] # 0 => call[r] \in paid[Key(r)]

\* Every gauge value is of a call whose cost is settled.
GaugesPaid ==
  \A k \in Keys, w \in Windows : source[k][w] # 0 => source[k][w] \in paid[k]

\* Between its two readings a scrape holds gauge values of settled calls.
ReadingPaid ==
  /\ stage \in {"gauges", "cost", "done"} => scraping \in Keys
  /\ stage = "cost" =>
       \A w \in Windows : shown.source[w] # 0 => shown.source[w] \in paid[scraping]

\* CostCoversUtilization speaks of a finished scrape only; the invariant follows the
\* cost of a call from costMu to the gauges and to the scrape that reads them.
ScrapeInv ==
  ScrapeTypeOK /\ SettledFirst /\ GaugesPaid /\ ReadingPaid /\ CostCoversUtilization

LEMMA FamilyOrder ==
  Families[1] = "gauges" /\ After("gauges") = "cost" /\ After("cost") = "done"
<1>1. Families[1] = "gauges" /\ Families[2] = "cost" /\ Families[3] = "done"
  BY DEF Families
<1>2. {Families[i] : i \in 2 .. 3} = {"cost", "done"}
  BY <1>1, 2 .. 3 = {2, 3}
<1>3. \A family, next : (\E i \in 1 .. 2 : Families[i] = family /\ Families[i + 1] = next)
        <=> \/ family = "gauges" /\ next = "cost"
            \/ family = "cost" /\ next = "done"
  BY <1>1, 1 .. 2 = {1, 2}
<1>4. After("gauges") = CHOOSE next \in {"cost", "done"} :
        \/ "gauges" = "gauges" /\ next = "cost"
        \/ "gauges" = "cost" /\ next = "done"
  BY <1>2, <1>3 DEF After
<1>5. After("cost") = CHOOSE next \in {"cost", "done"} :
        \/ "cost" = "gauges" /\ next = "cost"
        \/ "cost" = "cost" /\ next = "done"
  BY <1>2, <1>3 DEF After
<1> QED BY <1>1, <1>4, <1>5

LEMMA ScrapeInvInit == ScrapeInit => ScrapeInv
<1> SUFFICES ASSUME ScrapeInit PROVE ScrapeInv
  OBVIOUS
<1>1. TypeOK
  BY TypeInit DEF ScrapeInit
<1>2. shown \in [source : [Windows -> Followed \cup {0}], paid : SUBSET Followed]
  BY DEF ScrapeInit, NothingShown
<1>3. ScrapeTypeOK
  BY <1>1, <1>2, ScrapeAssumption DEF ScrapeInit, ScrapeTypeOK
<1>4. SettledFirst /\ GaugesPaid /\ ReadingPaid /\ CostCoversUtilization
  BY DEF ScrapeInit, SettledFirst, GaugesPaid, ReadingPaid, CostCoversUtilization
<1> QED BY <1>3, <1>4 DEF ScrapeInv

LEMMA EnterPreserves ==
  ASSUME ScrapeInv, TypeOK', NEW r \in Recorders, NEW e \in Events, EnterRecord(r, e)
  PROVE  ScrapeInv'
<1>1. /\ scraping' = scraping /\ stage' = stage /\ shown' = shown /\ paid' = paid
      /\ source' = source /\ scrapes' = scrapes
  BY DEF EnterRecord
<1>2. call' \in [Recorders -> Followed \cup {0}]
  BY DEF EnterRecord, Number, ScrapeInv, ScrapeTypeOK
<1>3. series' \subseteq Keys
  BY EventsAssumption DEF EnterRecord, ScrapeInv, ScrapeTypeOK
<1>4. ScrapeTypeOK'
  BY <1>1, <1>2, <1>3 DEF ScrapeInv, ScrapeTypeOK
<1>5. SettledFirst'
  <2>1. pc'[r] = "cost"
    BY DEF EnterRecord, Begin, Goto, ScrapeInv, ScrapeTypeOK, TypeOK
  <2>2. \A s \in Recorders \ {r} : /\ pc'[s] = pc[s] /\ event'[s] = event[s]
                                   /\ call'[s] = call[s]
    BY DEF EnterRecord, Begin, Goto, ScrapeInv, ScrapeTypeOK, TypeOK
  <2> QED BY <1>1, <2>1, <2>2 DEF ScrapeInv, SettledFirst, Key
<1>6. GaugesPaid' /\ ReadingPaid' /\ CostCoversUtilization'
  BY <1>1 DEF ScrapeInv, GaugesPaid, ReadingPaid, CostCoversUtilization
<1> QED BY <1>4, <1>5, <1>6 DEF ScrapeInv

LEMMA SettlePreserves ==
  ASSUME ScrapeInv, TypeOK', NEW r \in Recorders, SettleCost(r)
  PROVE  ScrapeInv'
<1>1. /\ scraping' = scraping /\ stage' = stage /\ shown' = shown /\ series' = series
      /\ source' = source /\ scrapes' = scrapes /\ call' = call
  BY DEF SettleCost
<1>2. event' = event /\ pc[r] = "cost" /\ \A s \in Recorders \ {r} : pc'[s] = pc[s]
  BY DEF SettleCost, AddCost, Goto, ScrapeInv, ScrapeTypeOK, TypeOK
<1>3. /\ Key(r) \in Keys
      /\ paid' = [paid EXCEPT ![Key(r)] = @ \cup ({call[r]} \cap Followed)]
  BY <1>2, EventsAssumption DEF SettleCost, Key, ScrapeInv, ScrapeTypeOK, TypeOK
<1>4. paid' \in [Keys -> SUBSET Followed]
  BY <1>3 DEF ScrapeInv, ScrapeTypeOK
<1>5. /\ \A k \in Keys : paid[k] \subseteq paid'[k]
      /\ {call[r]} \cap Followed \subseteq paid'[Key(r)]
  BY <1>3 DEF ScrapeInv, ScrapeTypeOK
<1>6. ScrapeTypeOK'
  BY <1>1, <1>4 DEF ScrapeInv, ScrapeTypeOK
<1>7. SettledFirst'
  <2> SUFFICES ASSUME NEW s \in Recorders, pc'[s] = "gauges", call[s] # 0
               PROVE  call[s] \in paid'[Key(s)]
    BY <1>1, <1>2 DEF SettledFirst, Key
  <2>1. call[s] \in Followed \cup {0}
    BY DEF ScrapeInv, ScrapeTypeOK
  <2>2. CASE s = r
    BY <1>5, <2>1, <2>2
  <2>3. CASE s # r
    <3>1. pc[s] = "gauges"
      BY <1>2, <2>3
    <3>2. Key(s) \in Keys
      <4>1. event[s] \in Events
        BY <3>1 DEF ScrapeInv, ScrapeTypeOK, TypeOK
      <4> QED BY <4>1, EventsAssumption DEF Key
    <3> QED BY <1>5, <3>1, <3>2 DEF ScrapeInv, SettledFirst
  <2> QED BY <2>2, <2>3
<1>8. GaugesPaid'
  BY <1>1, <1>5 DEF ScrapeInv, GaugesPaid
<1>9. ReadingPaid' /\ CostCoversUtilization'
  BY <1>1, <1>5 DEF ScrapeInv, ReadingPaid, CostCoversUtilization
<1> QED BY <1>6, <1>7, <1>8, <1>9 DEF ScrapeInv

LEMMA ShowPreserves ==
  ASSUME ScrapeInv, TypeOK', NEW r \in Recorders, ShowUtilization(r)
  PROVE  ScrapeInv'
<1>1. /\ scraping' = scraping /\ stage' = stage /\ shown' = shown /\ series' = series
      /\ paid' = paid /\ scrapes' = scrapes /\ call' = call
  BY DEF ShowUtilization
<1>2. /\ pc[r] = "gauges"
      /\ pc'[r] # "gauges"
      /\ \A s \in Recorders \ {r} : pc'[s] = pc[s] /\ event'[s] = event[s]
  BY DEF ShowUtilization, StoreGauges, Goto, Return, ScrapeInv, ScrapeTypeOK, TypeOK
<1>3. Key(r) \in Keys
  BY <1>2, EventsAssumption DEF Key, ScrapeInv, ScrapeTypeOK, TypeOK
<1>4. \A k \in Keys, w \in Windows :
        \/ source'[k][w] = source[k][w]
        \/ k = Key(r) /\ source'[k][w] = call[r]
  BY <1>3 DEF ShowUtilization, ScrapeInv, ScrapeTypeOK
<1>5. source' \in [Keys -> [Windows -> Followed \cup {0}]]
  <2>1. call[r] \in Followed \cup {0} /\ source[Key(r)] \in [Windows -> Followed \cup {0}]
    BY <1>3 DEF ScrapeInv, ScrapeTypeOK
  <2>2. [w \in Windows |-> IF event[r].util[w] = NoUtil THEN source[Key(r)][w] ELSE call[r]]
          \in [Windows -> Followed \cup {0}]
    BY <2>1
  <2> QED BY <1>3, <2>2 DEF ShowUtilization, ScrapeInv, ScrapeTypeOK
<1>6. ScrapeTypeOK'
  BY <1>1, <1>5 DEF ScrapeInv, ScrapeTypeOK
<1>7. SettledFirst'
  BY <1>1, <1>2 DEF ScrapeInv, SettledFirst, Key
<1>8. GaugesPaid'
  BY <1>1, <1>2, <1>4 DEF ScrapeInv, GaugesPaid, SettledFirst
<1>9. ReadingPaid' /\ CostCoversUtilization'
  BY <1>1 DEF ScrapeInv, ReadingPaid, CostCoversUtilization
<1> QED BY <1>6, <1>7, <1>8, <1>9 DEF ScrapeInv

\* The second half of Record concerns no scrape.
LEMMA EstimatePreserves ==
  ASSUME ScrapeInv, TypeOK', NEW r \in Recorders, Estimate(r)
  PROVE  ScrapeInv'
<1>1. UNCHANGED view
  BY DEF Estimate
<1>2. UNCHANGED <<series, scraping, stage, shown, call, paid, source, scrapes>>
  BY <1>1 DEF view
<1>3. \A s \in Recorders : pc'[s] = "gauges" => pc[s] = "gauges" /\ event'[s] = event[s]
  BY DEF Estimate, UpdateEstimates, ReadEstimates, OpenTruncated, WriteEstimates, WriteFails,
         Goto, Return, ScrapeInv, ScrapeTypeOK, TypeOK
<1>4. ScrapeTypeOK'
  BY <1>2 DEF ScrapeInv, ScrapeTypeOK
<1>5. SettledFirst'
  BY <1>2, <1>3 DEF ScrapeInv, SettledFirst, Key
<1> QED BY <1>2, <1>4, <1>5 DEF ScrapeInv, GaugesPaid, ReadingPaid, CostCoversUtilization

\* What only the scrape does.
LEMMA ReaderPreserves ==
  ASSUME ScrapeInv, TypeOK', (\E k \in series : OpenScrape(k)) \/ ScrapeStep
  PROVE  ScrapeInv'
<1>1. UNCHANGED <<vars, series, call, paid, source>>
  BY DEF OpenScrape, ScrapeStep, ReadGauges, ReadCost, EndScrape
<1>2. UNCHANGED <<pc, event, series, call, paid, source>>
  BY <1>1 DEF vars, local
<1>3. SettledFirst' /\ GaugesPaid'
  BY <1>2 DEF ScrapeInv, SettledFirst, GaugesPaid, Key
<1>4. ASSUME NEW k \in series, OpenScrape(k)
      PROVE  ScrapeTypeOK' /\ ReadingPaid' /\ CostCoversUtilization'
  <2>1. /\ scraping' = k /\ k \in Keys /\ stage' = "gauges" /\ shown' = shown
        /\ scrapes' \in 0 .. MaxScrapes
    BY <1>4, FamilyOrder, ScrapeAssumption DEF OpenScrape, ScrapeInv, ScrapeTypeOK
  <2> QED BY <1>2, <2>1 DEF ScrapeInv, ScrapeTypeOK, ReadingPaid, CostCoversUtilization
<1>5. ASSUME ReadGauges PROVE ScrapeTypeOK' /\ ReadingPaid' /\ CostCoversUtilization'
  <2>1. /\ scraping' = scraping /\ scraping \in Keys /\ stage' = "cost" /\ scrapes' = scrapes
        /\ shown' = [shown EXCEPT !.source = source[scraping]]
    BY <1>5, FamilyOrder DEF ReadGauges, ScrapeInv, ScrapeTypeOK
  <2>2. /\ source[scraping] \in [Windows -> Followed \cup {0}]
        /\ shown \in [source : [Windows -> Followed \cup {0}], paid : SUBSET Followed]
    BY <2>1 DEF ScrapeInv, ScrapeTypeOK
  <2>3. /\ shown' \in [source : [Windows -> Followed \cup {0}], paid : SUBSET Followed]
        /\ shown'.source = source[scraping]
    BY <2>1, <2>2
  <2> QED BY <1>2, <2>1, <2>3
       DEF ScrapeInv, ScrapeTypeOK, GaugesPaid, ReadingPaid, CostCoversUtilization
<1>6. ASSUME ReadCost PROVE ScrapeTypeOK' /\ ReadingPaid' /\ CostCoversUtilization'
  <2>1. /\ scraping' = scraping /\ scraping \in Keys /\ stage = "cost" /\ stage' = "done"
        /\ scrapes' = scrapes /\ shown' = [shown EXCEPT !.paid = paid[scraping]]
    BY <1>6, FamilyOrder DEF ReadCost, ScrapeInv, ScrapeTypeOK
  <2>2. /\ paid[scraping] \in SUBSET Followed
        /\ shown \in [source : [Windows -> Followed \cup {0}], paid : SUBSET Followed]
    BY <2>1 DEF ScrapeInv, ScrapeTypeOK
  <2>3. /\ shown' \in [source : [Windows -> Followed \cup {0}], paid : SUBSET Followed]
        /\ shown'.source = shown.source /\ shown'.paid = paid[scraping]
    BY <2>1, <2>2
  <2> QED BY <1>2, <2>1, <2>3 DEF ScrapeInv, ScrapeTypeOK, ReadingPaid, CostCoversUtilization
<1>7. ASSUME EndScrape PROVE ScrapeTypeOK' /\ ReadingPaid' /\ CostCoversUtilization'
  <2>1. scraping' = Nobody /\ stage' = "closed" /\ scrapes' = scrapes /\ shown' = NothingShown
    BY <1>7 DEF EndScrape
  <2>2. shown' \in [source : [Windows -> Followed \cup {0}], paid : SUBSET Followed]
    BY <2>1 DEF NothingShown
  <2> QED BY <1>2, <2>1, <2>2 DEF ScrapeInv, ScrapeTypeOK, ReadingPaid, CostCoversUtilization
<1> QED BY <1>3, <1>4, <1>5, <1>6, <1>7 DEF ScrapeStep, ScrapeInv

LEMMA ScrapeInvNext ==
  ASSUME ScrapeInv, [ScrapeNext]_scrapeVars
  PROVE  ScrapeInv'
<1>1. TypeOK'
  BY ScrapeIsMetrics, TypeNext DEF ScrapeInv, ScrapeTypeOK
<1>2. ASSUME UNCHANGED scrapeVars PROVE ScrapeInv'
  <2>1. UNCHANGED <<pc, event, series, scraping, stage, shown, call, paid, source, scrapes>>
    BY <1>2 DEF scrapeVars, vars, local, view
  <2> QED BY <1>1, <2>1 DEF ScrapeInv, ScrapeTypeOK, SettledFirst, GaugesPaid, ReadingPaid,
                            CostCoversUtilization, Key
<1>3. ASSUME ScrapeFinished PROVE UNCHANGED scrapeVars
  BY <1>3 DEF ScrapeFinished, Finished, scrapeVars
<1>4. ASSUME NEW r \in Recorders, RecordStep(r) PROVE ScrapeInv'
  BY <1>1, <1>4, SettlePreserves, ShowPreserves, EstimatePreserves DEF RecordStep
<1>5. ASSUME NEW r \in Recorders, NEW e \in Events, EnterRecord(r, e) PROVE ScrapeInv'
  BY <1>1, <1>5, EnterPreserves
<1>6. ASSUME (\E k \in series : OpenScrape(k)) \/ ScrapeStep PROVE ScrapeInv'
  BY <1>1, <1>6, ReaderPreserves
<1> QED BY <1>2, <1>3, <1>4, <1>5, <1>6 DEF ScrapeNext

\* A scrape never shows the utilization of a response without its cost, however the
\* recorders of a key run between the scrape's readings and wait for each other.
THEOREM ScrapeCoversUtilization == ScrapeSpec => []CostCoversUtilization
<1>1. ScrapeInit => ScrapeInv
  BY ScrapeInvInit
<1>2. ScrapeInv /\ [ScrapeNext]_scrapeVars => ScrapeInv'
  BY ScrapeInvNext
<1>3. ScrapeInv => CostCoversUtilization
  BY DEF ScrapeInv
<1> QED BY <1>1, <1>2, <1>3, PTL DEF ScrapeSpec

-----------------------------------------------------------------------------
(* What calls and scrapes wait for. That they end is fairness, and stays    *)
(* with TLC (LocksAreGivenBack); what is proved is that each has only so    *)
(* many steps to take, and that nobody waits for somebody who waits.        *)

\* A costMu that is held is held by a recorder of that key that rewrites the file.
HeldForARewrite ==
  \A k \in Keys : costMu[k] # Unlocked =>
    /\ costMu[k] \in Recorders
    /\ pc[costMu[k]] \in Persisting /\ Key(costMu[k]) = k

\* The steps of a call in their order; "idle" is its end.
Place(place) ==
  CASE place = "cost"     -> 1
    [] place = "gauges"   -> 2
    [] place = "estimate" -> 3
    [] place = "read"     -> 4
    [] place = "open"     -> 5
    [] place = "write"    -> 6
    [] OTHER              -> 7

\* A recorder's own steps bring its call nearer to its end, and nothing takes it back.
CallsMoveOn ==
  \A r \in Recorders : pc[r] # "idle" =>
    /\ Step(r) => Place(pc'[r]) > Place(pc[r])
    /\ pc'[r] = pc[r] \/ Place(pc'[r]) > Place(pc[r])

\* Where a recorder and a scrape may have to wait for a costMu, and have to.
RecorderWaits(r) == pc[r] \in {"cost", "estimate"} /\ ~Acquirable(Key(r))
ScrapeWaits == scraping # Nobody /\ stage \in {"cost", "done"} /\ ~Acquirable(scraping)

\* Whoever is waited for rewrites the file, and so neither waits for a costMu nor needs
\* the lock of the maps, which a waiting scrape holds.
WaitsAreShort ==
  /\ \A r \in Recorders : RecorderWaits(r) =>
       costMu[Key(r)] \in Recorders /\ pc[costMu[Key(r)]] \in Persisting
  /\ ScrapeWaits => costMu[scraping] \in Recorders /\ pc[costMu[scraping]] \in Persisting

\* The stages of a scrape in their order; "closed" is its end.
StagePlace ==
  CASE stage = "gauges" -> 1
    [] stage = "cost"   -> 2
    [] stage = "done"   -> 3
    [] OTHER            -> 4

\* The endpoint's own steps bring a scrape nearer to its end, and no call of Record
\* moves it.
ScrapeMovesOn ==
  scraping # Nobody => /\ ScrapeStep => StagePlace' > StagePlace
                       /\ ~ScrapeStep => UNCHANGED <<scraping, stage>>

\* The steps of a recorder.
LEMMA StepMovesOn ==
  ASSUME TypeOK, NEW r \in Recorders, Step(r)
  PROVE  /\ pc[r] # "idle" /\ Place(pc'[r]) > Place(pc[r])
         /\ \A s \in Recorders \ {r} : pc'[s] = pc[s]
<1>1. pc \in [Recorders -> Steps]
  BY DEF TypeOK
<1>2. CASE AddCost(r)
  BY <1>1, <1>2 DEF AddCost, Goto, Place
<1>3. CASE StoreGauges(r)
  BY <1>1, <1>3 DEF StoreGauges, Goto, Return, Place
<1>4. CASE UpdateEstimates(r)
  <2>1. pc[r] = "estimate" /\ (Goto(r, "read") \/ Return(r))
    BY <1>4 DEF UpdateEstimates
  <2> QED BY <1>1, <2>1 DEF Goto, Return, Place
<1>5. CASE ReadEstimates(r) \/ OpenTruncated(r)
  BY <1>1, <1>5 DEF ReadEstimates, OpenTruncated, Goto, Place
<1>6. CASE WriteEstimates(r) \/ WriteFails(r)
  BY <1>1, <1>6 DEF WriteEstimates, WriteFails, Return, Place
<1> QED BY <1>2, <1>3, <1>4, <1>5, <1>6 DEF Step

\* costMu is taken by a call that goes on to the rewrite and given back by one that
\* returns from it.
LEMMA HeldNext ==
  ASSUME TypeOK, Locking, HeldForARewrite, [Next]_vars
  PROVE  HeldForARewrite'
<1>1. /\ pc \in [Recorders -> Steps] /\ costMu \in [Keys -> Recorders \cup {Unlocked}]
      /\ event \in [Recorders -> Events \cup {NoEvent}]
      /\ Unlocked \notin Recorders
      /\ \A r \in Recorders : pc[r] # "idle" => Key(r) \in Keys
  <2>1. \A r \in Recorders : pc[r] # "idle" => event[r] \in Events
    BY DEF TypeOK
  <2>2. \A e \in Events : e.key \in Keys
    BY EventsAssumption
  <2> QED BY <2>1, <2>2, MarkersAssumption DEF TypeOK, Key
\* A recorder that moves, and takes nothing.
<1>2. ASSUME NEW r \in Recorders, UNCHANGED costMu,
             \A s \in Recorders \ {r} : pc'[s] = pc[s] /\ event'[s] = event[s],
             pc[r] \in Persisting => pc'[r] \in Persisting /\ event'[r] = event[r]
      PROVE  HeldForARewrite'
  BY <1>1, <1>2 DEF HeldForARewrite, Key
<1>3. ASSUME NEW r \in Recorders, NEW e \in Events, Begin(r, e)
      PROVE  HeldForARewrite'
  BY <1>1, <1>2, <1>3 DEF Begin, Goto, Persisting
<1>4. ASSUME NEW r \in Recorders, AddCost(r) \/ ReadEstimates(r) \/ OpenTruncated(r)
      PROVE  HeldForARewrite'
  BY <1>1, <1>2, <1>4 DEF AddCost, ReadEstimates, OpenTruncated, Goto, Persisting, shared
<1>5. ASSUME NEW r \in Recorders, StoreGauges(r)
      PROVE  HeldForARewrite'
  BY <1>1, <1>2, <1>5 DEF StoreGauges, Goto, Return, Persisting
<1>6. ASSUME NEW r \in Recorders, UpdateEstimates(r)
      PROVE  HeldForARewrite'
  <2>1. /\ pc[r] = "estimate" /\ Acquirable(Key(r))
        /\ \/ costMu' = [costMu EXCEPT ![Key(r)] = r] /\ Goto(r, "read") /\ UNCHANGED event
           \/ Return(r) /\ UNCHANGED costMu
    BY <1>6 DEF UpdateEstimates
  <2>2. CASE Return(r) /\ UNCHANGED costMu
    BY <1>1, <1>2, <2>1, <2>2 DEF Return, Persisting
  <2>3. CASE costMu' = [costMu EXCEPT ![Key(r)] = r] /\ Goto(r, "read") /\ UNCHANGED event
    BY <1>1, <2>1, <2>3 DEF HeldForARewrite, Goto, Persisting, Key
  <2> QED BY <2>1, <2>2, <2>3
<1>7. ASSUME NEW r \in Recorders, WriteEstimates(r) \/ WriteFails(r)
      PROVE  HeldForARewrite'
  <2>1. pc[r] \in Persisting /\ Release(r) /\ Return(r)
    BY <1>7 DEF WriteEstimates, WriteFails, Persisting
  <2>2. Key(r) \in Keys /\ costMu[Key(r)] = r
    BY <1>1, <2>1 DEF Locking, Persisting
  <2> QED BY <1>1, <2>1, <2>2 DEF HeldForARewrite, Release, Return, Key
<1>8. CASE Restart
  BY <1>8 DEF Restart, HeldForARewrite
<1>9. CASE Finished \/ UNCHANGED vars
  <2>1. UNCHANGED <<costMu, pc, event>>
    BY <1>9 DEF Finished, vars, shared, local
  <2> QED BY <2>1 DEF HeldForARewrite, Key
<1> QED BY <1>3, <1>4, <1>5, <1>6, <1>7, <1>8, <1>9 DEF Next, Step

LEMMA NothingTakesBack ==
  ASSUME TypeOK, [Next]_vars
  PROVE  CallsMoveOn
<1>1. pc \in [Recorders -> Steps]
  BY DEF TypeOK
<1>2. ASSUME NEW r \in Recorders, pc[r] # "idle"
      PROVE  pc'[r] = pc[r] \/ Place(pc'[r]) > Place(pc[r])
  <2>1. ASSUME NEW s \in Recorders, Step(s)
        PROVE  pc'[r] = pc[r] \/ Place(pc'[r]) > Place(pc[r])
    BY <2>1, StepMovesOn
  <2>2. ASSUME NEW s \in Recorders, NEW e \in Events, Begin(s, e)
        PROVE  pc'[r] = pc[r]
    BY <1>1, <1>2, <2>2 DEF Begin, Goto
  <2>3. CASE Restart
    BY <1>1, <1>2, <2>3 DEF Restart, Place, Steps
  <2>4. CASE Finished \/ UNCHANGED vars
    BY <2>4 DEF Finished, vars, local
  <2> QED BY <2>1, <2>2, <2>3, <2>4 DEF Next
<1> QED BY <1>2, StepMovesOn DEF CallsMoveOn

\* A call of Record has at most six steps, whatever the others do, and keeps a costMu only
\* while it rewrites the estimates file (metrics.go:209-213), through crashes and writes
\* that fail too.
THEOREM CallsAreBounded == Spec => []HeldForARewrite /\ [][CallsMoveOn]_vars
<1>1. Init => HeldForARewrite
  BY DEF Init, FreshProcess, HeldForARewrite
<1>2. IInv /\ HeldForARewrite /\ [Next]_vars => HeldForARewrite'
  BY HeldNext DEF IInv
<1>3. IInv /\ [Next]_vars => [CallsMoveOn]_vars
  BY NothingTakesBack DEF IInv
<1> QED BY <1>1, <1>2, <1>3, IInvInit, IInvNext, PTL DEF Spec

LEMMA ScrapeGoesOn ==
  ASSUME [ScrapeNext]_scrapeVars
  PROVE  ScrapeMovesOn
<1>1. CASE ScrapeStep
  BY <1>1, FamilyOrder
     DEF ScrapeStep, ReadGauges, ReadCost, EndScrape, StagePlace, ScrapeMovesOn
<1>2. CASE UNCHANGED <<scraping, stage>> /\ ~ScrapeStep
  BY <1>2 DEF ScrapeMovesOn
<1>3. ASSUME NEW r \in Recorders, (\E e \in Events : EnterRecord(r, e)) \/ RecordStep(r)
      PROVE  UNCHANGED <<scraping, stage>>
  BY <1>3 DEF EnterRecord, RecordStep, SettleCost, ShowUtilization, Estimate, view
<1>4. ASSUME ScrapeFinished \/ UNCHANGED scrapeVars
      PROVE  UNCHANGED <<scraping, stage>>
  BY <1>4 DEF ScrapeFinished, scrapeVars, view
<1>5. ASSUME NEW k \in series, OpenScrape(k)
      PROVE  scraping = Nobody
  BY <1>5 DEF OpenScrape
<1> QED BY <1>1, <1>2, <1>3, <1>4, <1>5 DEF ScrapeNext, ScrapeMovesOn

\* Calls and scrapes do not wait for each other in a circle, although a scrape keeps the
\* maps locked while it waits (metrics.go:494-502): a chain of waits has one link, and
\* ends at a call that is rewriting the estimates file; a scrape has at most three steps.
THEOREM WaitsEndAtARewrite ==
  ScrapeSpec => []WaitsAreShort /\ [][ScrapeMovesOn]_scrapeVars
<1>1. HeldForARewrite /\ ScrapeInv => WaitsAreShort
  <2> SUFFICES ASSUME HeldForARewrite, ScrapeInv PROVE WaitsAreShort
    OBVIOUS
  <2>1. ASSUME NEW r \in Recorders, RecorderWaits(r)
        PROVE  Key(r) \in Keys /\ costMu[Key(r)] # Unlocked
    <3>1. event[r] \in Events
      BY <2>1 DEF RecorderWaits, ScrapeInv, ScrapeTypeOK, TypeOK
    <3> QED BY <2>1, <3>1, EventsAssumption DEF RecorderWaits, Acquirable, Key
  <2>2. ScrapeWaits => scraping \in Keys /\ costMu[scraping] # Unlocked
    BY DEF ScrapeWaits, Acquirable, ScrapeInv, ScrapeTypeOK
  <2> QED BY <2>1, <2>2 DEF HeldForARewrite, WaitsAreShort
<1>2. Init => HeldForARewrite
  BY DEF Init, FreshProcess, HeldForARewrite
<1>3. IInv /\ HeldForARewrite /\ [Next]_vars => HeldForARewrite'
  BY HeldNext DEF IInv
<1>4. [ScrapeNext]_scrapeVars => [ScrapeMovesOn]_scrapeVars
  BY ScrapeGoesOn
<1>5. ScrapeInit => Init
  BY DEF ScrapeInit
<1>6. [ScrapeNext]_scrapeVars => [Next]_vars
  BY ScrapeIsMetrics
<1> QED BY <1>1, <1>2, <1>3, <1>4, <1>5, <1>6, IInvInit, IInvNext, ScrapeInvInit,
           ScrapeInvNext, PTL DEF ScrapeSpec
=============================================================================
