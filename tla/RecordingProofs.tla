--------------------------- MODULE RecordingProofs ---------------------------
(***************************************************************************)
(* Proofs about Recording: no request whose line was to be written is lost *)
(* in silence, for any number of handlers, requests, failed writes and     *)
(* starts of the process, the log keeps up with the metrics, and the HAR   *)
(* document stays readable.                                                *)
(***************************************************************************)
EXTENDS Recording, FiniteSetTheorems, SequenceTheorems, TLAPS

\* The lines that can be found in the file, alone or behind a torn one.
Written == logFile.lines \cup logFile.glued

\* Requests are numbered as they come, and each is one handler's.
Numbered ==
  /\ \A h \in Handlers : pc[h] # "idle" => request[h] \in 1 .. arrived
  /\ \A h, k \in Handlers :
       h # k /\ pc[h] # "idle" /\ pc[k] # "idle" => request[h] # request[k]
  /\ Written \cup reported \cup seen \subseteq 1 .. arrived
  /\ hurt \cup odd \subseteq reported

\* Before its handler gets to the log, nothing is known of a request.
Fresh ==
  \A h \in Handlers :
    pc[h] \in {"record", "log"} => request[h] \notin Written \cup reported

\* The lines there are, and the requests it is known of that they have none: as long as
\* no flush has failed, those whose events cannot be encoded.
Known == Written \cup odd \cup (IF broken THEN reported ELSE {})

\* What the metrics have is known of, or about to be.
Following == seen \subseteq Known \cup {request[h] : h \in {k \in Handlers : pc[k] = "log"}}

\* A process that is down has no handlers and no metrics.
Down == phase = "down" => seen = {} /\ ~broken /\ \A h \in Handlers : pc[h] = "idle"

\* Every torn or glued line was some request's failed write.
Torn == Cardinality(logFile.glued) + (IF logFile.torn THEN 1 ELSE 0) <= Cardinality(hurt)

\* The request of a handler that is past the log is written or reported, never both.
Kept ==
  /\ \A h \in Handlers : pc[h] \in PastLog => request[h] \in Written \cup reported
  /\ logFile.lines \cap reported = {}

RInv == RecordingTypeOK /\ Numbered /\ Fresh /\ Following /\ Down /\ Torn /\ Kept

-----------------------------------------------------------------------------
LEMMA InitRInv ==
  ASSUME Init
  PROVE  RInv
<1> USE RecordingAssumption DEF Init, NoHandler
<1>1. RecordingTypeOK
  <2>1. logFile \in [lines : SUBSET Requests, glued : SUBSET Requests, torn : BOOLEAN]
    OBVIOUS
  <2>2. har \in Seq(Pieces)
    OBVIOUS
  <2>3. /\ broken \in BOOLEAN /\ first \in BOOLEAN /\ closed \in BOOLEAN
        /\ clean \in BOOLEAN /\ harHurt \in BOOLEAN
    OBVIOUS
  <2> QED
    BY <2>1, <2>2, <2>3 DEF RecordingTypeOK, Steps, Phases
<1>2. Cardinality({}) = 0
  BY FS_EmptySet
<1>3. Numbered /\ Fresh /\ Following /\ Down /\ Kept
  BY DEF Numbered, Fresh, Following, Down, Kept, Written, PastLog
<1>4. Torn
  BY <1>2 DEF Torn
<1> QED
  BY <1>1, <1>3, <1>4 DEF RInv

\* A handler goes to step s, and drops its request if that is the end.
Goes(h, s) ==
  /\ pc' = [pc EXCEPT ![h] = s]
  /\ \/ s # "idle" /\ UNCHANGED <<request, result>>
     \/ /\ s = "idle" /\ request' = [request EXCEPT ![h] = NoRequest]
        /\ result' = [result EXCEPT ![h] = "good"]

HandlerTypes ==
  /\ pc \in [Handlers -> Steps]
  /\ request \in [Handlers -> Requests \cup {NoRequest}]
  /\ result \in [Handlers -> {"good", "bad", "unreachable"}]
  /\ \A h \in Handlers : pc[h] # "idle" => request[h] \in Requests

LEMMA GoesKeeps ==
  ASSUME HandlerTypes, NEW h \in Handlers, NEW s \in Steps, pc[h] # "idle", Goes(h, s)
  PROVE  /\ HandlerTypes'
         /\ pc'[h] = s /\ (s # "idle" => request'[h] = request[h])
         /\ \A k \in Handlers \ {h} : pc'[k] = pc[k] /\ request'[k] = request[k]
<1>1. /\ pc' \in [Handlers -> Steps] /\ pc'[h] = s
      /\ \A k \in Handlers \ {h} : pc'[k] = pc[k]
  BY DEF Goes, HandlerTypes
<1>2. CASE s = "idle"
  BY <1>1, <1>2 DEF Goes, HandlerTypes
<1>3. CASE s # "idle"
  BY <1>1, <1>3 DEF Goes, HandlerTypes
<1> QED
  BY <1>1, <1>2, <1>3

LEMMA AfterLogGoes ==
  ASSUME HandlerTypes, NEW h \in Handlers, AfterLog(h)
  PROVE  \E s \in {"idle", "debug", "har"} : Goes(h, s)
  BY DEF AfterLog, Return, Goto, Goes, HandlerTypes

\* A step of a handler that adds at most its own request to what is known.
LEMMA GoesNumbered ==
  ASSUME HandlerTypes, Numbered, NEW h \in Handlers, NEW s \in Steps, pc[h] # "idle", Goes(h, s),
         arrived' = arrived, hurt' \cup odd' \subseteq reported',
         Written' \cup reported' \cup seen' \subseteq Written \cup reported \cup seen \cup {request[h]}
  PROVE  Numbered'
<1>1. /\ \A k \in Handlers \ {h} : pc'[k] = pc[k] /\ request'[k] = request[k]
      /\ pc'[h] # "idle" => request'[h] = request[h]
  BY GoesKeeps
<1>2. request[h] \in 1 .. arrived
  BY DEF Numbered
<1>3. \A k \in Handlers : pc'[k] # "idle" => pc[k] # "idle" /\ request'[k] = request[k]
  BY <1>1
<1>4. Written' \cup reported' \cup seen' \subseteq 1 .. arrived'
  BY <1>2 DEF Numbered
<1> QED
  BY <1>3, <1>4 DEF Numbered

LEMMA GoesFresh ==
  ASSUME HandlerTypes, Numbered, Fresh, NEW h \in Handlers, NEW s \in Steps,
         pc[h] # "idle", Goes(h, s), s # "record",
         s = "log" => pc[h] = "record" /\ Written' = Written /\ reported' = reported,
         Written' \cup reported' \subseteq Written \cup reported \cup {request[h]}
  PROVE  Fresh'
<1>1. /\ \A k \in Handlers \ {h} : pc'[k] = pc[k] /\ request'[k] = request[k]
      /\ pc'[h] = s /\ (s # "idle" => request'[h] = request[h])
  BY GoesKeeps
<1>2. ASSUME NEW k \in Handlers, pc'[k] \in {"record", "log"}
      PROVE  request'[k] \notin Written' \cup reported'
  <2>1. CASE k = h
    BY <1>1, <1>2, <2>1 DEF Fresh
  <2>2. CASE k # h
    <3>1. pc[k] # "idle" /\ request'[k] = request[k] /\ request[k] # request[h]
      BY <1>1, <1>2, <2>2 DEF Numbered
    <3>2. request[k] \notin Written \cup reported
      BY <1>1, <1>2, <2>2 DEF Fresh
    <3> QED
      BY <3>1, <3>2
  <2> QED
    BY <2>1, <2>2
<1> QED
  BY <1>2 DEF Fresh

-----------------------------------------------------------------------------
(* The steps that leave metrics and log alone.                             *)

LEMMA PastLogKeeps ==
  ASSUME RInv, NEW h \in Handlers, NEW s \in PastLog \cup {"idle"},
         pc[h] \in PastLog, Goes(h, s),
         UNCHANGED <<phase, seen, log, arrived, hurt>>
  PROVE  HandlerTypes' /\ Numbered' /\ Fresh' /\ Following' /\ Down' /\ Torn' /\ Kept'
<1>1. HandlerTypes /\ pc[h] # "idle" /\ s \in Steps
  BY DEF RInv, RecordingTypeOK, HandlerTypes, PastLog, Steps
<1>2. /\ HandlerTypes'
      /\ pc'[h] = s /\ (s # "idle" => request'[h] = request[h])
      /\ \A k \in Handlers \ {h} : pc'[k] = pc[k] /\ request'[k] = request[k]
  BY <1>1, GoesKeeps
<1>3. Written' = Written /\ UNCHANGED <<logFile, broken, reported, odd, seen, hurt, phase, arrived>>
  BY DEF Written, log
<1>4. Numbered'
  <2>1. hurt' \cup odd' \subseteq reported'
    BY <1>3 DEF RInv, Numbered
  <2> QED
    BY <1>1, <1>3, <2>1, GoesNumbered DEF RInv
<1>5. Fresh'
  <2>1. s # "record" /\ s # "log"
    BY DEF PastLog
  <2> QED
    BY <1>1, <1>3, <2>1, GoesFresh DEF RInv
<1>6. Following'
  <2>1. \A k \in Handlers : (pc'[k] = "log") = (pc[k] = "log")
    BY <1>2 DEF PastLog
  <2>2. \A k \in Handlers : pc[k] = "log" => request'[k] = request[k]
    BY <1>2 DEF PastLog
  <2> QED
    BY <1>3, <2>1, <2>2 DEF RInv, Following, Known
<1>7. Down'
  <2>1. phase # "down"
    BY <1>1 DEF RInv, Down
  <2> QED
    BY <1>3, <2>1 DEF Down
<1>8. Torn'
  BY <1>3 DEF RInv, Torn
<1>9. Kept'
  BY <1>2, <1>3 DEF RInv, Kept, PastLog
<1> QED
  BY <1>2, <1>4, <1>5, <1>6, <1>7, <1>8, <1>9

LEMMA DebugKeeps ==
  ASSUME RInv, NEW h \in Handlers, WriteDebug(h)
  PROVE  RInv'
<1>1. Goes(h, "har") /\ pc[h] \in PastLog /\ "har" \in PastLog \cup {"idle"}
  BY DEF WriteDebug, Goto, Goes, PastLog
<1>2. UNCHANGED <<phase, seen, log, arrived, hurt>>
  BY DEF WriteDebug
<1>3. HandlerTypes' /\ Numbered' /\ Fresh' /\ Following' /\ Down' /\ Torn' /\ Kept'
  BY <1>1, <1>2, PastLogKeeps
<1>4. request[h] \in Requests
  BY <1>1 DEF RInv, RecordingTypeOK, PastLog
<1>5. debugFile' \subseteq Requests /\ faults' \in 0 .. MaxFaults
  BY <1>4, RecordingAssumption DEF RInv, RecordingTypeOK, WriteDebug, Fault
<1>6. UNCHANGED <<phase, seen, logFile, broken, reported, odd, har, first, closed, harHurt,
                  arrived, boots, clean, hurt>>
  BY DEF WriteDebug, log, harDoc
<1>7. RecordingTypeOK'
  BY <1>3, <1>5, <1>6 DEF RInv, RecordingTypeOK, HandlerTypes
<1> QED
  BY <1>3, <1>7 DEF RInv

LEMMA ReturnGoes ==
  ASSUME NEW h \in Handlers, Return(h)
  PROVE  Goes(h, "idle")
  BY DEF Return, Goto, Goes

LEMMA LockHarKeeps ==
  ASSUME RInv, NEW h \in Handlers, LockHar(h)
  PROVE  RInv'
<1>1. pc[h] \in PastLog /\ UNCHANGED <<phase, seen, log, arrived, hurt>>
  BY DEF LockHar, PastLog, bounds
<1>2. \E s \in PastLog \cup {"idle"} : Goes(h, s)
  <2>1. Return(h) => Goes(h, "idle")
    BY ReturnGoes
  <2> QED
    BY <2>1 DEF LockHar, Goto, Goes, PastLog
<1>3. HandlerTypes' /\ Numbered' /\ Fresh' /\ Following' /\ Down' /\ Torn' /\ Kept'
  BY <1>1, <1>2, PastLogKeeps
<1>4. UNCHANGED <<phase, seen, logFile, broken, reported, odd, debugFile, har, first, closed,
                  harHurt, arrived, faults, boots, clean, hurt>>
  BY DEF LockHar, log, harDoc, bounds
<1>5. RecordingTypeOK'
  BY <1>3, <1>4 DEF RInv, RecordingTypeOK, HandlerTypes
<1> QED
  BY <1>3, <1>5 DEF RInv

LEMMA WritePrefixKeeps ==
  ASSUME RInv, NEW h \in Handlers, WritePrefix(h)
  PROVE  RInv'
<1>1. pc[h] \in PastLog /\ UNCHANGED <<phase, seen, log, arrived, hurt>>
  BY DEF WritePrefix, PastLog
<1>2. \E s \in PastLog \cup {"idle"} : Goes(h, s)
  <2>1. Return(h) => Goes(h, "idle")
    BY ReturnGoes
  <2> QED
    BY <2>1 DEF WritePrefix, Goto, Goes, PastLog
<1>3. HandlerTypes' /\ Numbered' /\ Fresh' /\ Following' /\ Down' /\ Torn' /\ Kept'
  BY <1>1, <1>2, PastLogKeeps
<1>4. har \in Seq(Pieces) /\ "comma" \in Pieces
  BY DEF RInv, RecordingTypeOK, Pieces
<1>5. har' = har \/ har' = Append(har, "comma")
  BY DEF WritePrefix
<1>6. har' \in Seq(Pieces)
  BY <1>4, <1>5
<1>7. faults' \in 0 .. MaxFaults
  BY RecordingAssumption DEF RInv, RecordingTypeOK, WritePrefix, Fault
<1>8. first' \in BOOLEAN /\ harHurt' \in BOOLEAN
  <2>1. first \in BOOLEAN /\ harHurt \in BOOLEAN
    BY DEF RInv, RecordingTypeOK
  <2>2. (first' = FALSE \/ first' = first) /\ (harHurt' = TRUE \/ harHurt' = harHurt)
    BY DEF WritePrefix
  <2> QED
    BY <2>1, <2>2
<1>9. UNCHANGED <<phase, seen, logFile, broken, reported, odd, debugFile, closed, arrived, boots,
                  clean, hurt>>
  BY DEF WritePrefix, log
<1>10. RecordingTypeOK'
  BY <1>3, <1>6, <1>7, <1>8, <1>9 DEF RInv, RecordingTypeOK, HandlerTypes
<1> QED
  BY <1>3, <1>10 DEF RInv

LEMMA WriteEntryKeeps ==
  ASSUME RInv, NEW h \in Handlers, WriteEntry(h)
  PROVE  RInv'
<1>1. pc[h] \in PastLog /\ UNCHANGED <<phase, seen, log, arrived, hurt>>
  BY DEF WriteEntry, PastLog
<1>2. Goes(h, "idle") /\ "idle" \in PastLog \cup {"idle"}
  BY ReturnGoes DEF WriteEntry
<1>3. HandlerTypes' /\ Numbered' /\ Fresh' /\ Following' /\ Down' /\ Torn' /\ Kept'
  BY <1>1, <1>2, PastLogKeeps
<1>4. har \in Seq(Pieces) /\ "entry" \in Pieces /\ "part" \in Pieces
  BY DEF RInv, RecordingTypeOK, Pieces
<1>5. har' = har \/ har' = Append(har, "entry") \/ har' = Append(har, "part")
  BY DEF WriteEntry
<1>6. har' \in Seq(Pieces)
  BY <1>4, <1>5
<1>7. faults' \in 0 .. MaxFaults
  BY RecordingAssumption DEF RInv, RecordingTypeOK, WriteEntry, Fault
<1>8. harHurt' \in BOOLEAN
  <2>1. harHurt \in BOOLEAN
    BY DEF RInv, RecordingTypeOK
  <2>2. harHurt' = TRUE \/ harHurt' = harHurt
    BY DEF WriteEntry
  <2> QED
    BY <2>1, <2>2
<1>9. UNCHANGED <<phase, seen, logFile, broken, reported, odd, debugFile, first, closed, arrived,
                  boots, clean, hurt>>
  BY DEF WriteEntry, log
<1>10. RecordingTypeOK'
  BY <1>3, <1>6, <1>7, <1>8, <1>9 DEF RInv, RecordingTypeOK, HandlerTypes
<1> QED
  BY <1>3, <1>10 DEF RInv

-----------------------------------------------------------------------------
(* The steps of metrics and log.                                           *)

LEMMA RecordMetricsKeeps ==
  ASSUME RInv, NEW h \in Handlers, RecordMetrics(h)
  PROVE  RInv'
<1>1. /\ Goes(h, "log") /\ pc[h] = "record" /\ "log" \in Steps /\ HandlerTypes
      /\ request[h] \in Requests /\ request[h] \in 1 .. arrived
  BY DEF RInv, RecordMetrics, Goto, Goes, RecordingTypeOK, HandlerTypes, Steps, Numbered
<1>2. UNCHANGED <<phase, logFile, broken, reported, odd, debugFile, har, first, closed,
                  harHurt, arrived, faults, boots, clean, hurt>>
  BY DEF RecordMetrics, log, harDoc, bounds
<1>3. /\ HandlerTypes'
      /\ pc'[h] = "log" /\ request'[h] = request[h]
      /\ \A k \in Handlers \ {h} : pc'[k] = pc[k] /\ request'[k] = request[k]
  BY <1>1, GoesKeeps
<1>4. Written' = Written /\ Known' = Known /\ seen' = seen \cup {request[h]}
  BY <1>2 DEF Written, Known, RecordMetrics
<1>5. RecordingTypeOK'
  BY <1>1, <1>2, <1>3, <1>4 DEF RInv, RecordingTypeOK, HandlerTypes
<1>6. Numbered'
  <2>1. /\ hurt' \cup odd' \subseteq reported'
        /\ Written' \cup reported' \cup seen' \subseteq Written \cup reported \cup seen \cup {request[h]}
    BY <1>2, <1>4 DEF RInv, Numbered
  <2> QED
    BY <1>1, <1>2, <2>1, GoesNumbered DEF RInv
<1>7. Fresh'
  BY <1>1, <1>2, <1>4, GoesFresh DEF RInv
<1>8. Following'
  <2> DEFINE Logging == {request[k] : k \in {m \in Handlers : pc[m] = "log"}}
             Next1   == {request'[k] : k \in {m \in Handlers : pc'[m] = "log"}}
  <2>1. Logging \cup {request[h]} \subseteq Next1
    BY <1>1, <1>3
  <2>2. seen \subseteq Known \cup Logging
    BY DEF RInv, Following
  <2> HIDE DEF Logging, Next1
  <2>3. seen' \subseteq Known' \cup Next1
    BY <1>4, <2>1, <2>2
  <2> QED
    BY <2>3 DEF Following, Next1
<1>9. Down'
  BY <1>1, <1>2 DEF RInv, Down
<1>10. Torn' /\ Kept'
  BY <1>2, <1>3, <1>4 DEF RInv, Torn, Kept, PastLog
<1> QED
  BY <1>5, <1>6, <1>7, <1>8, <1>9, <1>10 DEF RInv

\* What all outcomes of JSONLWriter.Write have in common: the request becomes
\* written or reported, never both, and nothing else does.
LEMMA LogKeeps ==
  ASSUME RInv, NEW h \in Handlers, pc[h] = "log", AfterLog(h),
         UNCHANGED <<phase, seen, debugFile, har, first, closed, harHurt, arrived, boots, clean>>,
         broken' \in BOOLEAN, faults' \in 0 .. MaxFaults,
         logFile' \in [lines : SUBSET Requests, glued : SUBSET Requests, torn : BOOLEAN],
         hurt' \cup odd' \subseteq reported', Torn', odd \subseteq odd',
         \/ /\ Written' = Written \cup {request[h]} /\ reported' = reported
            /\ logFile'.lines \subseteq logFile.lines \cup {request[h]} /\ broken' = broken
         \/ /\ Written' = Written /\ reported' = reported \cup {request[h]}
            /\ logFile'.lines = logFile.lines
            /\ broken' \/ (request[h] \in odd' /\ broken' = broken)
  PROVE  RInv'
<1>1. /\ HandlerTypes /\ pc[h] # "idle" /\ phase # "down"
      /\ request[h] \in Requests /\ request[h] \notin Written \cup reported
  BY DEF RInv, RecordingTypeOK, HandlerTypes, Fresh, Down
<1>2. PICK s \in {"idle", "debug", "har"} : Goes(h, s)
  BY <1>1, AfterLogGoes
<1>3. s \in Steps /\ s \in PastLog \cup {"idle"} /\ s # "log" /\ s # "record"
  BY DEF Steps, PastLog
<1>4. /\ HandlerTypes'
      /\ pc'[h] = s /\ (s # "idle" => request'[h] = request[h])
      /\ \A k \in Handlers \ {h} : pc'[k] = pc[k] /\ request'[k] = request[k]
  BY <1>1, <1>2, <1>3, GoesKeeps
<1>5. reported' \subseteq Requests /\ odd' \subseteq Requests
  BY <1>1 DEF RInv, RecordingTypeOK
<1>6. RecordingTypeOK'
  BY <1>4, <1>5 DEF RInv, RecordingTypeOK, HandlerTypes
<1>7. Numbered'
  BY <1>1, <1>2, <1>3, GoesNumbered DEF RInv
<1>8. Fresh'
  BY <1>1, <1>2, <1>3, GoesFresh DEF RInv
<1>9. Following'
  <2> DEFINE Logging == {request[k] : k \in {m \in Handlers : pc[m] = "log"}}
             Next1   == {request'[k] : k \in {m \in Handlers : pc'[m] = "log"}}
  <2>1. Logging \subseteq Next1 \cup {request[h]}
    BY <1>4
  <2>2. seen \subseteq Known \cup Logging
    BY DEF RInv, Following
  <2>3. Known \cup {request[h]} \subseteq Known'
    BY DEF Known
  <2> HIDE DEF Logging, Next1
  <2>4. seen' \subseteq Known' \cup Next1
    BY <2>1, <2>2, <2>3
  <2> QED
    BY <2>4 DEF Following, Next1
<1>10. Down'
  BY <1>1 DEF Down
<1>11. Kept'
  <2>1. \A k \in Handlers : pc'[k] \in PastLog => request'[k] \in Written' \cup reported'
    BY <1>3, <1>4 DEF RInv, Kept, PastLog
  <2>2. logFile'.lines \cap reported' = {}
    BY <1>1 DEF RInv, Kept, Written
  <2> QED
    BY <2>1, <2>2 DEF Kept
<1> QED
  BY <1>6, <1>7, <1>8, <1>9, <1>10, <1>11 DEF RInv

\* Sets of requests are finite, so they can be counted.
LEMMA Countable ==
  ASSUME NEW S \in SUBSET Requests, NEW n
  PROVE  /\ Cardinality(S) \in Nat
         /\ Cardinality(S \cup {n}) = IF n \in S THEN Cardinality(S) ELSE Cardinality(S) + 1
<1>1. IsFiniteSet(Requests)
  BY RecordingAssumption, FS_Interval DEF Requests
<1>2. IsFiniteSet(S)
  BY <1>1, FS_Subset
<1> QED
  BY <1>2, FS_AddElement, FS_CardinalityType

LEMMA WriteLogKeeps ==
  ASSUME RInv, NEW h \in Handlers, WriteLog(h)
  PROVE  RInv'
<1> DEFINE n == request[h]
<1>1. /\ n \in Requests /\ hurt \cup odd \subseteq reported
      /\ logFile \in [lines : SUBSET Requests, glued : SUBSET Requests, torn : BOOLEAN]
      /\ hurt \in SUBSET Requests /\ faults \in 0 .. MaxFaults /\ broken \in BOOLEAN
  BY DEF RInv, RecordingTypeOK, WriteLog, Numbered
<1>2. /\ UNCHANGED <<phase, seen, broken, reported, odd, debugFile, har, first, closed, harHurt,
                     arrived, faults, boots, clean, hurt>>
      /\ pc[h] = "log" /\ AfterLog(h) /\ logFile' = Appended(logFile, n)
  BY DEF WriteLog, harDoc, bounds
<1>3. CASE logFile.torn
  <2>1. /\ logFile' \in [lines : SUBSET Requests, glued : SUBSET Requests, torn : BOOLEAN]
        /\ logFile'.lines = logFile.lines /\ logFile'.glued = logFile.glued \cup {n} /\ ~logFile'.torn
    BY <1>1, <1>2, <1>3 DEF Appended
  <2>2. Written' = Written \cup {n}
    BY <2>1 DEF Written
  <2>3. Torn'
    <3> DEFINE G == logFile.glued
    <3>a. G \in SUBSET Requests
      BY <1>1
    <3> HIDE DEF G, n
    <3>b. Cardinality(G) \in Nat /\ Cardinality(G \cup {n}) <= Cardinality(G) + 1
      BY <3>a, Countable
    <3>c. Cardinality(hurt) \in Nat
      BY <1>1, Countable
    <3> USE DEF G
    <3>1. /\ Cardinality(logFile.glued) \in Nat /\ Cardinality(hurt) \in Nat
          /\ Cardinality(logFile.glued \cup {n}) <= Cardinality(logFile.glued) + 1
      BY <3>b, <3>c
    <3>2. Cardinality(logFile.glued) + 1 <= Cardinality(hurt)
      BY <1>3 DEF RInv, Torn
    <3>3. Cardinality(logFile.glued \cup {n}) \in Nat
      BY <1>1, Countable
    <3>4. Cardinality(logFile'.glued) = Cardinality(logFile.glued \cup {n})
      BY <2>1
    <3>5. Cardinality(hurt') = Cardinality(hurt)
      BY <1>2
    <3> QED
      BY <2>1, <3>1, <3>2, <3>3, <3>4, <3>5 DEF Torn
  <2> QED
    BY <1>1, <1>2, <2>1, <2>2, <2>3, LogKeeps
<1>4. CASE ~logFile.torn
  <2>1. /\ logFile' \in [lines : SUBSET Requests, glued : SUBSET Requests, torn : BOOLEAN]
        /\ logFile'.lines = logFile.lines \cup {n} /\ logFile'.glued = logFile.glued
        /\ logFile'.torn = logFile.torn
    BY <1>1, <1>2, <1>4 DEF Appended
  <2>2. Written' = Written \cup {n}
    BY <2>1 DEF Written
  <2>3. Torn'
    BY <1>2, <2>1 DEF RInv, Torn
  <2> QED
    BY <1>1, <1>2, <2>1, <2>2, <2>3, LogKeeps
<1> QED
  BY <1>3, <1>4

LEMMA WriteLogFailsKeeps ==
  ASSUME RInv, NEW h \in Handlers, WriteLogFails(h)
  PROVE  RInv'
<1> DEFINE n == request[h]
<1>1. /\ n \in Requests /\ hurt \cup odd \subseteq reported /\ n \notin reported
      /\ logFile \in [lines : SUBSET Requests, glued : SUBSET Requests, torn : BOOLEAN]
      /\ hurt \in SUBSET Requests
  BY DEF RInv, RecordingTypeOK, WriteLogFails, Numbered, Fresh
<1>2. /\ UNCHANGED <<phase, seen, odd, debugFile, har, first, closed, harHurt, arrived, boots,
                     clean>>
      /\ pc[h] = "log" /\ AfterLog(h) /\ broken' = TRUE
      /\ reported' = reported \cup {n} /\ hurt' = hurt \cup {n}
      /\ logFile' = logFile \/ logFile' = [logFile EXCEPT !.torn = TRUE]
  BY DEF WriteLogFails, harDoc, Report
<1>3. faults' \in 0 .. MaxFaults
  BY RecordingAssumption DEF RInv, RecordingTypeOK, WriteLogFails, Fault
<1>4. /\ logFile' \in [lines : SUBSET Requests, glued : SUBSET Requests, torn : BOOLEAN]
      /\ logFile'.lines = logFile.lines /\ logFile'.glued = logFile.glued
  BY <1>1, <1>2
<1>5. Written' = Written
  BY <1>4 DEF Written
<1>6. Torn'
  <2>1. /\ Cardinality(logFile.glued) \in Nat /\ Cardinality(hurt) \in Nat
    BY <1>1, Countable
  <2>2. Cardinality(hurt \cup {n}) = Cardinality(hurt) + 1
    BY <1>1, Countable
  <2>3. Cardinality(logFile.glued) <= Cardinality(hurt)
    BY <2>1 DEF RInv, Torn
  <2>4. Cardinality(hurt') = Cardinality(hurt) + 1
    BY <1>2, <2>2
  <2>5. Cardinality(logFile'.glued) = Cardinality(logFile.glued)
    BY <1>4
  <2> QED
    BY <2>1, <2>3, <2>4, <2>5 DEF Torn
<1> QED
  BY <1>1, <1>2, <1>3, <1>4, <1>5, <1>6, LogKeeps

LEMMA WriteLogRejectedKeeps ==
  ASSUME RInv, NEW h \in Handlers, WriteLogRejected(h)
  PROVE  RInv'
<1>1. /\ hurt \cup odd \subseteq reported /\ faults \in 0 .. MaxFaults
      /\ logFile \in [lines : SUBSET Requests, glued : SUBSET Requests, torn : BOOLEAN]
  BY DEF RInv, RecordingTypeOK, Numbered
<1>2. /\ UNCHANGED <<phase, seen, logFile, odd, debugFile, har, first, closed, harHurt, arrived,
                     faults, boots, clean, hurt>>
      /\ pc[h] = "log" /\ AfterLog(h) /\ broken' = TRUE
      /\ reported' = reported \cup {request[h]}
  BY DEF WriteLogRejected, harDoc, bounds, Report
<1>3. Written' = Written /\ Torn'
  BY <1>2 DEF RInv, Torn, Written
<1> QED
  BY <1>1, <1>2, <1>3, LogKeeps

LEMMA WriteLogUnencodableKeeps ==
  ASSUME RInv, NEW h \in Handlers, WriteLogUnencodable(h)
  PROVE  RInv'
<1>1. /\ hurt \cup odd \subseteq reported /\ faults \in 0 .. MaxFaults /\ broken \in BOOLEAN
      /\ logFile \in [lines : SUBSET Requests, glued : SUBSET Requests, torn : BOOLEAN]
  BY DEF RInv, RecordingTypeOK, Numbered
<1>2. /\ UNCHANGED <<phase, seen, logFile, broken, debugFile, har, first, closed, harHurt,
                     arrived, faults, boots, clean, hurt>>
      /\ pc[h] = "log" /\ AfterLog(h)
      /\ reported' = reported \cup {request[h]} /\ odd' = odd \cup {request[h]}
  BY DEF WriteLogUnencodable, harDoc, bounds, Report
<1>3. Written' = Written /\ Torn'
  BY <1>2 DEF RInv, Torn, Written
<1> QED
  BY <1>1, <1>2, <1>3, LogKeeps

-----------------------------------------------------------------------------
(* Requests come, the process stops and starts.                            *)

LEMMA AnswerKeeps ==
  ASSUME RInv, NEW h \in Handlers, NEW outcome \in {"good", "bad", "unreachable"},
         Answer(h, outcome)
  PROVE  RInv'
<1> DEFINE n == arrived + 1
<1>1. /\ UNCHANGED <<phase, seen, logFile, broken, reported, odd, debugFile, har, first, closed,
                     harHurt, faults, boots, clean, hurt>>
      /\ phase # "down" /\ arrived' = n /\ n \in Requests /\ arrived \in Nat
      /\ n \in 0 .. MaxRequests
  BY RecordingAssumption DEF RInv, RecordingTypeOK, Answer, log, harDoc, Requests
<1>2. /\ pc' \in [Handlers -> Steps] /\ pc'[h] = "record" /\ request'[h] = n
      /\ request' \in [Handlers -> Requests \cup {NoRequest}]
      /\ result' \in [Handlers -> {"good", "bad", "unreachable"}]
      /\ \A k \in Handlers \ {h} : pc'[k] = pc[k] /\ request'[k] = request[k]
  BY <1>1 DEF RInv, RecordingTypeOK, Answer, Goto, Steps
<1>3. Written' = Written
  BY <1>1 DEF Written
<1>4. /\ Written \cup reported \cup seen \subseteq 1 .. arrived
      /\ n \notin Written \cup reported
      /\ \A k \in Handlers : pc[k] # "idle" => request[k] \in 1 .. arrived /\ request[k] # n
  BY <1>1 DEF RInv, Numbered
<1>5. RecordingTypeOK'
  <2>1. \A k \in Handlers : pc'[k] # "idle" => request'[k] \in Requests
    BY <1>1, <1>2 DEF RInv, RecordingTypeOK
  <2> QED
    BY <1>1, <1>2, <2>1 DEF RInv, RecordingTypeOK
<1>6. Numbered'
  <2>1. 1 .. arrived \subseteq 1 .. n /\ n \in 1 .. n
    BY <1>1
  <2>2. \A k \in Handlers : pc'[k] # "idle" => request'[k] \in 1 .. n
    BY <1>2, <1>4, <2>1
  <2>3. \A j, k \in Handlers :
          j # k /\ pc'[j] # "idle" /\ pc'[k] # "idle" => request'[j] # request'[k]
    <3> HIDE DEF n
    <3> QED
      BY <1>2, <1>4 DEF RInv, Numbered
  <2>4. Written' \cup reported' \cup seen' \subseteq 1 .. n
    BY <1>1, <1>3, <1>4, <2>1
  <2>5. hurt' \cup odd' \subseteq reported'
    BY <1>1 DEF RInv, Numbered
  <2> QED
    BY <1>1, <2>2, <2>3, <2>4, <2>5 DEF Numbered
<1> HIDE DEF n
<1>7. Fresh'
  BY <1>1, <1>2, <1>3, <1>4 DEF RInv, Fresh
<1>8. Following'
  <2> DEFINE Logging == {request[k] : k \in {m \in Handlers : pc[m] = "log"}}
             Next1   == {request'[k] : k \in {m \in Handlers : pc'[m] = "log"}}
  <2>1. pc[h] = "idle"
    BY DEF Answer
  <2>2. Logging \subseteq Next1
    BY <1>2, <2>1
  <2>3. seen \subseteq Known \cup Logging /\ Known' = Known
    BY <1>1, <1>3 DEF RInv, Following, Known
  <2> HIDE DEF Logging, Next1
  <2>4. seen' \subseteq Known' \cup Next1
    BY <1>1, <2>2, <2>3
  <2> QED
    BY <2>4 DEF Following, Next1
<1>9. Down' /\ Torn'
  BY <1>1 DEF RInv, Down, Torn
<1>10. Kept'
  BY <1>1, <1>2, <1>3 DEF RInv, Kept, PastLog
<1> QED
  BY <1>5, <1>6, <1>7, <1>8, <1>9, <1>10 DEF RInv

\* main's steps leave handlers, metrics and log where they are.
LEMMA MainKeeps ==
  ASSUME RInv, UNCHANGED <<pc, request, seen, logFile, broken, reported, odd, arrived, hurt>>,
         phase' = "down" => phase = "down"
  PROVE  Numbered' /\ Fresh' /\ Following' /\ Down' /\ Torn' /\ Kept'
<1>1. Written' = Written /\ Known' = Known
  BY DEF Written, Known
<1> QED
  BY <1>1 DEF RInv, Numbered, Fresh, Following, Down, Torn, Kept

LEMMA CloseLogsKeeps ==
  ASSUME RInv, CloseLogs
  PROVE  RInv'
<1>1. /\ UNCHANGED <<pc, request, result, seen, logFile, broken, reported, odd, debugFile, har, first,
                     closed, harHurt, arrived, faults, boots, clean, hurt>>
      /\ phase' \in Phases /\ phase' # "down"
  BY DEF CloseLogs, handler, log, harDoc, bounds, Phases
<1>2. RecordingTypeOK'
  BY <1>1 DEF RInv, RecordingTypeOK
<1> QED
  BY <1>1, <1>2, MainKeeps DEF RInv

LEMMA CloseHarKeeps ==
  ASSUME RInv, CloseHar
  PROVE  RInv'
<1>1. /\ UNCHANGED <<pc, request, result, seen, logFile, broken, reported, odd, debugFile, first,
                     arrived, boots, clean, hurt>>
      /\ phase' \in Phases /\ phase' # "down" /\ closed' = TRUE
  BY DEF CloseHar, handler, log, Phases
<1>2. faults' \in 0 .. MaxFaults
  BY RecordingAssumption DEF RInv, RecordingTypeOK, CloseHar, Fault
<1>3. har \in Seq(Pieces) /\ "footer" \in Pieces
  BY DEF RInv, RecordingTypeOK, Pieces
<1>4. har' = har \/ har' = Append(har, "footer")
  BY DEF CloseHar
<1>5. har' \in Seq(Pieces)
  BY <1>3, <1>4
<1>6. harHurt' \in BOOLEAN
  <2>1. harHurt \in BOOLEAN
    BY DEF RInv, RecordingTypeOK
  <2>2. harHurt' = TRUE \/ harHurt' = harHurt
    BY DEF CloseHar
  <2> QED
    BY <2>1, <2>2
<1>7. RecordingTypeOK'
  BY <1>1, <1>2, <1>5, <1>6 DEF RInv, RecordingTypeOK
<1> QED
  BY <1>1, <1>7, MainKeeps DEF RInv

LEMMA DieKeeps ==
  ASSUME RInv, Die
  PROVE  RInv'
<1>1. /\ UNCHANGED <<logFile, reported, odd, debugFile, har, first, closed, harHurt, arrived, faults,
                     boots, hurt>>
      /\ phase' = "down" /\ seen' = {} /\ broken' = FALSE /\ clean' = (phase = "harClosed")
      /\ pc' = [h \in Handlers |-> "idle"]
      /\ request' = [h \in Handlers |-> NoRequest]
      /\ result' = [h \in Handlers |-> "good"]
  BY DEF Die, harDoc, bounds
<1>2. Written' = Written /\ \A h \in Handlers : pc'[h] = "idle"
  BY <1>1 DEF Written
<1>3. clean' \in BOOLEAN
  BY <1>1
<1>4. pc' \in [Handlers -> Steps] /\ "down" \in Phases
  BY <1>1 DEF Steps, Phases
<1>5. RecordingTypeOK'
  BY <1>1, <1>2, <1>3, <1>4 DEF RInv, RecordingTypeOK
<1>6. Numbered' /\ Fresh' /\ Following' /\ Down'
  BY <1>1, <1>2 DEF RInv, Numbered, Fresh, Following, Down
<1>7. Torn' /\ Kept'
  BY <1>1, <1>2 DEF RInv, Torn, Kept, PastLog
<1> QED
  BY <1>5, <1>6, <1>7 DEF RInv

LEMMA BootKeeps ==
  ASSUME RInv, Boot
  PROVE  RInv'
<1>1. /\ UNCHANGED <<pc, request, result, seen, logFile, broken, reported, odd, debugFile, arrived,
                     faults, hurt>>
      /\ phase' = "serving" /\ har' = << >> /\ first' = TRUE
      /\ closed' = FALSE /\ harHurt' = FALSE /\ clean' = FALSE
  BY DEF Boot, handler, log
<1>2. boots' \in 0 .. MaxBoots
  BY RecordingAssumption DEF RInv, RecordingTypeOK, Boot
<1>3. har' \in Seq(Pieces)
  BY <1>1
<1>4. RecordingTypeOK'
  BY <1>1, <1>2, <1>3 DEF RInv, RecordingTypeOK, Phases
<1> QED
  BY <1>1, <1>4, MainKeeps DEF RInv

-----------------------------------------------------------------------------
LEMMA NextRInv ==
  ASSUME RInv, [Next]_recVars
  PROVE  RInv'
<1>1. CASE UNCHANGED recVars
  <2>1. UNCHANGED <<pc, request, result, phase, seen, logFile, broken, reported, odd, debugFile, har,
                    first, closed, harHurt, arrived, faults, boots, clean, hurt>>
    BY <1>1 DEF recVars, handler, log, harDoc, bounds
  <2>2. RecordingTypeOK'
    BY <2>1 DEF RInv, RecordingTypeOK
  <2> QED
    BY <2>1, <2>2, MainKeeps DEF RInv
<1>2. ASSUME NEW h \in Handlers, Handle(h)
      PROVE  RInv'
  BY <1>2, AnswerKeeps, RecordMetricsKeeps, WriteLogKeeps, WriteLogFailsKeeps,
     WriteLogRejectedKeeps, WriteLogUnencodableKeeps, DebugKeeps, LockHarKeeps, WritePrefixKeeps, WriteEntryKeeps
  DEF Handle
<1> QED
  BY <1>1, <1>2, CloseLogsKeeps, CloseHarKeeps, DieKeeps, BootKeeps DEF Next, Over

LEMMA RecordingInductive == RecordingSpec => []RInv
<1>1. RInv /\ [Next]_recVars => RInv'
  BY NextRInv
<1> QED
  BY InitRInv, <1>1, PTL DEF RecordingSpec

\* Every reachable state of the end of forwardWithCapture, its files and main's
\* shutdown is of the right type (proxy.go, log.go, debug.go, har.go, main.go).
THEOREM RecordingTypeCorrect == RecordingSpec => []RecordingTypeOK
<1>1. RInv => RecordingTypeOK
  BY DEF RInv
<1> QED
  BY RecordingInductive, <1>1, PTL

-----------------------------------------------------------------------------
(* What the ends of the process cost.                                      *)

CostOfDeaths == Cardinality(Untold) <= Deaths * Cardinality(Handlers)

LEMMA UntoldFinite ==
  ASSUME RInv
  PROVE  /\ IsFiniteSet(Untold) /\ IsFiniteSet(Underway)
         /\ Cardinality(Underway) <= Cardinality(Handlers)
         /\ Deaths \in Nat
<1> DEFINE early == {k \in Handlers : pc[k] \in {"record", "log"}}
           about == {request[h] : h \in early}
           whose == [h \in early |-> request[h]]
<1>1. arrived \in Nat /\ Deaths \in Nat
  BY RecordingAssumption DEF RInv, RecordingTypeOK, Deaths
<1>2. IsFiniteSet(Untold)
  <2>1. IsFiniteSet(1 .. arrived)
    BY <1>1, FS_Interval
  <2> QED
    BY <2>1, FS_Subset DEF Untold
<1>3. IsFiniteSet(early) /\ Cardinality(early) <= Cardinality(Handlers)
  BY RecordingAssumption, FS_Subset
<1>4. whose \in Surjection(early, about)
  BY DEF Surjection
<1>5. about = Underway
  BY DEF Underway
<1> HIDE DEF early, about, whose
<1>6. IsFiniteSet(about) /\ Cardinality(about) <= Cardinality(early)
  BY <1>3, <1>4, FS_Surjection
<1>7. Cardinality(about) \in Nat /\ Cardinality(early) \in Nat /\ Cardinality(Handlers) \in Nat
  BY <1>3, <1>6, RecordingAssumption, FS_CardinalityType
<1> QED
  BY <1>1, <1>2, <1>3, <1>5, <1>6, <1>7

\* A step of a handler after which its request is still underway, or told of.
LEMMA StillTold ==
  ASSUME NEW h \in Handlers, UNCHANGED <<arrived, phase, boots>>,
         Written \subseteq Written', reported \subseteq reported',
         \A k \in Handlers \ {h} : pc'[k] = pc[k] /\ request'[k] = request[k],
         pc[h] \in {"record", "log"} =>
           \/ pc'[h] \in {"record", "log"} /\ request'[h] = request[h]
           \/ request[h] \in Written' \cup reported'
  PROVE  Untold' \subseteq Untold /\ Deaths' = Deaths
<1>1. Underway \subseteq Underway' \cup Written' \cup reported'
  <2>1. ASSUME NEW k \in Handlers, pc[k] \in {"record", "log"}
        PROVE  request[k] \in Underway' \cup Written' \cup reported'
    BY <2>1 DEF Underway
  <2> QED
    BY <2>1 DEF Underway
<1> QED
  BY <1>1 DEF Untold, Written, Deaths

LEMMA HandleTells ==
  ASSUME RInv, NEW h \in Handlers, Handle(h)
  PROVE  Untold' \subseteq Untold /\ Deaths' = Deaths
<1>1. /\ pc \in [Handlers -> Steps] /\ request \in [Handlers -> Requests \cup {NoRequest}]
      /\ result \in [Handlers -> {"good", "bad", "unreachable"}]
      /\ logFile \in [lines : SUBSET Requests, glued : SUBSET Requests, torn : BOOLEAN]
      /\ arrived \in Nat
  BY RecordingAssumption DEF RInv, RecordingTypeOK
<1>2. ASSUME NEW outcome \in {"good", "bad", "unreachable"}, Answer(h, outcome)
      PROVE  Untold' \subseteq Untold /\ Deaths' = Deaths
  <2>1. /\ UNCHANGED <<phase, boots, logFile, reported>> /\ arrived' = arrived + 1
        /\ pc[h] = "idle" /\ pc'[h] = "record" /\ request'[h] = arrived + 1
        /\ \A k \in Handlers \ {h} : pc'[k] = pc[k] /\ request'[k] = request[k]
    BY <1>1, <1>2 DEF Answer, Goto, log
  <2>2. arrived + 1 \in Underway'
    BY <2>1 DEF Underway
  <2>3. Underway \subseteq Underway'
    <3>1. ASSUME NEW k \in Handlers, pc[k] \in {"record", "log"}
          PROVE  request[k] \in Underway'
      BY <2>1, <3>1 DEF Underway
    <3> QED
      BY <3>1 DEF Underway
  <2>4. 1 .. arrived + 1 = (1 .. arrived) \cup {arrived + 1}
    BY <1>1
  <2> QED
    BY <2>1, <2>2, <2>3, <2>4 DEF Untold, Deaths
<1>3. CASE RecordMetrics(h)
  <2>1. /\ UNCHANGED <<arrived, phase, boots, reported, request>> /\ Written' = Written
        /\ pc' = [pc EXCEPT ![h] = "log"]
    BY <1>3 DEF RecordMetrics, Goto, log, bounds, Written
  <2> QED
    BY <1>1, <2>1, StillTold
<1>4. ASSUME AfterLog(h)
      PROVE  \A k \in Handlers \ {h} : pc'[k] = pc[k] /\ request'[k] = request[k]
  BY <1>1, <1>4 DEF AfterLog, Return, Goto
<1>5. CASE WriteLog(h)
  <2>1. UNCHANGED <<arrived, phase, boots, reported>> /\ AfterLog(h)
        /\ logFile' = Appended(logFile, request[h])
    BY <1>5 DEF WriteLog, bounds
  <2>2. Written' = Written \cup {request[h]}
    BY <1>1, <2>1 DEF Written, Appended
  <2> QED
    BY <1>4, <2>1, <2>2, StillTold
<1>6. CASE WriteLogFails(h) \/ WriteLogRejected(h) \/ WriteLogUnencodable(h)
  <2>1. UNCHANGED <<arrived, phase, boots>> /\ AfterLog(h)
        /\ reported' = reported \cup {request[h]}
    BY <1>6 DEF WriteLogFails, WriteLogRejected, WriteLogUnencodable, bounds, Report
  <2>2. Written' = Written
    BY <1>1, <1>6 DEF Written, WriteLogFails, WriteLogRejected, WriteLogUnencodable
  <2> QED
    BY <1>4, <2>1, <2>2, StillTold
<1>7. CASE WriteDebug(h) \/ LockHar(h) \/ WritePrefix(h) \/ WriteEntry(h)
  <2>1. UNCHANGED <<arrived, phase, boots, logFile, reported>>
    BY <1>7 DEF WriteDebug, LockHar, WritePrefix, WriteEntry, log, bounds
  <2>2. pc[h] \notin {"record", "log"}
    BY <1>7 DEF WriteDebug, LockHar, WritePrefix, WriteEntry
  <2>3. \A k \in Handlers \ {h} : pc'[k] = pc[k] /\ request'[k] = request[k]
    BY <1>1, <1>7 DEF WriteDebug, LockHar, WritePrefix, WriteEntry, Return, Goto
  <2>4. Written' = Written
    BY <2>1 DEF Written
  <2> QED
    BY <2>1, <2>2, <2>3, <2>4, StillTold
<1> QED
  BY <1>2, <1>3, <1>5, <1>6, <1>7 DEF Handle

\* An end of the process costs what is underway, which is at most one request of each
\* handler.
LEMMA DieCosts ==
  ASSUME RInv, CostOfDeaths, Die
  PROVE  CostOfDeaths'
<1>1. /\ UNCHANGED <<arrived, boots, logFile, reported>> /\ phase # "down" /\ phase' = "down"
  BY DEF Die, bounds
<1>2. Untold' \subseteq Untold \cup Underway
  BY <1>1 DEF Untold
<1>3. Deaths' = Deaths + 1 /\ Deaths \in Nat
  BY <1>1, UntoldFinite, RecordingAssumption DEF Deaths, RInv, RecordingTypeOK
<1>4. /\ IsFiniteSet(Untold) /\ IsFiniteSet(Underway)
      /\ Cardinality(Underway) <= Cardinality(Handlers)
  BY UntoldFinite
<1> DEFINE all == Untold \cup Underway
<1>5. /\ IsFiniteSet(all)
      /\ Cardinality(all) = Cardinality(Untold) + Cardinality(Underway)
                              - Cardinality(Untold \cap Underway)
  BY <1>4, FS_Union
<1>6. IsFiniteSet(Untold \cap Underway)
  BY <1>4, FS_Subset
<1>7. /\ Cardinality(Untold) \in Nat /\ Cardinality(Underway) \in Nat
      /\ Cardinality(Untold \cap Underway) \in Nat /\ Cardinality(Handlers) \in Nat
  BY <1>4, <1>6, RecordingAssumption, FS_CardinalityType
<1>8. Cardinality(Untold') <= Cardinality(all) /\ Cardinality(Untold') \in Nat
  BY <1>2, <1>5, FS_Subset, FS_CardinalityType
<1> HIDE DEF all
<1>9. Deaths' * Cardinality(Handlers) = Deaths * Cardinality(Handlers) + Cardinality(Handlers)
  BY <1>3, <1>7
<1>10. Cardinality(Untold) <= Deaths * Cardinality(Handlers)
  BY DEF CostOfDeaths
<1>11. Deaths * Cardinality(Handlers) \in Nat
  BY <1>3, <1>7
<1>12. Cardinality(Untold') <= Deaths' * Cardinality(Handlers)
  BY <1>4, <1>5, <1>7, <1>8, <1>9, <1>10, <1>11
<1> QED
  BY <1>12 DEF CostOfDeaths

LEMMA NextCost ==
  ASSUME RInv, CostOfDeaths, [Next]_recVars
  PROVE  CostOfDeaths'
<1>1. ASSUME Untold' \subseteq Untold, Deaths' = Deaths
      PROVE  CostOfDeaths'
  <2>1. IsFiniteSet(Untold) /\ Deaths \in Nat
    BY UntoldFinite
  <2>2. Cardinality(Untold') <= Cardinality(Untold) /\ IsFiniteSet(Untold')
    BY <1>1, <2>1, FS_Subset
  <2>3. /\ Cardinality(Untold') \in Nat /\ Cardinality(Untold) \in Nat
        /\ Deaths * Cardinality(Handlers) \in Nat
    BY <2>1, <2>2, RecordingAssumption, FS_CardinalityType
  <2>4. Cardinality(Untold') <= Deaths' * Cardinality(Handlers)
    BY <1>1, <2>2, <2>3 DEF CostOfDeaths
  <2> QED
    BY <2>4 DEF CostOfDeaths
<1>2. CASE UNCHANGED recVars
  <2>1. Untold' = Untold /\ Deaths' = Deaths
    BY <1>2 DEF recVars, handler, log, bounds, Untold, Underway, Deaths
  <2> QED
    BY <1>1, <2>1
<1>3. CASE CloseLogs \/ CloseHar
  <2>1. UNCHANGED <<pc, request, arrived, boots, logFile, reported>> /\ phase # "down" /\ phase' # "down"
    BY <1>3 DEF CloseLogs, CloseHar, handler, log, bounds
  <2>2. Untold' = Untold /\ Deaths' = Deaths
    BY <2>1 DEF Untold, Underway, Deaths
  <2> QED
    BY <1>1, <2>2
<1>4. CASE Boot
  <2>1. /\ UNCHANGED <<pc, request, arrived, logFile, reported>>
        /\ phase = "down" /\ phase' = "serving" /\ boots' = boots + 1 /\ boots \in Nat
    BY <1>4, RecordingAssumption DEF Boot, handler, log, RInv, RecordingTypeOK
  <2>2. Untold' = Untold /\ Deaths' = Deaths
    BY <2>1 DEF Untold, Underway, Deaths
  <2> QED
    BY <1>1, <2>2
<1>5. ASSUME NEW h \in Handlers, Handle(h)
      PROVE  CostOfDeaths'
  BY <1>1, <1>5, HandleTells
<1> QED
  BY <1>2, <1>3, <1>4, <1>5, DieCosts DEF Next, Over

LEMMA InitCost ==
  ASSUME Init
  PROVE  CostOfDeaths
<1>1. Untold = {} /\ Deaths = 0
  BY DEF Init, Untold, Deaths
<1>2. Cardinality(Handlers) \in Nat /\ Cardinality({}) = 0
  BY RecordingAssumption, FS_CardinalityType, FS_EmptySet
<1> QED
  BY <1>1, <1>2 DEF CostOfDeaths

\* A request whose call of JSONLWriter.Write has returned is in usage.jsonl or was
\* reported, and not both (log.go:53-78), whatever writes fail, however many handlers
\* write while main closes the files, however often the process starts again; and an end
\* of the process costs at most one request of each handler.
THEOREM NoneLostInSilence == RecordingSpec => []LoggedOrReported
<1>1. RInv /\ CostOfDeaths /\ [Next]_recVars => CostOfDeaths'
  BY NextCost
<1>2. RInv /\ CostOfDeaths => LoggedOrReported
  BY DEF RInv, Kept, Torn, Written, LoggedOrReported, CostOfDeaths
<1> QED
  BY RecordingInductive, InitCost, <1>1, <1>2, PTL DEF RecordingSpec

\* Between requests the metrics hold nothing that usage.jsonl lacks and the error counter
\* does not tell of; and as long as no flush of this process has failed, nothing but events
\* that JSON cannot hold (log.go:53-78).
THEOREM LogFollowsMetrics == RecordingSpec => []LogKeepsUp
<1>1. RInv => LogKeepsUp
  <2> SUFFICES ASSUME RInv, \A h \in Handlers : pc[h] = "idle"
               PROVE  /\ seen \ Written \subseteq reported
                      /\ ~broken => seen \ Written \subseteq odd
    BY DEF LogKeepsUp, Written
  <2>1. {request[h] : h \in {k \in Handlers : pc[k] = "log"}} = {}
    OBVIOUS
  <2>2. seen \subseteq Known /\ odd \subseteq reported
    BY <2>1 DEF RInv, Following, Numbered
  <2> QED
    BY <2>2 DEF Known
<1> QED
  BY RecordingInductive, <1>1, PTL

-----------------------------------------------------------------------------
(* The HAR document.                                                       *)

\* Entries and commas take turns.
Alternates(text) == \A i \in DOMAIN text : text[i] = IF i % 2 = 1 THEN "entry" ELSE "comma"

\* A handler holds HARWriter.mu between its two writes; Midway it has written the first.
Writing(h) == pc[h] \in {"prefix", "entry"}
Midway == \E h \in Handlers : pc[h] = "entry"

\* A document that is not closed ends in a comma exactly while an entry is to follow.
Unfinished ==
  /\ Alternates(har)
  /\ phase # "down" =>
       IF Midway THEN ~first /\ Len(har) % 2 = 0
       ELSE IF first THEN Len(har) = 0 ELSE Len(har) % 2 = 1

\* Main closes the document while no handler writes to it, and exits after that.
ClosedLast ==
  /\ \A h, k \in Handlers : Writing(h) /\ Writing(k) => h = k
  /\ closed => HarFree /\ phase \in {"harClosed", "down"}
  /\ phase = "harClosed" \/ clean => closed

Sound == ~harHurt => IF closed THEN Document(har) ELSE Unfinished

HarInv == ClosedLast /\ Sound

LEMMA InitHarInv ==
  ASSUME Init
  PROVE  HarInv
<1>1. har = << >> /\ ~closed /\ ~clean /\ phase = "serving" /\ first /\ Len(har) = 0
  BY DEF Init
<1>2. \A h \in Handlers : pc[h] = "idle"
  BY DEF Init, NoHandler
<1>3. ClosedLast
  BY <1>1, <1>2 DEF ClosedLast, Writing
<1>4. Alternates(har)
  BY <1>1 DEF Alternates
<1>5. ~Midway
  BY <1>2 DEF Midway
<1> QED
  BY <1>1, <1>3, <1>4, <1>5 DEF HarInv, Sound, Unfinished

\* A step that leaves the document, and the handlers at it, alone.
LEMMA ElsewhereKeeps ==
  ASSUME HarInv, UNCHANGED <<har, first, closed, harHurt, clean>>,
         \A k \in Handlers : /\ pc'[k] = "prefix" <=> pc[k] = "prefix"
                             /\ pc'[k] = "entry" <=> pc[k] = "entry",
         phase' = phase \/ (phase \notin {"harClosed", "down"} /\ phase' \notin {"harClosed", "down"})
  PROVE  HarInv'
<1>1. HarFree' <=> HarFree
  BY DEF HarFree
<1>2. ClosedLast'
  BY <1>1 DEF HarInv, ClosedLast, Writing
<1>3. Midway' <=> Midway
  BY DEF Midway
<1>4. Unfinished => Unfinished'
  BY <1>3 DEF Unfinished, Alternates
<1>5. Document(har)' <=> Document(har)
  BY DEF Document, EntryList
<1> QED
  BY <1>2, <1>4, <1>5 DEF HarInv, Sound

\* What is appended to an unfinished document is the next piece, or its end.
LEMMA NextPiece ==
  ASSUME NEW text \in Seq(Pieces), NEW piece \in Pieces, Alternates(text),
         piece = IF Len(text) % 2 = 0 THEN "entry" ELSE "comma"
  PROVE  Alternates(Append(text, piece)) /\ Len(Append(text, piece)) = Len(text) + 1
<1>1. /\ Append(text, piece) \in Seq(Pieces) /\ Len(Append(text, piece)) = Len(text) + 1
      /\ \A i \in 1 .. Len(text) : Append(text, piece)[i] = text[i]
      /\ Append(text, piece)[Len(text) + 1] = piece
  BY AppendProperties
<1>2. Len(text) \in Nat /\ DOMAIN text = 1 .. Len(text)
  BY LenProperties
<1>3. DOMAIN Append(text, piece) = 1 .. Len(text) + 1
  BY <1>1, LenProperties
<1>4. ASSUME NEW i \in DOMAIN Append(text, piece)
      PROVE  Append(text, piece)[i] = IF i % 2 = 1 THEN "entry" ELSE "comma"
  <2>1. CASE i \in 1 .. Len(text)
    BY <1>1, <1>2, <2>1 DEF Alternates
  <2>2. CASE i = Len(text) + 1
    <3>1. (i % 2 = 1) <=> (Len(text) % 2 = 0)
      BY <1>2, <2>2
    <3> QED
      BY <1>1, <2>2, <3>1
  <2> QED
    BY <1>2, <1>3, <2>1, <2>2
<1> QED
  BY <1>1, <1>4 DEF Alternates

LEMMA FooterEnds ==
  ASSUME NEW text \in Seq(Pieces), EntryList(text)
  PROVE  Document(Append(text, "footer"))
<1> DEFINE whole == Append(text, "footer")
<1>1. "footer" \in Pieces
  BY DEF Pieces
<1>2. /\ whole \in Seq(Pieces) /\ Len(whole) = Len(text) + 1
      /\ \A i \in 1 .. Len(text) : whole[i] = text[i]
  BY <1>1, AppendProperties
<1>3. Len(text) \in Nat
  BY LenProperties
<1> HIDE DEF whole
<1>4. /\ SubSeq(whole, 1, Len(text)) \in Seq(Pieces)
      /\ Len(SubSeq(whole, 1, Len(text))) = Len(text)
      /\ \A i \in 1 .. Len(text) : SubSeq(whole, 1, Len(text))[i] = text[i]
  <2>1. \A i \in 1 .. Len(text) : whole[i] \in Pieces
    BY <1>2, <1>3, ElementOfSeq
  <2>2. /\ SubSeq(whole, 1, Len(text)) \in Seq(Pieces)
        /\ Len(SubSeq(whole, 1, Len(text))) = IF 1 <= Len(text) THEN Len(text) - 1 + 1 ELSE 0
        /\ \A i \in 1 .. Len(text) - 1 + 1 : SubSeq(whole, 1, Len(text))[i] = whole[1 + i - 1]
    BY <1>2, <1>3, <2>1, SubSeqProperties
  <2> QED
    BY <1>2, <1>3, <2>2
<1>5. SubSeq(whole, 1, Len(text)) = text
  BY <1>4, SeqEqual
<1>6. Len(whole) - 1 = Len(text)
  BY <1>2, <1>3
<1> QED
  BY <1>5, <1>6 DEF Document, whole

LEMMA LockHarHar ==
  ASSUME RInv, HarInv, NEW h \in Handlers, LockHar(h)
  PROVE  HarInv'
<1>1. /\ UNCHANGED <<har, first, closed, harHurt, clean, phase>>
      /\ pc[h] = "har" /\ HarFree /\ pc \in [Handlers -> Steps]
  BY DEF LockHar, harDoc, RInv, RecordingTypeOK
<1>2. CASE closed /\ Return(h)
  <2>1. pc' = [pc EXCEPT ![h] = "idle"]
    BY <1>2 DEF Return, Goto
  <2> QED
    BY <1>1, <2>1, ElsewhereKeeps
<1>3. CASE ~closed /\ Goto(h, "prefix")
  <2>1. pc' = [pc EXCEPT ![h] = "prefix"]
    BY <1>3 DEF Goto
  <2>2. \A k \in Handlers \ {h} : ~Writing(k)' /\ pc'[k] = pc[k]
    BY <1>1, <2>1 DEF HarFree, Writing
  <2>3. ClosedLast'
    BY <1>1, <1>3, <2>2 DEF HarInv, ClosedLast
  <2>4. Midway' <=> Midway
    BY <1>1, <2>1 DEF Midway
  <2>5. Unfinished => Unfinished'
    BY <1>1, <2>4 DEF Unfinished, Alternates
  <2> QED
    BY <1>1, <1>3, <2>3, <2>5 DEF HarInv, Sound
<1> QED
  BY <1>1, <1>2, <1>3 DEF LockHar

\* Nobody but the handler that writes is at the document.
LEMMA Alone ==
  ASSUME RInv, HarInv, NEW h \in Handlers, Writing(h), NEW s \in Steps,
         pc' = [pc EXCEPT ![h] = s], UNCHANGED <<phase, closed, clean>>
  PROVE  /\ ClosedLast' /\ ~closed /\ phase # "down"
         /\ Midway <=> pc[h] = "entry"
         /\ Midway' <=> s = "entry"
<1>1. pc \in [Handlers -> Steps]
  BY DEF RInv, RecordingTypeOK
<1>2. \A k \in Handlers \ {h} : ~Writing(k) /\ pc'[k] = pc[k]
  BY <1>1 DEF HarInv, ClosedLast
<1>3. pc'[h] = s
  BY <1>1
<1>4. ~closed /\ phase # "down"
  BY DEF HarInv, ClosedLast, HarFree, Writing, RInv, Down
<1>5. ClosedLast'
  BY <1>2, <1>4 DEF HarInv, ClosedLast, Writing
<1> QED
  BY <1>2, <1>3, <1>4, <1>5 DEF Midway, Writing

LEMMA WritePrefixHar ==
  ASSUME RInv, HarInv, NEW h \in Handlers, WritePrefix(h)
  PROVE  HarInv'
<1>1. /\ pc[h] = "prefix" /\ Writing(h) /\ UNCHANGED <<phase, closed, clean>>
      /\ har \in Seq(Pieces)
  BY DEF WritePrefix, Writing, RInv, RecordingTypeOK
<1>2. CASE harHurt'
  <2>1. \E s \in Steps : pc' = [pc EXCEPT ![h] = s]
    BY DEF WritePrefix, Goto, Return, Steps
  <2> QED
    BY <1>1, <1>2, <2>1, Alone DEF HarInv, Sound
<1>3. CASE ~harHurt'
  <2>1. pc' = [pc EXCEPT ![h] = "entry"] /\ harHurt' = harHurt /\ "entry" \in Steps
    BY <1>3 DEF WritePrefix, Goto, Steps
  <2>2. ClosedLast' /\ ~closed /\ phase # "down" /\ ~Midway /\ Midway'
    BY <1>1, <2>1, Alone
  <2>3. Unfinished
    BY <1>3, <2>1, <2>2 DEF HarInv, Sound
  <2>4. CASE first
    <3>1. Len(har) = 0 /\ Alternates(har) /\ har' = har /\ ~first'
      BY <2>2, <2>3, <2>4 DEF Unfinished, WritePrefix
    <3>2. Alternates(har')
      BY <3>1
    <3>3. Len(har') % 2 = 0
      BY <3>1
    <3>4. Alternates(har)'
      BY <3>2 DEF Alternates
    <3>5. Unfinished'
      BY <2>2, <3>1, <3>3, <3>4 DEF Unfinished
    <3> QED
      BY <1>1, <2>2, <3>5 DEF HarInv, Sound
  <2>5. CASE ~first
    <3>1. Len(har) % 2 = 1 /\ Alternates(har) /\ har' = Append(har, "comma") /\ ~first'
      BY <1>3, <2>1, <2>2, <2>3, <2>5 DEF Unfinished, WritePrefix
    <3>2. Alternates(Append(har, "comma")) /\ Len(Append(har, "comma")) = Len(har) + 1
      <4>1. "comma" \in Pieces /\ "comma" = IF Len(har) % 2 = 0 THEN "entry" ELSE "comma"
        BY <3>1 DEF Pieces
      <4> QED
        BY <1>1, <3>1, <4>1, NextPiece
    <3>3. Len(har) \in Nat
      BY <1>1, LenProperties
    <3>4. Len(har') % 2 = 0
      BY <3>1, <3>2, <3>3
    <3>5. Alternates(har)'
      BY <3>1, <3>2 DEF Alternates
    <3>6. Unfinished'
      BY <2>2, <3>1, <3>4, <3>5 DEF Unfinished
    <3> QED
      BY <1>1, <2>2, <3>6 DEF HarInv, Sound
  <2> QED
    BY <2>4, <2>5
<1> QED
  BY <1>2, <1>3

LEMMA WriteEntryHar ==
  ASSUME RInv, HarInv, NEW h \in Handlers, WriteEntry(h)
  PROVE  HarInv'
<1>1. /\ pc[h] = "entry" /\ Writing(h) /\ UNCHANGED <<phase, closed, clean, first>>
      /\ har \in Seq(Pieces) /\ pc' = [pc EXCEPT ![h] = "idle"] /\ "idle" \in Steps
  BY DEF WriteEntry, Writing, RInv, RecordingTypeOK, Return, Goto, Steps
<1>2. ClosedLast' /\ ~closed /\ phase # "down" /\ Midway /\ ~Midway'
  BY <1>1, Alone
<1>3. CASE harHurt'
  BY <1>2, <1>3 DEF HarInv, Sound
<1>4. CASE ~harHurt'
  <2>1. har' = Append(har, "entry") /\ harHurt' = harHurt
    BY <1>4 DEF WriteEntry
  <2>2. ~first /\ Len(har) % 2 = 0 /\ Alternates(har)
    BY <1>2, <1>4, <2>1 DEF HarInv, Sound, Unfinished
  <2>3. Alternates(Append(har, "entry")) /\ Len(Append(har, "entry")) = Len(har) + 1
    <3>1. "entry" \in Pieces /\ "entry" = IF Len(har) % 2 = 0 THEN "entry" ELSE "comma"
      BY <2>2 DEF Pieces
    <3> QED
      BY <1>1, <2>2, <3>1, NextPiece
  <2>4. Len(har) \in Nat
    BY <1>1, LenProperties
  <2>5. Len(har') % 2 = 1
    BY <2>1, <2>2, <2>3, <2>4
  <2>6. Alternates(har)'
    BY <2>1, <2>3 DEF Alternates
  <2>7. Unfinished'
    BY <1>1, <1>2, <2>2, <2>5, <2>6 DEF Unfinished
  <2> QED
    BY <1>1, <1>2, <2>7 DEF HarInv, Sound
<1> QED
  BY <1>3, <1>4

LEMMA CloseHarHar ==
  ASSUME RInv, HarInv, CloseHar
  PROVE  HarInv'
<1>1. /\ closed' /\ phase' = "harClosed" /\ HarFree /\ phase = "debugClosed"
      /\ UNCHANGED <<pc, first, clean>> /\ har \in Seq(Pieces)
  BY DEF CloseHar, handler, RInv, RecordingTypeOK
<1>2. ClosedLast'
  BY <1>1 DEF HarInv, ClosedLast, HarFree, Writing
<1>3. CASE harHurt'
  BY <1>2, <1>3 DEF HarInv, Sound
<1>4. CASE ~harHurt'
  <2>1. har' = Append(har, "footer") /\ harHurt' = harHurt
    BY <1>4 DEF CloseHar
  <2>2. ~Midway /\ ~closed
    BY <1>1 DEF Midway, HarFree, HarInv, ClosedLast
  <2>3. EntryList(har)
    BY <1>1, <1>4, <2>1, <2>2 DEF HarInv, Sound, Unfinished, Alternates, EntryList
  <2>4. Document(Append(har, "footer"))
    BY <1>1, <2>3, FooterEnds
  <2>5. Document(har)'
    BY <2>1, <2>4 DEF Document, EntryList
  <2> QED
    BY <1>1, <1>2, <2>5 DEF HarInv, Sound
<1> QED
  BY <1>3, <1>4

LEMMA DieHar ==
  ASSUME RInv, HarInv, Die
  PROVE  HarInv'
<1>1. /\ UNCHANGED <<har, first, closed, harHurt>>
      /\ phase' = "down" /\ clean' = (phase = "harClosed")
      /\ pc' = [h \in Handlers |-> "idle"]
  BY DEF Die, harDoc
<1>2. \A h \in Handlers : pc'[h] = "idle"
  BY <1>1
<1>3. ClosedLast'
  BY <1>1, <1>2 DEF HarInv, ClosedLast, HarFree, Writing
<1>4. Unfinished => Unfinished'
  BY <1>1 DEF Unfinished, Alternates
<1>5. Document(har)' <=> Document(har)
  BY <1>1 DEF Document, EntryList
<1> QED
  BY <1>1, <1>3, <1>4, <1>5 DEF HarInv, Sound

LEMMA BootHar ==
  ASSUME RInv, HarInv, Boot
  PROVE  HarInv'
<1>1. /\ UNCHANGED pc /\ phase = "down"
      /\ phase' = "serving" /\ har' = << >> /\ first' = TRUE /\ closed' = FALSE /\ clean' = FALSE
  BY DEF Boot, handler
<1>2. \A h \in Handlers : pc'[h] = "idle"
  BY <1>1 DEF RInv, Down
<1>3. ClosedLast'
  BY <1>1, <1>2 DEF ClosedLast, Writing
<1>4. Alternates(har)' /\ Len(har') = 0 /\ ~Midway'
  BY <1>1, <1>2 DEF Alternates, Midway
<1>5. Unfinished'
  BY <1>1, <1>4 DEF Unfinished
<1> QED
  BY <1>1, <1>3, <1>5 DEF HarInv, Sound

\* The steps of a handler before the HAR document.
LEMMA EarlierHar ==
  ASSUME RInv, HarInv, NEW h \in Handlers,
         \/ \E outcome \in {"good", "bad", "unreachable"} : Answer(h, outcome)
         \/ RecordMetrics(h) \/ WriteLog(h) \/ WriteLogFails(h) \/ WriteLogRejected(h)
         \/ WriteLogUnencodable(h) \/ WriteDebug(h)
  PROVE  HarInv'
<1>1. UNCHANGED <<har, first, closed, harHurt, clean, phase>>
  BY DEF Answer, RecordMetrics, WriteLog, WriteLogFails, WriteLogRejected,
         WriteLogUnencodable, WriteDebug, harDoc
<1>2. /\ pc[h] \in {"idle", "record", "log", "debug"}
      /\ \E s \in {"idle", "record", "log", "debug", "har"} : pc' = [pc EXCEPT ![h] = s]
  BY DEF Answer, RecordMetrics, WriteLog, WriteLogFails, WriteLogRejected,
         WriteLogUnencodable, WriteDebug, AfterLog, Return, Goto
<1>3. pc \in [Handlers -> Steps]
  BY DEF RInv, RecordingTypeOK
<1>4. \A k \in Handlers : /\ pc'[k] = "prefix" <=> pc[k] = "prefix"
                          /\ pc'[k] = "entry" <=> pc[k] = "entry"
  BY <1>2, <1>3
<1> QED
  BY <1>1, <1>4, ElsewhereKeeps

LEMMA NextHarInv ==
  ASSUME RInv, HarInv, [Next]_recVars
  PROVE  HarInv'
<1>1. CASE UNCHANGED recVars
  <2>1. UNCHANGED <<har, first, closed, harHurt, clean, phase, pc>>
    BY <1>1 DEF recVars, handler, harDoc
  <2> QED
    BY <2>1, ElsewhereKeeps
<1>2. CASE CloseLogs
  <2>1. /\ UNCHANGED <<har, first, closed, harHurt, clean, pc>>
        /\ phase \notin {"harClosed", "down"} /\ phase' \notin {"harClosed", "down"}
    BY <1>2 DEF CloseLogs, handler, harDoc
  <2> QED
    BY <2>1, ElsewhereKeeps
<1>3. ASSUME NEW h \in Handlers, Handle(h)
      PROVE  HarInv'
  BY <1>3, EarlierHar, LockHarHar, WritePrefixHar, WriteEntryHar DEF Handle
<1> QED
  BY <1>1, <1>2, <1>3, CloseHarHar, DieHar, BootHar DEF Next, Over

\* What WithoutTrailing leaves of an unfinished document is a list of entries.
LEMMA TrailingCut ==
  ASSUME NEW text \in Seq(Pieces), Alternates(text)
  PROVE  EntryList(WithoutTrailing(text))
<1> DEFINE n == Len(text)
<1>1. n \in Nat /\ DOMAIN text = 1 .. n
  BY LenProperties
<1>2. CASE n % 2 = 1
  <2>1. n > 0 /\ text[n] = "entry"
    BY <1>1, <1>2 DEF Alternates
  <2> QED
    BY <1>2, <2>1 DEF WithoutTrailing, EntryList, Alternates
<1>3. CASE n = 0
  BY <1>3 DEF WithoutTrailing, EntryList, Alternates
<1>4. CASE n % 2 = 0 /\ n # 0
  <2> DEFINE cut == SubSeq(text, 1, n - 1)
  <2>1. n > 1 /\ n \in 1 .. n /\ (n - 1) % 2 = 1
    BY <1>1, <1>4
  <2>2. text[n] = "comma"
    BY <1>1, <1>4, <2>1 DEF Alternates
  <2>3. \A i \in 1 .. n - 1 : text[i] \in Pieces
    BY <1>1, ElementOfSeq
  <2>4. /\ cut \in Seq(Pieces)
        /\ Len(cut) = IF 1 <= n - 1 THEN n - 1 - 1 + 1 ELSE 0
        /\ \A i \in 1 .. n - 1 - 1 + 1 : cut[i] = text[1 + i - 1]
    <3>1. n - 1 \in Int /\ 1 \in Int
      BY <1>1
    <3> HIDE DEF n
    <3> QED
      BY <2>3, <3>1, SubSeqProperties
  <2>5. WithoutTrailing(text) = cut
    BY <2>1, <2>2 DEF WithoutTrailing
  <2> HIDE DEF cut
  <2>a. DOMAIN cut = 1 .. Len(cut)
    BY <2>4, LenProperties
  <2>b. Len(cut) = n - 1
    <3> HIDE DEF n
    <3> QED
      BY <1>1, <2>1, <2>4
  <2>6. Len(cut) = n - 1 /\ DOMAIN cut = 1 .. n - 1
    BY <2>a, <2>b
  <2>7. \A i \in DOMAIN cut : cut[i] = text[i] /\ i \in DOMAIN text
    <3> HIDE DEF n
    <3>1. ASSUME NEW i \in 1 .. n - 1
          PROVE  cut[i] = text[i] /\ i \in 1 .. n
      <4>1. i \in 1 .. n - 1 - 1 + 1 /\ 1 + i - 1 = i /\ i \in 1 .. n
        BY <1>1
      <4>2. cut[i] = text[1 + i - 1]
        BY <2>4, <4>1
      <4> QED
        BY <4>1, <4>2
    <3> QED
      BY <1>1, <2>6, <3>1
  <2>8. EntryList(cut)
    BY <2>1, <2>6, <2>7 DEF EntryList, Alternates
  <2> QED
    BY <2>5, <2>8
<1> QED
  BY <1>1, <1>2, <1>3, <1>4

\* The HAR document that main closes is valid, and one the process died over can be
\* repaired (har.go:129-160), whatever handlers still write while main shuts down:
\* writes that fail are excepted.
THEOREM HarStaysReadable == RecordingSpec => []HarCanBeRead
<1>1. RInv /\ HarInv /\ [Next]_recVars => HarInv'
  BY NextHarInv
<1>2. RInv /\ HarInv => HarCanBeRead
  <2> SUFFICES ASSUME RInv, HarInv, ~harHurt
               PROVE  /\ phase = "harClosed" \/ clean => Document(har)
                      /\ ~closed => EntryList(WithoutTrailing(har))
    BY DEF HarCanBeRead
  <2>1. phase = "harClosed" \/ clean => Document(har)
    BY DEF HarInv, ClosedLast, Sound
  <2>2. har \in Seq(Pieces)
    BY DEF RInv, RecordingTypeOK
  <2>3. ~closed => Alternates(har)
    BY DEF HarInv, Sound, Unfinished
  <2> QED
    BY <2>1, <2>2, <2>3, TrailingCut
<1> QED
  BY RecordingInductive, InitHarInv, <1>1, <1>2, PTL DEF RecordingSpec
=============================================================================
