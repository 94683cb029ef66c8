----------------------------- MODULE Recording ------------------------------
(***************************************************************************)
(* What becomes of a measured request once its answer is on the way to the *)
(* client (the end of forwardWithCapture): Metrics.Record, the line in     *)
(* usage.jsonl (log.go), the dump in debug.jsonl (debug.go), the entry in  *)
(* the HAR document (har.go); beside the handlers main's shutdown closes   *)
(* these files one by one and exits, and the process may die at any point. *)
(*                                                                         *)
(* Handlers live on hijacked connections, for which http.Server.Shutdown   *)
(* does not wait, or are waited for five seconds at most.                  *)
(***************************************************************************)
EXTENDS Integers, Sequences, FiniteSets

CONSTANTS
  Handlers,     (* goroutines inside forwardWithCapture         *)
  NoRequest,    (* what a handler that is not running works on  *)
  MaxRequests,  (* bound: measured requests                     *)
  MaxFaults,    (* bound: failed writes                         *)
  MaxBoots      (* bound: starts of the process after the first *)

ASSUME RecordingAssumption ==
  /\ MaxRequests \in Nat /\ MaxFaults \in Nat /\ MaxBoots \in Nat
  /\ NoRequest \notin Nat
  /\ IsFiniteSet(Handlers)

VARIABLES
  pc,        (* the step each handler is at                                 *)
  request,   (* the request it is about, numbered by arrival                *)
  result,    (* "good", "bad" (it has errors) or "unreachable" upstream     *)
  phase,     (* main: serving, the files it has closed, or down             *)
  seen,      (* the requests in this process's metrics                      *)
  logFile,   (* usage.jsonl: the lines that can be read, those glued to the *)
             (* end of a torn one, and whether it ends in a torn one        *)
  broken,    (* the error bufio.Writer keeps once a flush has failed        *)
  reported,  (* requests for which IncLogErrors was called                  *)
  odd,       (* history: requests whose event JSON cannot hold              *)
  debugFile, (* the requests in debug.jsonl                                 *)
  har,       (* traffic.har: the pieces written after the preamble          *)
  first,     (* HARWriter.first                                             *)
  closed,    (* HARWriter.closed                                            *)
  arrived,   (* history: requests so far                                    *)
  clean,     (* history: main ran to its end                                *)
  harHurt,   (* history: a write to this HAR document has failed            *)
  hurt,      (* history: requests whose own write to usage.jsonl failed     *)
  faults,    (* history: failed writes so far                               *)
  boots      (* history: starts so far                                      *)

handler == <<pc, request, result>>
log     == <<logFile, broken, reported, odd>>
harDoc  == <<har, first, closed, harHurt>>
bounds  == <<arrived, faults, boots>>
recVars == <<handler, phase, seen, log, debugFile, harDoc, bounds, clean, hurt>>

Requests == 1 .. MaxRequests
Steps    == {"idle", "record", "log", "debug", "har", "prefix", "entry"}
Phases   == {"serving", "draining", "logClosed", "debugClosed", "harClosed", "down"}
Pieces   == {"entry", "comma", "part", "footer"}

RecordingTypeOK ==
  /\ pc \in [Handlers -> Steps]
  /\ request \in [Handlers -> Requests \cup {NoRequest}]
  /\ \A h \in Handlers : pc[h] # "idle" => request[h] \in Requests
  /\ result \in [Handlers -> {"good", "bad", "unreachable"}]
  /\ phase \in Phases
  /\ seen \subseteq Requests
  /\ logFile \in [lines : SUBSET Requests, glued : SUBSET Requests, torn : BOOLEAN]
  /\ broken \in BOOLEAN /\ first \in BOOLEAN /\ closed \in BOOLEAN
  /\ clean \in BOOLEAN /\ harHurt \in BOOLEAN
  /\ reported \subseteq Requests /\ debugFile \subseteq Requests
  /\ odd \subseteq Requests /\ hurt \subseteq Requests
  /\ har \in Seq(Pieces)
  /\ arrived \in 0 .. MaxRequests
  /\ faults \in 0 .. MaxFaults /\ boots \in 0 .. MaxBoots

NoHandler ==
  /\ pc = [h \in Handlers |-> "idle"]
  /\ request = [h \in Handlers |-> NoRequest]
  /\ result = [h \in Handlers |-> "good"]

Init ==
  /\ NoHandler
  /\ phase = "serving"
  /\ seen = {} /\ reported = {} /\ odd = {} /\ debugFile = {} /\ hurt = {}
  /\ logFile = [lines |-> {}, glued |-> {}, torn |-> FALSE]
  /\ har = << >>
  /\ first = TRUE
  /\ broken = FALSE /\ closed = FALSE /\ clean = FALSE /\ harHurt = FALSE
  /\ arrived = 0 /\ faults = 0 /\ boots = 0

-----------------------------------------------------------------------------
(* The end of forwardWithCapture.                                          *)

Goto(h, step) == pc' = [pc EXCEPT ![h] = step]

Return(h) ==
  /\ Goto(h, "idle")
  /\ request' = [request EXCEPT ![h] = NoRequest]
  /\ result' = [result EXCEPT ![h] = "good"]

\* A write fails.
Fault == faults < MaxFaults /\ faults' = faults + 1

\* The client has its answer, or its 502: the event is made.
Answer(h, outcome) ==
  /\ phase # "down" /\ pc[h] = "idle"
  /\ arrived < MaxRequests
  /\ arrived' = arrived + 1
  /\ request' = [request EXCEPT ![h] = arrived + 1]
  /\ result' = [result EXCEPT ![h] = outcome]
  /\ Goto(h, "record")
  /\ UNCHANGED <<phase, seen, log, debugFile, harDoc, faults, boots, clean, hurt>>

\* metrics.Record(event).
RecordMetrics(h) ==
  /\ pc[h] = "record"
  /\ seen' = seen \cup {request[h]}
  /\ Goto(h, "log")
  /\ UNCHANGED <<request, result, phase, log, debugFile, harDoc, bounds, clean, hurt>>

\* Mutant of AfterLog: the branch for the unreachable upstream lacks its return.
FallsThrough(h) ==
  \/ /\ result[h] = "unreachable"
     /\ Goto(h, "har")
     /\ request' = [request EXCEPT ![h] = NoRequest]
     /\ UNCHANGED result
  \/ result[h] = "bad" /\ Goto(h, "debug") /\ UNCHANGED <<request, result>>
  \/ result[h] = "good" /\ Goto(h, "har") /\ UNCHANGED <<request, result>>

\* After the log an unreachable upstream is done, and only errors are dumped.
AfterLog(h) ==
  \/ result[h] = "unreachable" /\ Return(h)
  \/ result[h] = "bad" /\ Goto(h, "debug") /\ UNCHANGED <<request, result>>
  \/ result[h] = "good" /\ Goto(h, "har") /\ UNCHANGED <<request, result>>

\* Mutant of Appended: the line stays in the buffer.
Unflushed(file, n) == file

\* A line reaches the file; after a torn line it cannot be told from it.
Appended(file, n) ==
  IF file.torn THEN [file EXCEPT !.glued = @ \cup {n}, !.torn = FALSE]
  ELSE [file EXCEPT !.lines = @ \cup {n}]

LogIsOpen == phase \in {"serving", "draining"}

\* buf.Write returns an old error, or Flush finds the file closed.
LogRejects == broken \/ ~LogIsOpen

\* Mutant of Report: an error is only logged.
ReportNothing(h) == UNCHANGED reported

Report(h) == reported' = reported \cup {request[h]}

\* JSONLWriter.Write, when json.Marshal takes the event: under the mutex the line is
\* buffered and flushed.
WriteLog(h) ==
  /\ pc[h] = "log" /\ ~LogRejects
  /\ logFile' = Appended(logFile, request[h])
  /\ AfterLog(h)
  /\ UNCHANGED <<phase, seen, broken, reported, odd, debugFile, harDoc, bounds, clean, hurt>>

\* The flush fails, with none or a part of the line written.
WriteLogFails(h) ==
  /\ pc[h] = "log" /\ ~LogRejects
  /\ Fault
  /\ broken' = TRUE
  /\ \/ UNCHANGED logFile
     \/ logFile' = [logFile EXCEPT !.torn = TRUE]
  /\ Report(h)
  /\ hurt' = hurt \cup {request[h]}
  /\ AfterLog(h)
  /\ UNCHANGED <<phase, seen, odd, debugFile, harDoc, arrived, boots, clean>>

WriteLogRejected(h) ==
  /\ pc[h] = "log" /\ LogRejects
  /\ broken' = TRUE
  /\ Report(h)
  /\ AfterLog(h)
  /\ UNCHANGED <<phase, seen, logFile, odd, debugFile, harDoc, bounds, clean, hurt>>

\* json.Marshal refuses the event before the file is touched: a utilization header may
\* hold NaN or Inf, which ParseFloat takes for a number (anthropic.go) and JSON does not.
WriteLogUnencodable(h) ==
  /\ pc[h] = "log" /\ result[h] # "unreachable"
  /\ odd' = odd \cup {request[h]}
  /\ Report(h)
  /\ AfterLog(h)
  /\ UNCHANGED <<phase, seen, logFile, broken, debugFile, harDoc, bounds, clean, hurt>>

\* DebugWriter.Write: an error is logged and forgotten.
WriteDebug(h) ==
  /\ pc[h] = "debug"
  /\ \/ /\ phase \in {"serving", "draining", "logClosed"}
        /\ debugFile' = debugFile \cup {request[h]}
        /\ UNCHANGED faults
     \/ /\ phase \notin {"serving", "draining", "logClosed"}
        /\ UNCHANGED <<debugFile, faults>>
     \/ Fault /\ UNCHANGED debugFile
  /\ Goto(h, "har")
  /\ UNCHANGED <<request, result, phase, seen, log, harDoc, arrived, boots, clean, hurt>>

-----------------------------------------------------------------------------
(* HARWriter.                                                              *)

\* Mutant of HarFree: the mutex is not waited for.
HarMutexIgnored == TRUE

\* A handler holds HARWriter.mu exactly while it is between its two writes.
HarFree == \A h \in Handlers : pc[h] \notin {"prefix", "entry"}

\* The mutex is taken; a closed document takes no more entries.
LockHar(h) ==
  /\ pc[h] = "har" /\ HarFree
  /\ \/ closed /\ Return(h)
     \/ ~closed /\ Goto(h, "prefix") /\ UNCHANGED <<request, result>>
  /\ UNCHANGED <<phase, seen, log, debugFile, harDoc, bounds, clean, hurt>>

\* The comma, which the first entry goes without.
WritePrefix(h) ==
  /\ pc[h] = "prefix"
  /\ \/ /\ first
        /\ first' = FALSE
        /\ Goto(h, "entry")
        /\ UNCHANGED <<request, result, har, harHurt, faults>>
     \/ /\ ~first
        /\ har' = Append(har, "comma")
        /\ Goto(h, "entry")
        /\ UNCHANGED <<request, result, first, harHurt, faults>>
     \/ /\ ~first
        /\ Fault
        /\ harHurt' = TRUE
        /\ Return(h)
        /\ UNCHANGED <<har, first>>
  /\ UNCHANGED <<phase, seen, log, debugFile, closed, arrived, boots, clean, hurt>>

\* The entry; a failed write may leave a part of it. The mutex is released.
WriteEntry(h) ==
  /\ pc[h] = "entry"
  /\ \/ /\ har' = Append(har, "entry")
        /\ UNCHANGED <<harHurt, faults>>
     \/ /\ Fault
        /\ harHurt' = TRUE
        /\ \/ UNCHANGED har
           \/ har' = Append(har, "part")
  /\ Return(h)
  /\ UNCHANGED <<phase, seen, log, debugFile, first, closed, arrived, boots, clean, hurt>>

-----------------------------------------------------------------------------
(* main.                                                                   *)

\* A signal arrives, then Shutdown returns and jsonlWriter and debugWriter are
\* closed, whatever the handlers are doing.
CloseLogs ==
  /\ \/ phase = "serving" /\ phase' = "draining"
     \/ phase = "draining" /\ phase' = "logClosed"
     \/ phase = "logClosed" /\ phase' = "debugClosed"
  /\ UNCHANGED <<handler, seen, log, debugFile, harDoc, bounds, clean, hurt>>

\* HARWriter.Close: under the mutex the document is closed and the footer written.
CloseHar ==
  /\ phase = "debugClosed" /\ HarFree
  /\ closed' = TRUE
  /\ \/ har' = Append(har, "footer") /\ UNCHANGED <<harHurt, faults>>
     \/ Fault /\ harHurt' = TRUE /\ UNCHANGED har
  /\ phase' = "harClosed"
  /\ UNCHANGED <<handler, seen, log, debugFile, first, arrived, boots, clean, hurt>>

\* The process ends, when main returns or killed before: its handlers end with it
\* wherever they are, and its memory is gone.
Die ==
  /\ phase # "down"
  /\ phase' = "down"
  /\ clean' = (phase = "harClosed")
  /\ pc' = [h \in Handlers |-> "idle"]
  /\ request' = [h \in Handlers |-> NoRequest]
  /\ result' = [h \in Handlers |-> "good"]
  /\ seen' = {}
  /\ broken' = FALSE
  /\ UNCHANGED <<logFile, reported, odd, debugFile, harDoc, bounds, hurt>>

\* The next process appends to usage.jsonl and begins a new HAR document.
Boot ==
  /\ phase = "down" /\ boots < MaxBoots
  /\ boots' = boots + 1
  /\ phase' = "serving"
  /\ har' = << >>
  /\ first' = TRUE
  /\ closed' = FALSE /\ harHurt' = FALSE /\ clean' = FALSE
  /\ UNCHANGED <<handler, seen, log, debugFile, arrived, faults, hurt>>

Over == phase = "down" /\ boots = MaxBoots /\ UNCHANGED recVars

Handle(h) ==
  \/ \E outcome \in {"good", "bad", "unreachable"} : Answer(h, outcome)
  \/ RecordMetrics(h)
  \/ WriteLog(h)
  \/ WriteLogFails(h)
  \/ WriteLogRejected(h)
  \/ WriteLogUnencodable(h)
  \/ WriteDebug(h)
  \/ LockHar(h)
  \/ WritePrefix(h)
  \/ WriteEntry(h)

Next ==
  \/ \E h \in Handlers : Handle(h)
  \/ CloseLogs
  \/ CloseHar
  \/ Die
  \/ Boot
  \/ Over

RecordingSpec == Init /\ [][Next]_recVars

-----------------------------------------------------------------------------
PastLog == {"debug", "har", "prefix", "entry"}

\* Requests whose line is still to be written.
Underway == {request[h] : h \in {k \in Handlers : pc[k] \in {"record", "log"}}}

\* Requests of which neither usage.jsonl nor the error counter will ever tell.
Untold == (1 .. arrived) \ (logFile.lines \cup logFile.glued \cup reported \cup Underway)

\* How often the process has ended.
Deaths == boots + (IF phase = "down" THEN 1 ELSE 0)

\* A request whose call of JSONLWriter.Write has returned is never lost in silence:
\* its line can be read back, or ccnb_log_errors_total was raised for it
\* (log.go:53-78), over failed writes, closing and restarts; the exception is the
\* one line that a later process appends right behind a torn one. Record comes before
\* the line (proxy.go:479-480): what an end of the process may cost is one request of
\* each handler, and nothing else is ever missing.
LoggedOrReported ==
  /\ \A h \in Handlers :
       pc[h] \in PastLog =>
         request[h] \in logFile.lines \cup logFile.glued \cup reported
  /\ Cardinality(logFile.glued) + (IF logFile.torn THEN 1 ELSE 0) <= Cardinality(hurt)
  /\ logFile.lines \cap reported = {}
  /\ Cardinality(Untold) <= Deaths * Cardinality(Handlers)

\* The pieces written to a HAR document make up a list of entries.
EntryList(text) ==
  /\ Len(text) = 0 \/ Len(text) % 2 = 1
  /\ \A i \in DOMAIN text : text[i] = IF i % 2 = 1 THEN "entry" ELSE "comma"
Document(text) == \E list \in {SubSeq(text, 1, Len(text) - 1)} :
                    EntryList(list) /\ text = Append(list, "footer")

WithoutTrailing(text) ==
  IF Len(text) > 0 /\ text[Len(text)] = "comma" THEN SubSeq(text, 1, Len(text) - 1) ELSE text

\* A HAR document that was closed is valid, although handlers still run when it is
\* closed and write to it one after another (har.go:129-160): no entry is cut by
\* another one and nothing follows the footer. One that the process died over can be
\* repaired: without a separator that no entry follows yet, it makes a valid one when
\* the footer is appended (har.go:18-19; the separator and the entry are two writes,
\* har.go:135-144). Failed writes are excepted.
HarCanBeRead ==
  ~harHurt => /\ phase = "harClosed" \/ clean => Document(har)
              /\ ~closed => EntryList(WithoutTrailing(har))

\* The log keeps up with the metrics: between requests, every request in this
\* process's metrics has its line, or the error counter was raised for it; and until a
\* flush fails, from which on bufio.Writer returns its error for every event, the only
\* ones without a line are those JSON cannot hold. log.go:71-73 says more, "each event
\* is flushed immediately and cannot drift behind the in-memory metrics view".
LogKeepsUp ==
  phase = "serving" /\ (\A h \in Handlers : pc[h] = "idle") =>
    LET missing == seen \ (logFile.lines \cup logFile.glued)
    IN missing \subseteq reported /\ (~broken => missing \subseteq odd)
=============================================================================
