------------------------------ MODULE Throttle ------------------------------
(***************************************************************************)
(* throttledLog (throttle.go): callers look a category's entry up under    *)
(* throttleMu, then read the clock, test and set lastLog and count the     *)
(* suppressed messages without any lock. suppressed is an atomic counter;  *)
(* lastLog is a plain time.Time of several words, read and written by      *)
(* whoever gets there.                                                     *)
(***************************************************************************)
EXTENDS Integers, Sequences, FiniteSets, Functions

CONSTANTS
  Callers,     (* goroutines that may call throttledLog     *)
  Categories,  (* the categories they log under             *)
  Interval,    (* the 60 seconds, in ticks of the clock     *)
  Never,       (* lastLog of a new entry, the zero time     *)
  NoCategory,  (* the category of a caller that is not here *)
  MaxCalls,    (* bound: calls                              *)
  MaxClock     (* bound: the clock                          *)

ASSUME ThrottleAssumption ==
  /\ IsFiniteSet(Callers)
  /\ Interval \in Nat \ {0} /\ MaxCalls \in Nat /\ MaxClock \in Nat
  /\ Never \notin Nat
  /\ NoCategory \notin Categories

VARIABLES
  clock,       (* time.Now                                              *)
  entries,     (* the categories that have an entry                     *)
  lastLog,     (* entry.lastLog by category                             *)
  suppressed,  (* entry.suppressed by category                          *)
  pc,          (* the step each caller is at                            *)
  category,    (* throttledLog's argument                               *)
  ok,          (* whether the entry was found                           *)
  now,         (* the caller's reading of the clock                     *)
  owed,        (* the suppressed count the caller's line will report    *)
  calls,       (* history: calls so far, by category                    *)
  told,        (* history: calls that printed lines account for         *)
  printed,     (* history: the clock readings of the lines, by category *)
  met          (* history: categories that two callers were in at once  *)

entry == <<entries, lastLog, suppressed>>
local == <<pc, category, ok, now, owed>>
history == <<calls, told, printed, met>>
throttleVars == <<clock, entry, local, history>>

Steps == {"idle", "clock", "test", "suppress", "swap", "store", "print"}

ThrottleTypeOK ==
  /\ clock \in 0 .. MaxClock
  /\ entries \subseteq Categories
  /\ lastLog \in [Categories -> (0 .. MaxClock) \cup {Never}]
  /\ suppressed \in [Categories -> Nat]
  /\ pc \in [Callers -> Steps]
  /\ category \in [Callers -> Categories \cup {NoCategory}]
  /\ \A g \in Callers : pc[g] # "idle" => category[g] \in entries
  /\ ok \in [Callers -> BOOLEAN]
  /\ now \in [Callers -> 0 .. MaxClock]
  /\ owed \in [Callers -> Nat]
  /\ calls \in [Categories -> Nat]
  /\ told \in [Categories -> Nat]
  /\ printed \in [Categories -> Seq(0 .. MaxClock)]
  /\ met \subseteq Categories

Init ==
  /\ clock = 0
  /\ entries = {}
  /\ lastLog = [c \in Categories |-> Never]
  /\ suppressed = [c \in Categories |-> 0]
  /\ pc = [g \in Callers |-> "idle"]
  /\ category = [g \in Callers |-> NoCategory]
  /\ ok = [g \in Callers |-> FALSE]
  /\ now = [g \in Callers |-> 0]
  /\ owed = [g \in Callers |-> 0]
  /\ calls = [c \in Categories |-> 0]
  /\ told = [c \in Categories |-> 0]
  /\ printed = [c \in Categories |-> << >>]
  /\ met = {}

-----------------------------------------------------------------------------
Goto(g, step) == pc' = [pc EXCEPT ![g] = step]

\* Returning drops the locals.
Return(g) ==
  /\ Goto(g, "idle")
  /\ category' = [category EXCEPT ![g] = NoCategory]
  /\ ok' = [ok EXCEPT ![g] = FALSE]
  /\ now' = [now EXCEPT ![g] = 0]
  /\ owed' = [owed EXCEPT ![g] = 0]

\* A caller comes to a category that another caller is in.
Meet(c) == met' = IF \E h \in Callers : category[h] = c THEN met \cup {c} ELSE met

\* Mutant of Lookup: a new entry is not put into the map.
LookupUnmade(g, c) ==
  /\ pc[g] = "idle"
  /\ SumFunction(calls) < MaxCalls
  /\ calls' = [calls EXCEPT ![c] = @ + 1]
  /\ category' = [category EXCEPT ![g] = c]
  /\ ok' = [ok EXCEPT ![g] = c \in entries]
  /\ Goto(g, "clock")
  /\ Meet(c)
  /\ UNCHANGED <<clock, entry, now, owed, told, printed>>

\* Under throttleMu the entry is found or made.
Lookup(g, c) ==
  /\ pc[g] = "idle"
  /\ SumFunction(calls) < MaxCalls
  /\ calls' = [calls EXCEPT ![c] = @ + 1]
  /\ category' = [category EXCEPT ![g] = c]
  /\ ok' = [ok EXCEPT ![g] = c \in entries]
  /\ entries' = entries \cup {c}
  /\ Goto(g, "clock")
  /\ Meet(c)
  /\ UNCHANGED <<clock, lastLog, suppressed, now, owed, told, printed>>

ReadClock(g) ==
  /\ pc[g] = "clock"
  /\ now' = [now EXCEPT ![g] = clock]
  /\ Goto(g, "test")
  /\ UNCHANGED <<clock, entry, category, ok, owed, history>>

\* now.Sub(entry.lastLog) is less than 60 seconds; the zero time is long ago.
Recent(g) ==
  LET last == lastLog[category[g]]
  IN last # Never /\ now[g] - last < Interval

\* A zero lastLog read while another caller writes it may be torn, half zero and
\* half new, and then counts as any time at all.
Torn(g) ==
  /\ lastLog[category[g]] = Never
  /\ \E h \in Callers \ {g} : pc[h] = "store" /\ category[h] = category[g]

\* A new entry is not tested: its maker logs.
Test(g) ==
  /\ pc[g] = "test"
  /\ \/ ok[g] /\ (Recent(g) \/ Torn(g)) /\ Goto(g, "suppress")
     \/ ~(ok[g] /\ Recent(g)) /\ Goto(g, "swap")
  /\ UNCHANGED <<clock, entry, category, ok, now, owed, history>>

Suppress(g) ==
  /\ pc[g] = "suppress"
  /\ suppressed' = [suppressed EXCEPT ![category[g]] = @ + 1]
  /\ Return(g)
  /\ UNCHANGED <<clock, entries, lastLog, history>>

\* Mutant of Swap: the count is read and left.
LoadOnly(g) ==
  /\ pc[g] = "swap"
  /\ owed' = [owed EXCEPT ![g] = suppressed[category[g]]]
  /\ Goto(g, "store")
  /\ UNCHANGED <<clock, entry, category, ok, now, history>>

\* The count is taken and reset in one atomic step.
Swap(g) ==
  /\ pc[g] = "swap"
  /\ owed' = [owed EXCEPT ![g] = suppressed[category[g]]]
  /\ suppressed' = [suppressed EXCEPT ![category[g]] = 0]
  /\ Goto(g, "store")
  /\ UNCHANGED <<clock, entries, lastLog, category, ok, now, history>>

\* Mutant of StoreLast: a new entry is left with the zero time.
StoreFoundOnly(g) ==
  /\ pc[g] = "store"
  /\ lastLog' = IF ok[g] THEN [lastLog EXCEPT ![category[g]] = now[g]] ELSE lastLog
  /\ Goto(g, "print")
  /\ UNCHANGED <<clock, entries, suppressed, category, ok, now, owed, history>>

\* entry.lastLog = now, whoever else has written it since it was read.
StoreLast(g) ==
  /\ pc[g] = "store"
  /\ lastLog' = [lastLog EXCEPT ![category[g]] = now[g]]
  /\ Goto(g, "print")
  /\ UNCHANGED <<clock, entries, suppressed, category, ok, now, owed, history>>

\* The line tells of this call and of the suppressed ones.
PrintLine(g) ==
  /\ pc[g] = "print"
  /\ told' = [told EXCEPT ![category[g]] = @ + 1 + owed[g]]
  /\ printed' = [printed EXCEPT ![category[g]] = Append(@, now[g])]
  /\ Return(g)
  /\ UNCHANGED <<clock, entry, calls, met>>

Tick ==
  /\ clock < MaxClock
  /\ clock' = clock + 1
  /\ UNCHANGED <<entry, local, history>>

Quiet ==
  /\ \A g \in Callers : pc[g] = "idle"
  /\ SumFunction(calls) = MaxCalls
  /\ UNCHANGED throttleVars

Throttled(g) ==
  \/ ReadClock(g)
  \/ Test(g)
  \/ Suppress(g)
  \/ Swap(g)
  \/ StoreLast(g)
  \/ PrintLine(g)

Next ==
  \/ \E g \in Callers, c \in Categories : Lookup(g, c)
  \/ \E g \in Callers : Throttled(g)
  \/ Tick
  \/ Quiet

ThrottleSpec == Init /\ [][Next]_throttleVars

-----------------------------------------------------------------------------
\* Suppressed messages are counted and reported in a later line
\* (throttle.go:12): however the callers race for the entry, every call is told of
\* by a printed line, waits in the counter, or is in a caller's hands, and none is
\* in two of these places.
EveryCallAccounted ==
  \A c \in Categories :
    LET inHands == {g \in Callers : category[g] = c}
        reporting == {g \in inHands : pc[g] \in {"store", "print"}}
    IN calls[c] = told[c] + suppressed[c]
                  + Cardinality(inHands) + SumFunctionOnSet(owed, reporting)

\* A category's lines are at least 60 seconds apart (throttle.go:11 "logs a message
\* at most once per 60 seconds per category") as long as no two callers have been in
\* the category at once: those both pass the test before either stores lastLog.
OncePerInterval ==
  \A c \in Categories \ met :
    \A i, j \in DOMAIN printed[c] : i < j => printed[c][j] - printed[c][i] >= Interval
=============================================================================
