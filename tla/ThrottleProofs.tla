--------------------------- MODULE ThrottleProofs ---------------------------
(***************************************************************************)
(* What throttledLog guarantees for every number of callers, categories    *)
(* and calls, every interval and every interleaving: no call is lost or    *)
(* reported twice, and the lines of callers that do not meet keep their    *)
(* distance.                                                               *)
(***************************************************************************)
EXTENDS Throttle, Sums, SequenceTheorems

-----------------------------------------------------------------------------
(* The types.                                                              *)

LEMMA ThrottleTypeInit == Init => ThrottleTypeOK
<1> SUFFICES ASSUME Init PROVE ThrottleTypeOK
  OBVIOUS
<1>1. 0 \in 0 .. MaxClock /\ << >> \in Seq(0 .. MaxClock)
  BY ThrottleAssumption
<1>2. ok \in [Callers -> BOOLEAN]
  BY Zenon DEF Init
<1> QED BY <1>1, <1>2 DEF Init, ThrottleTypeOK, Steps

\* Leaving throttledLog is type-correct.
LEMMA ReturnType ==
  ASSUME ThrottleTypeOK, NEW g \in Callers, Return(g), entries' = entries
  PROVE  /\ pc' \in [Callers -> Steps]
         /\ category' \in [Callers -> Categories \cup {NoCategory}]
         /\ \A h \in Callers : pc'[h] # "idle" => category'[h] \in entries'
         /\ ok' \in [Callers -> BOOLEAN]
         /\ now' \in [Callers -> 0 .. MaxClock]
         /\ owed' \in [Callers -> Nat]
<1>1. 0 \in 0 .. MaxClock /\ 0 \in Nat
  BY ThrottleAssumption
<1>2. ok' \in [Callers -> BOOLEAN]
  BY Zenon DEF Return, ThrottleTypeOK
<1>3. pc' \in [Callers -> Steps] /\ category' \in [Callers -> Categories \cup {NoCategory}]
  BY DEF Return, Goto, ThrottleTypeOK, Steps
<1>4. \A h \in Callers : pc'[h] # "idle" => category'[h] \in entries'
  BY DEF Return, Goto, ThrottleTypeOK
<1>5. now' \in [Callers -> 0 .. MaxClock] /\ owed' \in [Callers -> Nat]
  BY <1>1 DEF Return, ThrottleTypeOK
<1> QED BY <1>2, <1>3, <1>4, <1>5

LEMMA ThrottleTypeNext == ThrottleTypeOK /\ [Next]_throttleVars => ThrottleTypeOK'
<1> SUFFICES ASSUME ThrottleTypeOK, [Next]_throttleVars PROVE ThrottleTypeOK'
  OBVIOUS
<1>1. ASSUME NEW g \in Callers, NEW c \in Categories, Lookup(g, c) PROVE ThrottleTypeOK'
  <2>1. ok' \in [Callers -> BOOLEAN]
    <3>1. ok \in [Callers -> BOOLEAN] /\ ok' = [ok EXCEPT ![g] = c \in entries]
      BY <1>1 DEF Lookup, ThrottleTypeOK
    <3>2. ok' = [ok EXCEPT ![g] = TRUE] \/ ok' = [ok EXCEPT ![g] = FALSE]
      <4>1. CASE c \in entries
        <5>1. (c \in entries) = TRUE
          BY <4>1
        <5> QED BY <3>1, <5>1, Zenon
      <4>2. CASE c \notin entries
        <5>1. (c \in entries) = FALSE
          BY <4>2
        <5> QED BY <3>1, <5>1, Zenon
      <4> QED BY <4>1, <4>2
    <3>3. [ok EXCEPT ![g] = TRUE] \in [Callers -> BOOLEAN]
          /\ [ok EXCEPT ![g] = FALSE] \in [Callers -> BOOLEAN]
      BY <3>1
    <3> QED BY <3>2, <3>3
  <2>2. /\ pc' \in [Callers -> Steps] /\ category' \in [Callers -> Categories \cup {NoCategory}]
        /\ entries' \subseteq Categories
        /\ \A h \in Callers : pc'[h] # "idle" => category'[h] \in entries'
    BY <1>1 DEF Lookup, Goto, ThrottleTypeOK, Steps
  <2>3. calls' \in [Categories -> Nat] /\ met' \subseteq Categories
    BY <1>1 DEF Lookup, Meet, ThrottleTypeOK
  <2> QED BY <1>1, <2>1, <2>2, <2>3 DEF Lookup, ThrottleTypeOK
<1>2. ASSUME NEW g \in Callers, ReadClock(g) PROVE ThrottleTypeOK'
  BY <1>2 DEF ReadClock, Goto, entry, history, ThrottleTypeOK, Steps
<1>3. ASSUME NEW g \in Callers, Test(g) PROVE ThrottleTypeOK'
  BY <1>3 DEF Test, Goto, entry, history, ThrottleTypeOK, Steps
<1>4. ASSUME NEW g \in Callers, Suppress(g) PROVE ThrottleTypeOK'
  <2>1. pc[g] # "idle" /\ category[g] \in Categories
    BY <1>4 DEF Suppress, ThrottleTypeOK
  <2>2. suppressed' \in [Categories -> Nat]
    BY <1>4, <2>1 DEF Suppress, ThrottleTypeOK
  <2>3. Return(g) /\ UNCHANGED <<clock, entries, lastLog, calls, told, printed, met>>
    BY <1>4 DEF Suppress, history
  <2> QED BY <2>2, <2>3, ReturnType DEF ThrottleTypeOK
<1>5. ASSUME NEW g \in Callers, Swap(g) PROVE ThrottleTypeOK'
  <2>1. category[g] \in Categories
    BY <1>5 DEF Swap, ThrottleTypeOK
  <2>2. suppressed' \in [Categories -> Nat] /\ owed' \in [Callers -> Nat]
    BY <1>5, <2>1 DEF Swap, ThrottleTypeOK
  <2> QED BY <1>5, <2>2 DEF Swap, Goto, history, ThrottleTypeOK, Steps
<1>6. ASSUME NEW g \in Callers, StoreLast(g) PROVE ThrottleTypeOK'
  <2>1. category[g] \in Categories
    BY <1>6 DEF StoreLast, ThrottleTypeOK
  <2>2. lastLog' \in [Categories -> (0 .. MaxClock) \cup {Never}]
    BY <1>6, <2>1 DEF StoreLast, ThrottleTypeOK
  <2> QED BY <1>6, <2>2 DEF StoreLast, Goto, history, ThrottleTypeOK, Steps
<1>7. ASSUME NEW g \in Callers, PrintLine(g) PROVE ThrottleTypeOK'
  <2>1. category[g] \in Categories /\ now[g] \in 0 .. MaxClock
    BY <1>7 DEF PrintLine, ThrottleTypeOK
  <2>2. told' \in [Categories -> Nat]
    BY <1>7, <2>1 DEF PrintLine, ThrottleTypeOK
  <2>3. printed' \in [Categories -> Seq(0 .. MaxClock)]
    <3>1. Append(printed[category[g]], now[g]) \in Seq(0 .. MaxClock)
      BY <2>1, AppendProperties DEF ThrottleTypeOK
    <3> QED BY <1>7, <2>1, <3>1 DEF PrintLine, ThrottleTypeOK
  <2>4. Return(g) /\ UNCHANGED <<clock, entries, lastLog, suppressed, calls, met>>
    BY <1>7 DEF PrintLine, entry
  <2> QED BY <2>2, <2>3, <2>4, ReturnType DEF ThrottleTypeOK
<1>8. ASSUME Tick PROVE ThrottleTypeOK'
  BY <1>8, ThrottleAssumption DEF Tick, entry, local, history, ThrottleTypeOK
<1>9. ASSUME UNCHANGED throttleVars PROVE ThrottleTypeOK'
  BY <1>9 DEF throttleVars, entry, local, history, ThrottleTypeOK
<1> QED BY <1>1, <1>2, <1>3, <1>4, <1>5, <1>6, <1>7, <1>8, <1>9 DEF Next, Throttled, Quiet

\* throttledLog's state has its types throughout; a caller inside always finds the
\* entry of its category in the map, which nothing removes.
THEOREM ThrottleTypes == ThrottleSpec => []ThrottleTypeOK
  BY ThrottleTypeInit, ThrottleTypeNext, PTL DEF ThrottleSpec

-----------------------------------------------------------------------------
(* Every call is accounted for.                                            *)

InHands(c) == {g \in Callers : category[g] = c}
Reporting(c) == {g \in InHands(c) : pc[g] \in {"store", "print"}}

\* A caller outside has no category: it is in nobody's hands.
Outside == \A g \in Callers : pc[g] = "idle" => category[g] = NoCategory

Balanced(c) ==
  calls[c] = told[c] + suppressed[c] + Cardinality(InHands(c))
             + SumFunctionOnSet(owed, Reporting(c))

AccountInv == ThrottleTypeOK /\ Outside /\ \A c \in Categories : Balanced(c)

LEMMA HandsAreFinite ==
  ASSUME NEW s, s \subseteq Callers
  PROVE  IsFiniteSet(s) /\ Cardinality(s) \in Nat
  BY ThrottleAssumption, FS_Subset, FS_CardinalityType

\* What a category's books consist of.
LEMMA BooksType ==
  ASSUME ThrottleTypeOK, NEW c \in Categories
  PROVE  /\ calls[c] \in Nat /\ told[c] \in Nat /\ suppressed[c] \in Nat
         /\ IsFiniteSet(InHands(c)) /\ Cardinality(InHands(c)) \in Nat
         /\ IsFiniteSet(Reporting(c)) /\ Reporting(c) \subseteq Callers
         /\ SumFunctionOnSet(owed, Reporting(c)) \in Nat
<1>1. InHands(c) \subseteq Callers /\ Reporting(c) \subseteq Callers
  BY DEF InHands, Reporting
<1>2. \A g \in Reporting(c) : owed[g] \in Nat
  BY <1>1 DEF ThrottleTypeOK
<1> QED BY <1>1, <1>2, HandsAreFinite, SumType DEF ThrottleTypeOK

\* A step that changes nothing in a category's books.
LEMMA BooksUntouched ==
  ASSUME ThrottleTypeOK, NEW c \in Categories, Balanced(c),
         calls'[c] = calls[c], told'[c] = told[c], suppressed'[c] = suppressed[c],
         InHands(c)' = InHands(c), Reporting(c)' = Reporting(c),
         \A g \in Reporting(c) : owed'[g] = owed[g]
  PROVE  Balanced(c)'
<1>1. \A g \in Reporting(c) : owed[g] = owed'[g] /\ owed[g] \in Nat
  BY BooksType DEF ThrottleTypeOK
<1>2. SumFunctionOnSet(owed, Reporting(c)) = SumFunctionOnSet(owed', Reporting(c))
  BY <1>1, BooksType, SumSame
<1> QED BY <1>2 DEF Balanced

\* A caller leaves a category's hands that was not about to report.
LEMMA LeaveHands ==
  ASSUME ThrottleTypeOK, NEW c \in Categories, NEW g \in InHands(c)
  PROVE  Cardinality(InHands(c) \ {g}) = Cardinality(InHands(c)) - 1
  BY BooksType, FS_RemoveElement

LEMMA AccountNext ==
  ASSUME AccountInv, [Next]_throttleVars
  PROVE  AccountInv'
<1> USE DEF AccountInv
<1>0. ThrottleTypeOK'
  BY ThrottleTypeNext
<1>1. ASSUME NEW g \in Callers, NEW d \in Categories, Lookup(g, d)
      PROVE  Outside' /\ \A c \in Categories : Balanced(c)'
  <2>1. /\ pc[g] = "idle" /\ category[g] = NoCategory /\ d # NoCategory
        /\ pc' = [pc EXCEPT ![g] = "clock"] /\ category' = [category EXCEPT ![g] = d]
        /\ calls' = [calls EXCEPT ![d] = @ + 1] /\ UNCHANGED <<told, suppressed, owed>>
    BY <1>1, ThrottleAssumption DEF Lookup, Goto, Outside
  <2>2. Outside'
    BY <2>1 DEF Outside, ThrottleTypeOK
  <2>3. ASSUME NEW c \in Categories PROVE Balanced(c)'
    <3>1. c # NoCategory /\ g \notin InHands(c)
      BY <2>1, ThrottleAssumption DEF InHands
    <3>2. InHands(c)' = IF c = d THEN InHands(c) \cup {g} ELSE InHands(c)
      BY <2>1, <3>1 DEF InHands, ThrottleTypeOK
    <3>3. Reporting(c)' = Reporting(c)
      BY <2>1, <3>1, <3>2 DEF Reporting, ThrottleTypeOK, InHands
    <3>4. CASE c # d
      BY <2>1, <3>2, <3>3, <3>4, BooksUntouched DEF ThrottleTypeOK
    <3>5. CASE c = d
      <4>1. Cardinality(InHands(c)') = Cardinality(InHands(c)) + 1
        BY <3>1, <3>2, <3>5, BooksType, FS_AddElement
      <4>2. calls'[c] = calls[c] + 1
        BY <2>1, <3>5 DEF ThrottleTypeOK
      <4>3. SumFunctionOnSet(owed, Reporting(c))' = SumFunctionOnSet(owed, Reporting(c))
        BY <2>1, <3>3
      <4> QED BY <2>1, <4>1, <4>2, <4>3, BooksType DEF Balanced
    <3> QED BY <3>4, <3>5
  <2> QED BY <2>2, <2>3
<1>2. ASSUME NEW g \in Callers, ReadClock(g) \/ Test(g) \/ StoreLast(g)
      PROVE  Outside' /\ \A c \in Categories : Balanced(c)'
  <2>1. UNCHANGED <<calls, told, suppressed, owed, category>>
    BY <1>2 DEF ReadClock, Test, StoreLast, entry, history
  <2>2. /\ pc[g] # "idle" /\ pc'[g] # "idle"
        /\ pc[g] \in {"store", "print"} <=> pc'[g] \in {"store", "print"}
        /\ \A h \in Callers \ {g} : pc'[h] = pc[h]
    BY <1>2 DEF ReadClock, Test, StoreLast, Goto, ThrottleTypeOK
  <2>3. Outside'
    BY <2>1, <2>2 DEF Outside
  <2>4. \A c \in Categories : InHands(c)' = InHands(c) /\ Reporting(c)' = Reporting(c)
    BY <2>1, <2>2 DEF InHands, Reporting
  <2>5. \A c \in Categories : Balanced(c)'
    BY <2>1, <2>4, BooksUntouched
  <2> QED BY <2>3, <2>5
<1>3. ASSUME NEW g \in Callers, Suppress(g)
      PROVE  Outside' /\ \A c \in Categories : Balanced(c)'
  <2>1. /\ pc[g] = "suppress" /\ category[g] \in Categories
        /\ pc' = [pc EXCEPT ![g] = "idle"]
        /\ category' = [category EXCEPT ![g] = NoCategory]
        /\ owed' = [owed EXCEPT ![g] = 0]
        /\ suppressed' = [suppressed EXCEPT ![category[g]] = @ + 1]
        /\ UNCHANGED <<calls, told>>
    BY <1>3 DEF Suppress, Return, Goto, history, ThrottleTypeOK
  <2>2. Outside'
    BY <2>1 DEF Outside, ThrottleTypeOK
  <2>3. ASSUME NEW c \in Categories PROVE Balanced(c)'
    <3>1. c # NoCategory
      BY ThrottleAssumption
    <3>2. InHands(c)' = InHands(c) \ {g}
      BY <2>1, <3>1 DEF InHands, ThrottleTypeOK
    <3>3. Reporting(c)' = Reporting(c) /\ g \notin Reporting(c)
      BY <2>1, <3>1, <3>2 DEF Reporting, ThrottleTypeOK, InHands
    <3>4. \A h \in Reporting(c) : owed'[h] = owed[h]
      BY <2>1, <3>3, BooksType DEF ThrottleTypeOK
    <3>5. CASE c # category[g]
      <4>1. InHands(c)' = InHands(c) /\ suppressed'[c] = suppressed[c]
        BY <2>1, <3>2, <3>5 DEF InHands, ThrottleTypeOK
      <4> QED BY <2>1, <3>3, <3>4, <4>1, BooksUntouched
    <3>6. CASE c = category[g]
      <4>1. Cardinality(InHands(c)') = Cardinality(InHands(c)) - 1
        <5>1. g \in InHands(c)
          BY <3>6 DEF InHands
        <5> QED BY <3>2, <5>1, LeaveHands
      <4>2. suppressed'[c] = suppressed[c] + 1
        BY <2>1, <3>6 DEF ThrottleTypeOK
      <4>3. SumFunctionOnSet(owed, Reporting(c)) = SumFunctionOnSet(owed', Reporting(c))
        <5>1. \A h \in Reporting(c) : owed[h] = owed'[h] /\ owed[h] \in Nat
          BY <3>4, BooksType DEF ThrottleTypeOK
        <5> QED BY <5>1, BooksType, SumSame
      <4> QED BY <2>1, <3>3, <4>1, <4>2, <4>3, BooksType DEF Balanced
    <3> QED BY <3>5, <3>6
  <2> QED BY <2>2, <2>3
<1>4. ASSUME NEW g \in Callers, Swap(g)
      PROVE  Outside' /\ \A c \in Categories : Balanced(c)'
  <2>1. /\ pc[g] = "swap" /\ category[g] \in Categories
        /\ pc' = [pc EXCEPT ![g] = "store"]
        /\ owed' = [owed EXCEPT ![g] = suppressed[category[g]]]
        /\ suppressed' = [suppressed EXCEPT ![category[g]] = 0]
        /\ UNCHANGED <<calls, told, category>>
    BY <1>4 DEF Swap, Goto, history, ThrottleTypeOK
  <2>2. Outside'
    BY <2>1 DEF Outside, ThrottleTypeOK
  <2>3. ASSUME NEW c \in Categories PROVE Balanced(c)'
    <3>1. InHands(c)' = InHands(c) /\ g \notin Reporting(c)
      BY <2>1 DEF InHands, Reporting
    <3>2. \A h \in Reporting(c) : owed'[h] = owed[h]
      BY <2>1, <3>1, BooksType DEF ThrottleTypeOK
    <3>3. CASE c # category[g]
      <4>1. Reporting(c)' = Reporting(c) /\ suppressed'[c] = suppressed[c]
        BY <2>1, <3>1, <3>3 DEF InHands, Reporting, ThrottleTypeOK
      <4> QED BY <2>1, <3>1, <3>2, <4>1, BooksUntouched
    <3>4. CASE c = category[g]
      <4>1. Reporting(c)' = Reporting(c) \cup {g}
        BY <2>1, <3>1, <3>4 DEF InHands, Reporting, ThrottleTypeOK
      <4>2. suppressed'[c] = 0 /\ owed'[g] = suppressed[c]
        BY <2>1, <3>4 DEF ThrottleTypeOK
      <4>3. SumFunctionOnSet(owed', Reporting(c) \cup {g})
              = owed'[g] + SumFunctionOnSet(owed', Reporting(c))
        <5>1. \A h \in Callers : owed'[h] \in Nat
          BY <1>0 DEF ThrottleTypeOK
        <5>2. Reporting(c) \in SUBSET Callers /\ g \in Callers \ Reporting(c)
          BY <3>1, BooksType
        <5> QED BY <5>1, <5>2, ThrottleAssumption, SumAdd
      <4>4. SumFunctionOnSet(owed, Reporting(c)) = SumFunctionOnSet(owed', Reporting(c))
        <5>1. \A h \in Reporting(c) : owed[h] = owed'[h] /\ owed[h] \in Nat
          BY <3>2, BooksType DEF ThrottleTypeOK
        <5> QED BY <5>1, BooksType, SumSame
      <4> QED BY <2>1, <3>1, <4>1, <4>2, <4>3, <4>4, BooksType DEF Balanced
    <3> QED BY <3>3, <3>4
  <2> QED BY <2>2, <2>3
<1>5. ASSUME NEW g \in Callers, PrintLine(g)
      PROVE  Outside' /\ \A c \in Categories : Balanced(c)'
  <2>1. /\ pc[g] = "print" /\ category[g] \in Categories
        /\ pc' = [pc EXCEPT ![g] = "idle"]
        /\ category' = [category EXCEPT ![g] = NoCategory]
        /\ owed' = [owed EXCEPT ![g] = 0]
        /\ told' = [told EXCEPT ![category[g]] = @ + 1 + owed[g]]
        /\ UNCHANGED <<calls, suppressed>>
    BY <1>5 DEF PrintLine, Return, Goto, entry, ThrottleTypeOK
  <2>2. Outside'
    BY <2>1 DEF Outside, ThrottleTypeOK
  <2>3. ASSUME NEW c \in Categories PROVE Balanced(c)'
    <3>1. c # NoCategory
      BY ThrottleAssumption
    <3>2. InHands(c)' = InHands(c) \ {g} /\ Reporting(c)' = Reporting(c) \ {g}
      BY <2>1, <3>1 DEF InHands, Reporting, ThrottleTypeOK
    <3>3. \A h \in Reporting(c) \ {g} : owed'[h] = owed[h]
      BY <2>1, BooksType DEF ThrottleTypeOK
    <3>4. CASE c # category[g]
      <4>1. InHands(c)' = InHands(c) /\ Reporting(c)' = Reporting(c) /\ told'[c] = told[c]
            /\ g \notin Reporting(c)
        BY <2>1, <3>2, <3>4 DEF InHands, Reporting, ThrottleTypeOK
      <4> QED BY <2>1, <3>3, <4>1, BooksUntouched
    <3>5. CASE c = category[g]
      <4>1. g \in InHands(c) /\ g \in Reporting(c)
        BY <2>1, <3>5 DEF InHands, Reporting
      <4>2. Cardinality(InHands(c)') = Cardinality(InHands(c)) - 1
        BY <3>2, <4>1, LeaveHands
      <4>3. told'[c] = told[c] + 1 + owed[g] /\ owed[g] \in Nat
        BY <2>1, <3>5 DEF ThrottleTypeOK
      <4>4. SumFunctionOnSet(owed, Reporting(c))
              = owed[g] + SumFunctionOnSet(owed, Reporting(c) \ {g})
        <5>1. \A h \in Reporting(c) : owed[h] \in Nat
          BY BooksType DEF ThrottleTypeOK
        <5> QED BY <4>1, <5>1, BooksType, SumRemove
      <4>5. /\ SumFunctionOnSet(owed, Reporting(c) \ {g})
                 = SumFunctionOnSet(owed', Reporting(c) \ {g})
            /\ SumFunctionOnSet(owed, Reporting(c) \ {g}) \in Nat
        <5>1. Reporting(c) \ {g} \subseteq Callers
          BY BooksType
        <5>2. \A h \in Reporting(c) \ {g} : owed[h] = owed'[h] /\ owed[h] \in Nat
          BY <3>3, <5>1 DEF ThrottleTypeOK
        <5> QED BY <5>1, <5>2, HandsAreFinite, SumSame, SumType
      <4> QED BY <2>1, <3>2, <4>2, <4>3, <4>4, <4>5, BooksType DEF Balanced
    <3> QED BY <3>4, <3>5
  <2> QED BY <2>2, <2>3
<1>6. ASSUME UNCHANGED <<calls, told, suppressed, owed, category, pc>>
      PROVE  Outside' /\ \A c \in Categories : Balanced(c)'
  <2>1. Outside'
    BY <1>6 DEF Outside
  <2>2. \A c \in Categories : Balanced(c)'
    BY <1>6 DEF Balanced, InHands, Reporting
  <2> QED BY <2>1, <2>2
<1>7. ASSUME Tick \/ UNCHANGED throttleVars
      PROVE  UNCHANGED <<calls, told, suppressed, owed, category, pc>>
  BY <1>7 DEF Tick, throttleVars, entry, local, history
<1> QED BY <1>0, <1>1, <1>2, <1>3, <1>4, <1>5, <1>6, <1>7 DEF Next, Throttled, Quiet

\* No call of throttledLog is lost and none is reported twice, although the counter is
\* swapped and the lines are written without a lock (throttle.go:12).
THEOREM CallsAreAccounted == ThrottleSpec => []EveryCallAccounted
<1>1. Init => AccountInv
  <2> SUFFICES ASSUME Init PROVE AccountInv
    OBVIOUS
  <2>1. Outside
    BY DEF Init, Outside
  <2>2. ASSUME NEW c \in Categories PROVE Balanced(c)
    <3>1. InHands(c) = {} /\ Reporting(c) = {}
      BY ThrottleAssumption DEF Init, InHands, Reporting
    <3> QED BY <3>1, SumEmpty, FS_EmptySet DEF Init, Balanced
  <2> QED BY <2>1, <2>2, ThrottleTypeInit DEF AccountInv
<1>2. AccountInv /\ [Next]_throttleVars => AccountInv'
  BY AccountNext
<1>3. AccountInv => EveryCallAccounted
  BY DEF AccountInv, EveryCallAccounted, Balanced, InHands, Reporting
<1> QED BY <1>1, <1>2, <1>3, PTL DEF ThrottleSpec
-----------------------------------------------------------------------------
(* The distance of the lines.                                              *)

\* A category in which no two callers have met.
Lonely(c) == c \in Categories \ met

\* There is one caller at most in it.
Alone ==
  \A c \in Categories : Lonely(c) =>
    \A g, h \in Callers : category[g] = c /\ category[h] = c => g = h

\* Nothing has been printed under a category without an entry, nor, while its maker
\* is at work, under one that has just been made.
NewIsSilent ==
  /\ \A c \in Categories \ entries : printed[c] = << >>
  /\ \A g \in Callers : Lonely(category[g]) /\ ~ok[g] => printed[category[g]] = << >>

\* lastLog is not older than any line.
LastIsLast ==
  \A c \in Categories : Lonely(c) =>
    \A i \in DOMAIN printed[c] : lastLog[c] # Never /\ printed[c][i] <= lastLog[c]

\* A caller that has passed the test is an interval away from every line before, and
\* one that is about to print has left its reading in lastLog.
Passed ==
  \A g \in Callers :
    Lonely(category[g]) =>
      /\ pc[g] \in {"swap", "store", "print"} =>
           \A i \in DOMAIN printed[category[g]] : now[g] - printed[category[g]][i] >= Interval
      /\ pc[g] = "print" => lastLog[category[g]] = now[g]

\* OncePerInterval speaks of printed lines alone; the invariant follows a line from the
\* test that lets it pass, by a lastLog that nobody else writes meanwhile.
DistanceInv ==
  ThrottleTypeOK /\ Outside /\ Alone /\ NewIsSilent /\ LastIsLast /\ Passed /\ OncePerInterval

LEMMA PrintedType ==
  ASSUME ThrottleTypeOK, NEW c \in Categories
  PROVE  /\ printed[c] \in Seq(0 .. MaxClock) /\ Len(printed[c]) \in Nat
         /\ DOMAIN printed[c] = 1 .. Len(printed[c])
         /\ \A i \in DOMAIN printed[c] : printed[c][i] \in Nat
<1>1. printed[c] \in Seq(0 .. MaxClock)
  BY DEF ThrottleTypeOK
<1>2. Len(printed[c]) \in Nat /\ DOMAIN printed[c] = 1 .. Len(printed[c])
  BY <1>1, LenProperties
<1>3. \A i \in DOMAIN printed[c] : printed[c][i] \in 0 .. MaxClock
  BY <1>1, <1>2, ElementOfSeq
<1>4. 0 .. MaxClock \subseteq Nat
  BY ThrottleAssumption
<1> QED BY <1>1, <1>2, <1>3, <1>4

\* Entering a category.
LEMMA LookupKeepsDistance ==
  ASSUME DistanceInv, ThrottleTypeOK', NEW g \in Callers, NEW d \in Categories, Lookup(g, d)
  PROVE  DistanceInv'
<1> USE DEF DistanceInv
<1>1. /\ pc[g] = "idle" /\ category[g] = NoCategory /\ d # NoCategory
      /\ pc' = [pc EXCEPT ![g] = "clock"] /\ category' = [category EXCEPT ![g] = d]
      /\ entries' = entries \cup {d} /\ UNCHANGED <<lastLog, now, printed>>
      /\ \A h \in Callers \ {g} : ok'[h] = ok[h]
      /\ ok'[g] <=> d \in entries
  BY ThrottleAssumption DEF Lookup, Goto, Outside, ThrottleTypeOK
<1>2. /\ met \subseteq met'
      /\ d \notin met' => \A h \in Callers : category[h] # d
  BY DEF Lookup, Meet
<1>3. /\ \A h \in Callers \ {g} : category'[h] = category[h] /\ pc'[h] = pc[h]
      /\ category'[g] = d /\ pc'[g] = "clock"
  BY <1>1 DEF ThrottleTypeOK
<1>4. Outside'
  BY <1>1, <1>3 DEF Outside
<1>5. \A c : Lonely(c)' => Lonely(c)
  BY <1>2 DEF Lonely
<1>6. Alone'
  <2> SUFFICES ASSUME NEW c \in Categories, Lonely(c)', NEW a \in Callers, NEW b \in Callers,
                      category'[a] = c, category'[b] = c
               PROVE  a = b
    BY DEF Alone
  <2>1. CASE a = g /\ b # g
    <3>1. c = d /\ category[b] = d /\ d \notin met'
      BY <1>3, <2>1 DEF Lonely
    <3> QED BY <1>2, <3>1
  <2>2. CASE a # g /\ b = g
    <3>1. c = d /\ category[a] = d /\ d \notin met'
      BY <1>3, <2>2 DEF Lonely
    <3> QED BY <1>2, <3>1
  <2>3. CASE a # g /\ b # g
    BY <1>3, <1>5, <2>3 DEF Alone
  <2> QED BY <2>1, <2>2, <2>3
<1>7. NewIsSilent'
  <2>1. \A c \in Categories \ entries' : printed'[c] = << >>
    BY <1>1 DEF NewIsSilent
  <2>2. ASSUME NEW h \in Callers, Lonely(category[h])', ~ok'[h]
        PROVE  printed'[category'[h]] = << >>
    <3>1. CASE h = g
      BY <1>1, <1>3, <2>2, <3>1 DEF NewIsSilent
    <3>2. CASE h # g
      <4>1. category'[h] = category[h] /\ ~ok[h]
        BY <1>1, <1>3, <2>2, <3>2
      <4>2. Lonely(category[h])
        BY <1>2, <2>2, <4>1 DEF Lonely
      <4> QED BY <1>1, <4>1, <4>2 DEF NewIsSilent
    <3> QED BY <3>1, <3>2
  <2> QED BY <2>1, <2>2 DEF NewIsSilent
<1>8. LastIsLast'
  BY <1>1, <1>5 DEF LastIsLast
<1>9. Passed'
  <2> SUFFICES ASSUME NEW h \in Callers, Lonely(category[h])',
                      pc'[h] \in {"swap", "store", "print"}
               PROVE  /\ \A i \in DOMAIN printed'[category'[h]] :
                           now'[h] - printed'[category'[h]][i] >= Interval
                      /\ pc'[h] = "print" => lastLog'[category'[h]] = now'[h]
    BY DEF Passed
  <2>1. h # g
    BY <1>3
  <2>2. category'[h] = category[h] /\ pc'[h] = pc[h]
    BY <1>3, <2>1
  <2>3. Lonely(category[h])
    BY <1>2, <2>2 DEF Lonely
  <2> QED BY <1>1, <2>2, <2>3 DEF Passed
<1>10. OncePerInterval'
  BY <1>1, <1>2 DEF OncePerInterval
<1> QED BY <1>4, <1>6, <1>7, <1>8, <1>9, <1>10

\* A caller takes a step inside, and neither prints nor stores; if it has passed the
\* test by this, its reading is far enough from the lines before.
LEMMA InsideKeepsDistance ==
  ASSUME DistanceInv, ThrottleTypeOK', NEW g \in Callers,
         UNCHANGED <<entries, lastLog, category, ok, printed, met>>,
         pc[g] # "idle", pc'[g] # "idle", pc'[g] # "print",
         \A h \in Callers \ {g} : pc'[h] = pc[h] /\ now'[h] = now[h],
         Lonely(category[g]) /\ pc'[g] \in {"swap", "store"} =>
           \A i \in DOMAIN printed[category[g]] : now'[g] - printed[category[g]][i] >= Interval
  PROVE  DistanceInv'
<1> USE DEF DistanceInv
<1>1. \A c : Lonely(c)' <=> Lonely(c)
  BY DEF Lonely
<1>2. \A h \in Callers : Lonely(category[h])' <=> Lonely(category[h])
  BY DEF Lonely
<1>3. Outside'
  BY DEF Outside
<1>4. Alone'
  BY <1>1 DEF Alone
<1>5. NewIsSilent'
  BY <1>2 DEF NewIsSilent
<1>6. LastIsLast'
  BY <1>1 DEF LastIsLast
<1>7. Passed'
  <2> SUFFICES ASSUME NEW h \in Callers, Lonely(category[h])
               PROVE  /\ pc'[h] \in {"swap", "store", "print"} =>
                           \A i \in DOMAIN printed[category[h]] :
                             now'[h] - printed[category[h]][i] >= Interval
                      /\ pc'[h] = "print" => lastLog[category[h]] = now'[h]
    BY <1>2 DEF Passed
  <2>1. CASE h = g
    BY <2>1
  <2>2. CASE h # g
    BY <2>2 DEF Passed
  <2> QED BY <2>1, <2>2
<1>8. OncePerInterval'
  BY DEF OncePerInterval
<1> QED BY <1>3, <1>4, <1>5, <1>6, <1>7, <1>8

LEMMA StoreKeepsDistance ==
  ASSUME DistanceInv, ThrottleTypeOK', NEW g \in Callers, StoreLast(g)
  PROVE  DistanceInv'
<1> USE DEF DistanceInv
<1>1. /\ pc[g] = "store" /\ category[g] \in Categories
      /\ lastLog' = [lastLog EXCEPT ![category[g]] = now[g]]
      /\ pc' = [pc EXCEPT ![g] = "print"]
      /\ UNCHANGED <<entries, category, ok, now, printed, met>>
  BY DEF StoreLast, Goto, history, ThrottleTypeOK
<1>2. /\ \A h \in Callers \ {g} : pc'[h] = pc[h]
      /\ pc'[g] = "print"
      /\ \A c \in Categories \ {category[g]} : lastLog'[c] = lastLog[c]
      /\ lastLog'[category[g]] = now[g]
  BY <1>1 DEF ThrottleTypeOK
<1>3. /\ \A c : Lonely(c)' <=> Lonely(c)
      /\ \A h \in Callers : Lonely(category[h])' <=> Lonely(category[h])
  BY <1>1 DEF Lonely
<1>4. Outside'
  BY <1>1, <1>2 DEF Outside
<1>5. Alone' /\ NewIsSilent' /\ OncePerInterval'
  BY <1>1, <1>3 DEF Alone, NewIsSilent, OncePerInterval
<1>6. now[g] \in Nat /\ now[g] # Never /\ Interval \in Nat
  BY ThrottleAssumption DEF ThrottleTypeOK
<1>7. Lonely(category[g]) => \A i \in DOMAIN printed[category[g]] :
         /\ now[g] - printed[category[g]][i] >= Interval
         /\ printed[category[g]][i] <= now[g]
  <2> SUFFICES ASSUME Lonely(category[g]), NEW i \in DOMAIN printed[category[g]]
               PROVE  /\ now[g] - printed[category[g]][i] >= Interval
                      /\ printed[category[g]][i] <= now[g]
    OBVIOUS
  <2>1. now[g] - printed[category[g]][i] >= Interval
    BY <1>1 DEF Passed
  <2>2. printed[category[g]][i] \in Nat
    BY <1>1, PrintedType
  <2> QED BY <1>6, <2>1, <2>2
<1>8. LastIsLast'
  <2> SUFFICES ASSUME NEW c \in Categories, Lonely(c), NEW i \in DOMAIN printed[c]
               PROVE  lastLog'[c] # Never /\ printed[c][i] <= lastLog'[c]
    BY <1>1, <1>3 DEF LastIsLast
  <2>1. CASE c = category[g]
    BY <1>2, <1>6, <1>7, <2>1
  <2>2. CASE c # category[g]
    BY <1>2, <2>2 DEF LastIsLast
  <2> QED BY <2>1, <2>2
<1>9. Passed'
  <2> SUFFICES ASSUME NEW h \in Callers, Lonely(category[h])
               PROVE  /\ pc'[h] \in {"swap", "store", "print"} =>
                           \A i \in DOMAIN printed[category[h]] :
                             now[h] - printed[category[h]][i] >= Interval
                      /\ pc'[h] = "print" => lastLog'[category[h]] = now[h]
    BY <1>1, <1>3 DEF Passed
  <2>1. CASE h = g
    BY <1>2, <1>7, <2>1
  <2>2. CASE h # g
    <3>1. category[h] # category[g]
      BY <1>1, <2>2 DEF Alone, Lonely
    <3>2. category[h] \in Categories
      BY DEF Lonely
    <3> QED BY <1>2, <2>2, <3>1, <3>2 DEF Passed
  <2> QED BY <2>1, <2>2
<1> QED BY <1>4, <1>5, <1>8, <1>9

\* Leaving a category, with a line or without one.
LEMMA LeavingKeepsDistance ==
  ASSUME DistanceInv, ThrottleTypeOK', NEW g \in Callers, pc[g] # "idle",
         Return(g), UNCHANGED <<entries, lastLog, met>>,
         \A c \in Categories \ {category[g]} : printed'[c] = printed[c],
         \/ printed'[category[g]] = printed[category[g]]
         \/ /\ pc[g] = "print"
            /\ printed'[category[g]] = Append(printed[category[g]], now[g])
  PROVE  DistanceInv'
<1> USE DEF DistanceInv
<1>1. /\ category[g] \in entries /\ category[g] \in Categories
      /\ \A h \in Callers \ {g} : /\ pc'[h] = pc[h] /\ category'[h] = category[h]
                                  /\ ok'[h] = ok[h] /\ now'[h] = now[h]
      /\ pc'[g] = "idle" /\ category'[g] = NoCategory
  BY DEF Return, Goto, ThrottleTypeOK
<1>2. /\ \A c : Lonely(c)' <=> Lonely(c)
      /\ \A h \in Callers \ {g} : Lonely(category[h])' <=> Lonely(category[h])
      /\ ~Lonely(category[g])'
  BY <1>1, ThrottleAssumption DEF Lonely
<1>3. Outside'
  BY <1>1 DEF Outside
<1>4. \A c \in Categories : c # NoCategory
  BY ThrottleAssumption
<1>5. Alone'
  BY <1>1, <1>2, <1>4 DEF Alone
<1>6. \A h \in Callers \ {g} : Lonely(category[h]) =>
         category[h] # category[g] /\ printed'[category[h]] = printed[category[h]]
  BY <1>1 DEF Alone, Lonely
<1>7. NewIsSilent'
  BY <1>1, <1>2, <1>6 DEF NewIsSilent
<1>8. Passed'
  <2> SUFFICES ASSUME NEW h \in Callers, Lonely(category[h])'
               PROVE  /\ pc'[h] \in {"swap", "store", "print"} =>
                           \A i \in DOMAIN printed'[category'[h]] :
                             now'[h] - printed'[category'[h]][i] >= Interval
                      /\ pc'[h] = "print" => lastLog'[category'[h]] = now'[h]
    BY DEF Passed
  <2>1. h # g /\ Lonely(category[h])
    BY <1>2
  <2>2. /\ printed'[category'[h]] = printed[category[h]] /\ pc'[h] = pc[h]
        /\ lastLog'[category'[h]] = lastLog[category[h]] /\ now'[h] = now[h]
    BY <1>1, <1>6, <2>1
  <2> QED BY <2>1, <2>2 DEF Passed
<1>9. CASE printed'[category[g]] = printed[category[g]]
  <2>1. \A c \in Categories : printed'[c] = printed[c]
    BY <1>9
  <2>2. LastIsLast' /\ OncePerInterval'
    BY <1>2, <2>1 DEF LastIsLast, OncePerInterval
  <2> QED BY <1>3, <1>5, <1>7, <1>8, <2>2
<1>10. CASE /\ pc[g] = "print"
            /\ printed'[category[g]] = Append(printed[category[g]], now[g])
  <2> DEFINE p == printed[category[g]]
             n == Len(printed[category[g]])
  <2>1. now[g] \in 0 .. MaxClock /\ now[g] \in Nat /\ now[g] # Never /\ Interval \in Nat
    BY ThrottleAssumption DEF ThrottleTypeOK
  <2>2. /\ p \in Seq(0 .. MaxClock) /\ n \in Nat /\ DOMAIN p = 1 .. n
        /\ \A i \in DOMAIN p : p[i] \in Nat
    BY <1>1, PrintedType
  <2>3. /\ DOMAIN Append(p, now[g]) = 1 .. n + 1
        /\ \A i \in 1 .. n : Append(p, now[g])[i] = p[i]
        /\ Append(p, now[g])[n + 1] = now[g]
    BY <2>1, <2>2, AppendProperties, LenProperties
  <2>4. Lonely(category[g]) => /\ lastLog[category[g]] = now[g]
                               /\ \A i \in 1 .. n : /\ now[g] - p[i] >= Interval
                                                    /\ p[i] <= lastLog[category[g]]
    BY <1>1, <1>10, <2>2 DEF Passed, LastIsLast, Lonely
  <2>5. LastIsLast'
    <3> SUFFICES ASSUME NEW c \in Categories, Lonely(c), NEW i \in DOMAIN printed'[c]
                 PROVE  lastLog[c] # Never /\ printed'[c][i] <= lastLog[c]
      BY <1>2 DEF LastIsLast
    <3>1. CASE c = category[g]
      <4>1. i \in 1 .. n \/ i = n + 1
        BY <1>10, <2>2, <2>3, <3>1
      <4> QED BY <1>10, <2>1, <2>3, <2>4, <3>1, <4>1
    <3>2. CASE c # category[g]
      BY <3>2 DEF LastIsLast
    <3> QED BY <3>1, <3>2
  <2>6. OncePerInterval'
    <3> SUFFICES ASSUME NEW c \in Categories \ met, NEW i \in DOMAIN printed'[c],
                        NEW j \in DOMAIN printed'[c], i < j
                 PROVE  printed'[c][j] - printed'[c][i] >= Interval
      BY DEF OncePerInterval
    <3>1. CASE c = category[g]
      <4>1. i \in 1 .. n /\ (j \in 1 .. n \/ j = n + 1)
        BY <1>10, <2>2, <2>3, <3>1
      <4>2. CASE j \in 1 .. n
        BY <1>10, <2>2, <2>3, <3>1, <4>1, <4>2 DEF OncePerInterval
      <4>3. CASE j = n + 1
        <5>1. Lonely(category[g])
          BY <3>1 DEF Lonely
        <5> QED BY <1>10, <2>3, <2>4, <3>1, <4>1, <4>3, <5>1
      <4> QED BY <4>1, <4>2, <4>3
    <3>2. CASE c # category[g]
      BY <3>2 DEF OncePerInterval
    <3> QED BY <3>1, <3>2
  <2> QED BY <1>3, <1>5, <1>7, <1>8, <2>5, <2>6
<1> QED BY <1>9, <1>10

LEMMA DistanceNext ==
  ASSUME DistanceInv, [Next]_throttleVars
  PROVE  DistanceInv'
<1>0. ThrottleTypeOK'
  BY ThrottleTypeNext DEF DistanceInv
<1>1. ASSUME NEW g \in Callers, NEW d \in Categories, Lookup(g, d) PROVE DistanceInv'
  BY <1>0, <1>1, LookupKeepsDistance
<1>2. ASSUME NEW g \in Callers, ReadClock(g) \/ Swap(g) PROVE DistanceInv'
  <2>1. UNCHANGED <<entries, lastLog, category, ok, printed, met>>
    BY <1>2 DEF ReadClock, Swap, entry, history
  <2>2. /\ pc[g] # "idle" /\ pc'[g] # "idle" /\ pc'[g] # "print"
        /\ \A h \in Callers \ {g} : pc'[h] = pc[h] /\ now'[h] = now[h]
        /\ pc'[g] \in {"swap", "store"} => pc[g] = "swap" /\ now'[g] = now[g]
    BY <1>2 DEF ReadClock, Swap, Goto, DistanceInv, ThrottleTypeOK
  <2>3. Lonely(category[g]) /\ pc'[g] \in {"swap", "store"} =>
          \A i \in DOMAIN printed[category[g]] : now'[g] - printed[category[g]][i] >= Interval
    BY <2>2 DEF DistanceInv, Passed
  <2> QED BY <1>0, <2>1, <2>2, <2>3, InsideKeepsDistance
<1>3. ASSUME NEW g \in Callers, Test(g) PROVE DistanceInv'
  <2>1. UNCHANGED <<entries, lastLog, category, ok, now, printed, met>>
    BY <1>3 DEF Test, entry, history
  <2>2. /\ pc[g] = "test" /\ pc'[g] \in {"suppress", "swap"}
        /\ pc'[g] = "swap" => ~(ok[g] /\ Recent(g))
        /\ \A h \in Callers \ {g} : pc'[h] = pc[h]
    BY <1>3 DEF Test, Goto, DistanceInv, ThrottleTypeOK
  <2>3. ASSUME Lonely(category[g]), pc'[g] = "swap", NEW i \in DOMAIN printed[category[g]]
        PROVE  now[g] - printed[category[g]][i] >= Interval
    <3> DEFINE last == lastLog[category[g]]
    <3>1. ok[g]
      <4>1. ~ok[g] => DOMAIN printed[category[g]] = {}
        BY <2>3 DEF DistanceInv, NewIsSilent
      <4> QED BY <4>1
    <3>2. last # Never /\ printed[category[g]][i] <= last
      BY <2>3 DEF DistanceInv, LastIsLast, Lonely
    <3>3. now[g] \in Nat /\ last \in Nat /\ printed[category[g]][i] \in Nat /\ Interval \in Nat
      <4>1. category[g] \in Categories /\ g \in Callers
        BY <2>3 DEF Lonely
      <4>2. printed[category[g]][i] \in Nat
        BY <2>3, <4>1, PrintedType DEF DistanceInv
      <4>3. now[g] \in 0 .. MaxClock /\ last \in (0 .. MaxClock) \cup {Never}
        BY <4>1 DEF DistanceInv, ThrottleTypeOK
      <4> QED BY <3>2, <4>2, <4>3, ThrottleAssumption
    <3>4. ~(now[g] - last < Interval)
      BY <2>2, <2>3, <3>1, <3>2 DEF Recent
    <3> QED BY <3>2, <3>3, <3>4
  <2>4. Lonely(category[g]) /\ pc'[g] \in {"swap", "store"} =>
          \A i \in DOMAIN printed[category[g]] : now'[g] - printed[category[g]][i] >= Interval
    BY <2>1, <2>2, <2>3
  <2> QED BY <1>0, <2>1, <2>2, <2>4, InsideKeepsDistance
<1>4. ASSUME NEW g \in Callers, StoreLast(g) PROVE DistanceInv'
  BY <1>0, <1>4, StoreKeepsDistance
<1>5. ASSUME NEW g \in Callers, Suppress(g) \/ PrintLine(g) PROVE DistanceInv'
  <2>1. pc[g] # "idle" /\ Return(g) /\ UNCHANGED <<entries, lastLog, met>>
    BY <1>5 DEF Suppress, PrintLine, entry, history
  <2>2. /\ \A c \in Categories \ {category[g]} : printed'[c] = printed[c]
        /\ \/ printed'[category[g]] = printed[category[g]]
           \/ /\ pc[g] = "print"
              /\ printed'[category[g]] = Append(printed[category[g]], now[g])
    <3>1. category[g] \in Categories /\ printed \in [Categories -> Seq(0 .. MaxClock)]
      BY <2>1 DEF DistanceInv, ThrottleTypeOK
    <3> QED BY <1>5, <3>1 DEF Suppress, PrintLine, history
  <2> QED BY <1>0, <2>1, <2>2, LeavingKeepsDistance
<1>6. ASSUME Tick \/ UNCHANGED throttleVars PROVE DistanceInv'
  <2>1. UNCHANGED <<entries, lastLog, pc, category, ok, now, printed, met>>
    BY <1>6 DEF Tick, throttleVars, entry, local, history
  <2> QED BY <1>0, <2>1 DEF DistanceInv, Outside, Alone, NewIsSilent, LastIsLast, Passed,
                            OncePerInterval, Lonely
<1> QED BY <1>1, <1>2, <1>3, <1>4, <1>5, <1>6 DEF Next, Throttled, Quiet

\* One line per category and interval (throttle.go:11), whatever the callers of other
\* categories do, as long as no two callers are in the category at once; two that meet
\* there both pass the test before either has stored lastLog.
THEOREM LinesKeepDistance == ThrottleSpec => []OncePerInterval
<1>1. Init => DistanceInv
  <2> SUFFICES ASSUME Init PROVE DistanceInv
    OBVIOUS
  <2>1. Outside /\ Alone /\ NewIsSilent /\ LastIsLast /\ Passed /\ OncePerInterval
    BY ThrottleAssumption DEF Init, Outside, Alone, NewIsSilent, LastIsLast, Passed,
                              OncePerInterval, Lonely
  <2> QED BY <2>1, ThrottleTypeInit DEF DistanceInv
<1>2. DistanceInv /\ [Next]_throttleVars => DistanceInv'
  BY DistanceNext
<1>3. DistanceInv => OncePerInterval
  BY DEF DistanceInv
<1> QED BY <1>1, <1>2, <1>3, PTL DEF ThrottleSpec
=============================================================================
