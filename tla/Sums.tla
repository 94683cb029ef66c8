-------------------------------- MODULE Sums --------------------------------
(***************************************************************************)
(* Lemmas about the sums that the models take over sets of lines, samples  *)
(* and callers: SumFunctionOnSet of the community module Functions, a fold *)
(* that takes the elements in an order nobody knows. The induction behind  *)
(* them is over sets instead of predicates, from the least element that    *)
(* every set of naturals has.                                              *)
(***************************************************************************)
EXTENDS Integers, Functions, FiniteSetTheorems, WellFoundedInduction, TLAPS

-----------------------------------------------------------------------------
(* Induction.                                                              *)

\* The naturals are well ordered.
LEMMA LeastNatural ==
  ASSUME NEW T, T \subseteq Nat, T # {}
  PROVE  \E m \in T : \A n \in T : m <= n
<1> DEFINE less == {p \in Nat \X Nat : p[1] < p[2]}
<1>1. IsWellFoundedOn(less, Nat)
  BY NatLessThanWellFounded DEF OpToRel
<1>2. \A x \in Nat, y \in Nat : <<x, y>> \in less <=> x < y
  OBVIOUS
<1> HIDE DEF less
<1>3. PICK m \in T : \A n \in T : ~ (<<n, m>> \in less)
  BY <1>1, WFMin
<1>4. \A n \in T : ~(n < m)
  BY <1>2, <1>3
<1>5. \A n \in T : m <= n
  BY <1>4
<1> QED BY <1>5

\* Induction over the naturals, for a set of them.
LEMMA NaturalsByInduction ==
  ASSUME NEW Good, 0 \in Good, \A n \in Good \cap Nat : n + 1 \in Good
  PROVE  Nat \subseteq Good
<1> SUFFICES ASSUME Nat \ Good # {} PROVE FALSE
  OBVIOUS
<1>1. PICK m \in Nat \ Good : \A n \in Nat \ Good : m <= n
  BY LeastNatural
<1>2. m # 0 /\ m - 1 \in Nat
  BY <1>1
<1>3. m - 1 \in Good
  BY <1>1, <1>2
<1>4. (m - 1) + 1 \in Good
  BY <1>2, <1>3
<1> QED BY <1>1, <1>4

\* Induction over the subsets of a finite set, for a set of them.
LEMMA SubsetsByInduction ==
  ASSUME NEW S, IsFiniteSet(S), NEW Good, {} \in Good,
         \A s \in Good \cap SUBSET S : \A x \in S \ s : s \cup {x} \in Good
  PROVE  S \in Good
<1> DEFINE missing == {n \in Nat : \E s \in Good \cap SUBSET S : Cardinality(S \ s) = n}
<1>1. missing \subseteq Nat /\ missing # {}
  <2>1. S \ {} = S /\ Cardinality(S) \in Nat
    BY FS_CardinalityType
  <2>2. Cardinality(S) \in missing
    BY <2>1
  <2> QED BY <2>2
<1>2. PICK m \in missing : \A n \in missing : m <= n
  BY <1>1, LeastNatural
<1>3. PICK s \in Good \cap SUBSET S : Cardinality(S \ s) = m
  OBVIOUS
<1>4. IsFiniteSet(S \ s)
  BY FS_Subset
<1>5. CASE S \ s = {}
  <2>1. s = S
    BY <1>5
  <2> QED BY <2>1
<1>6. CASE S \ s # {}
  <2>1. PICK x \in S \ s : TRUE
    BY <1>6
  <2>2. s \cup {x} \in Good \cap SUBSET S
    BY <2>1
  <2>3. S \ (s \cup {x}) = (S \ s) \ {x}
    OBVIOUS
  <2>4. IsFiniteSet((S \ s) \ {x}) /\ Cardinality((S \ s) \ {x}) = m - 1
    BY <1>3, <1>4, <2>1, FS_RemoveElement
  <2>5. m - 1 \in Nat
    BY <2>4, FS_CardinalityType
  <2>6. m - 1 \in missing
    BY <2>2, <2>3, <2>4, <2>5
  <2> HIDE DEF missing
  <2>7. m \in Nat /\ m <= m - 1
    BY <1>1, <1>2, <2>6
  <2> QED BY <2>7
<1> QED BY <1>5, <1>6

-----------------------------------------------------------------------------
(* The recursion of a fold.                                                *)

Pick(s) == CHOOSE x \in s : TRUE

SumStep(f, it, s) == IF s = {} THEN 0 ELSE f[Pick(s)] + it[s \ {Pick(s)}]

\* it holds the sums of f over all subsets of S.
Summing(f, it, S) == it = [s \in SUBSET S |-> SumStep(f, it, s)]

\* Taking an element leaves one fewer.
LEMMA PickShrinks ==
  ASSUME NEW s, IsFiniteSet(s), s # {}
  PROVE  /\ Pick(s) \in s /\ IsFiniteSet(s \ {Pick(s)})
         /\ Cardinality(s) \in Nat /\ Cardinality(s \ {Pick(s)}) = Cardinality(s) - 1
         /\ Cardinality(s) # 0
<1>1. Pick(s) \in s
  BY DEF Pick
<1>2. Cardinality(s) \in Nat /\ Cardinality(s) # 0
  BY FS_CardinalityType, FS_EmptySet
<1> QED BY <1>1, <1>2, FS_RemoveElement

\* The recursion has a solution.
LEMMA SummingExists ==
  ASSUME NEW f, NEW S, IsFiniteSet(S)
  PROVE  \E it : Summing(f, it, S)
<1> DEFINE Upto(it, n) == /\ it = [s \in SUBSET S |-> it[s]]
                          /\ \A s \in SUBSET S : Cardinality(s) <= n => it[s] = SumStep(f, it, s)
           Good == {n \in Nat : \E it : Upto(it, n)}
<1>0. \A s \in SUBSET S : IsFiniteSet(s) /\ Cardinality(s) \in Nat
                          /\ Cardinality(s) <= Cardinality(S)
  BY FS_Subset, FS_CardinalityType
<1>1. 0 \in Good
  <2> DEFINE it == [s \in SUBSET S |-> 0]
  <2>1. \A s \in SUBSET S : Cardinality(s) <= 0 => s = {}
    BY <1>0, FS_EmptySet
  <2>2. Upto(it, 0)
    BY <2>1 DEF SumStep
  <2> HIDE DEF it
  <2> QED BY <2>2
<1>2. ASSUME NEW n \in Good PROVE n + 1 \in Good
  <2>1. n \in Nat
    OBVIOUS
  <2>2. PICK it : Upto(it, n)
    OBVIOUS
  <2> DEFINE jt == [s \in SUBSET S |-> IF Cardinality(s) <= n THEN it[s] ELSE SumStep(f, it, s)]
  <2>3. \A s \in SUBSET S : jt[s] = SumStep(f, it, s)
    BY <2>2
  <2>4. \A s \in SUBSET S : Cardinality(s) <= n => jt[s] = it[s]
    OBVIOUS
  <2>5. jt = [s \in SUBSET S |-> jt[s]]
    OBVIOUS
  <2> HIDE DEF jt
  <2>6. ASSUME NEW s \in SUBSET S, Cardinality(s) <= n + 1 PROVE jt[s] = SumStep(f, jt, s)
    <3>1. CASE s = {}
      BY <2>3, <3>1 DEF SumStep
    <3>2. CASE s # {}
      <4>1. Cardinality(s \ {Pick(s)}) = Cardinality(s) - 1 /\ Cardinality(s) \in Nat
        BY <1>0, <3>2, PickShrinks
      <4>2. Cardinality(s \ {Pick(s)}) <= n
        BY <2>1, <2>6, <4>1
      <4>3. s \ {Pick(s)} \in SUBSET S
        OBVIOUS
      <4>4. jt[s \ {Pick(s)}] = it[s \ {Pick(s)}]
        BY <2>4, <4>2, <4>3
      <4> QED BY <2>3, <3>2, <4>4 DEF SumStep
    <3> QED BY <3>1, <3>2
  <2>7. Upto(jt, n + 1)
    BY <2>5, <2>6
  <2> HIDE DEF Upto
  <2>8. n + 1 \in Nat /\ \E u : Upto(u, n + 1)
    BY <2>1, <2>7
  <2> QED BY <2>8
<1> HIDE DEF Good
<1>3. Cardinality(S) \in Good
  BY <1>0, <1>1, <1>2, NaturalsByInduction
<1>4. PICK it : Upto(it, Cardinality(S))
  BY <1>3 DEF Good
<1>5. \A s \in SUBSET S : it[s] = SumStep(f, it, s)
  BY <1>0, <1>4
<1>6. it = [s \in SUBSET S |-> SumStep(f, it, s)]
  BY <1>4, <1>5
<1> QED BY <1>6 DEF Summing

\* It has one solution, whatever the set is that the subsets belong to.
LEMMA SummingUnique ==
  ASSUME NEW f, NEW S, IsFiniteSet(S), NEW it, Summing(f, it, S),
         NEW T \in SUBSET S, NEW jt, Summing(f, jt, T)
  PROVE  it[T] = jt[T]
<1> DEFINE wrong == {n \in Nat : \E s \in SUBSET T : Cardinality(s) = n /\ it[s] # jt[s]}
<1>1. \A s \in SUBSET T : IsFiniteSet(s) /\ Cardinality(s) \in Nat /\ s \in SUBSET S
  BY FS_Subset, FS_CardinalityType
<1>2. \A s \in SUBSET T : it[s] = SumStep(f, it, s) /\ jt[s] = SumStep(f, jt, s)
  BY DEF Summing
<1> SUFFICES ASSUME it[T] # jt[T] PROVE FALSE
  OBVIOUS
<1>3. wrong \subseteq Nat /\ wrong # {}
  BY <1>1
<1>4. PICK m \in wrong : \A n \in wrong : m <= n
  <2> HIDE DEF wrong
  <2> QED BY <1>3, LeastNatural
<1>5. PICK s \in SUBSET T : Cardinality(s) = m /\ it[s] # jt[s]
  OBVIOUS
<1>6. s # {}
  BY <1>2, <1>5 DEF SumStep
<1>7. /\ s \ {Pick(s)} \in SUBSET T
      /\ Cardinality(s \ {Pick(s)}) = m - 1 /\ m - 1 \in Nat
  BY <1>1, <1>5, <1>6, PickShrinks
<1>8. it[s \ {Pick(s)}] = jt[s \ {Pick(s)}]
  BY <1>4, <1>7
<1> QED BY <1>2, <1>5, <1>6, <1>8 DEF SumStep

\* The community module's sum is a solution.
LEMMA SumIsSolution ==
  ASSUME NEW f, NEW S, IsFiniteSet(S)
  PROVE  \E it : Summing(f, it, S) /\ SumFunctionOnSet(f, S) = it[S]
<1> DEFINE it == CHOOSE it : it = [s \in SUBSET S |-> SumStep(f, it, s)]
<1>1. it = [s \in SUBSET S |-> SumStep(f, it, s)]
  BY SummingExists DEF Summing
<1>2. SumFunctionOnSet(f, S) = it[S]
  BY DEF SumFunctionOnSet, FoldFunctionOnSet, MapThenFoldSet, SumStep, Pick
<1> QED BY <1>1, <1>2 DEF Summing

-----------------------------------------------------------------------------
(* Sums.                                                                   *)

\* No element, no sum.
LEMMA SumEmpty ==
  ASSUME NEW f
  PROVE  SumFunctionOnSet(f, {}) = 0
<1>1. PICK it : Summing(f, it, {}) /\ SumFunctionOnSet(f, {}) = it[{}]
  BY SumIsSolution, FS_EmptySet
<1>2. it[{}] = SumStep(f, it, {})
  BY <1>1 DEF Summing
<1> QED BY <1>1, <1>2 DEF SumStep

\* The fold takes the chosen element first.
LEMMA SumPick ==
  ASSUME NEW f, NEW S, IsFiniteSet(S), S # {}
  PROVE  SumFunctionOnSet(f, S) = f[Pick(S)] + SumFunctionOnSet(f, S \ {Pick(S)})
<1>1. PICK it : Summing(f, it, S) /\ SumFunctionOnSet(f, S) = it[S]
  BY SumIsSolution
<1> DEFINE T == S \ {Pick(S)}
<1>2. IsFiniteSet(T) /\ T \in SUBSET S
  BY FS_Subset
<1>3. PICK jt : Summing(f, jt, T) /\ SumFunctionOnSet(f, T) = jt[T]
  BY <1>2, SumIsSolution
<1>4. it[T] = jt[T]
  BY <1>1, <1>2, <1>3, SummingUnique
<1>5. it[S] = SumStep(f, it, S)
  BY <1>1 DEF Summing
<1> QED BY <1>1, <1>3, <1>4, <1>5 DEF SumStep

\* Sums of naturals are naturals.
LEMMA SumType ==
  ASSUME NEW S, IsFiniteSet(S), NEW f, \A x \in S : f[x] \in Nat
  PROVE  SumFunctionOnSet(f, S) \in Nat
<1> DEFINE wrong == {n \in Nat : \E s \in SUBSET S :
                       Cardinality(s) = n /\ SumFunctionOnSet(f, s) \notin Nat}
<1>1. \A s \in SUBSET S : IsFiniteSet(s) /\ Cardinality(s) \in Nat
  BY FS_Subset, FS_CardinalityType
<1> SUFFICES ASSUME SumFunctionOnSet(f, S) \notin Nat PROVE FALSE
  OBVIOUS
<1>2. wrong \subseteq Nat /\ wrong # {}
  BY <1>1
<1>3. PICK m \in wrong : \A n \in wrong : m <= n
  <2> HIDE DEF wrong
  <2> QED BY <1>2, LeastNatural
<1>4. PICK s \in SUBSET S : Cardinality(s) = m /\ SumFunctionOnSet(f, s) \notin Nat
  OBVIOUS
<1>5. s # {}
  BY <1>4, SumEmpty
<1>6. /\ Pick(s) \in s /\ s \ {Pick(s)} \in SUBSET S
      /\ Cardinality(s \ {Pick(s)}) = m - 1 /\ m - 1 \in Nat
  BY <1>1, <1>4, <1>5, PickShrinks
<1>7. SumFunctionOnSet(f, s \ {Pick(s)}) \in Nat
  BY <1>3, <1>6
<1>8. SumFunctionOnSet(f, s) = f[Pick(s)] + SumFunctionOnSet(f, s \ {Pick(s)})
  BY <1>1, <1>5, SumPick
<1> QED BY <1>4, <1>6, <1>7, <1>8

\* The order does not matter: any element may be taken out.
LEMMA SumAdd ==
  ASSUME NEW D, IsFiniteSet(D), NEW f, \A x \in D : f[x] \in Nat,
         NEW S \in SUBSET D, NEW x \in D \ S
  PROVE  SumFunctionOnSet(f, S \cup {x}) = f[x] + SumFunctionOnSet(f, S)
<1> DEFINE Sum(s) == SumFunctionOnSet(f, s)
           Fits(s, y) == Sum(s \cup {y}) = f[y] + Sum(s)
           wrong == {n \in Nat : \E s \in SUBSET D : \E y \in D \ s :
                       Cardinality(s) = n /\ ~Fits(s, y)}
<1>1. \A s \in SUBSET D : IsFiniteSet(s) /\ Cardinality(s) \in Nat /\ Sum(s) \in Nat
  BY FS_Subset, FS_CardinalityType, SumType
<1> SUFFICES ASSUME ~Fits(S, x) PROVE FALSE
  OBVIOUS
<1>2. wrong \subseteq Nat /\ wrong # {}
  BY <1>1
<1>3. PICK m \in wrong : \A n \in wrong : m <= n
  <2> HIDE DEF wrong
  <2> QED BY <1>2, LeastNatural
<1>4. PICK s \in SUBSET D : \E y \in D \ s : Cardinality(s) = m /\ ~Fits(s, y)
  OBVIOUS
<1>9. PICK y \in D \ s : Cardinality(s) = m /\ ~Fits(s, y)
  BY <1>4
<1>5. \A t \in SUBSET D : \A z \in D \ t : Cardinality(t) = m - 1 /\ m - 1 \in Nat => Fits(t, z)
  <2> SUFFICES ASSUME NEW t \in SUBSET D, NEW z \in D \ t,
                      Cardinality(t) = m - 1, m - 1 \in Nat, ~Fits(t, z)
               PROVE  FALSE
    OBVIOUS
  <2>1. m - 1 \in wrong
    OBVIOUS
  <2>2. m \in Nat
    OBVIOUS
  <2> HIDE DEF wrong
  <2>3. m <= m - 1
    BY <1>3, <2>1
  <2> QED BY <2>2, <2>3
<1> DEFINE T == s \cup {y}
           c == Pick(T)
<1>6. /\ c \in T /\ Sum(T) = f[c] + Sum(T \ {c}) /\ T \in SUBSET D
  BY <1>1, PickShrinks, SumPick
<1> HIDE DEF c, wrong
<1>7. CASE c = y
  <2>1. T \ {c} = s
    BY <1>7
  <2> QED BY <1>6, <1>7, <1>9, <2>1
<1>8. CASE c # y
  <2> DEFINE t == s \ {c}
  <2>1. c \in s /\ T \ {c} = t \cup {y} /\ s = t \cup {c} /\ t \in SUBSET D /\ c \in D \ t /\ y \in D \ t
    BY <1>6, <1>8
  <2>2. Cardinality(t) = m - 1 /\ m - 1 \in Nat
    <3>1. Cardinality(t) = m - 1 /\ IsFiniteSet(t)
      BY <1>1, <1>9, <2>1, FS_RemoveElement
    <3> QED BY <3>1, FS_CardinalityType
  <2>3. Fits(t, y) /\ Fits(t, c)
    BY <1>5, <2>1, <2>2
  <2>4. Sum(T \ {c}) = f[y] + Sum(t) /\ Sum(s) = f[c] + Sum(t)
    BY <2>1, <2>3
  <2>5. f[c] \in Nat /\ f[y] \in Nat /\ Sum(t) \in Nat
    BY <1>1, <2>1
  <2> HIDE DEF t, Sum, T
  <2>6. Sum(T) = f[y] + Sum(s)
    BY <1>6, <2>4, <2>5
  <2> QED BY <1>9, <2>6 DEF T
<1> QED BY <1>7, <1>8

\* The same for a set as a whole: any of its elements may be taken out.
LEMMA SumRemove ==
  ASSUME NEW S, IsFiniteSet(S), NEW f, \A x \in S : f[x] \in Nat, NEW x \in S
  PROVE  SumFunctionOnSet(f, S) = f[x] + SumFunctionOnSet(f, S \ {x})
<1>1. S = (S \ {x}) \cup {x} /\ S \ {x} \in SUBSET S /\ x \in S \ (S \ {x})
  OBVIOUS
<1>2. SumFunctionOnSet(f, (S \ {x}) \cup {x}) = f[x] + SumFunctionOnSet(f, S \ {x})
  BY <1>1, SumAdd
<1> QED BY <1>1, <1>2

\* A sum depends on the values at its elements only.
LEMMA SumSame ==
  ASSUME NEW S, IsFiniteSet(S), NEW f, NEW g, \A x \in S : f[x] = g[x] /\ f[x] \in Nat
  PROVE  SumFunctionOnSet(f, S) = SumFunctionOnSet(g, S)
<1> DEFINE Good == {s \in SUBSET S : SumFunctionOnSet(f, s) = SumFunctionOnSet(g, s)}
<1>1. {} \in Good
  BY SumEmpty
<1>2. ASSUME NEW s \in Good \cap SUBSET S, NEW x \in S \ s PROVE s \cup {x} \in Good
  <2>1. /\ SumFunctionOnSet(f, s \cup {x}) = f[x] + SumFunctionOnSet(f, s)
        /\ SumFunctionOnSet(g, s \cup {x}) = g[x] + SumFunctionOnSet(g, s)
    <3>1. \A y \in S : f[y] \in Nat /\ g[y] \in Nat
      OBVIOUS
    <3> QED BY <3>1, SumAdd
  <2> QED BY <2>1
<1> HIDE DEF Good
<1>3. S \in Good
  BY <1>1, <1>2, SubsetsByInduction
<1> QED BY <1>3 DEF Good

\* The last element of a range.
LEMMA SumLast ==
  ASSUME NEW n \in Nat, NEW f, \A i \in 1 .. n + 1 : f[i] \in Nat
  PROVE  SumFunctionOnSet(f, 1 .. n + 1) = SumFunctionOnSet(f, 1 .. n) + f[n + 1]
<1>0. 1 \in Int /\ n \in Int /\ n + 1 \in Int
  OBVIOUS
<1>6. IsFiniteSet(1 .. n)
  BY <1>0, FS_Interval
<1>7. IsFiniteSet(1 .. n + 1)
  BY <1>0, FS_Interval
<1>5. IsFiniteSet(1 .. n) /\ IsFiniteSet(1 .. n + 1)
  BY <1>6, <1>7
<1>1. n + 1 \in 1 .. n + 1 /\ (1 .. n + 1) \ {n + 1} = 1 .. n
  OBVIOUS
<1>2. SumFunctionOnSet(f, 1 .. n + 1) = f[n + 1] + SumFunctionOnSet(f, (1 .. n + 1) \ {n + 1})
  BY <1>1, <1>5, SumRemove
<1>8. \A i \in 1 .. n : f[i] \in Nat
  OBVIOUS
<1>3. SumFunctionOnSet(f, 1 .. n) \in Nat
  BY <1>5, <1>8, SumType
<1>4. f[n + 1] \in Nat
  OBVIOUS
<1>9. SumFunctionOnSet(f, 1 .. n + 1) = f[n + 1] + SumFunctionOnSet(f, 1 .. n)
  BY <1>1, <1>2
<1> QED BY <1>3, <1>4, <1>9

\* A function that gets one more element at the end.
LEMMA SumGrows ==
  ASSUME NEW n \in Nat, NEW f, NEW g, DOMAIN f = 1 .. n, DOMAIN g = 1 .. n + 1,
         \A i \in 1 .. n : f[i] = g[i], \A i \in 1 .. n + 1 : g[i] \in Nat
  PROVE  SumFunction(g) = SumFunction(f) + g[n + 1]
<1>1. SumFunctionOnSet(g, 1 .. n + 1) = SumFunctionOnSet(g, 1 .. n) + g[n + 1]
  BY SumLast
<1>4. IsFiniteSet(1 .. n)
  <2>1. 1 \in Int /\ n \in Int
    OBVIOUS
  <2> QED BY <2>1, FS_Interval
<1>2. \A i \in 1 .. n : f[i] = g[i] /\ f[i] \in Nat
  OBVIOUS
<1>3. SumFunctionOnSet(f, 1 .. n) = SumFunctionOnSet(g, 1 .. n)
  BY <1>2, <1>4, SumSame
<1> QED BY <1>1, <1>3 DEF SumFunction

\* Sums over some of the first elements.
LEMMA SumExtends ==
  ASSUME NEW n \in Nat, NEW f, NEW g, \A i \in 1 .. n : f[i] = g[i],
         \A i \in 1 .. n + 1 : g[i] \in Nat, NEW S \in SUBSET (1 .. n)
  PROVE  /\ SumFunctionOnSet(g, S) = SumFunctionOnSet(f, S)
         /\ SumFunctionOnSet(f, S) \in Nat
         /\ SumFunctionOnSet(g, S \cup {n + 1}) = SumFunctionOnSet(f, S) + g[n + 1]
<1>1. IsFiniteSet(1 .. n + 1)
  <2>1. 1 \in Int /\ n + 1 \in Int
    OBVIOUS
  <2> QED BY <2>1, FS_Interval
<1>2. IsFiniteSet(S)
  <2>1. S \in SUBSET (1 .. n + 1)
    OBVIOUS
  <2> QED BY <1>1, <2>1, FS_Subset
<1>3. \A i \in S : f[i] = g[i] /\ f[i] \in Nat
  OBVIOUS
<1>4. SumFunctionOnSet(f, S) = SumFunctionOnSet(g, S)
  BY <1>2, <1>3, SumSame
<1>5. SumFunctionOnSet(f, S) \in Nat
  BY <1>2, <1>3, SumType
<1>6. PICK D, x : D = 1 .. n + 1 /\ x = n + 1 /\ x \in D \ S
  OBVIOUS
<1>9. IsFiniteSet(D)
  BY <1>1, <1>6
<1>10. S \in SUBSET D
  BY <1>6
<1>11. \A i \in D : g[i] \in Nat
  BY <1>6
<1>7. SumFunctionOnSet(g, S \cup {x}) = g[x] + SumFunctionOnSet(g, S)
  <2>1. x \in D \ S
    BY <1>6
  <2>2. \A T \in SUBSET D : \A y \in D \ T :
          SumFunctionOnSet(g, T \cup {y}) = g[y] + SumFunctionOnSet(g, T)
    BY <1>9, <1>11, SumAdd
  <2> QED BY <1>10, <2>1, <2>2
<1>8. g[n + 1] \in Nat
  OBVIOUS
<1>12. SumFunctionOnSet(g, S \cup {n + 1}) = g[n + 1] + SumFunctionOnSet(f, S)
  BY <1>4, <1>6, <1>7, Zenon
<1>13. \A a, b \in Nat : a + b = b + a
  OBVIOUS
<1>14. SumFunctionOnSet(g, S \cup {n + 1}) = SumFunctionOnSet(f, S) + g[n + 1]
  BY <1>5, <1>8, <1>12, <1>13, Zenon
<1> QED BY <1>4, <1>5, <1>14
=============================================================================
