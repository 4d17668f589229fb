------------------------------ MODULE BooksProofs ------------------------------
(***************************************************************************)
(* The books about agents agree with what they did: the inductive          *)
(* invariants of Economy, AgentDesk, Reasoning, Missions and MetaLearning, *)
(* as MCServices instantiates them, for any agents, amounts and bounds.    *)
(* They rest on a few lemmas about sums over finite sets.                  *)
(***************************************************************************)
EXTENDS MCServices, FiniteSetsExt, SequenceTheorems, FiniteSetTheorems, FunctionTheorems,
        WellFoundedInduction, TLAPS

(***************************************************************************)
(* Induction, as the least counterexample                                  *)
(***************************************************************************)
LEMMA NumbersFollow ==
  ASSUME NEW S \in SUBSET Nat, 0 \in S, \A n \in S : n + 1 \in S
  PROVE  S = Nat
<1>. SUFFICES ASSUME NEW x \in Nat \ S PROVE FALSE
  OBVIOUS
<1>. DEFINE Less == OpToRel(<, Nat)
<1>1. PICK n \in Nat \ S : \A m \in Nat \ S : <<m, n>> \notin Less
  <2>. HIDE DEF Less
  <2>1. IsWellFoundedOn(Less, Nat)
    BY NatLessThanWellFounded DEF Less
  <2>2. QED
    BY <2>1, WFMin
<1>2. \A m \in Nat \ S : ~ (m < n)
  BY <1>1 DEF OpToRel
<1>3. n \in Nat /\ n # 0
  BY <1>1
<1>4. n - 1 \in Nat /\ n - 1 < n /\ (n - 1) + 1 = n
  BY <1>3
<1>5. n - 1 \in S
  BY <1>2, <1>4
<1>. QED BY <1>1, <1>4, <1>5

LEMMA SmallerSets ==
  ASSUME NEW U, IsFiniteSet(U), NEW s \in SUBSET U
  PROVE  /\ IsFiniteSet(s) /\ Cardinality(s) \in Nat
         /\ Cardinality(s) = 0 <=> s = {}
         /\ \A x \in s : Cardinality(s \ {x}) = Cardinality(s) - 1 /\ s \ {x} \in SUBSET U
<1>1. IsFiniteSet(s)
  BY FS_Subset
<1>. QED BY <1>1, FS_CardinalityType, FS_EmptySet, FS_RemoveElement

(* What holds of a set if it holds of the set less any of its members, holds of
   every finite set.                                                          *)
LEMMA SetsFollow ==
  ASSUME NEW U, IsFiniteSet(U), NEW F,
         \A s \in SUBSET U : (\A x \in s : s \ {x} \in F) => s \in F
  PROVE  \A s \in SUBSET U : s \in F
<1>. DEFINE N == {n \in Nat : \A s \in SUBSET U : Cardinality(s) = n => s \in F}
<1>1. 0 \in N
  BY SmallerSets
<1>2. ASSUME NEW n \in N PROVE n + 1 \in N
  <2>1. n \in Nat /\ \A s \in SUBSET U : Cardinality(s) = n => s \in F
    BY <1>2
  <2>2. ASSUME NEW s \in SUBSET U, Cardinality(s) = n + 1 PROVE s \in F
    <3>1. \A x \in s : Cardinality(s \ {x}) = n /\ s \ {x} \in SUBSET U
      BY <2>1, <2>2, SmallerSets
    <3>. QED BY <2>1, <3>1
  <2>. QED BY <2>1, <2>2
<1>3. N = Nat
  <2>. HIDE DEF N
  <2>1. N \in SUBSET Nat
    BY DEF N
  <2>. QED BY <1>1, <1>2, <2>1, NumbersFollow
<1>4. ASSUME NEW s \in SUBSET U PROVE s \in F
  <2>1. Cardinality(s) \in N
    BY <1>3, SmallerSets
  <2>. QED BY <2>1
<1>. QED BY <1>4

(***************************************************************************)
(* Sums                                                                    *)
(***************************************************************************)
One(s) == CHOOSE x \in s : TRUE

\* A sum of the values of f over every subset of S.
IsSum(sum, S, f) ==
  sum = [s \in SUBSET S |-> IF s = {} THEN 0 ELSE f[One(s)] + sum[s \ {One(s)}]]

Total(f) == MapThenSumSet(LAMBDA x : f[x], DOMAIN f)

LEMMA OneIsIn == ASSUME NEW s, s # {} PROVE One(s) \in s
BY DEF One

LEMMA SumsExist ==
  ASSUME NEW S, IsFiniteSet(S), NEW f \in [S -> Int]
  PROVE  \E sum \in [SUBSET S -> Int] : IsSum(sum, S, f)
<1>. DEFINE Next(sum, s) == IF s = {} THEN 0 ELSE f[One(s)] + sum[s \ {One(s)}]
            N == {n \in Nat : \E sum \in [SUBSET S -> Int] :
                     \A s \in SUBSET S : Cardinality(s) <= n => sum[s] = Next(sum, s)}
<1>1. 0 \in N
  <2>. DEFINE sum == [s \in SUBSET S |-> 0]
  <2>1. sum \in [SUBSET S -> Int]
    OBVIOUS
  <2>2. \A s \in SUBSET S : Cardinality(s) <= 0 => sum[s] = Next(sum, s)
    BY SmallerSets
  <2>. QED BY <2>1, <2>2
<1>2. ASSUME NEW n \in N PROVE n + 1 \in N
  <2>1. n \in Nat
    BY <1>2
  <2>2. PICK sum \in [SUBSET S -> Int] :
               \A s \in SUBSET S : Cardinality(s) <= n => sum[s] = Next(sum, s)
    BY <1>2
  <2>. DEFINE more == [s \in SUBSET S |-> Next(sum, s)]
  <2>3. more \in [SUBSET S -> Int]
    BY OneIsIn
  <2>4. ASSUME NEW s \in SUBSET S, Cardinality(s) <= n + 1 PROVE more[s] = Next(more, s)
    <3>1. CASE s = {}
      BY <3>1
    <3>2. CASE s # {}
      <4>1. One(s) \in s
        BY <3>2, OneIsIn
      <4>2. s \ {One(s)} \in SUBSET S /\ Cardinality(s \ {One(s)}) <= n
        BY <2>1, <2>4, <4>1, SmallerSets
      <4>3. more[s \ {One(s)}] = sum[s \ {One(s)}]
        BY <2>2, <4>2
      <4>. QED BY <3>2, <4>3
    <3>. QED BY <3>1, <3>2
  <2>. HIDE DEF more, Next
  <2>. QED BY <2>1, <2>3, <2>4
<1>3. N = Nat
  <2>. HIDE DEF N
  <2>1. N \in SUBSET Nat
    BY DEF N
  <2>. QED BY <1>1, <1>2, <2>1, NumbersFollow
<1>4. PICK sum \in [SUBSET S -> Int] :
             \A s \in SUBSET S : Cardinality(s) <= Cardinality(S) => sum[s] = Next(sum, s)
  <2>1. Cardinality(S) \in N
    BY <1>3, FS_CardinalityType
  <2>. QED BY <2>1
<1>5. \A s \in SUBSET S : sum[s] = Next(sum, s)
  BY <1>4, FS_Subset
<1>. HIDE DEF Next
<1>6. sum = [s \in SUBSET S |-> Next(sum, s)]
  BY <1>5
<1>. QED BY <1>6 DEF IsSum, Next

(* Whatever is added first, the sums are the same. *)
LEMMA SumsAgree ==
  ASSUME NEW S, IsFiniteSet(S), NEW f, NEW sum, IsSum(sum, S, f),
         NEW T \in SUBSET S, NEW g, NEW other, IsSum(other, T, g),
         \A x \in T : f[x] = g[x]
  PROVE  \A s \in SUBSET T : sum[s] = other[s]
<1>. DEFINE F == {s \in SUBSET T : sum[s] = other[s]}
<1>1. ASSUME NEW s \in SUBSET T, \A x \in s : s \ {x} \in F PROVE s \in F
  <2>1. sum[s] = IF s = {} THEN 0 ELSE f[One(s)] + sum[s \ {One(s)}]
    BY DEF IsSum
  <2>2. other[s] = IF s = {} THEN 0 ELSE g[One(s)] + other[s \ {One(s)}]
    BY DEF IsSum
  <2>3. CASE s = {}
    BY <2>1, <2>2, <2>3
  <2>4. CASE s # {}
    <3>1. One(s) \in s
      BY <2>4, OneIsIn
    <3>2. f[One(s)] = g[One(s)] /\ sum[s \ {One(s)}] = other[s \ {One(s)}]
      BY <1>1, <3>1
    <3>. QED BY <2>1, <2>2, <2>4, <3>2
  <2>. QED BY <2>3, <2>4
<1>2. IsFiniteSet(T)
  BY FS_Subset
<1>. HIDE DEF F
<1>3. \A s \in SUBSET T : s \in F
  BY <1>1, <1>2, SetsFollow
<1>. QED BY <1>3 DEF F

LEMMA SumWithOneMore ==
  ASSUME NEW S, IsFiniteSet(S), NEW f, \A x \in S : f[x] \in Int,
         NEW sum, \A s \in SUBSET S : sum[s] \in Int, IsSum(sum, S, f), NEW t \in SUBSET S, NEW z \in t
  PROVE  sum[t] = sum[t \ {z}] + f[z]
<1>. DEFINE F == {s \in SUBSET S : \A x \in s : sum[s] = sum[s \ {x}] + f[x]}
<1>1. ASSUME NEW s \in SUBSET S, \A x \in s : s \ {x} \in F PROVE s \in F
  <2>1. ASSUME NEW x \in s PROVE sum[s] = sum[s \ {x}] + f[x]
    <3>. DEFINE y == One(s)
    <3>1. y \in s
      BY <2>1, OneIsIn
    <3>2. sum[s] = f[y] + sum[s \ {y}]
      BY <2>1 DEF IsSum
    <3>3. CASE x = y
      BY <3>1, <3>2, <3>3
    <3>4. CASE x # y
      <4>1. s \ {x} \in F /\ s \ {y} \in F
        BY <1>1, <3>1
      <4>2. sum[s \ {x}] = sum[(s \ {x}) \ {y}] + f[y] /\ sum[s \ {y}] = sum[(s \ {y}) \ {x}] + f[x]
        BY <3>1, <3>4, <4>1
      <4>3. (s \ {x}) \ {y} = (s \ {y}) \ {x}
        OBVIOUS
      <4>4. /\ f[x] \in Int /\ f[y] \in Int /\ sum[(s \ {x}) \ {y}] \in Int
            /\ sum[s \ {x}] \in Int /\ sum[s \ {y}] \in Int
        <5>1. \A u \in SUBSET S : sum[u] \in Int
          OBVIOUS
        <5>2. s \ {x} \in SUBSET S /\ s \ {y} \in SUBSET S /\ (s \ {x}) \ {y} \in SUBSET S
          OBVIOUS
        <5>3. f[x] \in Int /\ f[y] \in Int
          BY <2>1, <3>1
        <5>4. /\ sum[(s \ {x}) \ {y}] \in Int
              /\ sum[s \ {x}] \in Int /\ sum[s \ {y}] \in Int
          BY ONLY <5>1, <5>2
        <5>. QED BY <5>3, <5>4
      <4>5. sum[(s \ {x}) \ {y}] = sum[(s \ {y}) \ {x}]
        BY <4>3
      <4>. HIDE DEF y
      <4>. QED BY <3>2, <4>2, <4>4, <4>5
    <3>. QED BY <3>3, <3>4
  <2>. QED BY <2>1
<1>. HIDE DEF F
<1>2. \A s \in SUBSET S : s \in F
  BY <1>1, SetsFollow
<1>. QED BY <1>2 DEF F

(* What is summed over a set is the total of a function. *)
LEMMA TotalsAreSums ==
  ASSUME NEW S, IsFiniteSet(S), NEW f \in [S -> Int]
  PROVE  \E sum \in [SUBSET S -> Int] : IsSum(sum, S, f) /\ Total(f) = sum[S]
<1>. DEFINE sum == CHOOSE it : it = [s \in SUBSET S |-> IF s = {} THEN 0 ELSE f[One(s)] + it[s \ {One(s)}]]
<1>1. PICK it \in [SUBSET S -> Int] : IsSum(it, S, f)
  BY SumsExist
<1>2. IsSum(sum, S, f)
  BY <1>1, Zenon DEF IsSum
<1>3. DOMAIN f = S
  OBVIOUS
<1>4. Total(f) = sum[S]
  BY <1>3, Zenon DEF Total, MapThenSumSet, MapThenFoldSet, One
<1>. HIDE DEF sum
<1>5. \A s \in SUBSET S : sum[s] = it[s]
  BY <1>1, <1>2, SumsAgree
<1>6. sum = it
  BY <1>1, <1>2, <1>5 DEF IsSum
<1>. QED BY <1>1, <1>2, <1>4, <1>6

LEMMA TotalOfNothing == ASSUME NEW f, DOMAIN f = {} PROVE Total(f) = 0
<1>1. f \in [{} -> Int] /\ IsFiniteSet({})
  BY FS_EmptySet
<1>2. PICK sum : IsSum(sum, {}, f) /\ Total(f) = sum[{}]
  BY <1>1, TotalsAreSums
<1>. QED BY <1>2 DEF IsSum

LEMMA TotalWithOneMore ==
  ASSUME NEW S, IsFiniteSet(S), NEW x, x \notin S,
         NEW f \in [S -> Int], NEW g \in [S \cup {x} -> Int], \A y \in S : g[y] = f[y]
  PROVE  Total(f) \in Int /\ Total(g) = Total(f) + g[x]
<1>1. IsFiniteSet(S \cup {x})
  BY FS_AddElement
<1>2. PICK sum \in [SUBSET S -> Int] : IsSum(sum, S, f) /\ Total(f) = sum[S]
  BY TotalsAreSums
<1>3. PICK more \in [SUBSET (S \cup {x}) -> Int] : IsSum(more, S \cup {x}, g) /\ Total(g) = more[S \cup {x}]
  BY <1>1, TotalsAreSums
<1>4. more[S \cup {x}] = more[(S \cup {x}) \ {x}] + g[x]
  <2>. DEFINE T == S \cup {x}
  <2>1. /\ x \in T /\ T \in SUBSET T /\ IsFiniteSet(T) /\ IsSum(more, T, g)
        /\ \A y \in T : g[y] \in Int
        /\ \A s \in SUBSET T : more[s] \in Int
    BY <1>1, <1>3
  <2>. HIDE DEF T
  <2>2. more[T] = more[T \ {x}] + g[x]
    BY ONLY <2>1, SumWithOneMore
  <2>. QED BY <2>2 DEF T
<1>5. (S \cup {x}) \ {x} = S
  OBVIOUS
<1>6. more[S] = sum[S]
  <2>. DEFINE T == S \cup {x}
  <2>1. IsSum(more, T, g) /\ IsFiniteSet(T) /\ S \in SUBSET T
    BY <1>1, <1>3
  <2>. HIDE DEF T
  <2>3. \A y \in S : g[y] = f[y]
    OBVIOUS
  <2>2. \A s \in SUBSET S : more[s] = sum[s]
    BY ONLY <1>2, <2>1, <2>3, SumsAgree
  <2>. QED BY <2>2
<1>7. sum[S] \in Int
  OBVIOUS
<1>. QED BY <1>2, <1>3, <1>4, <1>5, <1>6, <1>7

LEMMA TotalIsANumber ==
  ASSUME NEW S, IsFiniteSet(S), NEW f \in [S -> Int]
  PROVE  Total(f) \in Int
<1>1. PICK sum \in [SUBSET S -> Int] : IsSum(sum, S, f) /\ Total(f) = sum[S]
  BY TotalsAreSums
<1>. QED BY <1>1

(* One value changes. *)
LEMMA TotalChanges ==
  ASSUME NEW S, IsFiniteSet(S), NEW f \in [S -> Int], NEW g \in [S -> Int],
         NEW x \in S, \A y \in S \ {x} : g[y] = f[y]
  PROVE  Total(g) = Total(f) - f[x] + g[x] /\ Total(f) \in Int
<1>. DEFINE h == [y \in S \ {x} |-> f[y]]
<1>1. IsFiniteSet(S \ {x}) /\ (S \ {x}) \cup {x} = S
  BY FS_RemoveElement
<1>2. h \in [S \ {x} -> Int] /\ \A y \in S \ {x} : f[y] = h[y] /\ g[y] = h[y]
  OBVIOUS
<1>. HIDE DEF h
<1>3. Total(h) \in Int /\ Total(f) = Total(h) + f[x]
  BY <1>1, <1>2, TotalWithOneMore
<1>4. Total(g) = Total(h) + g[x]
  BY <1>1, <1>2, TotalWithOneMore
<1>. QED BY <1>3, <1>4

(* The sum of a list grows by what is appended. *)
LEMMA TotalUpTo ==
  \A n \in Nat : \A m : m = n + 1 =>
    \A f \in [1..n -> Int], g \in [1..m -> Int] :
      (\A i \in 1..n : g[i] = f[i]) => Total(g) = Total(f) + g[m] /\ Total(f) \in Int
<1>. SUFFICES ASSUME NEW n \in Nat, NEW m, m = n + 1
     PROVE \A f \in [1..n -> Int], g \in [1..m -> Int] :
             (\A i \in 1..n : g[i] = f[i]) => Total(g) = Total(f) + g[m] /\ Total(f) \in Int
  OBVIOUS
<1>. DEFINE S == 1..n
            T == 1..m
<1>1. IsFiniteSet(S)
  BY FS_Interval
<1>2. m \notin S /\ T = S \cup {m}
  OBVIOUS
<1>. HIDE DEF S, T
<1>3. \A f \in [S -> Int], g \in [S \cup {m} -> Int] :
        (\A i \in S : g[i] = f[i]) => Total(g) = Total(f) + g[m] /\ Total(f) \in Int
  BY <1>1, <1>2, TotalWithOneMore
<1>4. \A f \in [S -> Int], g \in [T -> Int] :
        (\A i \in S : g[i] = f[i]) => Total(g) = Total(f) + g[m] /\ Total(f) \in Int
  BY <1>2, <1>3
<1>. QED BY <1>4 DEF S, T

StartsWith(g, f, n) == \A i \in 1..n : g[i] = f[i]
LEMMA TotalOfStart ==
  \A n \in Nat : \A m : m = n + 1 =>
    \A f \in [1..n -> Int], g \in [1..m -> Int] :
      StartsWith(g, f, n) => Total(g) = Total(f) + g[m]
BY TotalUpTo DEF StartsWith

\* A list that begins with one more.
LEMMA TotalOfLonger ==
  \A n \in Nat : \A m : m = n + 1 =>
    \A f \in [1..n -> Int], g \in [1..m -> Int] :
      (\A i \in 1..n : g[i + 1] = f[i]) => Total(g) = g[1] + Total(f) /\ Total(f) \in Int
<1>. DEFINE Longer(f, g, n) == \A i \in 1..n : g[i + 1] = f[i]
            Holds(n, m) ==
              \A f \in [1..n -> Int], g \in [1..m -> Int] :
                Longer(f, g, n) => Total(g) = g[1] + Total(f) /\ Total(f) \in Int
            N == {n \in Nat : Holds(n, n + 1)}
<1>1. 0 \in N
  <2>1. ASSUME NEW z \in Nat, NEW o, o = z + 1, z = 0, NEW f \in [1..z -> Int], NEW g \in [1..o -> Int]
        PROVE  Total(g) = g[1] + Total(f) /\ Total(f) \in Int
    <3>1. \A i \in 1..z : g[i] = f[i]
      BY <2>1
    <3>2. Total(g) = Total(f) + g[o]
      BY <2>1, <3>1, TotalUpTo
    <3>3. DOMAIN f = {} /\ o = 1 /\ g[1] \in Int
      BY <2>1
    <3>4. Total(f) = 0
      BY <3>3, TotalOfNothing
    <3>. QED BY <3>2, <3>3, <3>4
  <2>2. \A z \in Nat : z = 0 => Holds(z, z + 1)
    BY <2>1
  <2>. HIDE DEF Holds
  <2>. QED BY <2>2
<1>2. ASSUME NEW n \in N PROVE n + 1 \in N
  <2>1. n \in Nat /\ Holds(n, n + 1)
    BY <1>2
  <2>2. PICK m \in Nat : m = n + 1
    BY <2>1
  <2>3. PICK o \in Nat : o = m + 1
    OBVIOUS
  <2>4. ASSUME NEW f \in [1..m -> Int], NEW g \in [1..o -> Int], Longer(f, g, m)
        PROVE  Total(g) = g[1] + Total(f) /\ Total(f) \in Int
    <3>. DEFINE h == [i \in 1..n |-> f[i]]
                l == [i \in 1..m |-> g[i]]
    <3>1. h \in [1..n -> Int] /\ \A i \in 1..n : f[i] = h[i]
      BY <2>1, <2>2
    <3>2. l \in [1..m -> Int] /\ \A i \in 1..m : g[i] = l[i]
      BY <2>3
    <3>3. Longer(h, l, n)
      BY <2>1, <2>2, <2>4
    <3>4. l[1] = g[1] /\ g[1] \in Int /\ f[m] \in Int /\ g[o] = f[m]
      BY <2>1, <2>2, <2>3, <2>4
    <3>. HIDE DEF h, l, Longer
    <3>5. Total(l) = l[1] + Total(h) /\ Total(h) \in Int
      BY <2>1, <2>2, <3>1, <3>2, <3>3
    <3>6. Total(f) = Total(h) + f[m]
      BY <2>1, <2>2, <3>1, TotalUpTo
    <3>7. Total(g) = Total(l) + g[o]
      BY <2>3, <3>2, TotalUpTo
    <3>. QED BY <3>4, <3>5, <3>6, <3>7
  <2>5. Holds(m, o)
    BY <2>4
  <2>. HIDE DEF Holds
  <2>. QED BY <2>2, <2>3, <2>5
<1>3. N = Nat
  <2>. HIDE DEF Holds
  <2>1. N \in SUBSET Nat
    OBVIOUS
  <2>. HIDE DEF N
  <2>. QED BY <1>1, <1>2, <2>1, NumbersFollow
<1>4. ASSUME NEW n \in Nat, NEW m, m = n + 1 PROVE Holds(n, m)
  <2>. HIDE DEF Holds
  <2>. QED BY <1>3, <1>4
<1>. QED BY <1>4

LEMMA SumOfZeros ==
  ASSUME NEW S, IsFiniteSet(S), NEW f, \A x \in S : f[x] = 0, NEW sum, IsSum(sum, S, f)
  PROVE  sum[S] = 0
<1>. DEFINE F == {s \in SUBSET S : sum[s] = 0}
<1>1. ASSUME NEW s \in SUBSET S, \A x \in s : s \ {x} \in F PROVE s \in F
  <2>1. sum[s] = IF s = {} THEN 0 ELSE f[One(s)] + sum[s \ {One(s)}]
    BY DEF IsSum
  <2>2. s # {} => One(s) \in s
    BY OneIsIn
  <2>3. s # {} => f[One(s)] = 0 /\ sum[s \ {One(s)}] = 0
    BY <1>1, <2>2
  <2>. QED BY <2>1, <2>3
<1>. HIDE DEF F
<1>2. \A s \in SUBSET S : s \in F
  BY <1>1, SetsFollow
<1>. QED BY <1>2 DEF F

LEMMA TotalOfZeros ==
  ASSUME NEW S, IsFiniteSet(S), NEW f \in [S -> Int], \A x \in S : f[x] = 0
  PROVE  Total(f) = 0
<1>1. PICK sum : IsSum(sum, S, f) /\ Total(f) = sum[S]
  BY TotalsAreSums
<1>. QED BY <1>1, SumOfZeros

(***************************************************************************)
(* Accounts                                                                *)
(***************************************************************************)
LEMMA AccountsCount ==
  \A S : EA!Cardinality(S) = Cardinality(S) /\ (EA!IsFiniteSet(S) <=> IsFiniteSet(S))
<1>1. \A S : EA!Cardinality(S) = Cardinality(S)
  BY DEF EA!Cardinality, Cardinality
<1>2. \A S : EA!IsFiniteSet(S) <=> IsFiniteSet(S)
  BY DEF EA!IsFiniteSet, IsFiniteSet
<1>. QED BY <1>1, <1>2

LEMMA AccountTotals == \A f : EA!TotalOf(f) = Total(f)
<1>. SUFFICES ASSUME NEW f PROVE EA!TotalOf(f) = Total(f)
  OBVIOUS
<1>. QED BY Zenon DEF EA!TotalOf, EA!MapThenSumSet, EA!MapThenFoldSet, Total, MapThenSumSet, MapThenFoldSet

AccountRow == [balance : Int, earned : Nat, spent : Nat]
Entry == [agent : Holders, amount : Int, type : EA!Types]
Movement == [type : EA!Types, agent : Holders, amount : Amounts]

\* What is pushed to a history of a length that is kept.
LEMMA PushKeeps ==
  ASSUME NEW e \in Entry, NEW list \in Seq(Entry), NEW keep \in Nat \ {0}, Len(list) <= keep
  PROVE  LET p == EA!Pushed(e, list, keep) IN
         /\ p \in Seq(Entry)
         /\ Len(p) = IF Len(list) < keep THEN Len(list) + 1 ELSE keep
         /\ p[1] = e /\ \A i \in 1..Len(list) : i + 1 \in DOMAIN p => p[i + 1] = list[i]
<1>. DEFINE n == IF Len(list) < keep THEN Len(list) + 1 ELSE keep
            all == <<e>> \o list
            p == EA!Pushed(e, list, keep)
<1>1. /\ all \in Seq(Entry) /\ Len(all) = Len(list) + 1 /\ Len(list) \in Nat
      /\ all[1] = e /\ \A i \in 1..Len(list) : all[i + 1] = list[i]
  OBVIOUS
<1>2. n \in 1..Len(all)
  BY <1>1
<1>3. p = SubSeq(all, 1, n)
  BY DEF EA!Pushed
<1>. HIDE DEF all, n, p
<1>4. p \in Seq(Entry) /\ Len(p) = n /\ \A i \in 1..n : p[i] = all[i]
  BY <1>1, <1>2, <1>3
<1>5. DOMAIN p = 1..n
  BY <1>4
<1>6. \A i \in 1..Len(list) : i + 1 \in DOMAIN p => p[i + 1] = list[i]
  BY <1>1, <1>4, <1>5
<1>. QED BY <1>1, <1>2, <1>4, <1>6 DEF n, p

LEMMA AmountsAre ==
  ASSUME NEW list \in Seq(Entry), NEW n \in Nat, n = Len(list)
  PROVE  \E f \in [1..n -> Int] :
           EA!AmountOf(list) = Total(f) /\ Total(f) \in Int /\ \A i \in 1..n : f[i] = list[i].amount
<1>. DEFINE f == [i \in 1..n |-> list[i].amount]
<1>1. DOMAIN list = 1..n /\ \A i \in 1..n : list[i] \in Entry
  OBVIOUS
<1>2. f \in [1..n -> Int] /\ \A i \in 1..n : f[i] = list[i].amount
  BY <1>1 DEF Entry
<1>3. EA!AmountOf(list) = Total(f)
  BY <1>1, AccountTotals, Zenon DEF EA!AmountOf
<1>4. IsFiniteSet(1..n)
  BY FS_Interval
<1>. HIDE DEF f
<1>5. Total(f) \in Int
  BY <1>2, <1>4, TotalIsANumber
<1>. QED BY <1>2, <1>3, <1>5

(* What a history shows grows by the entry, less the one it drops. *)
LEMMA PushAdds ==
  ASSUME NEW e \in Entry, NEW list \in Seq(Entry), NEW keep \in Nat \ {0}, Len(list) <= keep
  PROVE  EA!AmountOf(EA!Pushed(e, list, keep))
           = e.amount + EA!AmountOf(list)
             - (IF Len(list) < keep THEN 0 ELSE list[Len(list)].amount)
<1>. DEFINE p == EA!Pushed(e, list, keep)
<1>1. PICK n \in Nat, m \in Nat : n = Len(list) /\ m = n + 1
  OBVIOUS
<1>2. /\ p \in Seq(Entry) /\ Len(p) = IF n < keep THEN m ELSE keep
      /\ p[1] = e /\ \A i \in 1..n : i + 1 \in DOMAIN p => p[i + 1] = list[i]
  BY <1>1, PushKeeps
<1>. HIDE DEF p
<1>3. \A i \in 1..n : list[i] \in Entry
  BY <1>1
<1>4. e.amount \in Int /\ \A i \in 1..n : list[i].amount \in Int
  BY <1>3 DEF Entry
<1>5. PICK f \in [1..n -> Int] :
         EA!AmountOf(list) = Total(f) /\ Total(f) \in Int /\ \A i \in 1..n : f[i] = list[i].amount
  BY <1>1, AmountsAre
<1>6. PICK l \in Nat : l = Len(p)
  BY <1>2
<1>7. PICK q \in [1..l -> Int] :
         EA!AmountOf(p) = Total(q) /\ Total(q) \in Int /\ \A i \in 1..l : q[i] = p[i].amount
  <2>1. p \in Seq(Entry) /\ l \in Nat /\ l = Len(p)
    BY <1>2, <1>6
  <2>. QED BY ONLY <2>1, AmountsAre, Zenon
<1>. DEFINE value(i) == IF i = 1 THEN e.amount ELSE list[i - 1].amount
            g == [i \in 1..m |-> value(i)]
<1>8. g \in [1..m -> Int] /\ g[1] = e.amount
  <2>1. \A i \in 1..m : i = 1 \/ i - 1 \in 1..n
    BY <1>1
  <2>2. \A i \in 1..m : value(i) \in Int
    BY <1>4, <2>1
  <2>3. 1 \in 1..m /\ value(1) = e.amount
    BY <1>1
  <2>. HIDE DEF value
  <2>. QED BY <2>2, <2>3
<1>9. \A i \in 1..n : g[i + 1] = list[i].amount /\ i + 1 \in 1..m
  BY <1>1
<1>. HIDE DEF g
<1>10. Total(g) = e.amount + Total(f)
  <2>1. \A i \in 1..n : g[i + 1] = f[i]
    BY <1>5, <1>9, Zenon
  <2>2. Total(g) = g[1] + Total(f)
    <3>1. \A u \in [1..n -> Int], v \in [1..m -> Int] :
            (\A i \in 1..n : v[i + 1] = u[i]) => Total(v) = v[1] + Total(u)
      <4>1. n \in Nat /\ m = n + 1
        BY <1>1
      <4>2. \A u \in [1..n -> Int], v \in [1..m -> Int] :
              (\A i \in 1..n : v[i + 1] = u[i]) => Total(v) = v[1] + Total(u) /\ Total(u) \in Int
        BY ONLY <4>1, TotalOfLonger, Zenon
      <4>. QED BY ONLY <4>2, Zenon
    <3>2. f \in [1..n -> Int] /\ g \in [1..m -> Int]
      BY <1>8
    <3>. QED BY ONLY <2>1, <3>1, <3>2, Zenon
  <2>. QED BY <1>8, <2>2
<1>11. l <= m /\ \A i \in 1..l : q[i] = g[i]
  <2>1. DOMAIN p = 1..l /\ l <= m
    BY <1>1, <1>2, <1>6
  <2>2. ASSUME NEW i \in 1..l PROVE p[i].amount = g[i]
    <3>1. CASE i = 1
      BY <1>2, <1>8, <3>1
    <3>2. CASE i # 1
      <4>1. i - 1 \in 1..n /\ (i - 1) + 1 = i
        BY <1>1, <2>1, <3>2
      <4>2. PICK o \in 1..n : o + 1 = i
        BY <4>1
      <4>3. p[o + 1] = list[o] /\ g[o + 1] = list[o].amount
        BY <1>2, <1>9, <2>1, <4>2
      <4>. QED BY <4>2, <4>3
    <3>. QED BY <3>1, <3>2
  <2>. QED BY <1>7, <2>1, <2>2
<1>12. CASE n < keep
  <2>1. l = m
    BY <1>2, <1>6, <1>12
  <2>2. q = g
    BY <1>7, <1>8, <1>11, <2>1
  <2>. QED BY <1>1, <1>4, <1>5, <1>7, <1>10, <1>12, <2>2 DEF p
<1>13. CASE ~(n < keep)
  <2>1. l = n /\ n \in 1..n /\ g[m] = list[n].amount /\ list[n].amount \in Int
    BY <1>1, <1>2, <1>4, <1>6, <1>9, <1>13
  <2>2. q \in [1..n -> Int] /\ \A i \in 1..n : g[i] = q[i]
    BY <1>7, <1>11, <2>1
  <2>3. Total(g) = Total(q) + g[m]
    <3>1. n \in Nat /\ m = n + 1
      BY <1>1
    <3>2. \A v \in [1..m -> Int] : StartsWith(v, q, n) => Total(v) = Total(q) + v[m]
      BY ONLY <2>2, <3>1, TotalOfStart
    <3>3. g \in [1..m -> Int] /\ StartsWith(g, q, n)
      BY <1>8, <2>2 DEF StartsWith
    <3>. QED BY ONLY <3>2, <3>3
  <2>4. EA!AmountOf(list) = Total(f) /\ EA!AmountOf(p) = Total(q)
    BY <1>5, <1>7
  <2>5. Total(f) \in Int /\ Total(q) \in Int /\ e.amount \in Int
    BY <1>4, <1>5, <1>7
  <2>6. Total(q) = e.amount + Total(f) - list[n].amount
    <3>1. Total(g) = Total(q) + list[n].amount /\ list[n].amount \in Int
      BY <2>1, <2>3
    <3>. DEFINE tg == Total(g)
                tf == Total(f)
                tq == Total(q)
                ea == e.amount
                la == list[n].amount
    <3>3. tg = ea + tf /\ tg = tq + la /\ tf \in Int /\ tq \in Int /\ ea \in Int /\ la \in Int
      BY <1>10, <2>5, <3>1
    <3>. HIDE DEF tg, tf, tq, ea, la
    <3>4. tq = ea + tf - la
      BY ONLY <3>3
    <3>. QED BY <3>4 DEF tf, tq, ea, la
  <2>. QED BY <1>1, <1>13, <2>4, <2>6 DEF p
<1>. QED BY <1>12, <1>13


(* Of a list with one more in front, an entry is preceded by as many entries of
   its agent as before, and by the new one if that is of the same agent.      *)
LEMMA ShiftedCount ==
  ASSUME NEW n \in Nat, NEW S \in SUBSET (1..n), NEW T, T = {x \in 2..(n + 1) : x - 1 \in S}
  PROVE  IsFiniteSet(S) /\ IsFiniteSet(T) /\ Cardinality(T) = Cardinality(S)
<1>. DEFINE shift == [x \in S |-> x + 1]
<1>1. IsFiniteSet(S)
  <2>1. IsFiniteSet(1..n)
    BY FS_Interval
  <2>. QED BY <2>1, FS_Subset, Zenon
<1>2. shift \in [S -> T]
  OBVIOUS
<1>3. \A x, y \in S : shift[x] = shift[y] => x = y
  OBVIOUS
<1>4. \A t \in T : \E x \in S : shift[x] = t
  <2>1. ASSUME NEW t \in T PROVE \E x \in S : shift[x] = t
    <3>1. t - 1 \in S /\ t \in Int
      OBVIOUS
    <3>2. shift[t - 1] = t
      BY <3>1
    <3>. QED BY <3>1, <3>2
  <2>. QED BY <2>1
<1>. HIDE DEF shift
<1>5. shift \in Bijection(S, T)
  BY <1>2, <1>3, <1>4, Fun_IsBij
<1>6. ExistsBijection(S, T)
  BY <1>5 DEF ExistsBijection
<1>7. IsFiniteSet(T) /\ Cardinality(T) = Cardinality(S)
  BY <1>1, <1>6, FS_Bijection
<1>. QED BY <1>1, <1>7

LEMMA RanksShift ==
  ASSUME NEW e \in Entry, NEW list \in Seq(Entry), NEW keep \in Nat \ {0}, Len(list) <= keep,
         NEW n \in Nat, n = Len(list), NEW i \in 1..n, NEW j \in Nat, j = i + 1,
         j \in DOMAIN EA!Pushed(e, list, keep)
  PROVE  /\ EA!RankOfEntry(list, i) \in Nat \ {0}
         /\ EA!RankOfEntry(EA!Pushed(e, list, keep), j)
              = EA!RankOfEntry(list, i) + (IF e.agent = list[i].agent THEN 1 ELSE 0)
<1>. DEFINE p == EA!Pushed(e, list, keep)
            S == {x \in 1..i : list[x].agent = list[i].agent}
            T == {x \in 2..j : x - 1 \in S}
            P == {x \in 1..j : p[x].agent = p[j].agent}
<1>1. /\ DOMAIN p = 1..Len(p) /\ Len(p) \in Nat /\ p[1] = e
      /\ \A x \in 1..n : x + 1 \in DOMAIN p => p[x + 1] = list[x]
  BY PushKeeps
<1>. HIDE DEF p
<1>2. j \in DOMAIN p /\ p[j] = list[i]
  BY <1>1 DEF p
<1>3. \A x \in 2..j : p[x] = list[x - 1]
  <2>1. ASSUME NEW x \in 2..j PROVE p[x] = list[x - 1]
    <3>1. PICK y \in 1..n : y + 1 = x
      <4>1. x - 1 \in 1..n /\ (x - 1) + 1 = x
        OBVIOUS
      <4>. QED BY <4>1
    <3>2. x \in DOMAIN p
      BY <1>1, <1>2
    <3>3. p[y + 1] = list[y] /\ x - 1 = y
      BY <1>1, <3>1, <3>2
    <3>. QED BY <3>1, <3>3
  <2>. QED BY <2>1
<1>4. P = T \cup (IF e.agent = list[i].agent THEN {1} ELSE {})
  <2>1. \A x \in 2..j : x \in P <=> x \in T
    <3>1. \A x \in 2..j : x - 1 \in 1..i /\ x \in 1..j
      OBVIOUS
    <3>. QED BY <1>2, <1>3, <3>1
  <2>2. 1 \in P <=> e.agent = list[i].agent
    BY <1>1, <1>2
  <2>3. \A x \in P : x = 1 \/ x \in 2..j
    OBVIOUS
  <2>4. T \in SUBSET (2..j)
    OBVIOUS
  <2>. HIDE DEF P, T
  <2>5. CASE e.agent = list[i].agent
    <3>1. \A x : x \in P <=> x \in T \cup {1}
      BY ONLY <2>1, <2>2, <2>3, <2>4, <2>5
    <3>2. P = T \cup {1}
      BY ONLY <3>1
    <3>. QED BY <2>5, <3>2
  <2>6. CASE e.agent # list[i].agent
    <3>1. P = T
      BY ONLY <2>1, <2>2, <2>3, <2>4, <2>6
    <3>. QED BY <2>6, <3>1
  <2>. QED BY <2>5, <2>6
<1>5. IsFiniteSet(S) /\ IsFiniteSet(T) /\ Cardinality(T) = Cardinality(S)
  <2>1. S \in SUBSET (1..i) /\ i \in Nat
    OBVIOUS
  <2>2. T = {x \in 2..(i + 1) : x - 1 \in S}
    OBVIOUS
  <2>. HIDE DEF S, T
  <2>3. i \in Nat
    OBVIOUS
  <2>. QED BY <2>1, <2>2, <2>3, ShiftedCount, Zenon
<1>6. i \in S /\ 1 \notin T
  OBVIOUS
<1>7. EA!RankOfEntry(list, i) = Cardinality(S) /\ EA!RankOfEntry(p, j) = Cardinality(P)
  BY AccountsCount, Zenon DEF EA!RankOfEntry
<1>. HIDE DEF S, T, P
<1>8. Cardinality(S) \in Nat \ {0}
  BY <1>5, <1>6, FS_CardinalityType, FS_EmptySet
<1>9. Cardinality(P) = Cardinality(S) + (IF e.agent = list[i].agent THEN 1 ELSE 0)
  <2>1. T \cup {} = T
    OBVIOUS
  <2>2. CASE e.agent = list[i].agent
    <3>1. P = T \cup {1}
      BY <1>4, <2>2
    <3>2. Cardinality(T \cup {1}) = Cardinality(T) + 1
      BY ONLY <1>5, <1>6, FS_AddElement
    <3>. QED BY <1>5, <2>2, <3>1, <3>2
  <2>3. CASE e.agent # list[i].agent
    <3>1. P = T
      BY <1>4, <2>1, <2>3
    <3>. QED BY <1>5, <1>8, <2>3, <3>1
  <2>. QED BY <2>2, <2>3
<1>. QED BY <1>7, <1>8, <1>9 DEF p

LEMMA FirstRank ==
  ASSUME NEW list, NEW e, list[1] = e PROVE EA!RankOfEntry(list, 1) = 1
<1>1. {x \in 1..1 : list[x].agent = list[1].agent} = {1}
  OBVIOUS
<1>. QED BY <1>1, AccountsCount, FS_Singleton DEF EA!RankOfEntry


\* What a movement that is still to be recorded adds to the history of an agent.
Owes(t, a) == IF t.agent = a THEN EA!Signed(t.type, t.amount) ELSE 0
\* A number for each agent.
Sheet == [Holders -> Int]

AccountRows == AccountRow \cup {EA!NoAccount}
Duties == Movement \cup {EA!Idle}

AccountsKept ==
  /\ account \in [Holders -> AccountRows]
  /\ topped \in Sheet /\ unrecorded \in Sheet /\ dropped \in Sheet
  /\ caller \in [Tellers -> Duties]
  /\ ofTenant \in Seq(Entry) /\ Len(ofTenant) <= TenantKeep
  /\ ofAgent \in [Holders -> Seq(Entry)] /\ \A a \in Holders : Len(ofAgent[a]) <= AgentKeep
BalancesAgree ==
  \A a \in Holders :
    /\ EA!HashOf(a).balance = topped[a] + EA!HashOf(a).earned - EA!HashOf(a).spent
    /\ EA!HashOf(a).balance
         = EA!AmountOf(ofAgent[a]) + dropped[a] + unrecorded[a] + EA!Pending(a)
StoriesAgree ==
  \A i \in DOMAIN ofTenant :
    LET own == ofAgent[ofTenant[i].agent]
        rank == EA!RankOfEntry(ofTenant, i)
    IN rank \in DOMAIN own => own[rank] = ofTenant[i]

\* The rows, the duties and the histories have their shapes, and the accounts add up.
AccountInv == AccountsKept /\ BalancesAgree /\ StoriesAgree

LEMMA DutiesOwe ==
  ASSUME EA!EconomyAssumption, NEW t \in Duties, NEW a
  PROVE  Owes(t, a) \in Int /\ (t = EA!Idle => Owes(t, a) = 0)
<1>1. CASE t = EA!Idle
  <2>1. t.type = "none" /\ t.amount = 0
    BY <1>1 DEF EA!Idle
  <2>. QED BY <2>1 DEF Owes, EA!Signed
<1>2. CASE t \in Movement
  <2>1. t.amount \in Nat /\ t.type # "none"
    <3>1. t.amount \in Amounts /\ t.type \in {"charge", "reward", "top_up"}
      BY <1>2 DEF Movement, EA!Types
    <3>2. Amounts \subseteq Nat
      BY DEF EA!EconomyAssumption
    <3>3. t.amount \in Nat
      BY <3>1, <3>2, Zenon
    <3>4. t.type # "none"
      BY <3>1
    <3>. QED BY <3>3, <3>4
  <2>2. t # EA!Idle
    BY <2>1 DEF EA!Idle
  <2>. QED BY <2>1, <2>2 DEF Owes, EA!Signed
<1>. QED BY <1>1, <1>2 DEF Duties

LEMMA PendingIs ==
  ASSUME EA!EconomyAssumption, AccountsKept, NEW a \in Holders
  PROVE  /\ EA!Pending(a) = Total([c \in Tellers |-> Owes(caller[c], a)])
         /\ [c \in Tellers |-> Owes(caller[c], a)] \in [Tellers -> Int]
         /\ EA!Pending(a) \in Int
<1>. DEFINE f == [c \in Tellers |-> Owes(caller[c], a)]
<1>1. f \in [Tellers -> Int]
  BY DutiesOwe DEF AccountsKept
<1>2. EA!Pending(a) = Total(f)
  BY AccountTotals, Zenon DEF EA!Pending, Owes
<1>3. IsFiniteSet(Tellers)
  BY AccountsCount DEF EA!EconomyAssumption
<1>. HIDE DEF f
<1>4. Total(f) \in Int
  BY <1>1, <1>3, TotalIsANumber
<1>. QED BY <1>1, <1>2, <1>4 DEF f

LEMMA PendingChanges ==
  ASSUME EA!EconomyAssumption, AccountsKept, AccountsKept', NEW c \in Tellers, NEW t \in Duties,
         caller' = [caller EXCEPT ![c] = t], NEW a \in Holders
  PROVE  /\ EA!Pending(a)' = EA!Pending(a) - Owes(caller[c], a) + Owes(t, a)
         /\ EA!Pending(a) \in Int /\ Owes(caller[c], a) \in Int /\ Owes(t, a) \in Int
<1>1. PICK f \in [Tellers -> Int] : f = [x \in Tellers |-> Owes(caller[x], a)]
  BY PendingIs
<1>2. EA!Pending(a) = Total(f) /\ Total(f) \in Int
  BY <1>1, PendingIs
<1>3. PICK g \in [Tellers -> Int] : g = [x \in Tellers |-> Owes(caller'[x], a)]
  <2>1. \A x \in Tellers : caller'[x] \in Duties
    BY DEF AccountsKept
  <2>2. \A x \in Tellers : Owes(caller'[x], a) \in Int
    BY <2>1, DutiesOwe
  <2>. QED BY <2>2
<1>4. EA!Pending(a)' = Total(g)
  BY <1>3, AccountTotals, Zenon DEF EA!Pending, Owes
<1>5. IsFiniteSet(Tellers)
  BY AccountsCount DEF EA!EconomyAssumption
<1>6. \A x \in Tellers \ {c} : g[x] = f[x]
  BY <1>1, <1>3 DEF AccountsKept
<1>7. g[c] = Owes(t, a) /\ f[c] = Owes(caller[c], a)
  BY <1>1, <1>3 DEF AccountsKept
<1>8. Total(g) = Total(f) - f[c] + g[c]
  BY <1>5, <1>6, TotalChanges
<1>9. f[c] \in Int /\ g[c] \in Int
  OBVIOUS
<1>. QED BY <1>2, <1>4, <1>7, <1>8, <1>9

LEMMA AccountsBegin ==
  ASSUME EA!EconomyAssumption, EA!EconomyInit PROVE AccountInv
<1>1. AccountsKept
  BY DEF AccountsKept, EA!EconomyInit, AccountRows, Duties, Sheet, EA!EconomyAssumption
<1>2. ASSUME NEW a \in Holders
      PROVE  /\ EA!HashOf(a).balance = topped[a] + EA!HashOf(a).earned - EA!HashOf(a).spent
             /\ EA!HashOf(a).balance
                  = EA!AmountOf(ofAgent[a]) + dropped[a] + unrecorded[a] + EA!Pending(a)
  <2>1. EA!HashOf(a) = EA!Empty /\ topped[a] = 0 /\ dropped[a] = 0 /\ unrecorded[a] = 0 /\ ofAgent[a] = <<>>
    BY DEF EA!HashOf, EA!EconomyInit
  <2>2. EA!AmountOf(<<>>) = 0
    <3>1. DOMAIN <<>> = {}
      OBVIOUS
    <3>2. DOMAIN [i \in DOMAIN <<>> |-> <<>>[i].amount] = {}
      BY <3>1
    <3>3. Total([i \in DOMAIN <<>> |-> <<>>[i].amount]) = 0
      BY <3>2, TotalOfNothing
    <3>. QED BY <3>3, AccountTotals, Zenon DEF EA!AmountOf
  <2>3. EA!Pending(a) = 0
    <3>. DEFINE f == [c \in Tellers |-> Owes(caller[c], a)]
    <3>1. \A c \in Tellers : f[c] = 0
      BY DutiesOwe DEF EA!EconomyInit, Duties
    <3>2. EA!Pending(a) = Total(f) /\ f \in [Tellers -> Int]
      BY <1>1, PendingIs
    <3>3. IsFiniteSet(Tellers)
      BY AccountsCount DEF EA!EconomyAssumption
    <3>. HIDE DEF f
    <3>4. Total(f) = 0
      BY <3>1, <3>2, <3>3, TotalOfZeros
    <3>. QED BY <3>2, <3>4
  <2>. QED BY <2>1, <2>2, <2>3 DEF EA!Empty
<1>3. StoriesAgree
  BY DEF StoriesAgree, EA!EconomyInit
<1>. QED BY <1>1, <1>2, <1>3 DEF AccountInv, BalancesAgree


\* What a step must leave as it was for an agent, or change by one amount.
LEMMA MoveKeeps ==
  ASSUME EA!EconomyAssumption, AccountInv, NEW c \in Tellers, NEW type \in EA!Types, NEW a \in Holders,
         NEW amount \in Amounts, NEW answered \in BOOLEAN, EA!Move(c, type, a, amount, answered)
  PROVE  AccountInv'
<1>. DEFINE worth == EA!Signed(type, amount)
            row == EA!Moved(EA!HashOf(a), type, amount)
            t == [type |-> type, agent |-> a, amount |-> amount]
<1>1. AccountsKept /\ BalancesAgree /\ StoriesAgree
  BY DEF AccountInv
<1>2. amount \in Nat \ {0} /\ worth \in Int
  BY DEF EA!EconomyAssumption, EA!Signed
<1>3. EA!HashOf(a) \in AccountRow
  BY <1>1 DEF AccountsKept, EA!HashOf, AccountRows, AccountRow, EA!Empty
<1>4. /\ row \in AccountRow /\ row # EA!NoAccount
      /\ row.balance = EA!HashOf(a).balance + worth
      /\ row.earned - row.spent + (IF type = "top_up" THEN amount ELSE 0)
           = EA!HashOf(a).earned - EA!HashOf(a).spent + worth
  <2>1. row = [balance |-> EA!HashOf(a).balance + worth,
               earned |-> EA!HashOf(a).earned + (IF type = "reward" THEN amount ELSE 0),
               spent |-> EA!HashOf(a).spent + (IF type = "charge" THEN amount ELSE 0)]
    BY DEF EA!Moved
  <2>2. EA!HashOf(a).balance \in Int /\ EA!HashOf(a).earned \in Nat /\ EA!HashOf(a).spent \in Nat
    BY <1>3 DEF AccountRow
  <2>3. row \in AccountRow
    BY <1>2, <2>1, <2>2 DEF AccountRow
  <2>4. row # EA!NoAccount
    <3>1. DOMAIN row = {"balance", "earned", "spent"} /\ DOMAIN EA!NoAccount = {"absent"}
      BY <2>1 DEF EA!NoAccount
    <3>2. "balance" \notin {"absent"}
      OBVIOUS
    <3>. QED BY <3>1, <3>2
  <2>5. worth = IF type = "charge" THEN -amount ELSE amount
    BY DEF EA!Signed
  <2>6. type = "charge" \/ type = "reward" \/ type = "top_up"
    BY DEF EA!Types
  <2>. HIDE DEF row, worth
  <2>. QED BY <1>2, <2>1, <2>2, <2>3, <2>4, <2>5, <2>6
<1>5. /\ caller[c] = EA!Idle /\ account' = [account EXCEPT ![a] = row]
      /\ topped' = [topped EXCEPT ![a] = IF type = "top_up" THEN topped[a] + amount ELSE topped[a]]
      /\ caller' = IF answered THEN [caller EXCEPT ![c] = t] ELSE caller
      /\ unrecorded' = IF answered THEN unrecorded ELSE [unrecorded EXCEPT ![a] = unrecorded[a] + worth]
      /\ UNCHANGED <<ofTenant, ofAgent, dropped>>
  BY DEF EA!Move
<1>6. t \in Movement /\ t \in Duties
  BY DEF Movement, Duties
<1>. HIDE DEF row, worth, t
<1>7. AccountsKept'
  <2>1. account' \in [Holders -> AccountRows]
    BY <1>1, <1>4, <1>5 DEF AccountsKept, AccountRows
  <2>2. topped' \in Sheet /\ unrecorded' \in Sheet /\ dropped' \in Sheet
    BY <1>1, <1>2, <1>5 DEF AccountsKept, Sheet
  <2>3. caller' \in [Tellers -> Duties]
    BY <1>1, <1>5, <1>6 DEF AccountsKept
  <2>. QED BY <1>1, <1>5, <2>1, <2>2, <2>3 DEF AccountsKept
<1>8. ASSUME NEW b \in Holders
      PROVE  /\ EA!HashOf(b)'.balance = topped'[b] + EA!HashOf(b)'.earned - EA!HashOf(b)'.spent
             /\ EA!HashOf(b)'.balance
                  = EA!AmountOf(ofAgent'[b]) + dropped'[b] + unrecorded'[b] + EA!Pending(b)'
  <2>1. /\ EA!HashOf(b).balance = topped[b] + EA!HashOf(b).earned - EA!HashOf(b).spent
        /\ EA!HashOf(b).balance
             = EA!AmountOf(ofAgent[b]) + dropped[b] + unrecorded[b] + EA!Pending(b)
    BY <1>1 DEF BalancesAgree
  <2>2. EA!Pending(b) \in Int
        /\ EA!Pending(b)' = EA!Pending(b) + (IF answered /\ a = b THEN worth ELSE 0)
    <3>1. CASE answered
      <4>1. Owes(caller[c], b) = 0
        BY <1>5, DutiesOwe DEF Duties
      <4>2. Owes(t, b) = IF a = b THEN worth ELSE 0
        BY DEF Owes, t, worth
      <4>3. caller' = [caller EXCEPT ![c] = t]
        BY <1>5, <3>1
      <4>4. EA!Pending(b)' = EA!Pending(b) - Owes(caller[c], b) + Owes(t, b) /\ EA!Pending(b) \in Int
        BY <1>1, <1>6, <1>7, <4>3, PendingChanges, Zenon
      <4>. QED BY <1>2, <3>1, <4>1, <4>2, <4>4
    <3>2. CASE ~answered
      <4>1. EA!Pending(b)' = EA!Pending(b)
        BY <1>5, <3>2 DEF EA!Pending
      <4>2. EA!Pending(b) \in Int
        BY <1>1, PendingIs, Zenon
      <4>. QED BY <3>2, <4>1, <4>2
    <3>. QED BY <3>1, <3>2
  <2>3. topped[b] \in Int /\ unrecorded[b] \in Int /\ dropped[b] \in Int
    BY <1>1 DEF AccountsKept, Sheet
  <2>4. EA!AmountOf(ofAgent[b]) \in Int /\ EA!AmountOf(ofAgent'[b]) = EA!AmountOf(ofAgent[b])
    <3>1. ofAgent[b] \in Seq(Entry) /\ ofAgent'[b] = ofAgent[b]
      BY <1>1, <1>5 DEF AccountsKept
    <3>2. PICK n \in Nat : n = Len(ofAgent[b])
      BY <3>1
    <3>. QED BY <3>1, <3>2, AmountsAre
  <2>5. CASE b = a
    <3>1. EA!HashOf(b)' = row
      BY <1>1, <1>4, <1>5, <2>5 DEF EA!HashOf, AccountsKept
    <3>2. /\ topped'[b] = topped[b] + (IF type = "top_up" THEN amount ELSE 0)
          /\ unrecorded'[b] = unrecorded[b] + (IF answered THEN 0 ELSE worth)
          /\ dropped'[b] = dropped[b]
      BY <1>1, <1>2, <1>5, <2>3, <2>5 DEF AccountsKept, Sheet
    <3>3. EA!HashOf(b).balance \in Int /\ EA!HashOf(b).earned \in Int /\ EA!HashOf(b).spent \in Int
          /\ row.balance \in Int /\ row.earned \in Int /\ row.spent \in Int
      BY <1>3, <1>4, <2>5 DEF AccountRow
    <3>4. row.balance = topped'[b] + row.earned - row.spent
      BY <1>2, <1>4, <2>1, <2>3, <2>5, <3>2, <3>3
    <3>5. row.balance = EA!AmountOf(ofAgent'[b]) + dropped'[b] + unrecorded'[b] + EA!Pending(b)'
      BY <1>2, <1>4, <2>1, <2>2, <2>3, <2>4, <2>5, <3>2, <3>3
    <3>. QED BY <3>1, <3>4, <3>5
  <2>6. CASE b # a
    <3>1. EA!HashOf(b)' = EA!HashOf(b)
      BY <1>1, <1>5, <2>6 DEF EA!HashOf, AccountsKept
    <3>2. topped'[b] = topped[b] /\ unrecorded'[b] = unrecorded[b] /\ dropped'[b] = dropped[b]
      BY <1>1, <1>5, <2>6 DEF AccountsKept, Sheet
    <3>3. EA!Pending(b)' = EA!Pending(b)
      BY <2>2, <2>6
    <3>. QED BY <2>1, <2>4, <3>1, <3>2, <3>3
  <2>. QED BY <2>5, <2>6
<1>9. StoriesAgree'
  <2>1. ofTenant' = ofTenant /\ ofAgent' = ofAgent
    BY <1>5
  <2>. QED BY <1>1, <2>1, Zenon DEF StoriesAgree, EA!RankOfEntry
<1>. QED BY <1>7, <1>8, <1>9 DEF AccountInv, BalancesAgree


(* What is owed leaves the duties: it is recorded, or it is lost. *)
LEMMA RecordKeeps ==
  ASSUME EA!EconomyAssumption, AccountInv, NEW c \in Tellers, EA!Record(c)
  PROVE  AccountInv'
<1>. DEFINE t == caller[c]
            e == [agent |-> t.agent, amount |-> EA!Signed(t.type, t.amount), type |-> t.type]
<1>1. AccountsKept /\ BalancesAgree /\ StoriesAgree
  BY DEF AccountInv
<1>2. /\ t # EA!Idle /\ t \in Duties /\ EA!Idle \in Duties
  BY <1>1 DEF AccountsKept, EA!Record, Duties
<1>3. PICK a \in Holders : a = t.agent
  BY <1>2 DEF Duties, Movement
<1>4. PICK entry \in Entry : entry = e
  <2>1. t \in Movement
    BY <1>2 DEF Duties
  <2>2. t.type \in EA!Types /\ t.agent \in Holders /\ t.amount \in Amounts
    BY <2>1 DEF Movement
  <2>3. EA!Signed(t.type, t.amount) \in Int
    <3>1. Amounts \subseteq Nat
      BY DEF EA!EconomyAssumption
    <3>2. t.amount \in Nat
      BY <2>2, <3>1, Zenon
    <3>. QED BY <3>2 DEF EA!Signed
  <2>. QED BY <2>2, <2>3 DEF Entry
<1>5. entry.agent = a /\ entry.amount = EA!Signed(t.type, t.amount) /\ entry.amount \in Int
  BY <1>3, <1>4 DEF Entry
<1>6. /\ ofTenant' = EA!Pushed(entry, ofTenant, TenantKeep)
      /\ ofAgent' = [ofAgent EXCEPT ![a] = EA!Pushed(entry, ofAgent[a], AgentKeep)]
      /\ dropped' = [dropped EXCEPT ![a] =
                       IF Len(ofAgent[a]) < AgentKeep THEN dropped[a]
                       ELSE dropped[a] + ofAgent[a][Len(ofAgent[a])].amount]
      /\ caller' = [caller EXCEPT ![c] = EA!Idle]
      /\ UNCHANGED <<account, topped, unrecorded>>
  BY <1>3, <1>4, Zenon DEF EA!Record
<1>7. \A b \in Holders : Owes(t, b) = IF b = a THEN entry.amount ELSE 0
  BY <1>3, <1>5 DEF Owes
<1>. HIDE DEF t, e
<1>8. AgentKeep \in Nat \ {0} /\ TenantKeep \in Nat \ {0}
  BY DEF EA!EconomyAssumption
<1>. DEFINE list == ofAgent[a]
            next == EA!Pushed(entry, list, AgentKeep)
<1>9. list \in Seq(Entry) /\ Len(list) <= AgentKeep /\ ofAgent'[a] = next
  BY <1>1, <1>6 DEF AccountsKept
<1>10. /\ next \in Seq(Entry) /\ Len(next) <= AgentKeep
       /\ next[1] = entry /\ \A i \in 1..Len(list) : i + 1 \in DOMAIN next => next[i + 1] = list[i]
  <2>. HIDE DEF list
  <2>. QED BY <1>8, <1>9, PushKeeps
<1>11. /\ ofTenant' \in Seq(Entry) /\ Len(ofTenant') <= TenantKeep
       /\ Len(ofTenant') <= Len(ofTenant) + 1 /\ ofTenant'[1] = entry
       /\ \A i \in 1..Len(ofTenant) : i + 1 \in DOMAIN ofTenant' => ofTenant'[i + 1] = ofTenant[i]
  <2>1. ofTenant \in Seq(Entry) /\ Len(ofTenant) <= TenantKeep /\ Len(ofTenant) \in Nat
    BY <1>1 DEF AccountsKept
  <2>. DEFINE p == EA!Pushed(entry, ofTenant, TenantKeep)
  <2>2. /\ p \in Seq(Entry) /\ Len(p) = IF Len(ofTenant) < TenantKeep THEN Len(ofTenant) + 1 ELSE TenantKeep
        /\ p[1] = entry /\ \A i \in 1..Len(ofTenant) : i + 1 \in DOMAIN p => p[i + 1] = ofTenant[i]
    BY <1>8, <2>1, PushKeeps
  <2>3. ofTenant' = p
    BY <1>6
  <2>. HIDE DEF p
  <2>. QED BY <1>8, <2>1, <2>2, <2>3
<1>. HIDE DEF list, next
<1>12. PICK last \in Int :
          /\ last = IF Len(list) < AgentKeep THEN 0 ELSE list[Len(list)].amount
          /\ dropped'[a] = dropped[a] + last /\ dropped[a] \in Int
  <2>1. dropped[a] \in Int /\ dropped \in [Holders -> Int]
    BY <1>1 DEF AccountsKept, Sheet
  <2>2. CASE Len(list) < AgentKeep
    BY <1>6, <2>1, <2>2 DEF list
  <2>3. CASE ~(Len(list) < AgentKeep)
    <3>1. Len(list) \in DOMAIN list
      BY <1>8, <1>9, <2>3
    <3>2. list[Len(list)].amount \in Int
      <4>1. list[Len(list)] \in Entry
        BY <1>9, <3>1
      <4>. QED BY <4>1 DEF Entry
    <3>. QED BY <1>6, <2>1, <2>3, <3>2 DEF list
  <2>. QED BY <2>2, <2>3
<1>13. EA!AmountOf(next) = entry.amount + EA!AmountOf(list) - last /\ EA!AmountOf(list) \in Int
  <2>1. EA!AmountOf(next) = entry.amount + EA!AmountOf(list) - last
    BY <1>8, <1>9, <1>12, PushAdds DEF next
  <2>2. PICK n \in Nat : n = Len(list)
    BY <1>9
  <2>. QED BY <1>9, <2>1, <2>2, AmountsAre
<1>14. AccountsKept'
  <2>1. ofAgent' \in [Holders -> Seq(Entry)] /\ \A b \in Holders : Len(ofAgent'[b]) <= AgentKeep
    BY <1>1, <1>6, <1>9, <1>10 DEF AccountsKept
  <2>2. dropped' \in Sheet
    BY <1>1, <1>6, <1>12 DEF AccountsKept, Sheet
  <2>. QED BY <1>1, <1>2, <1>6, <1>11, <2>1, <2>2 DEF AccountsKept
<1>15. ASSUME NEW b \in Holders
       PROVE  /\ EA!HashOf(b)'.balance = topped'[b] + EA!HashOf(b)'.earned - EA!HashOf(b)'.spent
              /\ EA!HashOf(b)'.balance
                   = EA!AmountOf(ofAgent'[b]) + dropped'[b] + unrecorded'[b] + EA!Pending(b)'
  <2>1. /\ EA!HashOf(b).balance = topped[b] + EA!HashOf(b).earned - EA!HashOf(b).spent
        /\ EA!HashOf(b).balance
             = EA!AmountOf(ofAgent[b]) + dropped[b] + unrecorded[b] + EA!Pending(b)
    BY <1>1 DEF BalancesAgree
  <2>2. EA!HashOf(b)' = EA!HashOf(b) /\ topped'[b] = topped[b] /\ unrecorded'[b] = unrecorded[b]
    BY <1>6 DEF EA!HashOf
  <2>3. EA!Pending(b)' = EA!Pending(b) - Owes(t, b) /\ EA!Pending(b) \in Int
    <3>1. EA!Pending(b)' = EA!Pending(b) - Owes(caller[c], b) + Owes(EA!Idle, b) /\ EA!Pending(b) \in Int
          /\ Owes(caller[c], b) \in Int
      BY <1>1, <1>2, <1>6, <1>14, PendingChanges, Zenon
    <3>2. Owes(EA!Idle, b) = 0
      BY <1>2, DutiesOwe
    <3>. QED BY <3>1, <3>2 DEF t
  <2>4. unrecorded[b] \in Int
    BY <1>1 DEF AccountsKept, Sheet
  <2>5. CASE b = a
    <3>1. EA!AmountOf(ofAgent'[b]) = entry.amount + EA!AmountOf(ofAgent[b]) - last
          /\ EA!AmountOf(ofAgent[b]) \in Int
      BY <1>9, <1>13, <2>5 DEF list
    <3>2. dropped'[b] = dropped[b] + last /\ dropped[b] \in Int
      BY <1>12, <2>5
    <3>3. EA!Pending(b)' = EA!Pending(b) - entry.amount
      BY <1>7, <2>3, <2>5
    <3>4. EA!AmountOf(ofAgent'[b]) + dropped'[b] + unrecorded'[b] + EA!Pending(b)'
            = EA!AmountOf(ofAgent[b]) + dropped[b] + unrecorded[b] + EA!Pending(b)
      BY <1>5, <2>2, <2>3, <2>4, <3>1, <3>2, <3>3
    <3>. QED BY <2>1, <2>2, <3>4
  <2>6. CASE b # a
    <3>1. ofAgent'[b] = ofAgent[b] /\ dropped'[b] = dropped[b]
      BY <1>1, <1>6, <2>6 DEF AccountsKept, Sheet
    <3>2. EA!Pending(b)' = EA!Pending(b)
      BY <1>7, <2>3, <2>6
    <3>. QED BY <2>1, <2>2, <3>1, <3>2
  <2>. QED BY <2>5, <2>6
<1>16. ASSUME NEW j \in DOMAIN ofTenant',
              EA!RankOfEntry(ofTenant', j) \in DOMAIN (ofAgent'[ofTenant'[j].agent])
       PROVE  ofAgent'[ofTenant'[j].agent][EA!RankOfEntry(ofTenant', j)] = ofTenant'[j]
  <2>1. DOMAIN ofTenant' = 1..Len(ofTenant') /\ Len(ofTenant') \in Nat /\ Len(ofTenant) \in Nat
    BY <1>1, <1>11 DEF AccountsKept
  <2>2. CASE j = 1
    <3>1. EA!RankOfEntry(ofTenant', 1) = 1
      BY <1>11, FirstRank
    <3>. QED BY <1>5, <1>9, <1>10, <1>11, <2>2, <3>1
  <2>3. CASE j # 1
    <3>1. PICK i \in 1..Len(ofTenant) : j = i + 1
      <4>1. j - 1 \in 1..Len(ofTenant) /\ j = (j - 1) + 1
        BY <1>11, <2>1, <2>3
      <4>. QED BY <4>1
    <3>2. ofTenant'[j] = ofTenant[i] /\ ofTenant[i] \in Entry
      BY <1>1, <1>11, <3>1 DEF AccountsKept
    <3>3. PICK b \in Holders : b = ofTenant[i].agent
      BY <3>2 DEF Entry
    <3>4. PICK rank \in Nat \ {0} : rank = EA!RankOfEntry(ofTenant, i)
      BY <1>1, <1>6, <1>8, <3>1, RanksShift DEF AccountsKept
    <3>5. EA!RankOfEntry(ofTenant', j) = rank + (IF a = b THEN 1 ELSE 0)
      <4>1. PICK n \in Nat : n = Len(ofTenant)
        BY <2>1
      <4>2. ofTenant \in Seq(Entry) /\ Len(ofTenant) <= TenantKeep /\ i \in 1..n
        BY <1>1, <3>1, <4>1 DEF AccountsKept
      <4>3. j \in Nat /\ j \in DOMAIN EA!Pushed(entry, ofTenant, TenantKeep)
        BY <1>6, <2>1, <3>1
      <4>4. EA!RankOfEntry(EA!Pushed(entry, ofTenant, TenantKeep), j)
              = EA!RankOfEntry(ofTenant, i) + (IF entry.agent = ofTenant[i].agent THEN 1 ELSE 0)
        BY <1>8, <3>1, <4>1, <4>2, <4>3, RanksShift
      <4>. QED BY <1>5, <1>6, <3>3, <3>4, <4>4
    <3>6. rank \in DOMAIN (ofAgent[b]) => ofAgent[b][rank] = ofTenant[i]
      BY <1>1, <3>1, <3>3, <3>4 DEF StoriesAgree, AccountsKept
    <3>7. CASE b = a
      <4>1. rank + 1 \in DOMAIN next /\ Len(next) <= Len(list) + 1
        BY <1>8, <1>9, <1>16, <3>2, <3>3, <3>5, <3>7, PushKeeps DEF next
      <4>2. rank \in 1..Len(list) /\ DOMAIN list = 1..Len(list)
        BY <1>9, <1>10, <3>4, <4>1
      <4>3. next[rank + 1] = list[rank] /\ list[rank] = ofTenant[i]
        BY <1>10, <3>6, <3>7, <4>1, <4>2 DEF list
      <4>. QED BY <1>9, <3>2, <3>3, <3>5, <3>7, <4>3
    <3>8. CASE b # a
      <4>1. ofAgent'[b] = ofAgent[b]
        BY <1>1, <1>6, <3>8 DEF AccountsKept
      <4>2. EA!RankOfEntry(ofTenant', j) = rank
        BY <3>5, <3>8
      <4>. QED BY <1>16, <3>2, <3>3, <3>6, <4>1, <4>2
    <3>. QED BY <3>7, <3>8
  <2>. QED BY <2>2, <2>3
<1>17. StoriesAgree'
  BY <1>16, Zenon DEF StoriesAgree, EA!RankOfEntry
<1>. QED BY <1>14, <1>15, <1>17 DEF AccountInv, BalancesAgree


LEMMA LossKeeps ==
  ASSUME EA!EconomyAssumption, AccountInv, NEW c \in Tellers, EA!RecordLost(c)
  PROVE  AccountInv'
<1>. DEFINE t == caller[c]
            worth == EA!Signed(t.type, t.amount)
<1>1. AccountsKept /\ BalancesAgree /\ StoriesAgree
  BY DEF AccountInv
<1>2. t # EA!Idle /\ t \in Duties /\ EA!Idle \in Duties
  BY <1>1 DEF AccountsKept, EA!RecordLost, Duties
<1>3. PICK a \in Holders : a = t.agent
  BY <1>2 DEF Duties, Movement
<1>4. worth \in Int
  <2>1. t.amount \in Amounts
    BY <1>2 DEF Duties, Movement
  <2>2. Amounts \subseteq Nat
    BY DEF EA!EconomyAssumption
  <2>3. t.amount \in Nat
    BY <2>1, <2>2, Zenon
  <2>. QED BY <2>3 DEF EA!Signed
<1>5. /\ unrecorded' = [unrecorded EXCEPT ![a] = unrecorded[a] + worth]
      /\ caller' = [caller EXCEPT ![c] = EA!Idle]
      /\ UNCHANGED <<account, ofTenant, ofAgent, dropped, topped>>
  BY <1>3, Zenon DEF EA!RecordLost
<1>6. \A b \in Holders : Owes(t, b) = IF b = a THEN worth ELSE 0
  BY <1>3 DEF Owes
<1>. HIDE DEF t, worth
<1>7. AccountsKept'
  <2>1. unrecorded' \in Sheet
    BY <1>1, <1>4, <1>5 DEF AccountsKept, Sheet
  <2>2. caller' \in [Tellers -> Duties]
    BY <1>1, <1>2, <1>5 DEF AccountsKept
  <2>. QED BY <1>1, <1>5, <2>1, <2>2 DEF AccountsKept
<1>8. ASSUME NEW b \in Holders
      PROVE  /\ EA!HashOf(b)'.balance = topped'[b] + EA!HashOf(b)'.earned - EA!HashOf(b)'.spent
             /\ EA!HashOf(b)'.balance
                  = EA!AmountOf(ofAgent'[b]) + dropped'[b] + unrecorded'[b] + EA!Pending(b)'
  <2>1. /\ EA!HashOf(b).balance = topped[b] + EA!HashOf(b).earned - EA!HashOf(b).spent
        /\ EA!HashOf(b).balance
             = EA!AmountOf(ofAgent[b]) + dropped[b] + unrecorded[b] + EA!Pending(b)
    BY <1>1 DEF BalancesAgree
  <2>2. EA!HashOf(b)' = EA!HashOf(b) /\ topped'[b] = topped[b] /\ dropped'[b] = dropped[b]
        /\ ofAgent'[b] = ofAgent[b]
    BY <1>5 DEF EA!HashOf
  <2>3. EA!Pending(b)' = EA!Pending(b) - Owes(t, b) /\ EA!Pending(b) \in Int
    <3>1. EA!Pending(b)' = EA!Pending(b) - Owes(caller[c], b) + Owes(EA!Idle, b) /\ EA!Pending(b) \in Int
          /\ Owes(caller[c], b) \in Int
      BY <1>1, <1>2, <1>5, <1>7, PendingChanges, Zenon
    <3>2. Owes(EA!Idle, b) = 0
      BY <1>2, DutiesOwe
    <3>. QED BY <3>1, <3>2 DEF t
  <2>4. unrecorded[b] \in Int /\ dropped[b] \in Int
    BY <1>1 DEF AccountsKept, Sheet
  <2>5. EA!AmountOf(ofAgent[b]) \in Int
    <3>1. ofAgent[b] \in Seq(Entry)
      BY <1>1 DEF AccountsKept
    <3>2. PICK n \in Nat : n = Len(ofAgent[b])
      BY <3>1
    <3>. QED BY <3>1, <3>2, AmountsAre
  <2>6. unrecorded'[b] = unrecorded[b] + Owes(t, b) /\ Owes(t, b) \in Int
    <3>1. CASE b = a
      BY <1>1, <1>4, <1>5, <1>6, <3>1 DEF AccountsKept, Sheet
    <3>2. CASE b # a
      BY <1>1, <1>5, <1>6, <2>4, <3>2 DEF AccountsKept, Sheet
    <3>. QED BY <3>1, <3>2
  <2>7. EA!AmountOf(ofAgent'[b]) + dropped'[b] + unrecorded'[b] + EA!Pending(b)'
          = EA!AmountOf(ofAgent[b]) + dropped[b] + unrecorded[b] + EA!Pending(b)
    BY <2>2, <2>3, <2>4, <2>5, <2>6
  <2>. QED BY <2>1, <2>2, <2>7
<1>9. StoriesAgree'
  <2>1. ofTenant' = ofTenant /\ ofAgent' = ofAgent
    BY <1>5
  <2>. QED BY <1>1, <2>1, Zenon DEF StoriesAgree, EA!RankOfEntry
<1>. QED BY <1>7, <1>8, <1>9 DEF AccountInv, BalancesAgree

LEMMA AccountsStand ==
  ASSUME AccountInv,
         UNCHANGED <<account, ofTenant, ofAgent, caller, topped, unrecorded, dropped>>
  PROVE  AccountInv'
<1>1. /\ account' = account /\ ofTenant' = ofTenant /\ ofAgent' = ofAgent /\ caller' = caller
      /\ topped' = topped /\ unrecorded' = unrecorded /\ dropped' = dropped
  OBVIOUS
<1>2. AccountsKept'
  BY <1>1, Zenon DEF AccountInv, AccountsKept
<1>3. \A a \in Holders : EA!HashOf(a)' = EA!HashOf(a) /\ EA!Pending(a)' = EA!Pending(a)
  BY <1>1, Zenon DEF EA!HashOf, EA!Pending
<1>4. BalancesAgree'
  BY <1>1, <1>3, Zenon DEF AccountInv, BalancesAgree
<1>5. StoriesAgree'
  BY <1>1, Zenon DEF AccountInv, StoriesAgree, EA!RankOfEntry
<1>. QED BY <1>2, <1>4, <1>5 DEF AccountInv

LEMMA AccountsStep ==
  ASSUME EA!EconomyAssumption, AccountInv, [EA!EconomyNext]_(EA!economyVars)
  PROVE  AccountInv'
<1>1. CASE UNCHANGED <<account, ofTenant, ofAgent, caller, topped, unrecorded, dropped>>
  BY <1>1, AccountsStand
<1>2. CASE UNCHANGED EA!economyVars
  BY <1>1, <1>2 DEF EA!economyVars, EA!books
<1>3. ASSUME NEW amount \in Amounts, EA!AddTenantCredits(amount) PROVE AccountInv'
  BY <1>1, <1>3 DEF EA!AddTenantCredits
<1>4. ASSUME NEW a \in Holders,
             EA!CreateAsset(a) \/ EA!ArchiveAsset(a)
               \/ (\E i \in DOMAIN EA!RiskTiers : EA!UpdateRisk(a, EA!RiskTiers[i]))
               \/ (\E s \in EA!ComplianceStatuses : EA!UpdateCompliance(a, s))
      PROVE  AccountInv'
  BY <1>1, <1>4 DEF EA!CreateAsset, EA!ArchiveAsset, EA!UpdateRisk, EA!UpdateCompliance, EA!books
<1>. QED BY <1>2, <1>3, <1>4, MoveKeeps, RecordKeeps, LossKeeps DEF EA!EconomyNext

LEMMA AccountBooksAgree == ASSUME AccountInv PROVE EA!AccountsAddUp
BY Zenon DEF AccountInv, BalancesAgree, StoriesAgree, EA!AccountsAddUp

(***************************************************************************)
(* Prices                                                                  *)
(***************************************************************************)
Tiers == {"none", "minimal", "limited", "high", "unacceptable"}
AssetRow == [tier : Tiers, compliance : EP!ComplianceStatuses \cup {"none"},
             status : {"active", "archived"}]

\* A row has a tier there is, and a quote is made from a positive base and a tier.
PricesInv ==
  /\ asset \in [Priced -> AssetRow \cup {EP!NoAsset}]
  /\ \/ quoted = EP!NoQuote
     \/ /\ quoted.base \in Nat \ {0} /\ quoted.tier \in Tiers /\ quoted.applied \in BOOLEAN
        /\ quoted.cost = quoted.base * (IF quoted.applied THEN EP!RiskMultiplier(quoted.tier) ELSE 10)

LEMMA PricesBegin == ASSUME EP!EconomyInit PROVE PricesInv
BY DEF EP!EconomyInit, PricesInv

LEMMA TierIsNamed == \A i \in DOMAIN EP!RiskTiers : EP!RiskTiers[i] \in Tiers
BY DEF EP!RiskTiers, Tiers

LEMMA PricesStep ==
  ASSUME EP!EconomyAssumption, PricesInv, [EP!EconomyNext]_(EP!economyVars) PROVE PricesInv'
<1>1. CASE UNCHANGED EP!economyVars
  BY <1>1 DEF EP!economyVars, PricesInv, EP!RiskMultiplier
<1>2. CASE UNCHANGED <<asset, quoted>>
  BY <1>2 DEF PricesInv, EP!RiskMultiplier
<1>3. ASSUME NEW a \in Priced, NEW row \in AssetRow, asset' = [asset EXCEPT ![a] = row], quoted' = quoted
      PROVE  PricesInv'
  BY <1>3 DEF PricesInv, EP!RiskMultiplier
<1>4. ASSUME NEW a \in Priced, EP!CreateAsset(a) PROVE PricesInv'
  <2>. DEFINE row == [tier |-> "none", compliance |-> "none", status |-> "active"]
  <2>1. row \in AssetRow /\ asset' = [asset EXCEPT ![a] = row] /\ quoted' = quoted
    BY <1>4 DEF EP!CreateAsset, AssetRow, Tiers
  <2>. QED BY <1>3, <2>1
<1>5. ASSUME NEW a \in Priced, NEW i \in DOMAIN EP!RiskTiers, EP!UpdateRisk(a, EP!RiskTiers[i])
      PROVE  PricesInv'
  <2>. DEFINE row == [asset[a] EXCEPT !.tier = EP!RiskTiers[i]]
  <2>1. asset' = [asset EXCEPT ![a] = row] /\ quoted' = quoted /\ asset[a] # EP!NoAsset
    BY <1>5, Zenon DEF EP!UpdateRisk
  <2>2. row \in AssetRow
    BY <2>1, TierIsNamed DEF PricesInv, AssetRow
  <2>. QED BY <1>3, <2>1, <2>2
<1>6. ASSUME NEW a \in Priced, NEW s \in EP!ComplianceStatuses, EP!UpdateCompliance(a, s)
      PROVE  PricesInv'
  <2>. DEFINE row == [asset[a] EXCEPT !.compliance = s]
  <2>1. asset' = [asset EXCEPT ![a] = row] /\ quoted' = quoted /\ asset[a] # EP!NoAsset
    BY <1>6, Zenon DEF EP!UpdateCompliance
  <2>2. row \in AssetRow
    BY <2>1 DEF PricesInv, AssetRow, EP!ComplianceStatuses
  <2>. QED BY <1>3, <2>1, <2>2
<1>7. ASSUME NEW a \in Priced, EP!ArchiveAsset(a) PROVE PricesInv'
  <2>. DEFINE row == [asset[a] EXCEPT !.status = "archived"]
  <2>1. asset' = [asset EXCEPT ![a] = row] /\ quoted' = quoted /\ asset[a] # EP!NoAsset
    BY <1>7, Zenon DEF EP!ArchiveAsset
  <2>2. row \in AssetRow
    BY <2>1 DEF PricesInv, AssetRow
  <2>. QED BY <1>3, <2>1, <2>2
<1>8. ASSUME NEW a \in Priced, NEW base \in Amounts, NEW answers \in BOOLEAN, EP!Quote(a, base, answers)
      PROVE  PricesInv'
  <2>. DEFINE applied == answers /\ asset[a] # EP!NoAsset
              tier == IF applied THEN asset[a].tier ELSE "none"
  <2>1. quoted' = [agent |-> a, base |-> base, tier |-> tier, applied |-> applied,
                   cost |-> base * (IF applied THEN EP!RiskMultiplier(tier) ELSE 10)]
        /\ asset' = asset
    BY <1>8, Zenon DEF EP!Quote, EP!MissionCost
  <2>2. tier \in Tiers /\ applied \in BOOLEAN
    BY DEF PricesInv, AssetRow, Tiers
  <2>3. base \in Nat \ {0}
    BY DEF EP!EconomyAssumption
  <2>. HIDE DEF tier, applied
  <2>. QED BY <2>1, <2>2, <2>3 DEF PricesInv, EP!RiskMultiplier
<1>9. ASSUME EP!EconomyNext, ~UNCHANGED <<asset, quoted>>
      PROVE  \E a \in Priced :
               \/ EP!CreateAsset(a) \/ EP!ArchiveAsset(a)
               \/ \E i \in DOMAIN EP!RiskTiers : EP!UpdateRisk(a, EP!RiskTiers[i])
               \/ \E s \in EP!ComplianceStatuses : EP!UpdateCompliance(a, s)
               \/ \E base \in Amounts, answers \in BOOLEAN : EP!Quote(a, base, answers)
  BY <1>9, Zenon DEF EP!EconomyNext, EP!Move, EP!Record, EP!RecordLost, EP!AddTenantCredits
<1>. QED BY <1>1, <1>2, <1>4, <1>5, <1>6, <1>7, <1>8, <1>9

\* Each tier is dearer than those below, and none is free.
LEMMA TiersAreRanked ==
  /\ \A tier \in Tiers : EP!RiskMultiplier(tier) \in {10, 12, 15, 20}
  /\ \A tier \in Tiers : \A i \in DOMAIN EP!RiskTiers :
       i < EP!RankOf(tier) => EP!RiskMultiplier(EP!RiskTiers[i]) < EP!RiskMultiplier(tier)
<1>1. /\ EP!RiskMultiplier("none") = 10 /\ EP!RiskMultiplier("minimal") = 10
      /\ EP!RiskMultiplier("limited") = 12 /\ EP!RiskMultiplier("high") = 15
      /\ EP!RiskMultiplier("unacceptable") = 20
  BY DEF EP!RiskMultiplier
<1>2. /\ DOMAIN EP!RiskTiers = 1..4 /\ EP!RiskTiers[1] = "minimal" /\ EP!RiskTiers[2] = "limited"
      /\ EP!RiskTiers[3] = "high" /\ EP!RiskTiers[4] = "unacceptable"
  BY DEF EP!RiskTiers
<1>3. /\ EP!RankOf("none") = 1 /\ EP!RankOf("minimal") = 1 /\ EP!RankOf("limited") = 2
      /\ EP!RankOf("high") = 3 /\ EP!RankOf("unacceptable") = 4
  BY <1>2 DEF EP!RankOf
<1>. QED BY <1>1, <1>2, <1>3 DEF Tiers

LEMMA QuotesAreRight == ASSUME PricesInv PROVE EP!QuotesFollowRisk
<1>1. ASSUME NEW a \in Priced, quoted.agent = a
      PROVE  /\ quoted.cost >= quoted.base * 10
             /\ quoted.applied =>
                  \A i \in DOMAIN EP!RiskTiers : i < EP!RankOf(quoted.tier) =>
                    quoted.cost > quoted.base * EP!RiskMultiplier(EP!RiskTiers[i])
  <2>1. CASE quoted = EP!NoQuote
    BY <2>1 DEF EP!NoQuote
  <2>2. CASE quoted # EP!NoQuote
    <3>. DEFINE b == quoted.base
                x == EP!RiskMultiplier(quoted.tier)
    <3>1. /\ b \in Nat \ {0} /\ quoted.tier \in Tiers /\ quoted.applied \in BOOLEAN
          /\ quoted.cost = b * (IF quoted.applied THEN x ELSE 10)
      BY <2>2 DEF PricesInv
    <3>2. x \in {10, 12, 15, 20}
      BY <3>1, TiersAreRanked
    <3>3. quoted.cost >= b * 10
      BY <3>1, <3>2
    <3>4. ASSUME quoted.applied, NEW i \in DOMAIN EP!RiskTiers, i < EP!RankOf(quoted.tier)
          PROVE  quoted.cost > b * EP!RiskMultiplier(EP!RiskTiers[i])
      <4>1. EP!RiskMultiplier(EP!RiskTiers[i]) < x /\ EP!RiskMultiplier(EP!RiskTiers[i]) \in {10, 12, 15, 20}
        BY <3>1, <3>4, TiersAreRanked, TierIsNamed
      <4>. HIDE DEF x, b
      <4>. QED BY <3>1, <3>2, <3>4, <4>1
    <3>. QED BY <3>3, <3>4
  <2>. QED BY <2>1, <2>2
<1>2. ASSUME NEW a \in Priced, asset[a] # EP!NoAsset
      PROVE  EP!PricingSummary(a).deployment = EP!ApprovalCost("deployment", asset[a].tier)
  BY TiersAreRanked DEF EP!PricingSummary, EP!ApprovalCost, EP!RiskMultiplier
<1>. QED BY <1>1, <1>2 DEF EP!QuotesFollowRisk

(***************************************************************************)
(* Agents                                                                  *)
(***************************************************************************)
LEMMA AgentsCount ==
  \A S : AD!Cardinality(S) = Cardinality(S) /\ (AD!IsFiniteSet(S) <=> IsFiniteSet(S))
<1>1. \A S : AD!Cardinality(S) = Cardinality(S)
  BY DEF AD!Cardinality, Cardinality
<1>2. \A S : AD!IsFiniteSet(S) <=> IsFiniteSet(S)
  BY DEF AD!IsFiniteSet, IsFiniteSet
<1>. QED BY <1>1, <1>2

EventNames == {"created", "deleted"}
AgentEvent == [agent : DeskAgents, type : EventNames]
MemberRow == [agent : DeskAgents, workforce : Workforces, active : BOOLEAN]

Awaits(a, type) == \E i \in DOMAIN waiting : waiting[i] = [agent |-> a, type |-> type]
Tells(a, type) == \E i \in DOMAIN history[a] : history[a][i] = type

(* An agent that lost no event has its creation in the store or on the way to it;
   a deletion that is on its way or in the store is that of an agent that is gone,
   and will not come back, or that a membership keeps.                            *)
AgentInv(a) ==
  /\ agent[a] # "none" => a \in born
  /\ a \in born \ lost => Awaits(a, "created") \/ Tells(a, "created")
  /\ Awaits(a, "deleted") \/ Tells(a, "deleted") =>
       a \in born /\ (agent[a] = "none" \/ AD!Referred(a))

HistoryInv ==
  /\ agent \in [DeskAgents -> AgentStatuses \cup {"none"}]
  /\ waiting \in Seq(AgentEvent) /\ history \in [DeskAgents -> Seq(EventNames)]
  /\ member \in [Members -> MemberRow \cup {AD!NoRow}]
  /\ \A a \in DeskAgents : AgentInv(a)

LEMMA HistoryBegins == ASSUME AD!DeskInit PROVE HistoryInv
BY DEF AD!DeskInit, HistoryInv, AgentInv, Awaits, Tells

\* A reference to an agent stays.
LEMMA ReferencesStay ==
  ASSUME HistoryInv,
         \A m \in Members : member[m] # AD!NoRow =>
           member'[m] # AD!NoRow /\ member'[m].agent = member[m].agent
  PROVE  \A a : AD!Referred(a) => AD!Referred(a)'
BY DEF AD!Referred

\* A sequence without one of its places.
Removed(s, i) == SubSeq(s, 1, i - 1) \o SubSeq(s, i + 1, Len(s))

LEMMA EventRemoved ==
  ASSUME NEW S, NEW s \in Seq(S), NEW i \in DOMAIN s
  PROVE  /\ Removed(s, i) \in Seq(S) /\ Len(Removed(s, i)) = Len(s) - 1
         /\ \A j \in 1..(Len(s) - 1) : Removed(s, i)[j] = IF j < i THEN s[j] ELSE s[j + 1]
<1>1. i \in 1..Len(s) /\ Len(s) \in Nat /\ \A j \in 1..Len(s) : s[j] \in S
  OBVIOUS
<1>. DEFINE l == SubSeq(s, 1, i - 1)
            r == SubSeq(s, i + 1, Len(s))
<1>2. l \in Seq(S) /\ Len(l) = i - 1 /\ \A j \in 1..(i - 1) : l[j] = s[j]
  BY <1>1
<1>3. r \in Seq(S) /\ Len(r) = Len(s) - i /\ \A j \in 1..(Len(s) - i) : r[j] = s[i + j]
  BY <1>1
<1>4. Removed(s, i) = l \o r
  BY DEF Removed
<1>. HIDE DEF l, r
<1>5. l \o r \in Seq(S) /\ Len(l \o r) = Len(s) - 1
  BY <1>1, <1>2, <1>3
<1>6. ASSUME NEW j \in 1..(Len(s) - 1) PROVE (l \o r)[j] = IF j < i THEN s[j] ELSE s[j + 1]
  <2>1. CASE j < i
    BY <1>1, <1>2, <1>3, <2>1
  <2>2. CASE ~(j < i)
    <3>1. (l \o r)[j] = r[j - (i - 1)] /\ j - (i - 1) \in 1..(Len(s) - i)
      BY <1>1, <1>2, <1>3, <2>2
    <3>2. i + (j - (i - 1)) = j + 1
      BY <1>1
    <3>. QED BY <1>3, <2>2, <3>1, <3>2
  <2>. QED BY <2>1, <2>2
<1>. QED BY <1>4, <1>5, <1>6

\* What is left is what was there, but for the one that is taken out.
LEMMA OthersWait ==
  ASSUME NEW s \in Seq(AgentEvent), NEW i \in DOMAIN s
  PROVE  /\ Removed(s, i) \in Seq(AgentEvent)
         /\ \A e : (\E j \in DOMAIN Removed(s, i) : Removed(s, i)[j] = e)
                     => \E j \in DOMAIN s : s[j] = e
         /\ \A e : (\E j \in DOMAIN s : s[j] = e) /\ e # s[i]
                     => \E j \in DOMAIN Removed(s, i) : Removed(s, i)[j] = e
<1>. DEFINE r == Removed(s, i)
<1>1. /\ r \in Seq(AgentEvent) /\ Len(r) = Len(s) - 1
      /\ \A j \in 1..(Len(s) - 1) : r[j] = IF j < i THEN s[j] ELSE s[j + 1]
  BY EventRemoved
<1>2. DOMAIN s = 1..Len(s) /\ Len(s) \in Nat /\ DOMAIN r = 1..(Len(s) - 1)
  BY <1>1
<1>3. \A j \in DOMAIN r : r[j] = IF j < i THEN s[j] ELSE s[j + 1]
  BY <1>1, <1>2
<1>. HIDE DEF r
<1>4. ASSUME NEW e, NEW j \in DOMAIN r, r[j] = e PROVE \E n \in DOMAIN s : s[n] = e
  BY <1>2, <1>3, <1>4
<1>5. ASSUME NEW e, NEW j \in DOMAIN s, s[j] = e, e # s[i] PROVE \E n \in DOMAIN r : r[n] = e
  <2>1. j # i /\ i \in 1..Len(s)
    BY <1>2, <1>5
  <2>2. CASE j < i
    BY <1>2, <1>3, <1>5, <2>1, <2>2
  <2>3. CASE j > i
    <3>1. j - 1 \in DOMAIN r /\ ~(j - 1 < i) /\ (j - 1) + 1 = j
      BY <1>2, <2>1, <2>3
    <3>. QED BY <1>3, <1>5, <3>1
  <2>. QED BY <1>2, <2>1, <2>2, <2>3
<1>. QED BY <1>1, <1>4, <1>5 DEF r

LEMMA AnnouncementWaits ==
  ASSUME HistoryInv, NEW a \in DeskAgents, NEW type \in EventNames, AD!Announce(a, type)
  PROVE  /\ waiting' \in Seq(AgentEvent)
         /\ \A b, t : Awaits(b, t)' <=> Awaits(b, t) \/ (b = a /\ t = type)
<1>. DEFINE e == [agent |-> a, type |-> type]
<1>1. waiting' = Append(waiting, e) /\ waiting \in Seq(AgentEvent) /\ e \in AgentEvent
  BY DEF AD!Announce, HistoryInv, AgentEvent
<1>. HIDE DEF e
<1>2. /\ Len(waiting') = Len(waiting) + 1 /\ Len(waiting) \in Nat /\ waiting'[Len(waiting) + 1] = e
      /\ \A i \in 1..Len(waiting) : waiting'[i] = waiting[i]
      /\ DOMAIN waiting = 1..Len(waiting) /\ DOMAIN waiting' = 1..(Len(waiting) + 1)
      /\ waiting' \in Seq(AgentEvent)
  BY <1>1
<1>3. ASSUME NEW b, NEW t PROVE Awaits(b, t)' <=> Awaits(b, t) \/ (b = a /\ t = type)
  <2>1. Awaits(b, t)' <=> Awaits(b, t) \/ e = [agent |-> b, type |-> t]
    BY <1>2 DEF Awaits
  <2>. QED BY <2>1 DEF e
<1>. QED BY <1>2, <1>3

LEMMA AgentsGoOn ==
  ASSUME AD!DeskAssumption, HistoryInv, AD!DeskNext PROVE HistoryInv'
<1>1. ASSUME NEW a \in DeskAgents, AD!CreateAgent(a) PROVE HistoryInv'
  <2>1. /\ a \notin born /\ born' = born \cup {a} /\ agent' = [agent EXCEPT ![a] = "idle"]
        /\ AD!Announce(a, "created") /\ UNCHANGED <<history, lost, member>>
    BY <1>1 DEF AD!CreateAgent, AD!teamVars
  <2>2. /\ waiting' \in Seq(AgentEvent)
        /\ \A b, t : Awaits(b, t)' <=> Awaits(b, t) \/ (b = a /\ t = "created")
    BY <2>1, AnnouncementWaits DEF EventNames
  <2>3. \A b, t : Tells(b, t)' <=> Tells(b, t)
    BY <2>1 DEF Tells
  <2>4. \A b : AD!Referred(b)' <=> AD!Referred(b)
    BY <2>1 DEF AD!Referred
  <2>5. ASSUME NEW b \in DeskAgents PROVE AgentInv(b)'
    <3>1. AgentInv(b)
      BY DEF HistoryInv
    <3>2. CASE b = a
      BY <2>1, <2>2, <2>3, <2>4, <3>1, <3>2 DEF AgentInv
    <3>3. CASE b # a
      <4>1. agent'[b] = agent[b]
        BY <2>1, <3>3 DEF HistoryInv
      <4>. QED BY <2>1, <2>2, <2>3, <2>4, <3>1, <3>3, <4>1 DEF AgentInv
    <3>. QED BY <3>2, <3>3
  <2>6. agent' \in [DeskAgents -> AgentStatuses \cup {"none"}]
    BY <2>1 DEF HistoryInv, AD!DeskAssumption
  <2>. QED BY <2>1, <2>2, <2>5, <2>6 DEF HistoryInv
<1>2. ASSUME NEW a \in DeskAgents, NEW s \in AgentStatuses, agent[a] # "none",
             agent' = [agent EXCEPT ![a] = s], UNCHANGED <<born, waiting, history, lost, member>>,
             Awaits(a, "deleted") \/ Tells(a, "deleted") => AD!Referred(a)
      PROVE  HistoryInv'
  <2>1. /\ \A b, t : (Tells(b, t)' <=> Tells(b, t)) /\ (Awaits(b, t)' <=> Awaits(b, t))
        /\ \A b : AD!Referred(b)' <=> AD!Referred(b)
    BY <1>2 DEF Tells, Awaits, AD!Referred
  <2>2. ASSUME NEW b \in DeskAgents PROVE AgentInv(b)'
    <3>1. AgentInv(b) /\ (b # a => agent'[b] = agent[b])
      BY <1>2 DEF HistoryInv
    <3>. QED BY <1>2, <2>1, <3>1 DEF AgentInv
  <2>. QED BY <1>2, <2>2 DEF HistoryInv
<1>3. ASSUME NEW a \in DeskAgents, AD!UpdateAgent(a) \/ AD!ActivateAgent(a) \/ AD!DeactivateAgent(a)
      PROVE  HistoryInv'
  <2>1. AgentInv(a)
    BY DEF HistoryInv
  <2>2. agent[a] # "none" /\ UNCHANGED <<born, waiting, history, lost, member>>
        /\ \E s \in AgentStatuses : agent' = [agent EXCEPT ![a] = s]
    BY <1>3 DEF AD!UpdateAgent, AD!ActivateAgent, AD!DeactivateAgent, AD!teamVars, AD!DeskAssumption
  <2>. QED BY <1>2, <2>1, <2>2 DEF AgentInv
<1>4. ASSUME NEW a \in DeskAgents, AD!DeleteAgent(a) PROVE HistoryInv'
  <2>1. /\ agent[a] # "none" /\ AD!Announce(a, "deleted") /\ UNCHANGED <<born, history, lost, member>>
        /\ agent' = IF AD!Refused(a) THEN agent ELSE [agent EXCEPT ![a] = "none"]
    BY <1>4 DEF AD!DeleteAgent, AD!teamVars
  <2>2. /\ waiting' \in Seq(AgentEvent)
        /\ \A b, t : Awaits(b, t)' <=> Awaits(b, t) \/ (b = a /\ t = "deleted")
    BY <2>1, AnnouncementWaits DEF EventNames
  <2>3. /\ \A b, t : Tells(b, t)' <=> Tells(b, t)
        /\ \A b : AD!Referred(b)' <=> AD!Referred(b)
    BY <2>1 DEF Tells, AD!Referred
  <2>4. agent' \in [DeskAgents -> AgentStatuses \cup {"none"}] /\ \A b \in DeskAgents \ {a} : agent'[b] = agent[b]
    BY <2>1 DEF HistoryInv
  <2>5. AgentInv(a)'
    <3>1. AgentInv(a)
      BY DEF HistoryInv
    <3>2. AD!Referred(a) \/ agent'[a] = "none"
      BY <2>1 DEF AD!Refused, HistoryInv
    <3>3. agent'[a] # "none" => agent[a] # "none"
      BY <2>1
    <3>. QED BY <2>1, <2>2, <2>3, <3>1, <3>2, <3>3 DEF AgentInv
  <2>6. ASSUME NEW b \in DeskAgents \ {a} PROVE AgentInv(b)'
    <3>1. AgentInv(b)
      BY DEF HistoryInv
    <3>. QED BY <2>1, <2>2, <2>3, <2>4, <3>1 DEF AgentInv
  <2>. QED BY <2>1, <2>2, <2>4, <2>5, <2>6 DEF HistoryInv
<1>5. ASSUME NEW i \in DOMAIN waiting, AD!AppendEvent(i) PROVE HistoryInv'
  <2>1. waiting \in Seq(AgentEvent) /\ waiting' = Removed(waiting, i)
        /\ UNCHANGED <<agent, born, member>>
    BY <1>5 DEF AD!AppendEvent, AD!teamVars, HistoryInv, Removed
  <2>2. PICK e \in AgentEvent : e = waiting[i]
    BY <2>1
  <2>3. e = [agent |-> e.agent, type |-> e.type] /\ e.agent \in DeskAgents /\ e.type \in EventNames
    BY DEF AgentEvent
  <2>5. \/ history' = [history EXCEPT ![e.agent] = Append(history[e.agent], e.type)] /\ UNCHANGED lost
        \/ lost' = lost \cup {e.agent} /\ UNCHANGED history
    BY <1>5, <2>2 DEF AD!AppendEvent
  <2>8. /\ waiting' \in Seq(AgentEvent)
        /\ \A b, t : Awaits(b, t)' => Awaits(b, t)
        /\ \A b, t : Awaits(b, t) /\ ~(b = e.agent /\ t = e.type) => Awaits(b, t)'
    <3>. DEFINE r == Removed(waiting, i)
    <3>1. /\ r \in Seq(AgentEvent)
          /\ \A f : (\E j \in DOMAIN r : r[j] = f) => \E j \in DOMAIN waiting : waiting[j] = f
          /\ \A f : (\E j \in DOMAIN waiting : waiting[j] = f) /\ f # waiting[i]
                      => \E j \in DOMAIN r : r[j] = f
      BY <2>1, OthersWait
    <3>. HIDE DEF r
    <3>2. waiting' = r
      BY <2>1 DEF r
    <3>3. ASSUME NEW b, NEW t, ~(b = e.agent /\ t = e.type) PROVE [agent |-> b, type |-> t] # e
      BY <2>3, <3>3
    <3>. QED BY <2>2, <3>1, <3>2, <3>3 DEF Awaits
  <2>4. Awaits(e.agent, e.type)
    BY <2>2, <2>3 DEF Awaits
  <2>9. \A b : AD!Referred(b)' <=> AD!Referred(b)
    BY <2>1 DEF AD!Referred
  <2>6. CASE history' = [history EXCEPT ![e.agent] = Append(history[e.agent], e.type)] /\ UNCHANGED lost
    <3>1. history[e.agent] \in Seq(EventNames)
      BY <2>3 DEF HistoryInv
    <3>2. history' \in [DeskAgents -> Seq(EventNames)]
      BY <2>3, <2>6, <3>1 DEF HistoryInv
    <3>3. \A b \in DeskAgents : \A t : Tells(b, t)' <=> Tells(b, t) \/ (b = e.agent /\ t = e.type)
      <4>1. ASSUME NEW b \in DeskAgents, NEW t, b # e.agent PROVE Tells(b, t)' <=> Tells(b, t)
        <5>1. history'[b] = history[b]
          BY <2>6, <4>1 DEF HistoryInv
        <5>. QED BY <5>1 DEF Tells
      <4>2. ASSUME NEW t PROVE Tells(e.agent, t)' <=> Tells(e.agent, t) \/ t = e.type
        <5>. DEFINE h == history[e.agent]
        <5>1. history'[e.agent] = Append(h, e.type)
          BY <2>3, <2>6, <3>1 DEF HistoryInv
        <5>2. /\ DOMAIN h = 1..Len(h) /\ Len(h) \in Nat /\ DOMAIN Append(h, e.type) = 1..(Len(h) + 1)
              /\ Append(h, e.type)[Len(h) + 1] = e.type
              /\ \A j \in 1..Len(h) : Append(h, e.type)[j] = h[j]
          BY <3>1
        <5>4. (\E j \in DOMAIN Append(h, e.type) : Append(h, e.type)[j] = t)
                <=> (\E j \in DOMAIN h : h[j] = t) \/ t = e.type
          BY <5>2
        <5>. QED BY <5>1, <5>4 DEF Tells
      <4>. QED BY <4>1, <4>2
    <3>4. ASSUME NEW b \in DeskAgents PROVE AgentInv(b)'
      <4>1. AgentInv(b)
        BY DEF HistoryInv
      <4>. QED BY <2>1, <2>8, <2>4, <2>9, <2>6, <3>3, <4>1 DEF AgentInv
    <3>. QED BY <2>1, <2>8, <3>2, <3>4 DEF HistoryInv
  <2>7. CASE lost' = lost \cup {e.agent} /\ UNCHANGED history
    <3>1. \A b, t : Tells(b, t)' <=> Tells(b, t)
      BY <2>7 DEF Tells
    <3>2. ASSUME NEW b \in DeskAgents PROVE AgentInv(b)'
      <4>1. AgentInv(b)
        BY DEF HistoryInv
      <4>. QED BY <2>1, <2>8, <2>9, <2>7, <3>1, <4>1 DEF AgentInv
    <3>. QED BY <2>1, <2>8, <2>7, <3>2 DEF HistoryInv
  <2>. QED BY <2>5, <2>6, <2>7
<1>6. ASSUME UNCHANGED AD!agentVars, member' \in [Members -> MemberRow \cup {AD!NoRow}],
             \A m \in Members : member[m] # AD!NoRow =>
               member'[m] # AD!NoRow /\ member'[m].agent = member[m].agent
      PROVE  HistoryInv'
  <2>1. \A a : AD!Referred(a) => AD!Referred(a)'
    BY <1>6, ReferencesStay
  <2>2. /\ UNCHANGED <<agent, born, waiting, history, lost>>
        /\ \A b, t : (Tells(b, t)' <=> Tells(b, t)) /\ (Awaits(b, t)' <=> Awaits(b, t))
    BY <1>6 DEF AD!agentVars, Tells, Awaits
  <2>3. ASSUME NEW b \in DeskAgents PROVE AgentInv(b)'
    <3>1. AgentInv(b)
      BY DEF HistoryInv
    <3>. QED BY <2>1, <2>2, <3>1 DEF AgentInv
  <2>. QED BY <1>6, <2>2, <2>3 DEF HistoryInv
<1>7. ASSUME NEW m \in Members, NEW w \in Workforces, NEW a \in DeskAgents, AD!AddMember(m, w, a)
      PROVE  HistoryInv'
  <2>1. /\ UNCHANGED AD!agentVars /\ member[m] = AD!NoRow
        /\ member' = [member EXCEPT ![m] = [agent |-> a, workforce |-> w, active |-> TRUE]]
    BY <1>7 DEF AD!AddMember
  <2>. QED BY <1>6, <2>1 DEF HistoryInv, MemberRow
<1>8. ASSUME NEW m \in Members, AD!RemoveMember(m) PROVE HistoryInv'
  <2>1. /\ UNCHANGED AD!agentVars /\ member[m] # AD!NoRow
        /\ member' = [member EXCEPT ![m] = [member[m] EXCEPT !.active = FALSE]]
    BY <1>8 DEF AD!RemoveMember
  <2>2. PICK x \in MemberRow : x = member[m]
    BY <2>1 DEF HistoryInv
  <2>3. [x EXCEPT !.active = FALSE] \in MemberRow /\ [x EXCEPT !.active = FALSE].agent = x.agent
        /\ [x EXCEPT !.active = FALSE] # AD!NoRow
    BY DEF MemberRow, AD!NoRow
  <2>4. member' = [member EXCEPT ![m] = [x EXCEPT !.active = FALSE]]
    BY <2>1, <2>2
  <2>. QED BY <1>6, <2>1, <2>2, <2>3, <2>4 DEF HistoryInv
<1>9. ASSUME UNCHANGED <<AD!agentVars, member>> PROVE HistoryInv'
  BY <1>6, <1>9 DEF HistoryInv
<1>. QED
  <2>1. ASSUME NEW w \in Workforces,
               AD!CreateWorkforce(w) \/ AD!UpdateWorkforce(w) \/ AD!DeleteWorkforce(w)
        PROVE  UNCHANGED <<AD!agentVars, member>>
    BY <2>1 DEF AD!CreateWorkforce, AD!UpdateWorkforce, AD!DeleteWorkforce
  <2>2. ASSUME NEW r \in Runs, AD!CountStart(r) \/ AD!FinishRun(r) \/ AD!CountEnd(r) \/ AD!LoseRun(r)
        PROVE  UNCHANGED <<AD!agentVars, member>>
    BY <2>2 DEF AD!CountStart, AD!FinishRun, AD!CountEnd, AD!LoseRun
  <2>3. ASSUME NEW r \in Runs, NEW w \in Workforces, AD!StartRun(r, w)
        PROVE  UNCHANGED <<AD!agentVars, member>>
    BY <2>3 DEF AD!StartRun
  <2>. QED
    BY <1>1, <1>3, <1>4, <1>5, <1>7, <1>8, <1>9, <2>1, <2>2, <2>3 DEF AD!DeskNext

RunRow ==
  [phase : {"new", "counting", "running", "closing", "counted", "uncounted"},
   workforce : Workforces \cup {"none"}, seen : Nat,
   status : {"none", "completed", "failed", "partial"}]
Team == [active : BOOLEAN, total : Nat, successful : Nat, failed : Nat]

\* The runs that are counted in a workforce: all, and those that came to an end.
Begun == {"running", "closing", "counted", "uncounted"}
AllOf(w) == {r \in Runs : run[r].workforce = w /\ run[r].phase \in Begun}
WonBy(w) == {r \in Runs : run[r].workforce = w /\ run[r].phase = "counted" /\ run[r].status = "completed"}
MissedBy(w) ==
  {r \in Runs : run[r].workforce = w /\ run[r].phase = "counted" /\ run[r].status # "completed"}

TeamInv(w) ==
  workforce[w] # AD!NoRow /\ w \notin clashed =>
    /\ workforce[w].total = Cardinality(AllOf(w))
    /\ workforce[w].successful = Cardinality(WonBy(w))
    /\ workforce[w].failed = Cardinality(MissedBy(w))

TeamsInv ==
  /\ run \in [Runs -> RunRow] /\ workforce \in [Workforces -> Team \cup {AD!NoRow}]
  /\ \A r \in Runs : run[r].phase # "new" =>
       run[r].workforce \in Workforces /\ workforce[run[r].workforce] # AD!NoRow
  /\ \A r \in Runs : run[r].phase = "closing" => run[r].status # "none"
  /\ \A w \in Workforces : TeamInv(w)

LEMMA TeamsBegin == ASSUME AD!DeskInit PROVE TeamsInv
<1>1. run = [r \in Runs |-> AD!NewRun] /\ workforce = [w \in Workforces |-> AD!NoRow]
  BY DEF AD!DeskInit
<1>2. AD!NewRun \in RunRow /\ AD!NewRun.phase = "new"
  BY DEF AD!NewRun, RunRow
<1>. QED BY <1>1, <1>2 DEF TeamsInv, TeamInv

\* A run moves, and the counters of a workforce that is right may move with it.
LEMMA RunMoves ==
  ASSUME AD!DeskAssumption, TeamsInv, NEW r \in Runs, NEW u \in RunRow, run' = [run EXCEPT ![r] = u], NEW w
  PROVE  /\ AllOf(w)' = IF u.workforce = w /\ u.phase \in Begun THEN AllOf(w) \cup {r} ELSE AllOf(w) \ {r}
         /\ WonBy(w)' = IF u.workforce = w /\ u.phase = "counted" /\ u.status = "completed"
                        THEN WonBy(w) \cup {r} ELSE WonBy(w) \ {r}
         /\ MissedBy(w)' = IF u.workforce = w /\ u.phase = "counted" /\ u.status # "completed"
                           THEN MissedBy(w) \cup {r} ELSE MissedBy(w) \ {r}
<1>1. \A q \in Runs : run'[q] = IF q = r THEN u ELSE run[q]
  BY DEF TeamsInv
<1>2. AllOf(w)' = IF u.workforce = w /\ u.phase \in Begun THEN AllOf(w) \cup {r} ELSE AllOf(w) \ {r}
  BY <1>1 DEF AllOf
<1>3. WonBy(w)' = IF u.workforce = w /\ u.phase = "counted" /\ u.status = "completed"
                  THEN WonBy(w) \cup {r} ELSE WonBy(w) \ {r}
  BY <1>1 DEF WonBy
<1>4. MissedBy(w)' = IF u.workforce = w /\ u.phase = "counted" /\ u.status # "completed"
                     THEN MissedBy(w) \cup {r} ELSE MissedBy(w) \ {r}
  BY <1>1 DEF MissedBy
<1>. QED BY <1>2, <1>3, <1>4

LEMMA OneMore ==
  ASSUME AD!DeskAssumption, NEW S \in SUBSET Runs, NEW r \in Runs, r \notin S
  PROVE  Cardinality(S \cup {r}) = Cardinality(S) + 1 /\ Cardinality(S) \in Nat
<1>1. IsFiniteSet(Runs)
  BY AgentsCount DEF AD!DeskAssumption
<1>2. IsFiniteSet(S)
  BY <1>1, FS_Subset
<1>. QED BY <1>2, FS_AddElement, FS_CardinalityType

LEMMA SubsetsOfRuns ==
  \A w : AllOf(w) \in SUBSET Runs /\ WonBy(w) \in SUBSET Runs /\ MissedBy(w) \in SUBSET Runs
BY DEF AllOf, WonBy, MissedBy

\* A step of a run that no counter goes with.
LEMMA UncountedStep ==
  ASSUME AD!DeskAssumption, TeamsInv, NEW r \in Runs, NEW u \in RunRow, run' = [run EXCEPT ![r] = u],
         UNCHANGED <<workforce, clashed>>,
         u.phase # "new" => u.workforce \in Workforces /\ workforce[u.workforce] # AD!NoRow,
         u.phase = "closing" => u.status # "none",
         run[r].phase # "counted", u.phase # "counted",
         \/ run[r].phase \notin Begun /\ u.phase \notin Begun
         \/ run[r].phase \in Begun /\ u.phase \in Begun /\ u.workforce = run[r].workforce
  PROVE  TeamsInv'
<1>1. ASSUME NEW w \in Workforces PROVE TeamInv(w)'
  <2>1. TeamInv(w)
    BY DEF TeamsInv
  <2>2. AllOf(w)' = AllOf(w) /\ WonBy(w)' = WonBy(w) /\ MissedBy(w)' = MissedBy(w)
    <3>1. /\ AllOf(w)' = IF u.workforce = w /\ u.phase \in Begun THEN AllOf(w) \cup {r} ELSE AllOf(w) \ {r}
          /\ WonBy(w)' = WonBy(w) \ {r} /\ MissedBy(w)' = MissedBy(w) \ {r}
      BY RunMoves
    <3>2. r \notin WonBy(w) /\ r \notin MissedBy(w)
      BY DEF WonBy, MissedBy
    <3>3. r \in AllOf(w) <=> u.workforce = w /\ u.phase \in Begun
      BY DEF AllOf
    <3>. QED BY <3>1, <3>2, <3>3
  <2>. QED BY <2>1, <2>2 DEF TeamInv
<1>2. run' \in [Runs -> RunRow] /\ \A q \in Runs : run'[q] = IF q = r THEN u ELSE run[q]
  BY DEF TeamsInv
<1>. QED BY <1>1, <1>2 DEF TeamsInv

\* A step that counts the run.
LEMMA CountedStep ==
  ASSUME AD!DeskAssumption, TeamsInv, NEW r \in Runs, NEW u \in RunRow, run' = [run EXCEPT ![r] = u],
         run[r].phase # "new", u.phase # "new", u.phase # "closing",
         NEW w \in Workforces, run[r].workforce = w, u.workforce = w,
         NEW row \in Team, workforce' = [workforce EXCEPT ![w] = row],
         clashed \subseteq clashed', TeamInv(w)',
         run[r].phase # "counted", u.phase # "counted" => run[r].phase \notin Begun
  PROVE  TeamsInv'
<1>1. row # AD!NoRow
  BY DEF Team, AD!NoRow
<1>2. \A v \in Workforces : workforce'[v] = IF v = w THEN row ELSE workforce[v]
  BY <1>1 DEF TeamsInv
<1>3. run' \in [Runs -> RunRow] /\ \A q \in Runs : run'[q] = IF q = r THEN u ELSE run[q]
  BY DEF TeamsInv
<1>4. ASSUME NEW v \in Workforces, v # w PROVE TeamInv(v)'
  <2>1. TeamInv(v)
    BY DEF TeamsInv
  <2>2. AllOf(v)' = AllOf(v) /\ WonBy(v)' = WonBy(v) /\ MissedBy(v)' = MissedBy(v)
    <3>1. AllOf(v)' = AllOf(v) \ {r} /\ WonBy(v)' = WonBy(v) \ {r} /\ MissedBy(v)' = MissedBy(v) \ {r}
      BY <1>4, RunMoves
    <3>2. r \notin AllOf(v) /\ r \notin WonBy(v) /\ r \notin MissedBy(v)
      <4>1. run[r].workforce # v
        BY <1>4
      <4>. QED BY ONLY <4>1 DEF AllOf, WonBy, MissedBy
    <3>. QED BY ONLY <3>1, <3>2
  <2>3. workforce'[v] = workforce[v] /\ (v \notin clashed' => v \notin clashed)
    BY <1>2, <1>4
  <2>. QED BY <2>1, <2>2, <2>3 DEF TeamInv
<1>5. workforce' \in [Workforces -> Team \cup {AD!NoRow}]
  BY DEF TeamsInv
<1>6. ASSUME NEW v \in Workforces PROVE TeamInv(v)'
  <2>1. CASE v = w
    BY <2>1
  <2>2. CASE v # w
    BY <1>4, <2>2
  <2>. QED BY <2>1, <2>2
<1>7. \A q \in Runs : run'[q].phase # "new" =>
        run'[q].workforce \in Workforces /\ workforce'[run'[q].workforce] # AD!NoRow
  BY <1>1, <1>2, <1>3 DEF TeamsInv
<1>8. \A q \in Runs : run'[q].phase = "closing" => run'[q].status # "none"
  BY <1>3 DEF TeamsInv
<1>. QED BY <1>3, <1>5, <1>6, <1>7, <1>8 DEF TeamsInv

\* What the invariant speaks of stays as it is.
LEMMA TeamsStay ==
  ASSUME TeamsInv, UNCHANGED <<workforce, run, clashed>>
  PROVE  TeamsInv'
<1>1. ASSUME NEW w \in Workforces PROVE TeamInv(w)'
  <2>1. AllOf(w)' = AllOf(w) /\ WonBy(w)' = WonBy(w) /\ MissedBy(w)' = MissedBy(w)
    BY DEF AllOf, WonBy, MissedBy
  <2>2. TeamInv(w)
    BY DEF TeamsInv
  <2>. QED BY <2>1, <2>2 DEF TeamInv
<1>. QED BY <1>1 DEF TeamsInv

\* A row of a workforce changes, and no counter.
LEMMA TeamRowKeeps ==
  ASSUME TeamsInv, NEW w \in Workforces, NEW row \in Team,
         workforce' = [workforce EXCEPT ![w] = row], UNCHANGED <<run, clashed>>,
         \/ /\ workforce[w] # AD!NoRow /\ row.total = workforce[w].total
            /\ row.successful = workforce[w].successful /\ row.failed = workforce[w].failed
         \/ /\ workforce[w] = AD!NoRow /\ row.total = 0 /\ row.successful = 0 /\ row.failed = 0
  PROVE  TeamsInv'
<1>1. \A v \in Workforces : workforce'[v] = IF v = w THEN row ELSE workforce[v]
  BY DEF TeamsInv
<1>2. row # AD!NoRow
  BY DEF Team, AD!NoRow
<1>3. workforce' \in [Workforces -> Team \cup {AD!NoRow}]
  BY DEF TeamsInv
<1>4. ASSUME NEW v \in Workforces PROVE TeamInv(v)'
  <2>1. TeamInv(v)
    BY DEF TeamsInv
  <2>2. AllOf(v)' = AllOf(v) /\ WonBy(v)' = WonBy(v) /\ MissedBy(v)' = MissedBy(v)
    BY DEF AllOf, WonBy, MissedBy
  <2>3. CASE v # w \/ workforce[w] # AD!NoRow
    BY <1>1, <2>1, <2>2, <2>3 DEF TeamInv
  <2>4. CASE v = w /\ workforce[w] = AD!NoRow
    <3>1. \A r \in Runs : run[r].phase # "new" => run[r].workforce # w
      BY <2>4 DEF TeamsInv
    <3>2. AllOf(w) = {} /\ WonBy(w) = {} /\ MissedBy(w) = {}
      BY <3>1 DEF AllOf, WonBy, MissedBy, Begun
    <3>3. Cardinality({}) = 0
      BY FS_EmptySet
    <3>. QED BY <1>1, <2>2, <2>4, <3>2, <3>3 DEF TeamInv
  <2>. QED BY <2>3, <2>4
<1>5. \A r \in Runs : run[r].phase # "new" =>
        run[r].workforce \in Workforces /\ workforce'[run[r].workforce] # AD!NoRow
  BY <1>1, <1>2 DEF TeamsInv
<1>. QED BY <1>3, <1>4, <1>5 DEF TeamsInv

LEMMA TeamsGoOn ==
  ASSUME AD!DeskAssumption, TeamsInv, AD!DeskNext PROVE TeamsInv'
<1>1. ASSUME NEW r \in Runs, NEW w \in Workforces, AD!StartRun(r, w) PROVE TeamsInv'
  <2>1. PICK n \in Nat : n = workforce[w].total
    BY <1>1 DEF AD!StartRun, TeamsInv, Team
  <2>. DEFINE u == [phase |-> "counting", workforce |-> w, seen |-> n, status |-> "none"]
  <2>2. /\ run' = [run EXCEPT ![r] = u]
        /\ UNCHANGED <<workforce, clashed>> /\ run[r].phase = "new" /\ workforce[w] # AD!NoRow
    BY <1>1, <2>1 DEF AD!StartRun
  <2>3. u \in RunRow /\ u.phase = "counting" /\ u.workforce = w
    BY DEF RunRow
  <2>. HIDE DEF u
  <2>. QED BY <2>2, <2>3, UncountedStep DEF Begun
<1>2. ASSUME NEW r \in Runs, NEW phase \in {"running", "closing", "counted", "uncounted"}, NEW seen \in Nat,
             NEW status \in {"none", "completed", "failed", "partial"}, AD!At(r, phase, seen, status)
      PROVE  \E u \in RunRow : /\ run' = [run EXCEPT ![r] = u]
                               /\ u.phase = phase /\ u.seen = seen /\ u.status = status
                               /\ u.workforce = run[r].workforce
  <2>. DEFINE u == [phase |-> phase, workforce |-> run[r].workforce, seen |-> seen, status |-> status]
  <2>1. run' = [run EXCEPT ![r] = u]
    BY <1>2 DEF AD!At
  <2>2. u \in RunRow
    BY DEF RunRow, TeamsInv
  <2>. QED BY <2>1, <2>2
<1>3. ASSUME NEW r \in Runs, AD!CountStart(r) PROVE TeamsInv'
  <2>1. PICK w \in Workforces : w = run[r].workforce /\ workforce[w] # AD!NoRow
    BY <1>3 DEF AD!CountStart, TeamsInv
  <2>2. PICK x \in Team : x = workforce[w]
    BY <2>1 DEF TeamsInv
  <2>3. PICK n \in Nat : n = run[r].seen
    BY DEF TeamsInv, RunRow
  <2>4. PICK u \in RunRow : /\ run' = [run EXCEPT ![r] = u]
                            /\ u.phase = "running" /\ u.status = "none" /\ u.workforce = w
    BY <1>2, <1>3, <2>1 DEF AD!CountStart
  <2>. DEFINE row == [x EXCEPT !.total = n + 1]
  <2>5. /\ run[r].phase = "counting" /\ workforce' = [workforce EXCEPT ![w] = row]
        /\ clashed' = IF x.total = n THEN clashed ELSE clashed \cup {w}
    BY <1>3, <2>1, <2>2, <2>3, Zenon DEF AD!CountStart, AD!Clash
  <2>6. row \in Team /\ row.total = n + 1 /\ row.successful = x.successful /\ row.failed = x.failed
    BY DEF Team
  <2>7. workforce'[w] = row
    BY <2>5 DEF TeamsInv
  <2>. HIDE DEF row
  <2>8. TeamInv(w)'
    <3>1. SUFFICES ASSUME w \notin clashed' PROVE TeamInv(w)'
      BY DEF TeamInv
    <3>2. w \notin clashed /\ x.total = n
      BY <2>5, <3>1
    <3>3. TeamInv(w)
      BY DEF TeamsInv
    <3>4. /\ AllOf(w)' = AllOf(w) \cup {r} /\ WonBy(w)' = WonBy(w) \ {r}
          /\ MissedBy(w)' = MissedBy(w) \ {r}
      BY <2>4, RunMoves DEF Begun
    <3>5. r \notin AllOf(w) /\ r \notin WonBy(w) /\ r \notin MissedBy(w)
      BY <2>5 DEF AllOf, WonBy, MissedBy, Begun
    <3>6. Cardinality(AllOf(w) \cup {r}) = Cardinality(AllOf(w)) + 1
      BY <3>5, OneMore, SubsetsOfRuns
    <3>7. WonBy(w)' = WonBy(w) /\ MissedBy(w)' = MissedBy(w)
      BY <3>4, <3>5
    <3>. QED BY <2>1, <2>2, <2>6, <2>7, <3>2, <3>3, <3>4, <3>6, <3>7 DEF TeamInv
  <2>9. clashed \subseteq clashed'
    BY <2>5
  <2>. QED BY <2>1, <2>4, <2>5, <2>6, <2>8, <2>9, CountedStep DEF Begun
<1>4. ASSUME NEW r \in Runs, AD!FinishRun(r) PROVE TeamsInv'
  <2>1. /\ run[r].phase = "running" /\ UNCHANGED <<workforce, clashed>>
        /\ run[r].workforce \in Workforces /\ workforce[run[r].workforce] # AD!NoRow
    BY <1>4 DEF AD!FinishRun, TeamsInv
  <2>2. PICK status \in {"completed", "failed", "partial"} :
          AD!At(r, "closing", workforce[run[r].workforce][AD!CounterOf(status)], status)
    BY <1>4 DEF AD!FinishRun
  <2>3. workforce[run[r].workforce][AD!CounterOf(status)] \in Nat
    BY <2>1 DEF TeamsInv, Team, AD!CounterOf
  <2>4. PICK u \in RunRow : /\ run' = [run EXCEPT ![r] = u]
                            /\ u.phase = "closing" /\ u.status = status /\ u.workforce = run[r].workforce
    BY <1>2, <2>2, <2>3
  <2>. QED BY <2>1, <2>4, UncountedStep DEF Begun
<1>5. ASSUME NEW r \in Runs, AD!LoseRun(r) PROVE TeamsInv'
  <2>1. /\ run[r].phase \in {"running", "closing"} /\ UNCHANGED <<workforce, clashed>>
        /\ run[r].workforce \in Workforces /\ workforce[run[r].workforce] # AD!NoRow
        /\ AD!At(r, "uncounted", 0, "none")
    BY <1>5 DEF AD!LoseRun, TeamsInv
  <2>2. PICK u \in RunRow : /\ run' = [run EXCEPT ![r] = u]
                            /\ u.phase = "uncounted" /\ u.workforce = run[r].workforce
    BY <1>2, <2>1
  <2>. QED BY <2>1, <2>2, UncountedStep DEF Begun
<1>6. ASSUME NEW r \in Runs, AD!CountEnd(r) PROVE TeamsInv'
  <2>1. PICK w \in Workforces : w = run[r].workforce /\ workforce[w] # AD!NoRow
    BY <1>6 DEF AD!CountEnd, TeamsInv
  <2>2. PICK x \in Team : x = workforce[w]
    BY <2>1 DEF TeamsInv
  <2>3. PICK n \in Nat : n = run[r].seen
    BY DEF TeamsInv, RunRow
  <2>4. PICK status \in {"completed", "failed", "partial"} : status = run[r].status
    BY <1>6 DEF AD!CountEnd, TeamsInv, RunRow
  <2>5. PICK u \in RunRow : /\ run' = [run EXCEPT ![r] = u]
                            /\ u.phase = "counted" /\ u.status = status /\ u.workforce = w
    BY <1>2, <1>6, <2>1, <2>4 DEF AD!CountEnd
  <2>. DEFINE counter == AD!CounterOf(status)
              row == [x EXCEPT ![counter] = n + 1]
  <2>6. /\ run[r].phase = "closing" /\ workforce' = [workforce EXCEPT ![w] = row]
        /\ clashed' = IF x[counter] = n THEN clashed ELSE clashed \cup {w}
    BY <1>6, <2>1, <2>2, <2>3, <2>4, Zenon DEF AD!CountEnd, AD!Clash
  <2>7. /\ status = "completed" => counter = "successful"
        /\ status # "completed" => counter = "failed"
    BY DEF AD!CounterOf
  <2>. HIDE DEF counter
  <2>8. /\ row \in Team /\ row.total = x.total
        /\ row.successful = IF status = "completed" THEN n + 1 ELSE x.successful
        /\ row.failed = IF status = "completed" THEN x.failed ELSE n + 1
    BY <2>7 DEF Team
  <2>9. workforce'[w] = row
    BY <2>6 DEF TeamsInv
  <2>. HIDE DEF row
  <2>10. TeamInv(w)'
    <3>1. SUFFICES ASSUME w \notin clashed' PROVE TeamInv(w)'
      BY DEF TeamInv
    <3>2. w \notin clashed /\ x[counter] = n
      BY <2>6, <3>1
    <3>3. TeamInv(w)
      BY DEF TeamsInv
    <3>4. r \in AllOf(w) /\ r \notin WonBy(w) /\ r \notin MissedBy(w)
      BY <2>1, <2>6 DEF AllOf, WonBy, MissedBy, Begun
    <3>5. /\ AllOf(w)' = AllOf(w) \cup {r}
          /\ WonBy(w)' = IF status = "completed" THEN WonBy(w) \cup {r} ELSE WonBy(w) \ {r}
          /\ MissedBy(w)' = IF status = "completed" THEN MissedBy(w) \ {r} ELSE MissedBy(w) \cup {r}
      BY <2>5, RunMoves DEF Begun
    <3>6. AllOf(w) \cup {r} = AllOf(w) /\ WonBy(w) \ {r} = WonBy(w) /\ MissedBy(w) \ {r} = MissedBy(w)
      BY <3>4
    <3>7. Cardinality(WonBy(w) \cup {r}) = Cardinality(WonBy(w)) + 1
          /\ Cardinality(MissedBy(w) \cup {r}) = Cardinality(MissedBy(w)) + 1
      BY <3>4, OneMore, SubsetsOfRuns
    <3>8. /\ x.total = Cardinality(AllOf(w)) /\ x.successful = Cardinality(WonBy(w))
          /\ x.failed = Cardinality(MissedBy(w))
      BY <2>1, <2>2, <3>2, <3>3 DEF TeamInv
    <3>9. CASE status = "completed"
      BY <2>7, <2>8, <2>9, <3>2, <3>5, <3>6, <3>7, <3>8, <3>9 DEF TeamInv
    <3>10. CASE status # "completed"
      BY <2>7, <2>8, <2>9, <3>2, <3>5, <3>6, <3>7, <3>8, <3>10 DEF TeamInv
    <3>. QED BY <3>9, <3>10
  <2>11. clashed \subseteq clashed'
    BY <2>6
  <2>. QED BY <2>1, <2>5, <2>6, <2>8, <2>10, <2>11, CountedStep DEF Begun
<1>7. ASSUME NEW w \in Workforces, AD!CreateWorkforce(w) PROVE TeamsInv'
  <2>. DEFINE row == [active |-> TRUE, total |-> 0, successful |-> 0, failed |-> 0]
  <2>1. /\ workforce[w] = AD!NoRow /\ workforce' = [workforce EXCEPT ![w] = row]
        /\ UNCHANGED <<run, clashed>>
    BY <1>7 DEF AD!CreateWorkforce
  <2>2. row \in Team
    BY DEF Team
  <2>. QED BY <2>1, <2>2, TeamRowKeeps
<1>8. ASSUME NEW w \in Workforces, AD!UpdateWorkforce(w) \/ AD!DeleteWorkforce(w) PROVE TeamsInv'
  <2>1. workforce[w] # AD!NoRow /\ UNCHANGED <<run, clashed>>
    BY <1>8 DEF AD!UpdateWorkforce, AD!DeleteWorkforce
  <2>2. PICK active \in BOOLEAN : workforce' = [workforce EXCEPT ![w] = [workforce[w] EXCEPT !.active = active]]
    BY <1>8 DEF AD!UpdateWorkforce, AD!DeleteWorkforce
  <2>3. PICK x \in Team : x = workforce[w]
    BY <2>1 DEF TeamsInv
  <2>. DEFINE row == [x EXCEPT !.active = active]
  <2>4. /\ row \in Team /\ row.total = x.total /\ row.successful = x.successful /\ row.failed = x.failed
    BY DEF Team
  <2>5. workforce' = [workforce EXCEPT ![w] = row]
    BY <2>2, <2>3
  <2>. HIDE DEF row
  <2>. QED BY <2>1, <2>3, <2>4, <2>5, TeamRowKeeps
<1>9. ASSUME UNCHANGED <<workforce, run, clashed>> PROVE TeamsInv'
  BY <1>9, TeamsStay
<1>. QED
  <2>1. ASSUME NEW a \in DeskAgents,
               AD!CreateAgent(a) \/ AD!UpdateAgent(a) \/ AD!ActivateAgent(a) \/ AD!DeactivateAgent(a)
               \/ AD!DeleteAgent(a)
        PROVE  UNCHANGED <<workforce, run, clashed>>
    BY <2>1 DEF AD!CreateAgent, AD!UpdateAgent, AD!ActivateAgent, AD!DeactivateAgent, AD!DeleteAgent, AD!teamVars
  <2>2. ASSUME NEW i \in DOMAIN waiting, AD!AppendEvent(i) PROVE UNCHANGED <<workforce, run, clashed>>
    BY <2>2 DEF AD!AppendEvent, AD!teamVars
  <2>3. ASSUME NEW m \in Members, AD!RemoveMember(m) \/ \E w \in Workforces, a \in DeskAgents : AD!AddMember(m, w, a)
        PROVE  UNCHANGED <<workforce, run, clashed>>
    BY <2>3 DEF AD!RemoveMember, AD!AddMember
  <2>. QED
    BY <1>1, <1>3, <1>4, <1>5, <1>6, <1>7, <1>8, <1>9, <2>1, <2>2, <2>3 DEF AD!DeskNext

LEMMA AgentsStep ==
  ASSUME AD!DeskAssumption, HistoryInv, TeamsInv, [AD!DeskNext]_(AD!deskVars)
  PROVE  HistoryInv' /\ TeamsInv'
<1>1. CASE AD!DeskNext
  BY <1>1, AgentsGoOn, TeamsGoOn
<1>2. CASE UNCHANGED AD!deskVars
  <2>1. UNCHANGED <<agent, born, waiting, history, lost, member, workforce, run, clashed>>
    BY <1>2 DEF AD!deskVars
  <2>2. HistoryInv'
    BY <2>1 DEF HistoryInv, AgentInv, Awaits, Tells, AD!Referred
  <2>3. TeamsInv'
    BY <2>1, TeamsStay
  <2>. QED BY <2>2, <2>3
<1>. QED BY <1>1, <1>2

LEMMA AgentBooksAgree ==
  ASSUME HistoryInv, TeamsInv PROVE AD!AgentHistoryIsTrue /\ AD!RunsAddUp
<1>1. ASSUME NEW a \in DeskAgents
      PROVE  /\ a \in born \ lost /\ (\A i \in DOMAIN waiting : waiting[i].agent # a)
                  => "created" \in AD!Range(history[a])
             /\ "deleted" \in AD!Range(history[a]) => agent[a] = "none" \/ AD!Referred(a)
  <2>1. AgentInv(a) /\ history[a] \in Seq(EventNames)
    BY DEF HistoryInv
  <2>2. \A t : t \in AD!Range(history[a]) <=> Tells(a, t)
    BY <2>1 DEF AD!Range, Tells
  <2>3. (\A i \in DOMAIN waiting : waiting[i].agent # a) => ~Awaits(a, "created")
    BY DEF Awaits
  <2>. QED BY <2>1, <2>2, <2>3 DEF AgentInv
<1>2. ASSUME NEW w \in Workforces \ clashed, workforce[w] # AD!NoRow
      PROVE  /\ workforce[w].total
                  = AD!Cardinality(AD!RunsOf(w, {"running", "closing", "counted", "uncounted"}))
             /\ workforce[w].successful
                  = AD!Cardinality({r \in AD!RunsOf(w, {"counted"}) : run[r].status = "completed"})
             /\ workforce[w].failed
                  = AD!Cardinality({r \in AD!RunsOf(w, {"counted"}) : run[r].status # "completed"})
  <2>1. TeamInv(w)
    BY DEF TeamsInv
  <2>2. /\ AD!RunsOf(w, {"running", "closing", "counted", "uncounted"}) = AllOf(w)
        /\ {r \in AD!RunsOf(w, {"counted"}) : run[r].status = "completed"} = WonBy(w)
        /\ {r \in AD!RunsOf(w, {"counted"}) : run[r].status # "completed"} = MissedBy(w)
    BY DEF AD!RunsOf, AllOf, WonBy, MissedBy, Begun
  <2>. QED BY <1>2, <2>1, <2>2, AgentsCount DEF TeamInv
<1>. QED BY <1>1, <1>2 DEF AD!AgentHistoryIsTrue, AD!RunsAddUp

(***************************************************************************)
(* Reasoning                                                               *)
(***************************************************************************)
\* The nodes of the graph, and those before it.
Graph == {"executor", "reflector", "adapter", "finalizer"}
Before == {"idle", "search", "model", "tool", "planner"}

(* At each node of the graph the number of nodes visited follows from that of the
   iterations, and the steps that have results from the current step.            *)
TaskInv ==
  /\ node \in Before \cup Graph \cup {"done"}
  /\ plan \in Nat /\ step \in Nat /\ iterations \in Nat /\ visited \in Nat
  /\ node # "done" => reply = "none"
  /\ node \in Before => plan = 0 /\ step = 0 /\ stepResults = {} /\ iterations = 0 /\ visited = 0
  /\ node = "search" => job \in {"shallow", "deep"}
  /\ node \in Graph \cup {"planner"} => job \in RE!Reasoned
  /\ node = "executor" =>
       /\ visited = 3 * iterations + 1 /\ iterations < RE!MaxIterations
       /\ plan > 0 => step < plan
  /\ node = "reflector" =>
       /\ visited = 3 * iterations + 2 /\ iterations < RE!MaxIterations
       /\ plan > 0 => step < plan /\ stepResults = 0..step
  /\ node = "adapter" =>
       /\ visited = 3 * iterations /\ iterations < RE!MaxIterations
       /\ step < plan - 1 /\ stepResults = 0..step
  /\ node = "finalizer" =>
       stepResults = 0..step /\ (step = plan - 1 \/ iterations = RE!MaxIterations)
  /\ plan = 0 => step = 0 /\ stepResults = {}
  /\ RE!TasksAreAnswered

LEMMA TasksBegin == ASSUME RE!ReasoningInit PROVE TaskInv
BY DEF RE!ReasoningInit, TaskInv, RE!TasksAreAnswered, Before, Graph

\* A node goes on to another, and the limit of LangGraph is not reached.
LEMMA GoesOn ==
  ASSUME NEW next, RE!GoTo(next), visited \in Nat, visited < 24
  PROVE  visited' = visited + 1 /\ node' = next /\ reply' = reply
BY DEF RE!GoTo

LEMMA SevenAtMost == RE!MaxIterations \in 5..7
BY DEF RE!MaxIterations

LEMMA TasksGoOn ==
  ASSUME RE!ReasoningAssumption, TaskInv, RE!ReasoningNext PROVE TaskInv'
<1>1. ASSUME NEW j \in RE!Jobs, RE!Execute(j) PROVE TaskInv'
  BY <1>1 DEF RE!Execute, TaskInv, RE!TasksAreAnswered, Before, Graph, RE!Jobs, RE!Reasoned, RE!MaxIterations
<1>2. CASE RE!Fails
  BY <1>2 DEF RE!Fails, TaskInv, RE!TasksAreAnswered, Before, Graph
<1>3. CASE RE!Search
  BY <1>3 DEF RE!Search, TaskInv, RE!TasksAreAnswered, Before, Graph, RE!Reasoned
<1>4. CASE RE!AskModel
  BY <1>4 DEF RE!AskModel, TaskInv, RE!TasksAreAnswered, Before, Graph
<1>5. CASE RE!RunCode
  BY <1>5 DEF RE!RunCode, TaskInv, RE!TasksAreAnswered, Before, Graph
<1>6. ASSUME NEW n \in 0..MaxPlan, RE!PlanNode(n) PROVE TaskInv'
  <2>1. node = "planner" /\ plan' = n /\ step' = 0 /\ iterations' = 0 /\ RE!GoTo("executor")
        /\ UNCHANGED <<job, stepResults, broken>> /\ n \in Nat
    BY <1>6 DEF RE!PlanNode, RE!ReasoningAssumption
  <2>2. visited = 0 /\ reply = "none" /\ stepResults = {} /\ job \in RE!Reasoned
    BY <2>1 DEF TaskInv, Before
  <2>3. visited' = 1 /\ node' = "executor" /\ reply' = reply
    BY <2>1, <2>2, GoesOn
  <2>4. 0..(0 - 1) = {}
    OBVIOUS
  <2>. QED
    BY <2>1, <2>2, <2>3, <2>4 DEF TaskInv, RE!TasksAreAnswered, Before, Graph, RE!MaxIterations
<1>7. CASE RE!ExecuteNode
  <2>1. /\ node = "executor" /\ RE!GoTo("reflector")
        /\ stepResults' = IF step >= plan THEN stepResults ELSE stepResults \cup {step}
        /\ UNCHANGED <<job, plan, step, iterations, broken>>
    BY <1>7 DEF RE!ExecuteNode
  <2>2. /\ visited = 3 * iterations + 1 /\ iterations < RE!MaxIterations /\ reply = "none"
        /\ visited \in Nat /\ iterations \in Nat
    BY <2>1 DEF TaskInv
  <2>3. visited' = visited + 1 /\ node' = "reflector" /\ reply' = reply
    BY <2>1, <2>2, GoesOn, SevenAtMost
  <2>4. ASSUME plan > 0 PROVE stepResults' = 0..step
    <3>1. step \in Nat /\ plan \in Nat /\ step < plan
          /\ (stepResults = 0..(step - 1) \/ stepResults = 0..step)
      BY <2>1, <2>4 DEF TaskInv, RE!TasksAreAnswered
    <3>2. stepResults' = stepResults \cup {step}
      BY <2>1, <3>1
    <3>3. (0..(step - 1)) \cup {step} = 0..step /\ (0..step) \cup {step} = 0..step
      BY <3>1
    <3>. QED BY <3>1, <3>2, <3>3
  <2>5. plan = 0 => stepResults' = stepResults
    BY <2>1 DEF TaskInv
  <2>. QED
    BY <2>1, <2>2, <2>3, <2>4, <2>5 DEF TaskInv, RE!TasksAreAnswered, Before, Graph, RE!MaxIterations
<1>8. CASE RE!ReflectNode
  <2>1. node = "reflector" /\ UNCHANGED <<job, plan, step, stepResults, broken>>
    BY <1>8 DEF RE!ReflectNode
  <2>2. /\ visited = 3 * iterations + 2 /\ iterations < RE!MaxIterations /\ reply = "none"
        /\ visited \in Nat /\ iterations \in Nat /\ plan \in Nat /\ step \in Nat
        /\ plan = 0 => step = 0 /\ stepResults = {}
        /\ plan > 0 => step < plan /\ stepResults = 0..step
        /\ job \in RE!Reasoned
    BY <2>1 DEF TaskInv, Graph
  <2>3. CASE step \in stepResults
    <3>. DEFINE to == IF RE!Continues(iterations + 1) THEN "adapter" ELSE "finalizer"
    <3>1. iterations' = iterations + 1 /\ RE!GoTo(to)
      BY <1>8, <2>3 DEF RE!ReflectNode
    <3>. HIDE DEF to
    <3>2. visited' = visited + 1 /\ node' = to /\ reply' = reply
      BY <2>2, <3>1, GoesOn, SevenAtMost
    <3>3. plan > 0
      BY <2>2, <2>3
    <3>4. to = "adapter" => step < plan - 1 /\ iterations + 1 < RE!MaxIterations
      BY DEF to, RE!Continues
    <3>5. to \in {"adapter", "finalizer"}
      BY DEF to
    <3>6. to = "finalizer" => step = plan - 1 \/ iterations + 1 = RE!MaxIterations
      BY <2>2, <3>3, SevenAtMost DEF to, RE!Continues
    <3>7. RE!MaxIterations' = RE!MaxIterations
      BY <2>1 DEF RE!MaxIterations
    <3>. QED
      BY <2>1, <2>2, <3>1, <3>2, <3>3, <3>4, <3>5, <3>6, <3>7
        DEF TaskInv, RE!TasksAreAnswered, Before, Graph
  <2>4. CASE step \notin stepResults
    <3>1. plan = 0
      BY <2>2, <2>4
    <3>2. node' = "done" /\ reply' = "failure" /\ UNCHANGED <<iterations, visited>>
      BY <1>8, <2>4 DEF RE!ReflectNode
    <3>. QED BY <2>1, <2>2, <3>1, <3>2 DEF TaskInv, RE!TasksAreAnswered, Before, Graph
  <2>. QED BY <2>3, <2>4
<1>9. ASSUME NEW decision, RE!AdaptNode(decision) PROVE TaskInv'
  <2>1. /\ node = "adapter" /\ RE!GoTo("executor")
        /\ step' = IF decision = "retry" THEN step ELSE step + 1
        /\ UNCHANGED <<job, plan, stepResults, iterations, broken>>
    BY <1>9 DEF RE!AdaptNode
  <2>2. /\ visited = 3 * iterations /\ iterations < RE!MaxIterations /\ reply = "none"
        /\ visited \in Nat /\ iterations \in Nat /\ plan \in Nat /\ step \in Nat
        /\ step < plan - 1 /\ stepResults = 0..step /\ job \in RE!Reasoned
    BY <2>1 DEF TaskInv, Graph
  <2>3. visited' = visited + 1 /\ node' = "executor" /\ reply' = reply
    BY <2>1, <2>2, GoesOn, SevenAtMost
  <2>4. RE!MaxIterations' = RE!MaxIterations
    BY <2>1 DEF RE!MaxIterations
  <2>5. step' \in Nat /\ step' < plan /\ (stepResults = 0..step' \/ stepResults = 0..(step' - 1))
    BY <2>1, <2>2
  <2>. QED
    BY <2>1, <2>2, <2>3, <2>4, <2>5 DEF TaskInv, RE!TasksAreAnswered, Before, Graph
<1>10. CASE RE!FinalizeNode
  BY <1>10 DEF RE!FinalizeNode, TaskInv, RE!TasksAreAnswered, Before, Graph, RE!MaxIterations
<1>11. CASE RE!Again
  BY <1>11 DEF RE!Again, TaskInv, RE!TasksAreAnswered, Before, Graph, RE!MaxIterations
<1>. QED
  BY <1>1, <1>2, <1>3, <1>4, <1>5, <1>6, <1>7, <1>8, <1>9, <1>10, <1>11 DEF RE!ReasoningNext

(***************************************************************************)
(* Missions                                                                *)
(***************************************************************************)
MissionState == [status : {"absent", "planning", "executing", "completed", "failed"}, cost : Nat, output : Nat]
Stages ==
  {"none", "begin", "plan", "planned", "charge", "call", "step", "finish", "failing", "done", "raised"}
MissionTask ==
  [pc : Stages, steps : Nat, total : Nat, outputs : Nat, state : MissionState]

(* A mission by the place of its task: what was charged, counted and answered, and
   what is in the state that was kept last.                                     *)
MissionInv(t, state, taken, disturbed) ==
  /\ t.pc = "none" => t = MI!NoTask /\ state = MI!Absent /\ taken = 0
  /\ t.pc = "begin" => state = MI!Absent
  /\ t.pc \in {"begin", "plan", "planned"} =>
       t.total = 0 /\ t.outputs = 0 /\ t.state.cost = 0 /\ taken = 0
  /\ t.pc \in {"plan", "planned", "charge", "call", "step", "finish"} => state = t.state
  /\ t.pc \in {"charge", "finish"} => t.state.cost = taken /\ t.total = taken /\ t.outputs = taken
  /\ t.pc = "call" => t.total = taken /\ t.outputs + 1 = taken /\ t.state.cost + 1 = taken
  /\ t.pc = "step" => t.total = taken /\ t.outputs = taken /\ t.state.cost + 1 = taken
  /\ t.pc = "finish" => t.outputs = t.steps
  /\ t.pc \in {"begin", "plan", "planned", "charge", "call", "step", "finish"}
       => t.state.status \in {"planning", "executing"}
  /\ t.pc = "failing" => taken - t.state.cost \in {0, 1}
  /\ state # MI!Absent => taken - state.cost \in {0, 1}
  /\ state.status = "completed" =>
       t.pc \in {"failing", "done", "raised"} /\ state.output = t.steps /\ state.cost = taken
  /\ t.pc \in {"done", "raised"} /\ ~disturbed => state.status \in {"absent", "completed", "failed"}

MissionsInv ==
  /\ missionTasks \in [MissionIds -> MissionTask] /\ kept \in [MissionIds -> MissionState]
  /\ charged \in [MissionIds -> Nat]
  /\ \A m \in MissionIds : MissionInv(missionTasks[m], kept[m], charged[m], m \in shaken)
  /\ \A m \in MissionIds \ accepted : missionTasks[m].pc = "none"

LEMMA MissionsBegin == ASSUME MI!MissionsInit PROVE MissionsInv
BY DEF MI!MissionsInit, MI!NoTask, MI!Absent, MissionsInv, MissionInv, MissionTask, MissionState, Stages

(* A step of one mission leaves the others as they are. *)
LEMMA OneMissionChanges ==
  ASSUME MissionsInv, NEW m \in MissionIds, NEW t, NEW state, NEW taken,
         missionTasks' = [missionTasks EXCEPT ![m] = t], kept' = [kept EXCEPT ![m] = state],
         charged' = [charged EXCEPT ![m] = taken],
         shaken \subseteq shaken', accepted \subseteq accepted', m \in accepted',
         t \in MissionTask, state \in MissionState, taken \in Nat,
         MissionInv(t, state, taken, m \in shaken')
  PROVE  MissionsInv'
<1>1. ASSUME NEW n \in MissionIds, n # m
      PROVE  MissionInv(missionTasks'[n], kept'[n], charged'[n], n \in shaken')
  <2>1. missionTasks'[n] = missionTasks[n] /\ kept'[n] = kept[n] /\ charged'[n] = charged[n]
    BY <1>1
  <2>2. MissionInv(missionTasks[n], kept[n], charged[n], n \in shaken)
    BY DEF MissionsInv
  <2>. QED BY <2>1, <2>2 DEF MissionInv
<1>2. missionTasks'[m] = t /\ kept'[m] = state /\ charged'[m] = taken
  BY DEF MissionsInv
<1>3. \A n \in MissionIds \ accepted' : n # m /\ missionTasks'[n].pc = "none"
  BY DEF MissionsInv
<1>. QED BY <1>1, <1>2, <1>3 DEF MissionsInv

\* A task at its next place, with its state.
Moved(t, s, p) ==
  [pc |-> p, steps |-> t.steps, total |-> t.total, outputs |-> t.outputs, state |-> s]

LEMMA ExceptIsMoved ==
  \A t \in MissionTask : \A s, p : [t EXCEPT !.state = s, !.pc = p] = Moved(t, s, p)
<1>. SUFFICES ASSUME NEW t \in MissionTask, NEW s, NEW p
              PROVE  [t EXCEPT !.state = s, !.pc = p] = Moved(t, s, p)
  OBVIOUS
<1>1. [t EXCEPT !.state = s, !.pc = p] = [[t EXCEPT !.state = s] EXCEPT !.pc = p]
  BY Zenon
<1>2. DOMAIN t = {"pc", "steps", "total", "outputs", "state"}
  BY DEF MissionTask
<1>3. /\ DOMAIN [[t EXCEPT !.state = s] EXCEPT !.pc = p] = DOMAIN Moved(t, s, p)
      /\ \A f \in DOMAIN t : [[t EXCEPT !.state = s] EXCEPT !.pc = p][f] = Moved(t, s, p)[f]
  BY <1>2 DEF Moved
<1>4. DOMAIN Moved(t, s, p) = DOMAIN t
  BY <1>2 DEF Moved
<1>. QED BY <1>1, <1>3, <1>4 DEF Moved

LEMMA SaveKeeps ==
  ASSUME MissionsInv, NEW m \in MissionIds, missionTasks[m].pc # "none",
         NEW s \in MissionState, NEW next \in Stages, NEW behind \in Stages, MI!Save(m, s, next, behind),
         MissionInv(Moved(missionTasks[m], s, next), s, charged[m], m \in shaken),
         MissionInv(Moved(missionTasks[m], s, behind), kept[m], charged[m], TRUE),
         MissionInv(Moved(missionTasks[m], s, behind), s, charged[m], TRUE)
  PROVE  MissionsInv'
<1>1. missionTasks[m] \in MissionTask /\ m \in accepted
  BY DEF MissionsInv, MissionInv
<1>2. PICK result \in {"done", "lost", "answer lost"} :
        /\ kept' = IF result = "lost" THEN kept ELSE [kept EXCEPT ![m] = s]
        /\ missionTasks' = [missionTasks EXCEPT ![m] = [@ EXCEPT !.state = s,
                              !.pc = IF result = "done" THEN next ELSE behind]]
        /\ shaken' = IF result = "done" THEN shaken ELSE shaken \cup {m}
        /\ UNCHANGED <<accepted, charged>>
  BY DEF MI!Save
<1>3. missionTasks' = [missionTasks EXCEPT ![m] =
                         Moved(missionTasks[m], s, IF result = "done" THEN next ELSE behind)]
  <2>. DEFINE p == IF result = "done" THEN next ELSE behind
  <2>1. missionTasks' = [missionTasks EXCEPT ![m] = [missionTasks[m] EXCEPT !.state = s, !.pc = p]]
    BY <1>2, Zenon
  <2>. HIDE DEF p
  <2>2. [missionTasks[m] EXCEPT !.state = s, !.pc = p] = Moved(missionTasks[m], s, p)
    BY <1>1, ExceptIsMoved
  <2>3. missionTasks' = [missionTasks EXCEPT ![m] = Moved(missionTasks[m], s, p)]
    BY <2>1, <2>2, Zenon
  <2>. QED BY <2>3 DEF p
<1>4. kept' = [kept EXCEPT ![m] = IF result = "lost" THEN kept[m] ELSE s]
  BY <1>2 DEF MissionsInv
<1>5. charged' = [charged EXCEPT ![m] = charged[m]]
  BY <1>2 DEF MissionsInv
<1>. DEFINE p == IF result = "done" THEN next ELSE behind
            left == IF result = "lost" THEN kept[m] ELSE s
<1>6. Moved(missionTasks[m], s, p) \in MissionTask /\ left \in MissionState /\ charged[m] \in Nat
  BY <1>1 DEF MissionsInv, MissionTask, Moved
<1>7. shaken \subseteq shaken' /\ accepted \subseteq accepted' /\ m \in accepted'
  BY <1>1, <1>2
<1>8. MissionInv(Moved(missionTasks[m], s, p), left, charged[m], m \in shaken')
  <2>1. CASE result = "done"
    BY <1>2, <2>1
  <2>2. CASE result # "done"
    <3>1. (m \in shaken') = TRUE
      BY <1>2, <2>2
    <3>. QED BY <2>2, <3>1, <1>2
  <2>. QED BY <2>1, <2>2
<1>. HIDE DEF p, left
<1>. QED BY <1>3, <1>4, <1>5, <1>6, <1>7, <1>8, OneMissionChanges DEF p, left

\* The states that are saved.
LEMMA SavesKeep ==
  ASSUME MissionsInv, NEW m \in MissionIds,
         \/ MI!SaveBegin(m) \/ MI!SavePlan(m) \/ MI!SaveStep(m)
         \/ MI!SaveCompleted(m) \/ MI!SaveFailed(m)
  PROVE  MissionsInv'
<1>. DEFINE t == missionTasks[m]
<1>1. /\ t \in MissionTask /\ kept[m] \in MissionState /\ charged[m] \in Nat
      /\ MissionInv(t, kept[m], charged[m], m \in shaken)
  BY DEF MissionsInv
<1>2. t.state \in MissionState /\ t.steps \in Nat /\ t.outputs \in Nat /\ t.total \in Nat /\ MI!AfterStep(m) \in Stages
  BY <1>1 DEF MissionTask, MI!AfterStep, Stages
<1>. DEFINE Right(s, next, behind) ==
              /\ s \in MissionState /\ next \in Stages /\ behind \in Stages
              /\ MissionInv(Moved(t, s, next), s, charged[m], m \in shaken)
              /\ MissionInv(Moved(t, s, behind), kept[m], charged[m], TRUE)
              /\ MissionInv(Moved(t, s, behind), s, charged[m], TRUE)
<1>3. ASSUME NEW s, NEW next, NEW behind, Right(s, next, behind), t.pc # "none",
             MI!Save(m, s, next, behind)
      PROVE  MissionsInv'
  BY <1>3, SaveKeeps
<1>4. CASE MI!SaveBegin(m)
  <2>1. t.pc = "begin" /\ MI!Save(m, t.state, "plan", "failing")
    BY <1>4 DEF MI!SaveBegin, MI!At
  <2>2. Right(t.state, "plan", "failing")
    BY <1>1, <1>2, <2>1 DEF MissionInv, Moved, Stages, MI!Absent
  <2>. HIDE DEF Right, t
  <2>. QED BY <1>3, <2>1, <2>2
<1>5. CASE MI!SavePlan(m)
  <2>1. t.pc = "planned" /\ MI!Save(m, t.state, MI!AfterStep(m), "failing")
    BY <1>5 DEF MI!SavePlan, MI!At
  <2>2. Right(t.state, MI!AfterStep(m), "failing")
    BY <1>1, <1>2, <2>1 DEF MissionInv, Moved, Stages, MI!Absent, MI!AfterStep
  <2>. HIDE DEF Right, t
  <2>. QED BY <1>3, <2>1, <2>2
<1>6. CASE MI!SaveStep(m)
  <2>. DEFINE s == MI!AfterCharge(t)
  <2>1. t.pc = "step" /\ MI!Save(m, s, MI!AfterStep(m), "failing")
    BY <1>6 DEF MI!SaveStep, MI!At
  <2>2. s \in MissionState /\ s.status = "executing" /\ s.cost = t.total /\ s.output = t.state.output
    BY <1>2 DEF MI!AfterCharge, MissionState
  <2>. HIDE DEF s
  <2>3. Right(s, MI!AfterStep(m), "failing")
    BY <1>1, <1>2, <2>1, <2>2 DEF MissionInv, Moved, Stages, MI!Absent, MI!AfterStep
  <2>. HIDE DEF Right, t
  <2>. QED BY <1>3, <2>1, <2>3
<1>7. CASE MI!SaveCompleted(m)
  <2>. DEFINE s == MI!Completed(t)
  <2>1. t.pc = "finish" /\ MI!Save(m, s, "done", "failing")
    BY <1>7 DEF MI!SaveCompleted, MI!At
  <2>2. s \in MissionState /\ s.status = "completed" /\ s.cost = t.state.cost /\ s.output = t.outputs
    BY <1>2 DEF MI!Completed, MissionState
  <2>. HIDE DEF s
  <2>3. Right(s, "done", "failing")
    BY <1>1, <1>2, <2>1, <2>2 DEF MissionInv, Moved, Stages, MI!Absent
  <2>. HIDE DEF Right, t
  <2>. QED BY <1>3, <2>1, <2>3
<1>8. CASE MI!SaveFailed(m)
  <2>. DEFINE s == [t.state EXCEPT !.status = "failed"]
  <2>1. t.pc = "failing" /\ MI!Save(m, s, "done", "raised")
    BY <1>8 DEF MI!SaveFailed, MI!At
  <2>2. s \in MissionState /\ s.status = "failed" /\ s.cost = t.state.cost /\ s.output = t.state.output
    BY <1>2 DEF MissionState
  <2>. HIDE DEF s
  <2>3. Right(s, "done", "raised")
    BY <1>1, <1>2, <2>1, <2>2 DEF MissionInv, Moved, Stages, MI!Absent
  <2>. HIDE DEF Right, t
  <2>. QED BY <1>3, <2>1, <2>3
<1>. QED BY <1>4, <1>5, <1>6, <1>7, <1>8

\* A step that writes no state.
LEMMA TaskKeeps ==
  ASSUME MissionsInv, NEW m \in MissionIds, NEW t \in MissionTask,
         missionTasks' = [missionTasks EXCEPT ![m] = t],
         UNCHANGED <<kept, shaken>>, NEW taken \in Nat, charged' = [charged EXCEPT ![m] = taken],
         accepted \subseteq accepted', m \in accepted',
         MissionInv(t, kept[m], taken, m \in shaken)
  PROVE  MissionsInv'
<1>1. kept' = [kept EXCEPT ![m] = kept[m]] /\ kept[m] \in MissionState /\ shaken' = shaken
  BY DEF MissionsInv
<1>. QED BY <1>1, OneMissionChanges

LEMMA RunningKeeps ==
  ASSUME MI!MissionsAssumption, MissionsInv, NEW m \in MissionIds,
         \/ MI!CreateMission(m) \/ MI!Charge(m) \/ MI!CallModel(m) \/ MI!ModelFails(m)
         \/ \E n \in 0..MaxSteps : MI!Plan(m, n)
  PROVE  MissionsInv'
<1>. DEFINE t == missionTasks[m]
<1>1. /\ t \in MissionTask /\ kept[m] \in MissionState /\ charged[m] \in Nat
      /\ MissionInv(t, kept[m], charged[m], m \in shaken)
      /\ m \notin accepted => t.pc = "none"
  BY DEF MissionsInv
<1>2. t.state \in MissionState /\ t.steps \in Nat /\ t.outputs \in Nat /\ t.total \in Nat
  BY <1>1 DEF MissionTask
<1>3. charged = [charged EXCEPT ![m] = charged[m]]
  BY DEF MissionsInv
<1>. DEFINE At(p, n, total, outputs) ==
              [pc |-> p, steps |-> n, total |-> total, outputs |-> outputs, state |-> t.state]
<1>4. CASE MI!CreateMission(m)
  <2>. DEFINE s == [MI!Absent EXCEPT !.status = "planning"]
              u == [MI!NoTask EXCEPT !.pc = "begin", !.state = s]
  <2>1. /\ m \notin accepted /\ accepted' = accepted \cup {m}
        /\ missionTasks' = [missionTasks EXCEPT ![m] = u]
        /\ UNCHANGED <<kept, listed, charged, shaken>>
    BY <1>4 DEF MI!CreateMission
  <2>2. u = [pc |-> "begin", steps |-> 0, total |-> 0, outputs |-> 0,
             state |-> [status |-> "planning", cost |-> 0, output |-> 0]]
    <3>1. s = [status |-> "planning", cost |-> 0, output |-> 0]
      BY DEF MI!Absent
    <3>. HIDE DEF s
    <3>2. u = [[MI!NoTask EXCEPT !.pc = "begin"] EXCEPT !.state = s]
      BY Zenon
    <3>. HIDE DEF u
    <3>. QED BY <3>1, <3>2 DEF MI!NoTask
  <2>. HIDE DEF u
  <2>3. u \in MissionTask
    BY <2>2 DEF MissionTask, MissionState, Stages
  <2>4. kept[m] = MI!Absent /\ charged[m] = 0
    BY <1>1, <2>1 DEF MissionInv
  <2>5. MissionInv(u, kept[m], charged[m], m \in shaken)
    BY <2>2, <2>4 DEF MissionInv, MI!Absent
  <2>. HIDE DEF u, t
  <2>. QED BY <1>1, <1>3, <2>1, <2>3, <2>5, TaskKeeps
<1>5. CASE \E n \in 0..MaxSteps : MI!Plan(m, n)
  <2>1. PICK n \in 0..MaxSteps : MI!Plan(m, n)
    BY <1>5
  <2>2. /\ t.pc = "plan" /\ n \in Nat
        /\ missionTasks' = [missionTasks EXCEPT ![m].steps = n, ![m].pc = "planned"]
        /\ UNCHANGED <<accepted, kept, charged, shaken>>
    BY <2>1 DEF MI!Plan, MI!At, MI!MissionsAssumption
  <2>. DEFINE u == At("planned", n, t.total, t.outputs)
  <2>3. missionTasks' = [missionTasks EXCEPT ![m] = u]
    BY <1>1, <2>2 DEF MissionsInv, MissionTask
  <2>4. u \in MissionTask /\ MissionInv(u, kept[m], charged[m], m \in shaken)
    BY <1>1, <1>2, <2>2 DEF MissionInv, MissionTask, Stages, MI!Absent
  <2>5. m \in accepted
    BY <1>1, <2>2
  <2>. HIDE DEF u, t
  <2>. QED BY <1>1, <1>3, <2>2, <2>3, <2>4, <2>5, TaskKeeps
<1>6. CASE MI!Charge(m)
  <2>1. PICK taken \in BOOLEAN, raises \in BOOLEAN :
          /\ ~taken => raises
          /\ charged' = IF taken THEN [charged EXCEPT ![m] = @ + 1] ELSE charged
          /\ missionTasks' = [missionTasks EXCEPT ![m] =
                                IF raises THEN [@ EXCEPT !.pc = "failing"]
                                ELSE [@ EXCEPT !.total = missionTasks[m].total + 1, !.pc = "call"]]
    BY <1>6, Zenon DEF MI!Charge
  <2>2. t.pc = "charge" /\ UNCHANGED <<accepted, kept, shaken>>
    BY <1>6, Zenon DEF MI!Charge, MI!At
  <2>. DEFINE p == IF raises THEN "failing" ELSE "call"
              x == IF raises THEN t.total ELSE t.total + 1
              now == IF taken THEN charged[m] + 1 ELSE charged[m]
              u == At(p, t.steps, x, t.outputs)
  <2>3. missionTasks' = [missionTasks EXCEPT ![m] = u]
    <3>1. [t EXCEPT !.pc = "failing"] = At("failing", t.steps, t.total, t.outputs)
      BY <1>1 DEF MissionTask
    <3>2. [t EXCEPT !.total = t.total + 1, !.pc = "call"] = At("call", t.steps, t.total + 1, t.outputs)
      <4>. DEFINE w == t.total + 1
      <4>. HIDE DEF t, w
      <4>1. [t EXCEPT !.total = w, !.pc = "call"] = [[t EXCEPT !.total = w] EXCEPT !.pc = "call"]
        BY Zenon
      <4>2. DOMAIN t = {"pc", "steps", "total", "outputs", "state"}
        BY <1>1 DEF MissionTask
      <4>3. /\ DOMAIN [[t EXCEPT !.total = w] EXCEPT !.pc = "call"] = DOMAIN t
            /\ DOMAIN At("call", t.steps, w, t.outputs) = DOMAIN t
            /\ \A f \in DOMAIN t : [[t EXCEPT !.total = w] EXCEPT !.pc = "call"][f]
                                      = At("call", t.steps, w, t.outputs)[f]
        BY <4>2
      <4>4. [[t EXCEPT !.total = w] EXCEPT !.pc = "call"] = At("call", t.steps, w, t.outputs)
        BY <4>3
      <4>. QED BY <4>1, <4>4 DEF w
    <3>. DEFINE v == IF raises THEN [t EXCEPT !.pc = "failing"]
                     ELSE [t EXCEPT !.total = t.total + 1, !.pc = "call"]
    <3>3. missionTasks' = [missionTasks EXCEPT ![m] = v]
      BY <2>1, Zenon
    <3>4. v = u
      <4>. HIDE DEF t
      <4>. QED BY <3>1, <3>2
    <3>. HIDE DEF v, u
    <3>. QED BY <3>3, <3>4
  <2>4. charged' = [charged EXCEPT ![m] = now] /\ now \in Nat
    <3>1. CASE taken
      BY <1>1, <2>1, <3>1
    <3>2. CASE ~taken
      BY <1>1, <1>3, <2>1, <3>2
    <3>. QED BY <3>1, <3>2
  <2>5. u \in MissionTask
    BY <1>2 DEF MissionTask, Stages
  <2>6. MissionInv(u, kept[m], now, m \in shaken)
    BY <1>1, <1>2, <2>1, <2>2 DEF MissionInv, MI!Absent
  <2>7. m \in accepted
    BY <1>1, <2>2
  <2>. HIDE DEF u, t, now, p, x
  <2>8. UNCHANGED <<kept, shaken>> /\ accepted \subseteq accepted' /\ m \in accepted'
    BY <2>2, <2>7
  <2>9. now \in Nat /\ charged' = [charged EXCEPT ![m] = now]
    BY <2>4
  <2>. QED BY <2>3, <2>5, <2>6, <2>8, <2>9, TaskKeeps
<1>7. CASE MI!CallModel(m)
  <2>1. /\ t.pc = "call" /\ UNCHANGED <<accepted, kept, charged, shaken>>
        /\ missionTasks' = [missionTasks EXCEPT ![m].outputs = @ + 1, ![m].pc = "step"]
    BY <1>7 DEF MI!CallModel, MI!At
  <2>. DEFINE u == At("step", t.steps, t.total, t.outputs + 1)
  <2>2. missionTasks' = [missionTasks EXCEPT ![m] = u]
    BY <1>1, <2>1 DEF MissionsInv, MissionTask
  <2>3. u \in MissionTask /\ MissionInv(u, kept[m], charged[m], m \in shaken)
    BY <1>1, <1>2, <2>1 DEF MissionInv, MissionTask, Stages, MI!Absent
  <2>4. m \in accepted
    BY <1>1, <2>1
  <2>. HIDE DEF u, t
  <2>. QED BY <1>1, <1>3, <2>1, <2>2, <2>3, <2>4, TaskKeeps
<1>8. CASE MI!ModelFails(m)
  <2>1. /\ t.pc \in {"plan", "call"} /\ UNCHANGED <<accepted, kept, charged, shaken>>
        /\ missionTasks' = [missionTasks EXCEPT ![m].pc = "failing"]
    BY <1>8 DEF MI!ModelFails, MI!At
  <2>. DEFINE u == At("failing", t.steps, t.total, t.outputs)
  <2>2. missionTasks' = [missionTasks EXCEPT ![m] = u]
    <3>1. missionTasks' = [missionTasks EXCEPT ![m] = [t EXCEPT !.pc = "failing"]]
      BY <2>1
    <3>. HIDE DEF t
    <3>2. [t EXCEPT !.pc = "failing"] = u
      BY <1>1 DEF MissionTask
    <3>. QED BY <3>1, <3>2
  <2>3. u \in MissionTask /\ MissionInv(u, kept[m], charged[m], m \in shaken)
    BY <1>1, <1>2, <2>1 DEF MissionInv, MissionTask, Stages, MI!Absent
  <2>4. m \in accepted
    BY <1>1, <2>1
  <2>. HIDE DEF u, t
  <2>. QED BY <1>1, <1>3, <2>1, <2>2, <2>3, <2>4, TaskKeeps
<1>. QED BY <1>4, <1>5, <1>6, <1>7, <1>8

LEMMA CrashKeeps == ASSUME MissionsInv, MI!Crash PROVE MissionsInv'
<1>. DEFINE over(m) == missionTasks[m].pc \in {"none", "done", "raised"}
            Lost(m) == [missionTasks[m] EXCEPT !.pc = "raised"]
<1>1. /\ missionTasks' = [m \in MissionIds |-> IF over(m) THEN missionTasks[m] ELSE Lost(m)]
      /\ shaken' = shaken \cup {m \in MissionIds : ~over(m)}
      /\ UNCHANGED <<accepted, kept, charged>>
  BY DEF MI!Crash
<1>2. ASSUME NEW m \in MissionIds
      PROVE  /\ missionTasks'[m] \in MissionTask
             /\ MissionInv(missionTasks'[m], kept'[m], charged'[m], m \in shaken')
  <2>1. /\ missionTasks[m] \in MissionTask /\ charged[m] \in Nat
        /\ MissionInv(missionTasks[m], kept[m], charged[m], m \in shaken)
    BY DEF MissionsInv
  <2>2. CASE over(m)
    BY <1>1, <2>1, <2>2 DEF MissionInv
  <2>3. CASE ~over(m)
    <3>1. /\ missionTasks'[m] = Lost(m) /\ m \in shaken' /\ kept'[m] = kept[m]
          /\ charged'[m] = charged[m]
      BY <1>1, <2>3
    <3>2. Lost(m) \in MissionTask /\ Lost(m).pc = "raised" /\ Lost(m).steps = missionTasks[m].steps
      BY <2>1 DEF MissionTask, Stages
    <3>. QED BY <2>1, <3>1, <3>2 DEF MissionInv
  <2>. QED BY <2>2, <2>3
<1>3. \A m \in MissionIds \ accepted' : missionTasks'[m].pc = "none"
  BY <1>1 DEF MissionsInv
<1>4. missionTasks' \in [MissionIds -> MissionTask]
  BY <1>1, <1>2
<1>. QED BY <1>1, <1>2, <1>3, <1>4 DEF MissionsInv

LEMMA ExpiryKeepsMissions ==
  ASSUME MissionsInv, NEW m \in MissionIds, MI!Expire(m) PROVE MissionsInv'
<1>1. /\ missionTasks[m].pc \in {"done", "raised"}
      /\ kept' = [kept EXCEPT ![m] = MI!Absent]
      /\ UNCHANGED <<accepted, missionTasks, charged, shaken>>
  BY DEF MI!Expire
<1>2. /\ missionTasks[m] \in MissionTask /\ charged[m] \in Nat
      /\ MissionInv(missionTasks[m], kept[m], charged[m], m \in shaken) /\ m \in accepted
  BY <1>1 DEF MissionsInv
<1>3. /\ missionTasks' = [missionTasks EXCEPT ![m] = missionTasks[m]]
      /\ charged' = [charged EXCEPT ![m] = charged[m]]
  BY <1>1 DEF MissionsInv
<1>4. MI!Absent \in MissionState /\ MI!Absent.status = "absent"
  BY DEF MI!Absent, MissionState
<1>5. MissionInv(missionTasks[m], MI!Absent, charged[m], m \in shaken')
  BY <1>1, <1>2, <1>4 DEF MissionInv
<1>6. shaken \subseteq shaken' /\ accepted \subseteq accepted' /\ m \in accepted'
  BY <1>1, <1>2
<1>. QED BY <1>1, <1>2, <1>3, <1>4, <1>5, <1>6, OneMissionChanges

LEMMA MissionsStep ==
  ASSUME MI!MissionsAssumption, MissionsInv, [MI!MissionsNext]_(MI!vars) PROVE MissionsInv'
<1>1. CASE UNCHANGED MI!vars
  BY <1>1 DEF MI!vars, MissionsInv, MissionInv
<1>2. CASE MI!MissionsNext
  BY <1>2, SavesKeep, RunningKeeps, CrashKeeps, ExpiryKeepsMissions DEF MI!MissionsNext
<1>. QED BY <1>1, <1>2

LEMMA CostsStandAsCharged == ASSUME MissionsInv PROVE MI!CostsAreTrue
<1>1. \A m \in MissionIds : kept[m] \in MissionState /\ charged[m] \in Nat
                            /\ MissionInv(missionTasks[m], kept[m], charged[m], m \in shaken)
  BY DEF MissionsInv
<1>. QED BY <1>1 DEF MissionInv, MI!CostsAreTrue

(***************************************************************************)
(* Learning                                                                *)
(***************************************************************************)
LEMMA LearningCounts ==
  \A S : ML!Cardinality(S) = Cardinality(S) /\ (ML!IsFiniteSet(S) <=> IsFiniteSet(S))
<1>1. \A S : ML!Cardinality(S) = Cardinality(S)
  BY DEF ML!Cardinality, Cardinality
<1>2. \A S : ML!IsFiniteSet(S) <=> IsFiniteSet(S)
  BY DEF ML!IsFiniteSet, IsFiniteSet
<1>. QED BY <1>1, <1>2

LEMMA LearningTotals == \A f : ML!TotalOf(f) = Total(f)
<1>. SUFFICES ASSUME NEW f PROVE ML!TotalOf(f) = Total(f)
  OBVIOUS
<1>. QED BY Zenon DEF ML!TotalOf, ML!MapThenSumSet, ML!MapThenFoldSet, Total, MapThenSumSet, MapThenFoldSet

Differ(N, at) ==
  (\A i \in N : at[i] \in Int) /\ (\A i, j \in N : at[i] = at[j] => i = j)
Arranges(p, N) ==
  /\ p \in [N -> N] /\ \A i, j \in N : p[i] = p[j] => i = j
  /\ \A x \in N : \E i \in N : p[i] = x
Ranks(N, at) == [i \in N |-> Cardinality({j \in N : at[j] >= at[i]})]

(* Positions that are rearranged are as many as before. *)
LEMMA RearrangedCount ==
  ASSUME NEW n \in Nat, NEW p, Arranges(p, 1..n), NEW S \in SUBSET (1..n), NEW T, T = {j \in 1..n : p[j] \in S}
  PROVE  IsFiniteSet(S) /\ Cardinality(T) = Cardinality(S)
<1>. DEFINE f == [j \in T |-> p[j]]
<1>. USE DEF Arranges
<1>1. IsFiniteSet(S) /\ IsFiniteSet(T)
  <2>1. IsFiniteSet(1..n)
    BY FS_Interval
  <2>2. T \in SUBSET (1..n)
    OBVIOUS
  <2>. QED BY <2>1, <2>2, FS_Subset, Zenon
<1>2. f \in [T -> S]
  OBVIOUS
<1>3. \A x, y \in T : f[x] = f[y] => x = y
  OBVIOUS
<1>4. \A s \in S : \E x \in T : f[x] = s
  <2>1. ASSUME NEW s \in S PROVE \E x \in T : f[x] = s
    <3>1. PICK j \in 1..n : p[j] = s
      OBVIOUS
    <3>2. j \in T
      BY <3>1
    <3>. QED BY <3>1, <3>2
  <2>. QED BY <2>1
<1>. HIDE DEF f
<1>5. f \in Bijection(T, S)
  BY ONLY <1>2, <1>3, <1>4, Fun_IsBij
<1>6. ExistsBijection(T, S)
  BY <1>5 DEF ExistsBijection
<1>. QED BY <1>1, <1>6, FS_Bijection

(* Moments that differ rank the entries of a log from 1 to its length. *)
LEMMA RanksRearrange ==
  ASSUME NEW n \in Nat, NEW N, N = 1..n,
         NEW at, Differ(N, at), NEW r, r = Ranks(N, at)
  PROVE  Arranges(r, N)
<1>. USE DEF Differ
<1>. DEFINE Above(i) == {j \in N : at[j] >= at[i]}
<1>1. IsFiniteSet(N) /\ Cardinality(N) = n
  BY FS_Interval
<1>2. ASSUME NEW i \in N PROVE r[i] = Cardinality(Above(i)) /\ i \in Above(i) /\ Above(i) \in SUBSET N
  BY DEF Ranks
<1>. HIDE DEF Above
<1>3. ASSUME NEW i \in N PROVE r[i] \in N /\ IsFiniteSet(Above(i))
  <2>1. Above(i) \in SUBSET N /\ Above(i) # {}
    BY <1>2
  <2>2. IsFiniteSet(Above(i)) /\ Cardinality(Above(i)) <= Cardinality(N)
    BY ONLY <1>1, <2>1, FS_Subset
  <2>3. Cardinality(Above(i)) \in Nat /\ Cardinality(Above(i)) # 0
    BY <2>1, <2>2, FS_CardinalityType, FS_EmptySet
  <2>. QED BY <1>1, <1>2, <2>2, <2>3
<1>4. ASSUME NEW i \in N, NEW j \in N, at[i] > at[j] PROVE r[i] # r[j]
  <2>1. Above(i) \in SUBSET Above(j) /\ Above(i) # Above(j)
    <3>1. j \in Above(j) /\ j \notin Above(i)
      BY <1>4 DEF Above
    <3>2. \A x \in Above(i) : x \in Above(j)
      BY <1>4 DEF Above
    <3>. QED BY <3>1, <3>2
  <2>2. Cardinality(Above(j)) = Cardinality(Above(i)) => Above(j) = Above(i)
    <3>1. IsFiniteSet(Above(j))
      BY <1>3
    <3>. QED BY ONLY <2>1, <3>1, FS_Subset
  <2>. QED BY <1>2, <2>1, <2>2
<1>5. \A i, j \in N : r[i] = r[j] => i = j
  <2>1. ASSUME NEW i \in N, NEW j \in N, r[i] = r[j] PROVE i = j
    <3>1. ~(at[i] > at[j]) /\ ~(at[j] > at[i])
      BY <1>4, <2>1
    <3>2. at[i] \in Int /\ at[j] \in Int
      OBVIOUS
    <3>3. at[i] = at[j]
      BY ONLY <3>1, <3>2
    <3>. QED BY <3>3
  <2>. QED BY <2>1
<1>6. r \in [N -> N]
  BY <1>3 DEF Ranks
<1>7. r \in Injection(N, N)
  BY <1>5, <1>6 DEF Injection, IsInjective
<1>8. r \in Surjection(N, N)
  BY <1>1, <1>7, FS_Injection
<1>9. \A x \in N : \E i \in N : r[i] = x
  BY <1>8, Zenon DEF Surjection
<1>. QED BY <1>5, <1>6, <1>9 DEF Arranges


Outcome == [agent : Learners, result : Results, complexity : Complexities,
            model : Models \cup {"none"}, quality : Qualities, cost : Costs,
            flaw : Flaws \cup {"none"}, at : Nat]
LevelRow == [count : Nat, succeeded : Nat]

OwnAt(log, a) == {i \in DOMAIN log : log[i].agent = a}
SoundAt(log, a) == {i \in OwnAt(log, a) : log[i].result = "success" /\ log[i].flaw # "cost"}

LogKept ==
  /\ outcomes \in Seq(Outcome) /\ recorded \in Nat
  /\ \A i \in DOMAIN outcomes : outcomes[i].at <= recorded
  /\ \A i, j \in DOMAIN outcomes : outcomes[i].at = outcomes[j].at => i = j
FiguresKept ==
  /\ performance = [a \in Learners |-> performance[a]]
  /\ \A a \in Learners : ML!FigureOf(a).total \in Nat /\ ML!FigureOf(a).succeeded \in Nat
  /\ levels \in [Complexities -> LevelRow]
FiguresAreOfTheLog ==
  \A a \in Learners :
    /\ performance[a] = ML!Nothing => OwnAt(outcomes, a) = {}
    /\ performance[a] # ML!Nothing =>
         /\ performance[a].total = Cardinality(OwnAt(outcomes, a))
         /\ performance[a].succeeded = Cardinality(SoundAt(outcomes, a))
TotalsAgree ==
  /\ ML!SystemTotals.missions = Len(outcomes)
  /\ ML!LevelTotals.missions <= ML!SystemTotals.missions
  /\ ML!LevelTotals.successes <= ML!SystemTotals.successes
  /\ (\A i \in DOMAIN outcomes : outcomes[i].flaw = "none") => ML!LevelTotals = ML!SystemTotals

\* No two outcomes in the log are of the same moment, whatever order it is in.
LearnInv == LogKept /\ FiguresKept /\ FiguresAreOfTheLog /\ TotalsAgree

LEMMA StatsDoAgree == ASSUME LearnInv PROVE ML!StatsAgree
<1>1. ASSUME NEW a \in Learners
      PROVE  /\ performance[a] = ML!Nothing => OwnAt(outcomes, a) = {}
             /\ performance[a] # ML!Nothing =>
                  /\ performance[a].total = ML!Cardinality(OwnAt(outcomes, a))
                  /\ performance[a].succeeded = ML!Cardinality(SoundAt(outcomes, a))
  BY LearningCounts, Zenon DEF LearnInv, FiguresAreOfTheLog
<1>. QED BY <1>1, Zenon DEF LearnInv, TotalsAgree, ML!StatsAgree, OwnAt, SoundAt

Missions == [a \in Learners |-> ML!FigureOf(a).total]
Successes == [a \in Learners |-> ML!FigureOf(a).succeeded]
LevelMissions == [c \in Complexities |-> levels[c].count]
LevelSuccesses == [c \in Complexities |-> levels[c].succeeded]

LEMMA TotalsAre ==
  /\ ML!SystemTotals.missions = Total(Missions) /\ ML!SystemTotals.successes = Total(Successes)
  /\ ML!LevelTotals.missions = Total(LevelMissions)
  /\ ML!LevelTotals.successes = Total(LevelSuccesses)
  /\ ML!LevelTotals = ML!SystemTotals <=>
       ML!LevelTotals.missions = ML!SystemTotals.missions
         /\ ML!LevelTotals.successes = ML!SystemTotals.successes
<1>1. /\ ML!SystemTotals = [missions |-> ML!TotalOf(Missions), successes |-> ML!TotalOf(Successes)]
      /\ ML!LevelTotals = [missions |-> ML!TotalOf(LevelMissions), successes |-> ML!TotalOf(LevelSuccesses)]
  BY Zenon DEF ML!SystemTotals, ML!LevelTotals, Missions, Successes, LevelMissions, LevelSuccesses
<1>. QED BY <1>1, LearningTotals

LEMMA LearningBegins ==
  ASSUME ML!LearningAssumption, outcomes = <<>>, recorded = 0,
         performance = [a \in Learners |-> ML!Nothing],
         levels = [c \in Complexities |-> [count |-> 0, succeeded |-> 0]]
  PROVE  LearnInv
<1>1. LogKept
  BY DEF LogKept
<1>2. \A a \in Learners : ML!FigureOf(a).total = 0 /\ ML!FigureOf(a).succeeded = 0
  BY DEF ML!FigureOf, ML!NoFigures
<1>3. FiguresKept
  <2>1. levels \in [Complexities -> LevelRow]
    BY DEF LevelRow
  <2>. QED BY <1>2, <2>1 DEF FiguresKept
<1>4. FiguresAreOfTheLog
  BY DEF FiguresAreOfTheLog, OwnAt
<1>5. IsFiniteSet(Learners) /\ IsFiniteSet(Complexities)
  BY LearningCounts DEF ML!LearningAssumption
<1>6. /\ Missions \in [Learners -> Int] /\ \A a \in Learners : Missions[a] = 0
      /\ Successes \in [Learners -> Int] /\ \A a \in Learners : Successes[a] = 0
      /\ LevelMissions \in [Complexities -> Int] /\ \A c \in Complexities : LevelMissions[c] = 0
      /\ LevelSuccesses \in [Complexities -> Int] /\ \A c \in Complexities : LevelSuccesses[c] = 0
  BY <1>2 DEF Missions, Successes, LevelMissions, LevelSuccesses
<1>7. Total(Missions) = 0 /\ Total(Successes) = 0 /\ Total(LevelMissions) = 0 /\ Total(LevelSuccesses) = 0
  BY <1>5, <1>6, TotalOfZeros
<1>8. TotalsAgree
  BY <1>7, TotalsAre DEF TotalsAgree
<1>. QED BY <1>1, <1>3, <1>4, <1>8 DEF LearnInv


LEMMA UpdatedIs ==
  ASSUME NEW p, NEW o, NEW log, NEW tick, tick = (IF o.flaw # "cost" /\ o.result = "success" THEN 1 ELSE 0)
  PROVE  LET u == ML!Updated(p, o, log) IN
         /\ u # ML!Nothing /\ u.total = p.total + 1 /\ u.succeeded = p.succeeded + tick
<1>. DEFINE costed == o.flaw # "cost"
            assessed == costed /\ ~ML!Spoilt(log, o.agent)
            own == ML!OfAgent(log, o.agent)
            u == [total |-> p.total + 1,
                  cost |-> IF costed THEN p.cost + o.cost ELSE p.cost,
                  succeeded |-> p.succeeded + tick,
                  failed |-> p.failed + (IF costed /\ o.result = "failure" THEN 1 ELSE 0),
                  levels |-> IF costed THEN ML!CountIn(p.levels, o.complexity) ELSE p.levels,
                  models |-> IF costed /\ o.model # "none" THEN ML!CountIn(p.models, o.model) ELSE p.models,
                  quality |-> IF assessed THEN ML!SumOf(own, ML!Qual) ELSE p.quality,
                  trend |-> IF assessed THEN ML!Trend(own) ELSE p.trend]
<1>1. ML!Updated(p, o, log) = u
  BY Zenon DEF ML!Updated
<1>2. u.total = p.total + 1 /\ u.succeeded = p.succeeded + tick
  BY Zenon
<1>3. u # ML!Nothing
  <2>1. "total" \in DOMAIN u
    BY Zenon
  <2>2. DOMAIN ML!Nothing = {"absent"}
    BY DEF ML!Nothing
  <2>3. "total" \notin {"absent"}
    OBVIOUS
  <2>. QED BY <2>1, <2>2, <2>3, Zenon
<1>. HIDE DEF u
<1>. QED BY <1>1, <1>2, <1>3

(* A log with one more outcome. *)
LEMMA OneMoreAt ==
  ASSUME NEW log \in Seq(Outcome), NEW o \in Outcome, NEW a
  PROVE  LET more == Append(log, o)
             new == IF o.agent = a THEN {Len(log) + 1} ELSE {}
             good == IF o.agent = a /\ o.result = "success" /\ o.flaw # "cost" THEN {Len(log) + 1} ELSE {}
         IN  /\ OwnAt(more, a) = OwnAt(log, a) \cup new /\ SoundAt(more, a) = SoundAt(log, a) \cup good
             /\ Len(log) + 1 \notin OwnAt(log, a) /\ Len(log) + 1 \notin SoundAt(log, a)
             /\ IsFiniteSet(OwnAt(log, a)) /\ IsFiniteSet(SoundAt(log, a))
<1>. DEFINE more == Append(log, o)
<1>1. PICK n \in Nat, m \in Nat : n = Len(log) /\ m = n + 1
  OBVIOUS
<1>2. /\ DOMAIN log = 1..n /\ DOMAIN more = 1..m /\ more[m] = o
      /\ \A i \in 1..n : more[i] = log[i]
  BY <1>1
<1>. HIDE DEF more
<1>3. \A i : i \in 1..m <=> i \in 1..n \/ i = m
  BY <1>1
<1>4. m \notin 1..n
  BY <1>1
<1>5. OwnAt(more, a) = OwnAt(log, a) \cup (IF o.agent = a THEN {m} ELSE {})
  BY <1>2, <1>3, <1>4 DEF OwnAt
<1>6. SoundAt(more, a) = SoundAt(log, a) \cup (IF o.agent = a /\ o.result = "success" /\ o.flaw # "cost" THEN {m} ELSE {})
  BY <1>2, <1>3, <1>4 DEF OwnAt, SoundAt
<1>7. OwnAt(log, a) \in SUBSET (1..n) /\ SoundAt(log, a) \in SUBSET (1..n)
  BY <1>2 DEF OwnAt, SoundAt
<1>8. IsFiniteSet(OwnAt(log, a)) /\ IsFiniteSet(SoundAt(log, a))
  <2>1. IsFiniteSet(1..n)
    BY FS_Interval
  <2>. QED BY <1>7, <2>1, FS_Subset, Zenon
<1>. QED BY <1>1, <1>4, <1>5, <1>6, <1>7, <1>8 DEF more

(* A log sorted by the moments of its outcomes is a rearrangement of it. *)
LEMMA SortedIsRearranged ==
  ASSUME NEW log \in Seq(Outcome), \A i, j \in DOMAIN log : log[i].at = log[j].at => i = j,
         NEW n \in Nat, n = Len(log)
  PROVE  \E p : Arranges(p, 1..n) /\ ML!NewestFirst(log) = [j \in 1..n |-> log[p[j]]]
<1>. DEFINE N == DOMAIN log
            at == [i \in N |-> log[i].at]
            p == [x \in N |-> CHOOSE i \in N : ML!Place(log, i) = x]
<1>1. N = 1..n /\ \A i \in N : log[i] \in Outcome
  OBVIOUS
<1>2. \A i \in N : at[i] \in Int
  BY <1>1 DEF Outcome
<1>3. \A i, j \in N : at[i] = at[j] => i = j
  BY <1>1
<1>4. PICK r : r = Ranks(N, at)
  OBVIOUS
<1>5. \A i \in N : ML!Place(log, i) = r[i]
  <2>1. ASSUME NEW i \in N PROVE ML!Place(log, i) = r[i]
    <3>1. {j \in DOMAIN log : log[j].at >= log[i].at} = {j \in N : at[j] >= at[i]}
      BY <1>1
    <3>2. r[i] = Cardinality({j \in N : at[j] >= at[i]})
      BY <1>4, Zenon DEF Ranks
    <3>. QED BY <3>1, <3>2, LearningCounts, Zenon DEF ML!Place
  <2>. QED BY <2>1
<1>6. ML!NewestFirst(log) = [x \in N |-> log[CHOOSE i \in N : ML!Place(log, i) = x]]
  BY Zenon DEF ML!NewestFirst
<1>7. \A x \in N : p[x] = CHOOSE i \in N : ML!Place(log, i) = x
  BY Zenon
<1>8. ML!NewestFirst(log) = [x \in N |-> log[p[x]]]
  BY <1>6, <1>7, Zenon
<1>. HIDE DEF N, at
<1>9. /\ r \in [N -> N] /\ \A i, j \in N : r[i] = r[j] => i = j
      /\ \A x \in N : \E i \in N : r[i] = x
  <2>1. Differ(N, at)
    BY <1>2, <1>3, Zenon DEF Differ
  <2>2. Arranges(r, N)
    BY <1>1, <1>4, <2>1, RanksRearrange
  <2>. QED BY <2>2 DEF Arranges
<1>10. \A x \in N : p[x] \in N /\ r[p[x]] = x
  <2>1. \A x \in N : \E i \in N : ML!Place(log, i) = x
    BY <1>5, <1>9
  <2>2. \A x \in N : p[x] \in N /\ ML!Place(log, p[x]) = x
    BY <1>7, <2>1, Zenon
  <2>. QED BY <1>5, <2>2
<1>11. p \in [N -> N]
  BY <1>10
<1>. HIDE DEF p
<1>12. \A i, j \in N : p[i] = p[j] => i = j
  BY <1>10, Zenon
<1>13. \A i \in N : \E j \in N : p[j] = i
  BY <1>9, <1>10
<1>14. N = 1..n
  BY <1>1
<1>15. Arranges(p, 1..n)
  BY ONLY <1>11, <1>12, <1>13, <1>14 DEF Arranges
<1>16. ML!NewestFirst(log) = [x \in 1..n |-> log[p[x]]]
  BY ONLY <1>8, <1>14
<1>. QED BY <1>15, <1>16, Zenon


LEMMA NumbersSheet ==
  ASSUME ML!LearningAssumption, FiguresKept
  PROVE  /\ IsFiniteSet(Learners) /\ IsFiniteSet(Complexities)
         /\ Missions \in [Learners -> Int] /\ Successes \in [Learners -> Int]
         /\ LevelMissions \in [Complexities -> Int] /\ LevelSuccesses \in [Complexities -> Int]
<1>1. IsFiniteSet(Learners) /\ IsFiniteSet(Complexities)
  BY LearningCounts DEF ML!LearningAssumption
<1>2. Missions \in [Learners -> Int] /\ Successes \in [Learners -> Int]
  BY DEF FiguresKept, Missions, Successes
<1>3. LevelMissions \in [Complexities -> Int] /\ LevelSuccesses \in [Complexities -> Int]
  BY DEF FiguresKept, LevelMissions, LevelSuccesses, LevelRow
<1>. QED BY <1>1, <1>2, <1>3

LEMMA RecordLearns ==
  ASSUME ML!LearningAssumption, LearnInv, NEW o \in ML!Incoming, ML!Record(o)
  PROVE  LearnInv'
<1>. DEFINE a == o.agent
            c == o.complexity
            log == Append(outcomes, o)
            before == ML!FigureOf(a)
            now == ML!Updated(before, o, log)
            raised == o.flaw = "cost" \/ ML!Spoilt(log, a)
            succeeded == o.result = "success"
            row == [count |-> levels[c].count + 1,
                    succeeded |-> levels[c].succeeded + IF succeeded THEN 1 ELSE 0]
<1>1. LogKept /\ FiguresKept /\ FiguresAreOfTheLog /\ TotalsAgree
  BY DEF LearnInv
<1>2. /\ recorded' = recorded + 1 /\ outcomes' = log
      /\ performance' = [performance EXCEPT ![a] = now]
      /\ levels' = IF raised THEN levels ELSE [levels EXCEPT ![c] = row]
  BY Zenon DEF ML!Record
<1>3. /\ a \in Learners /\ c \in Complexities /\ o.at = recorded + 1 /\ o \in Outcome
  <2>1. recorded \in Nat
    BY <1>1 DEF LogKept
  <2>. QED BY <2>1 DEF ML!Incoming, Outcome
<1>4. PICK tick \in {0, 1} : tick = IF o.flaw # "cost" /\ succeeded THEN 1 ELSE 0
  OBVIOUS
<1>5. now # ML!Nothing /\ now.total = before.total + 1 /\ now.succeeded = before.succeeded + tick
  BY <1>4, UpdatedIs
<1>6. PICK rise \in {0, 1} : rise = IF raised THEN 0 ELSE 1
  OBVIOUS
<1>7. PICK win \in {0, 1} : win = IF ~raised /\ succeeded THEN 1 ELSE 0
  OBVIOUS
<1>8. win <= tick /\ rise <= 1
  BY <1>4, <1>6, <1>7
<1>9. /\ performance'[a] = now /\ \A b \in Learners \ {a} : performance'[b] = performance[b]
      /\ performance' = [b \in Learners |-> performance'[b]]
  <2>. HIDE DEF now, a
  <2>. QED BY <1>1, <1>2, <1>3 DEF FiguresKept
<1>10. /\ before.total \in Nat /\ before.succeeded \in Nat
       /\ levels[c] \in LevelRow /\ levels \in [Complexities -> LevelRow]
  BY <1>1, <1>3 DEF FiguresKept
<1>11. /\ ML!FigureOf(a)' = now
       /\ \A b \in Learners \ {a} : ML!FigureOf(b)' = ML!FigureOf(b)
  BY <1>5, <1>9 DEF ML!FigureOf
<1>12. /\ levels' \in [Complexities -> LevelRow]
       /\ levels'[c].count = levels[c].count + rise /\ levels'[c].succeeded = levels[c].succeeded + win
       /\ \A d \in Complexities \ {c} : levels'[d] = levels[d]
  <2>1. levels[c].count \in Nat /\ levels[c].succeeded \in Nat
    BY <1>10 DEF LevelRow
  <2>2. row \in LevelRow /\ row.count = levels[c].count + 1
        /\ row.succeeded = levels[c].succeeded + IF succeeded THEN 1 ELSE 0
    BY <2>1 DEF LevelRow
  <2>. HIDE DEF row, raised, succeeded
  <2>3. CASE raised
    BY <1>2, <1>6, <1>7, <1>10, <2>1, <2>3
  <2>4. CASE ~raised
    <3>1. levels' = [levels EXCEPT ![c] = row]
      BY <1>2, <2>4
    <3>2. levels'[c] = row /\ levels' \in [Complexities -> LevelRow]
      BY <1>3, <1>10, <2>2, <3>1
    <3>3. \A d \in Complexities \ {c} : levels'[d] = levels[d]
      BY <1>3, <1>10, <3>1
    <3>. QED BY <1>6, <1>7, <2>2, <2>4, <3>2, <3>3
  <2>. QED BY <2>3, <2>4
<1>. HIDE DEF now, before, row
<1>13. FiguresKept'
  <2>1. \A b \in Learners : ML!FigureOf(b)'.total \in Nat /\ ML!FigureOf(b)'.succeeded \in Nat
    <3>1. now.total \in Nat /\ now.succeeded \in Nat
      BY <1>5, <1>10
    <3>. QED BY <1>1, <1>3, <1>11, <3>1 DEF FiguresKept
  <2>. QED BY <1>9, <1>12, <2>1 DEF FiguresKept
<1>14. PICK n \in Nat, m \in Nat : n = Len(outcomes) /\ m = n + 1
  BY <1>1 DEF LogKept
<1>15. /\ DOMAIN outcomes = 1..n /\ DOMAIN outcomes' = 1..m /\ outcomes'[m] = o /\ Len(outcomes') = m
       /\ outcomes' \in Seq(Outcome) /\ \A i \in 1..n : outcomes'[i] = outcomes[i]
  BY <1>1, <1>2, <1>3, <1>14 DEF LogKept
<1>16. \A i : i \in 1..m <=> i \in 1..n \/ i = m
  BY <1>14
<1>. HIDE DEF log, raised
<1>17. LogKept'
  <2>1. recorded \in Nat /\ recorded' = recorded + 1
    BY <1>1, <1>2 DEF LogKept
  <2>2. \A i \in 1..n : outcomes[i].at <= recorded /\ outcomes[i].at \in Nat
    <3>1. \A i \in 1..n : outcomes[i] \in Outcome
      BY <1>1, <1>15 DEF LogKept
    <3>2. \A i \in 1..n : outcomes[i].at \in Nat
      BY <3>1 DEF Outcome
    <3>. QED BY <1>1, <1>15, <3>2 DEF LogKept
  <2>3. \A i \in 1..m : outcomes'[i].at <= recorded'
    <3>1. \A i \in 1..n : outcomes'[i].at <= recorded'
      BY <1>15, <2>1, <2>2
    <3>2. outcomes'[m].at <= recorded'
      BY <1>3, <1>15, <2>1
    <3>. QED BY <1>16, <3>1, <3>2
  <2>4. \A i, j \in 1..m : outcomes'[i].at = outcomes'[j].at => i = j
    <3>1. \A i \in 1..n : outcomes'[i].at # outcomes'[m].at
      BY <1>3, <1>15, <2>1, <2>2
    <3>2. \A i, j \in 1..n : outcomes'[i].at = outcomes'[j].at => i = j
      BY <1>1, <1>15 DEF LogKept
    <3>. QED BY <1>16, <3>1, <3>2
  <2>. QED BY <1>15, <2>1, <2>3, <2>4 DEF LogKept
<1>18. ASSUME NEW b \in Learners
       PROVE  /\ performance'[b] = ML!Nothing => OwnAt(outcomes', b) = {}
              /\ performance'[b] # ML!Nothing =>
                   /\ performance'[b].total = Cardinality(OwnAt(outcomes', b))
                   /\ performance'[b].succeeded = Cardinality(SoundAt(outcomes', b))
  <2>. DEFINE own == OwnAt(outcomes, b)
              sound == SoundAt(outcomes, b)
  <2>1. /\ OwnAt(outcomes', b) = own \cup (IF a = b THEN {m} ELSE {})
        /\ SoundAt(outcomes', b) = sound \cup (IF a = b /\ succeeded /\ o.flaw # "cost" THEN {m} ELSE {})
        /\ m \notin own /\ m \notin sound /\ IsFiniteSet(own) /\ IsFiniteSet(sound)
    <3>1. outcomes \in Seq(Outcome) /\ m = Len(outcomes) + 1
      BY <1>1, <1>14 DEF LogKept
    <3>. QED BY <1>2, <1>3, <3>1, OneMoreAt DEF log
  <2>2. /\ performance[b] = ML!Nothing => own = {}
        /\ performance[b] # ML!Nothing =>
             performance[b].total = Cardinality(own) /\ performance[b].succeeded = Cardinality(sound)
    BY <1>1 DEF FiguresAreOfTheLog
  <2>. HIDE DEF own, sound, succeeded
  <2>3. CASE b # a
    <3>1. OwnAt(outcomes', b) = own /\ SoundAt(outcomes', b) = sound
      BY <2>1, <2>3
    <3>2. performance'[b] = performance[b]
      BY <1>9, <2>3
    <3>. QED BY <2>2, <3>1, <3>2
  <2>4. CASE b = a
    <3>1. before.total = Cardinality(own) /\ before.succeeded = Cardinality(sound)
      <4>1. CASE performance[b] = ML!Nothing
        <5>1. own = {} /\ sound = {}
          BY <2>2, <4>1 DEF sound, SoundAt, own
        <5>2. Cardinality({}) = 0
          BY FS_EmptySet
        <5>. QED BY <2>4, <4>1, <5>1, <5>2 DEF before, ML!FigureOf, ML!NoFigures
      <4>2. CASE performance[b] # ML!Nothing
        BY <2>2, <2>4, <4>2 DEF before, ML!FigureOf
      <4>. QED BY <4>1, <4>2
    <3>2. Cardinality(OwnAt(outcomes', b)) = Cardinality(own) + 1
      <4>1. OwnAt(outcomes', b) = own \cup {m}
        BY <2>1, <2>4
      <4>2. Cardinality(own \cup {m}) = Cardinality(own) + 1
        BY ONLY <2>1, FS_AddElement
      <4>. QED BY <4>1, <4>2
    <3>3. Cardinality(SoundAt(outcomes', b)) = Cardinality(sound) + tick
      <4>1. CASE succeeded /\ o.flaw # "cost"
        <5>1. SoundAt(outcomes', b) = sound \cup {m} /\ tick = 1
          BY <1>4, <2>1, <2>4, <4>1
        <5>2. Cardinality(sound \cup {m}) = Cardinality(sound) + 1
          BY ONLY <2>1, FS_AddElement
        <5>. QED BY <5>1, <5>2
      <4>2. CASE ~(succeeded /\ o.flaw # "cost")
        <5>1. SoundAt(outcomes', b) = sound /\ tick = 0
          BY <1>4, <2>1, <4>2
        <5>2. Cardinality(sound) \in Nat
          BY <2>1, FS_CardinalityType
        <5>. QED BY <5>1, <5>2
      <4>. QED BY <4>1, <4>2
    <3>. QED BY <1>5, <1>9, <2>4, <3>1, <3>2, <3>3
  <2>. QED BY <2>3, <2>4
<1>19. /\ ML!SystemTotals.missions' = ML!SystemTotals.missions + 1
       /\ ML!SystemTotals.successes' = ML!SystemTotals.successes + tick
       /\ ML!LevelTotals.missions' = ML!LevelTotals.missions + rise
       /\ ML!LevelTotals.successes' = ML!LevelTotals.successes + win
       /\ ML!SystemTotals.missions \in Int /\ ML!SystemTotals.successes \in Int
       /\ ML!LevelTotals.missions \in Int /\ ML!LevelTotals.successes \in Int
  <2>1. PICK f \in [Learners -> Int], g \in [Learners -> Int] : f = Missions /\ g = Successes
    BY <1>1, NumbersSheet
  <2>2. PICK x \in [Learners -> Int], y \in [Learners -> Int] : x = Missions' /\ y = Successes'
    <3>1. Missions' \in [Learners -> Int] /\ Successes' \in [Learners -> Int]
      BY <1>13 DEF FiguresKept, Missions, Successes
    <3>. QED BY <3>1
  <2>3. PICK u \in [Complexities -> Int], v \in [Complexities -> Int] :
               u = LevelMissions /\ v = LevelSuccesses
    BY <1>1, NumbersSheet
  <2>4. PICK w \in [Complexities -> Int], z \in [Complexities -> Int] :
               w = LevelMissions' /\ z = LevelSuccesses'
    <3>1. LevelMissions' \in [Complexities -> Int] /\ LevelSuccesses' \in [Complexities -> Int]
      BY <1>13 DEF FiguresKept, LevelMissions, LevelSuccesses, LevelRow
    <3>. QED BY <3>1
  <2>5. IsFiniteSet(Learners) /\ IsFiniteSet(Complexities)
    BY <1>1, NumbersSheet
  <2>6. Total(x) = Total(f) + 1 /\ Total(f) \in Int
    <3>1. x[a] = f[a] + 1 /\ \A b \in Learners \ {a} : x[b] = f[b]
      BY <1>3, <1>5, <1>11, <2>1, <2>2 DEF Missions, before
    <3>2. Total(x) = Total(f) - f[a] + x[a] /\ Total(f) \in Int
      BY <1>3, <2>5, <3>1, TotalChanges
    <3>. QED BY <1>3, <3>1, <3>2
  <2>7. Total(y) = Total(g) + tick /\ Total(g) \in Int
    <3>1. y[a] = g[a] + tick /\ \A b \in Learners \ {a} : y[b] = g[b]
      BY <1>3, <1>5, <1>11, <2>1, <2>2 DEF Successes, before
    <3>2. Total(y) = Total(g) - g[a] + y[a] /\ Total(g) \in Int
      BY <1>3, <2>5, <3>1, TotalChanges
    <3>. QED BY <1>3, <3>1, <3>2
  <2>8. Total(w) = Total(u) + rise /\ Total(u) \in Int
    <3>1. w[c] = u[c] + rise /\ \A b \in Complexities \ {c} : w[b] = u[b]
      BY <1>3, <1>12, <2>3, <2>4 DEF LevelMissions
    <3>2. Total(w) = Total(u) - u[c] + w[c] /\ Total(u) \in Int
      BY <1>3, <2>5, <3>1, TotalChanges
    <3>. QED BY <1>3, <3>1, <3>2
  <2>9. Total(z) = Total(v) + win /\ Total(v) \in Int
    <3>1. z[c] = v[c] + win /\ \A b \in Complexities \ {c} : z[b] = v[b]
      BY <1>3, <1>12, <2>3, <2>4 DEF LevelSuccesses
    <3>2. Total(z) = Total(v) - v[c] + z[c] /\ Total(v) \in Int
      BY <1>3, <2>5, <3>1, TotalChanges
    <3>. QED BY <1>3, <3>1, <3>2
  <2>10. /\ ML!SystemTotals.missions' = Total(x) /\ ML!SystemTotals.successes' = Total(y)
         /\ ML!LevelTotals.missions' = Total(w) /\ ML!LevelTotals.successes' = Total(z)
    <3>1. /\ ML!SystemTotals' = [missions |-> ML!TotalOf(Missions'), successes |-> ML!TotalOf(Successes')]
          /\ ML!LevelTotals' = [missions |-> ML!TotalOf(LevelMissions'), successes |-> ML!TotalOf(LevelSuccesses')]
      BY Zenon DEF ML!SystemTotals, ML!LevelTotals, Missions, Successes, LevelMissions, LevelSuccesses
    <3>. QED BY <2>2, <2>4, <3>1, LearningTotals
  <2>. QED BY <2>1, <2>3, <2>6, <2>7, <2>8, <2>9, <2>10, TotalsAre
<1>20. TotalsAgree'
  <2>1. /\ ML!SystemTotals.missions = n /\ ML!LevelTotals.missions <= ML!SystemTotals.missions
        /\ ML!LevelTotals.successes <= ML!SystemTotals.successes
        /\ (\A i \in 1..n : outcomes[i].flaw = "none") => ML!LevelTotals = ML!SystemTotals
    BY <1>1, <1>14, <1>15 DEF TotalsAgree
  <2>2. ML!SystemTotals.missions' = Len(outcomes')
    BY <1>14, <1>15, <1>19, <2>1
  <2>3. ML!LevelTotals.missions' <= ML!SystemTotals.missions'
        /\ ML!LevelTotals.successes' <= ML!SystemTotals.successes'
    BY <1>4, <1>6, <1>7, <1>8, <1>19, <2>1
  <2>4. ASSUME \A i \in 1..m : outcomes'[i].flaw = "none"
        PROVE  ML!LevelTotals.missions' = ML!SystemTotals.missions'
               /\ ML!LevelTotals.successes' = ML!SystemTotals.successes'
    <3>1. \A i \in 1..n : outcomes[i].flaw = "none"
      BY <1>15, <1>16, <2>4
    <3>2. ML!LevelTotals.missions = ML!SystemTotals.missions
          /\ ML!LevelTotals.successes = ML!SystemTotals.successes
      BY <2>1, <3>1
    <3>3. ~raised
      <4>1. o.flaw = "none"
        BY <1>15, <1>16, <2>4
      <4>2. ~ML!Spoilt(log, a)
        BY <1>2, <1>15, <2>4 DEF ML!Spoilt
      <4>. QED BY <4>1, <4>2 DEF raised
    <3>4. rise = 1 /\ win = tick
      BY <1>4, <1>6, <1>7, <3>3 DEF raised
    <3>. QED BY <1>19, <3>2, <3>4
  <2>5. (\A i \in 1..m : outcomes'[i].flaw = "none") => ML!LevelTotals' = ML!SystemTotals'
    <3>1. /\ ML!SystemTotals' = [missions |-> ML!TotalOf(Missions'), successes |-> ML!TotalOf(Successes')]
          /\ ML!LevelTotals' = [missions |-> ML!TotalOf(LevelMissions'), successes |-> ML!TotalOf(LevelSuccesses')]
      BY Zenon DEF ML!SystemTotals, ML!LevelTotals, Missions, Successes, LevelMissions, LevelSuccesses
    <3>. QED BY <2>4, <3>1
  <2>. QED BY <1>15, <2>2, <2>3, <2>5 DEF TotalsAgree
<1>. QED BY <1>13, <1>17, <1>18, <1>20 DEF LearnInv, FiguresAreOfTheLog


(* Sorted, the log says the same of every agent. *)
LEMMA ReadingLearns ==
  ASSUME ML!LearningAssumption, LearnInv, ML!ReadRecent
  PROVE  LearnInv'
<1>1. LogKept /\ FiguresKept /\ FiguresAreOfTheLog /\ TotalsAgree
  BY DEF LearnInv
<1>2. /\ outcomes' = ML!NewestFirst(outcomes) /\ performance' = performance
      /\ levels' = levels /\ recorded' = recorded
  BY DEF ML!ReadRecent
<1>3. PICK n \in Nat : n = Len(outcomes)
  BY <1>1 DEF LogKept
<1>4. PICK p : Arranges(p, 1..n) /\ ML!NewestFirst(outcomes) = [j \in 1..n |-> outcomes[p[j]]]
  <2>1. outcomes \in Seq(Outcome) /\ \A i, j \in DOMAIN outcomes : outcomes[i].at = outcomes[j].at => i = j
    BY <1>1 DEF LogKept
  <2>. QED BY <1>3, <2>1, SortedIsRearranged
<1>5. /\ outcomes \in Seq(Outcome) /\ DOMAIN outcomes = 1..n
      /\ \A i \in 1..n : outcomes[i] \in Outcome
  BY <1>1, <1>3 DEF LogKept
<1>6. outcomes' = [j \in 1..n |-> outcomes[p[j]]]
  BY <1>2, <1>4
<1>7. /\ DOMAIN outcomes' = 1..n /\ outcomes' \in Seq(Outcome) /\ Len(outcomes') = n
      /\ \A j \in 1..n : p[j] \in 1..n /\ outcomes'[j] = outcomes[p[j]]
  <2>. USE DEF Arranges
  <2>1. outcomes' \in [1..n -> Outcome]
    BY <1>4, <1>5, <1>6
  <2>2. outcomes' \in Seq(Outcome) /\ Len(outcomes') = n
    BY <2>1, SeqDef, LenProperties
  <2>. QED BY <1>4, <1>6, <2>1, <2>2
<1>8. LogKept'
  <2>1. \A j \in 1..n : outcomes'[j].at <= recorded
    BY <1>1, <1>5, <1>7 DEF LogKept
  <2>2. ASSUME NEW i \in 1..n, NEW j \in 1..n, outcomes'[i].at = outcomes'[j].at PROVE i = j
    <3>1. outcomes[p[i]].at = outcomes[p[j]].at /\ p[i] \in 1..n /\ p[j] \in 1..n
      BY <1>7, <2>2
    <3>2. p[i] = p[j]
      BY <1>1, <1>5, <3>1 DEF LogKept
    <3>. QED BY <1>4, <3>2 DEF Arranges
  <2>. QED BY <1>1, <1>2, <1>7, <2>1, <2>2 DEF LogKept
<1>9. FiguresKept'
  BY <1>1, <1>2, Zenon DEF FiguresKept, ML!FigureOf
<1>10. ASSUME NEW b \in Learners
       PROVE  /\ Cardinality(OwnAt(outcomes', b)) = Cardinality(OwnAt(outcomes, b))
              /\ Cardinality(SoundAt(outcomes', b)) = Cardinality(SoundAt(outcomes, b))
              /\ OwnAt(outcomes, b) = {} => OwnAt(outcomes', b) = {}
  <2>1. OwnAt(outcomes, b) \in SUBSET (1..n) /\ SoundAt(outcomes, b) \in SUBSET (1..n)
    BY <1>5 DEF OwnAt, SoundAt
  <2>2. OwnAt(outcomes', b) = {j \in 1..n : p[j] \in OwnAt(outcomes, b)}
    BY <1>5, <1>7 DEF OwnAt
  <2>3. SoundAt(outcomes', b) = {j \in 1..n : p[j] \in SoundAt(outcomes, b)}
    BY <1>5, <1>7 DEF OwnAt, SoundAt
  <2>4. Cardinality(OwnAt(outcomes', b)) = Cardinality(OwnAt(outcomes, b))
    BY <1>4, <2>1, <2>2, RearrangedCount
  <2>5. Cardinality(SoundAt(outcomes', b)) = Cardinality(SoundAt(outcomes, b))
    BY <1>4, <2>1, <2>3, RearrangedCount
  <2>. QED BY <2>2, <2>4, <2>5
<1>11. FiguresAreOfTheLog'
  BY <1>1, <1>2, <1>10 DEF FiguresAreOfTheLog
<1>12. ML!SystemTotals' = ML!SystemTotals /\ ML!LevelTotals' = ML!LevelTotals
  BY <1>2, Zenon DEF ML!SystemTotals, ML!LevelTotals, ML!FigureOf
<1>13. (\A i \in 1..n : outcomes'[i].flaw = "none") => \A i \in 1..n : outcomes[i].flaw = "none"
  <2>1. ASSUME \A j \in 1..n : outcomes'[j].flaw = "none", NEW i \in 1..n
        PROVE  outcomes[i].flaw = "none"
    <3>1. PICK j \in 1..n : p[j] = i
      BY <1>4 DEF Arranges
    <3>. QED BY <1>7, <2>1, <3>1
  <2>. QED BY <2>1
<1>14. TotalsAgree'
  <2>1. /\ ML!SystemTotals.missions = n /\ ML!LevelTotals.missions <= ML!SystemTotals.missions
        /\ ML!LevelTotals.successes <= ML!SystemTotals.successes
        /\ (\A i \in 1..n : outcomes[i].flaw = "none") => ML!LevelTotals = ML!SystemTotals
    BY <1>1, <1>3, <1>5 DEF TotalsAgree
  <2>. QED BY <1>7, <1>12, <1>13, <2>1 DEF TotalsAgree
<1>. QED BY <1>8, <1>9, <1>11, <1>14 DEF LearnInv

LEMMA LearningStands ==
  ASSUME LearnInv, UNCHANGED <<outcomes, performance, levels, recorded>> PROVE LearnInv'
<1>1. outcomes' = outcomes /\ performance' = performance /\ levels' = levels /\ recorded' = recorded
  OBVIOUS
<1>. QED BY <1>1, Zenon DEF LearnInv, LogKept, FiguresKept, FiguresAreOfTheLog, TotalsAgree,
     ML!SystemTotals, ML!LevelTotals, ML!FigureOf

LEMMA ClearedLearns ==
  ASSUME ML!LearningAssumption, ML!ClearData PROVE LearnInv'
<1>1. /\ outcomes' = <<>> /\ recorded' = 0 /\ performance' = [a \in Learners |-> ML!Nothing]
      /\ levels' = [c \in Complexities |-> [count |-> 0, succeeded |-> 0]]
  BY DEF ML!ClearData
<1>2. LogKept'
  BY <1>1 DEF LogKept
<1>3. \A a \in Learners : ML!FigureOf(a)'.total = 0 /\ ML!FigureOf(a)'.succeeded = 0
  BY <1>1 DEF ML!FigureOf, ML!NoFigures
<1>4. FiguresKept'
  <2>1. levels' \in [Complexities -> LevelRow]
    BY <1>1 DEF LevelRow
  <2>. QED BY <1>1, <1>3, <2>1 DEF FiguresKept
<1>5. FiguresAreOfTheLog'
  BY <1>1 DEF FiguresAreOfTheLog, OwnAt
<1>6. IsFiniteSet(Learners) /\ IsFiniteSet(Complexities)
  BY LearningCounts DEF ML!LearningAssumption
<1>7. /\ Missions' \in [Learners -> Int] /\ \A a \in Learners : Missions'[a] = 0
      /\ Successes' \in [Learners -> Int] /\ \A a \in Learners : Successes'[a] = 0
      /\ LevelMissions' \in [Complexities -> Int] /\ \A c \in Complexities : LevelMissions'[c] = 0
      /\ LevelSuccesses' \in [Complexities -> Int] /\ \A c \in Complexities : LevelSuccesses'[c] = 0
  BY <1>1, <1>3 DEF Missions, Successes, LevelMissions, LevelSuccesses
<1>8. Total(Missions') = 0 /\ Total(Successes') = 0 /\ Total(LevelMissions') = 0 /\ Total(LevelSuccesses') = 0
  BY <1>6, <1>7, TotalOfZeros
<1>9. /\ ML!SystemTotals' = [missions |-> ML!TotalOf(Missions'), successes |-> ML!TotalOf(Successes')]
      /\ ML!LevelTotals' = [missions |-> ML!TotalOf(LevelMissions'), successes |-> ML!TotalOf(LevelSuccesses')]
  BY Zenon DEF ML!SystemTotals, ML!LevelTotals, Missions, Successes, LevelMissions, LevelSuccesses
<1>10. TotalsAgree'
  <2>1. ML!SystemTotals' = [missions |-> 0, successes |-> 0] /\ ML!LevelTotals' = [missions |-> 0, successes |-> 0]
    BY <1>8, <1>9, LearningTotals
  <2>. QED BY <1>1, <2>1 DEF TotalsAgree
<1>. QED BY <1>2, <1>4, <1>5, <1>10 DEF LearnInv

LEMMA LearningStep ==
  ASSUME ML!LearningAssumption, LearnInv, [ML!LearnNext]_(ML!learnVars) PROVE LearnInv'
<1>1. CASE UNCHANGED ML!learnVars
  BY <1>1, LearningStands DEF ML!learnVars
<1>2. ASSUME NEW a \in Learners, ML!Optimize(a) PROVE LearnInv'
  BY <1>2, LearningStands DEF ML!Optimize
<1>. QED BY <1>1, <1>2, RecordLearns, ReadingLearns, ClearedLearns DEF ML!LearnNext

LEMMA TasksStep ==
  ASSUME RE!ReasoningAssumption, TaskInv, [RE!ReasoningNext]_(RE!vars) PROVE TaskInv'
<1>1. CASE UNCHANGED RE!vars
  BY <1>1 DEF RE!vars, TaskInv, RE!TasksAreAnswered, RE!MaxIterations
<1>. QED BY <1>1, TasksGoOn

(***************************************************************************)
(* All of them                                                             *)
(***************************************************************************)
\* The part that runs keeps its invariant; the others stay as they began.
BooksInv ==
  /\ part = "learning" => LearnInv
  /\ part = "agents" => HistoryInv /\ TeamsInv
  /\ part = "accounts" => AccountInv
  /\ part = "prices" => PricesInv
  /\ part = "tasks" => TaskInv
  /\ part = "missions" => MissionsInv

LEMMA BooksBegin == ASSUME InitAll PROVE BooksInv
<1>1. part = "learning" => LearnInv
  BY BoundsAssumption, LearningBegins DEF InitAll, ML!LearnInit
<1>2. part = "agents" => HistoryInv /\ TeamsInv
  BY HistoryBegins, TeamsBegin DEF InitAll
<1>3. part = "accounts" => AccountInv
  BY BoundsAssumption, AccountsBegin DEF InitAll
<1>4. part = "prices" => PricesInv
  BY PricesBegin DEF InitAll
<1>. QED BY <1>1, <1>2, <1>3, <1>4, TasksBegin, MissionsBegin DEF InitAll, BooksInv

LEMMA OneBookOfSixIsKept ==
  ASSUME [NextAll]_allVars
  PROVE  /\ part' = part
         /\ part = "learning" => [ML!LearnNext]_(ML!learnVars)
         /\ part = "agents" => [AD!DeskNext]_(AD!deskVars)
         /\ part = "accounts" => [EA!EconomyNext]_(EA!economyVars)
         /\ part = "prices" => [EP!EconomyNext]_(EP!economyVars)
         /\ part = "tasks" => [RE!ReasoningNext]_(RE!vars)
         /\ part = "missions" => [MI!MissionsNext]_(MI!vars)
<1>1. CASE UNCHANGED allVars
  BY <1>1
     DEF allVars, learnVars, ML!learnVars, agentVars, AD!deskVars, economyVars, EA!economyVars,
         EA!books, EP!economyVars, EP!books, reasonVars, RE!vars, missionVars, MI!vars
<1>2. CASE NextAll
  <2>1. part' = part
    BY <1>2
       DEF NextAll, OnlyWebhooks, OnlyApiGateway, OnlyMcpClient, OnlyEventBus, OnlyLeadGeneration,
                OnlyRevenuePipeline, OnlySalesDesk, OnlyCaches, OnlyMetaLearning, OnlyAgentDesk,
                OnlyOutreach, OnlyEconomy, OnlyVault, OnlyReasoning, OnlyMissions
  <2>. QED BY <1>2, <2>1 DEF NextAll
<1>. QED BY <1>1, <1>2

(* The books about agents agree with what the agents did, whatever is lost, raced or
   done twice, for any agents, amounts, lengths and plans: the figures of the
   performance tracker with the outcomes it holds and the levels with the agents
   (performance_tracker.py), the events of an agent with its row and the counters
   of a workforce with its runs (agents.py, workforces.py), the balances with the
   histories (resource_marketplace.py), the quoted prices with the risk of the
   asset (governance_economy.py), the answer of a task with the plan it was
   reasoned along, and the costs of a mission with what was charged.          *)
THEOREM BooksAlwaysAgree == SpecAll => []BooksAgree
<1>1. InitAll => BooksInv
  BY BooksBegin
<1>2. BooksInv /\ [NextAll]_allVars => BooksInv'
  <2>. SUFFICES ASSUME BooksInv, [NextAll]_allVars PROVE BooksInv'
    OBVIOUS
  <2>1. part = "learning" => LearnInv'
    BY BoundsAssumption, OneBookOfSixIsKept, LearningStep DEF BooksInv
  <2>2. part = "agents" => HistoryInv' /\ TeamsInv'
    BY BoundsAssumption, OneBookOfSixIsKept, AgentsStep DEF BooksInv
  <2>3. part = "accounts" => AccountInv'
    BY BoundsAssumption, OneBookOfSixIsKept, AccountsStep DEF BooksInv
  <2>4. part = "prices" => PricesInv'
    BY BoundsAssumption, OneBookOfSixIsKept, PricesStep DEF BooksInv
  <2>5. part = "tasks" => TaskInv'
    BY BoundsAssumption, OneBookOfSixIsKept, TasksStep DEF BooksInv
  <2>6. part = "missions" => MissionsInv'
    BY BoundsAssumption, OneBookOfSixIsKept, MissionsStep DEF BooksInv
  <2>. QED BY <2>1, <2>2, <2>3, <2>4, <2>5, <2>6, OneBookOfSixIsKept DEF BooksInv
<1>3. BooksInv => BooksAgree
  BY StatsDoAgree, AgentBooksAgree, AccountBooksAgree, QuotesAreRight, CostsStandAsCharged
  DEF BooksInv, TaskInv, BooksAgree
<1>. QED BY <1>1, <1>2, <1>3, PTL DEF SpecAll
==============================================================================
