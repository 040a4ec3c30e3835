----------------------------- MODULE ReportProofs -----------------------------
(***************************************************************************)
(* Proofs about the figures on their way to the reader: for rings of any   *)
(* number of slots, any number of sessions, requests and Restarts, and     *)
(* bucket settings of any number and size.                                 *)
(*                                                                         *)
(* The sums and the lists of edges are folds.  What a fold computes is     *)
(* proved from the least set, or number, for which it would not.           *)
(***************************************************************************)
EXTENDS Report, FiniteSetTheorems, SequenceTheorems, WellFoundedInduction, TLAPS

-----------------------------------------------------------------------------
(***************************************************************************)
(* Numbers, and sums over finite sets.                                     *)
(***************************************************************************)
\* The least of some natural numbers.
LEMMA LeastExists ==
  ASSUME NEW S \in SUBSET Nat, S # {}
  PROVE  \E m \in S : \A n \in S : m <= n
<1>1. PICK m \in S : \A n \in S : <<n, m>> \notin OpToRel(<, Nat)
  BY WFMin, NatLessThanWellFounded
<1>2. \A n \in S : ~(n < m)
  BY <1>1 DEF OpToRel
<1>. QED
  BY <1>2

\* What holds of 0, and of n + 1 whenever of n, holds of every number.
LEMMA EveryNumber ==
  ASSUME NEW A, 0 \in A, \A n \in Nat : n \in A => n + 1 \in A
  PROVE  \A n \in Nat : n \in A
<1>. SUFFICES ASSUME NEW k \in Nat, k \notin A PROVE FALSE
  OBVIOUS
<1>. DEFINE bad == {n \in Nat : n \notin A}
<1>1. PICK m \in bad : \A n \in bad : m <= n
  <2>1. bad \in SUBSET Nat /\ bad # {}
    OBVIOUS
  <2>. HIDE DEF bad
  <2>. QED
    BY <2>1, LeastExists
<1>2. m # 0 /\ m \in Nat
  BY <1>1
<1>3. m - 1 \in Nat /\ m - 1 \notin bad
  BY <1>1, <1>2
<1>4. (m - 1) + 1 \in A
  BY <1>3
<1>. QED
  BY <1>1, <1>2, <1>4

\* A fold over subsets of S: c chooses the next element, h uses it.
Folds(iter, S, base, c, h) ==
  \A s \in SUBSET S : iter[s] = IF s = {} THEN base ELSE h[<<c[s], iter[s \ {c[s]}]>>]

\* A fold over a finite set is a function.
LEMMA FoldExists ==
  ASSUME NEW S, IsFiniteSet(S), NEW V, NEW base \in V,
         NEW c, \A s \in SUBSET S : s # {} => c[s] \in s,
         NEW h, \A x \in S : \A v \in V : h[<<x, v>>] \in V
  PROVE  \E iter \in [SUBSET S -> V] : Folds(iter, S, base, c, h)
<1>. DEFINE Upto(n, iter) ==
              \A s \in SUBSET S : Cardinality(s) <= n =>
                iter[s] = IF s = {} THEN base ELSE h[<<c[s], iter[s \ {c[s]}]>>]
            A == {n \in Nat : \E iter \in [SUBSET S -> V] : Upto(n, iter)}
<1>0. \A s \in SUBSET S : IsFiniteSet(s) /\ Cardinality(s) \in Nat /\ Cardinality(s) <= Cardinality(S)
  BY FS_Subset, FS_CardinalityType
<1>1. 0 \in A
  <2>. DEFINE g == [s \in SUBSET S |-> base]
  <2>1. g \in [SUBSET S -> V]
    OBVIOUS
  <2>2. \A s \in SUBSET S : Cardinality(s) <= 0 => s = {}
    BY <1>0, FS_EmptySet
  <2>3. Upto(0, g)
    BY <2>2
  <2>. HIDE DEF Upto, g
  <2>. QED
    BY <2>1, <2>3
<1>2. ASSUME NEW n \in Nat, n \in A
      PROVE  n + 1 \in A
  <2>1. PICK iter \in [SUBSET S -> V] : Upto(n, iter)
    BY <1>2
  <2>. DEFINE g == [s \in SUBSET S |->
                     IF Cardinality(s) <= n THEN iter[s] ELSE h[<<c[s], iter[s \ {c[s]}]>>]]
  <2>2. ASSUME NEW s \in SUBSET S, s # {}
        PROVE  /\ s \ {c[s]} \in SUBSET S /\ Cardinality(s \ {c[s]}) = Cardinality(s) - 1
               /\ iter[s \ {c[s]}] \in V /\ c[s] \in S
    BY <1>0, <2>2, FS_RemoveElement
  <2>3. g \in [SUBSET S -> V]
    <3>1. \A s \in SUBSET S : iter[s] \in V
      OBVIOUS
    <3>2. ASSUME NEW s \in SUBSET S, ~ (Cardinality(s) <= n)
          PROVE  h[<<c[s], iter[s \ {c[s]}]>>] \in V
      <4>1. Cardinality({}) <= n
        BY FS_EmptySet
      <4>2. s # {}
        BY <3>2, <4>1
      <4>. QED
        BY <2>2, <4>2
    <3>. QED
      BY <3>1, <3>2
  <2>4. ASSUME NEW s \in SUBSET S, Cardinality(s) <= n + 1
        PROVE  g[s] = IF s = {} THEN base ELSE h[<<c[s], g[s \ {c[s]}]>>]
    <3>1. CASE s = {}
      <4>1. Cardinality(s) <= n
        BY <3>1, FS_EmptySet
      <4>. QED
        BY <2>1, <3>1, <4>1
    <3>2. CASE s # {}
      <4>1. g[s \ {c[s]}] = iter[s \ {c[s]}]
        BY <1>0, <2>2, <2>4, <3>2
      <4>2. CASE Cardinality(s) <= n
        BY <2>1, <3>2, <4>1, <4>2
      <4>3. CASE ~ (Cardinality(s) <= n)
        BY <3>2, <4>1, <4>3
      <4>. QED
        BY <4>2, <4>3
    <3>. QED
      BY <3>1, <3>2
  <2>5. Upto(n + 1, g)
    BY <2>4
  <2>. HIDE DEF Upto, g
  <2>. QED
    BY <2>3, <2>5
<1>3. Cardinality(S) \in A
  <2>1. Cardinality(S) \in Nat
    BY FS_CardinalityType
  <2>. HIDE DEF A
  <2>. QED
    BY <1>1, <1>2, <2>1, EveryNumber
<1>4. PICK iter \in [SUBSET S -> V] : Upto(Cardinality(S), iter)
  BY <1>3
<1>. QED
  BY <1>0, <1>4 DEF Folds

Some(s) == CHOOSE x \in s : TRUE

\* A sum is the fold of +.
SumsUp(iter, S, fun) ==
  \A s \in SUBSET S : iter[s] = IF s = {} THEN 0 ELSE fun[Some(s)] + iter[s \ {Some(s)}]

LEMMA SumExists ==
  ASSUME NEW S, IsFiniteSet(S), NEW fun, \A x \in S : fun[x] \in Int
  PROVE  \E iter \in [SUBSET S -> Int] : SumsUp(iter, S, fun)
<1>. DEFINE c == [s \in SUBSET S |-> Some(s)]
            h == [p \in S \X Int |-> fun[p[1]] + p[2]]
<1>1. \A s \in SUBSET S : s # {} => c[s] = Some(s) /\ Some(s) \in s
  BY DEF Some
<1>2. \A x \in S : \A v \in Int : h[<<x, v>>] = fun[x] + v
  OBVIOUS
<1>3. 0 \in Int /\ \A x \in S : \A v \in Int : h[<<x, v>>] \in Int
  <2>1. \A x \in S : \A v \in Int : fun[x] + v \in Int
    OBVIOUS
  <2>. HIDE DEF h
  <2>. QED
    BY <1>2, <2>1
<1>4. \A s \in SUBSET S : s # {} => c[s] \in s
  BY <1>1
<1>. HIDE DEF c, h
<1>5. PICK iter \in [SUBSET S -> Int] : Folds(iter, S, 0, c, h)
  BY <1>3, <1>4, FoldExists, Zenon
<1>6. ASSUME NEW s \in SUBSET S
      PROVE  iter[s] = IF s = {} THEN 0 ELSE fun[Some(s)] + iter[s \ {Some(s)}]
  <2>1. CASE s = {}
    BY <1>5, <2>1 DEF Folds
  <2>2. CASE s # {}
    <3>1. iter[s] = h[<<c[s], iter[s \ {c[s]}]>>]
      BY <1>5, <2>2 DEF Folds
    <3>2. iter[s \ {Some(s)}] \in Int /\ Some(s) \in S
      BY <1>1, <2>2
    <3>. QED
      BY <1>1, <1>2, <2>2, <3>1, <3>2
  <2>. QED
    BY <2>1, <2>2
<1>. QED
  BY <1>6 DEF SumsUp

LEMMA SumUnique ==
  ASSUME NEW S, IsFiniteSet(S), NEW T, NEW fun,
         NEW f, SumsUp(f, S, fun), NEW g, SumsUp(g, T, fun)
  PROVE  \A s \in SUBSET S : s \subseteq T => f[s] = g[s]
<1>. DEFINE A == {n \in Nat : \A s \in SUBSET S : s \subseteq T /\ Cardinality(s) = n => f[s] = g[s]}
<1>0. \A s \in SUBSET S : IsFiniteSet(s) /\ Cardinality(s) \in Nat
  BY FS_Subset, FS_CardinalityType
<1>1. 0 \in A
  <2>1. \A s \in SUBSET S : Cardinality(s) = 0 => s = {}
    BY <1>0, FS_EmptySet
  <2>. QED
    BY <2>1 DEF SumsUp
<1>2. ASSUME NEW n \in Nat, n \in A
      PROVE  n + 1 \in A
  <2>. SUFFICES ASSUME NEW s \in SUBSET S, s \subseteq T, Cardinality(s) = n + 1
                PROVE  f[s] = g[s]
    OBVIOUS
  <2>1. s # {}
    BY FS_EmptySet
  <2>2. Some(s) \in s
    BY <2>1 DEF Some
  <2>3. s \ {Some(s)} \in SUBSET S /\ s \ {Some(s)} \subseteq T /\ Cardinality(s \ {Some(s)}) = n
    <3>1. IsFiniteSet(s)
      BY <1>0
    <3>2. Cardinality(s \ {Some(s)}) = Cardinality(s) - 1
      BY <2>2, <3>1, FS_RemoveElement
    <3>. QED
      BY <3>2
  <2>4. f[s \ {Some(s)}] = g[s \ {Some(s)}]
    BY <1>2, <2>3
  <2>. QED
    BY <2>1, <2>4 DEF SumsUp
<1>. HIDE DEF A
<1>3. \A n \in Nat : n \in A
  BY <1>1, <1>2, EveryNumber
<1>. QED
  BY <1>0, <1>3 DEF A

\* The sums of the subsets of S are those of a function that sums up.
Addable(fun, S) == IsFiniteSet(S) /\ \A x \in S : fun[x] \in Int

IsTheSum(iter, S, fun) ==
  SumsUp(iter, S, fun) /\ \A s \in SUBSET S : SumFunctionOnSet(fun, s) = iter[s]

LEMMA SumIs ==
  \A S, fun : Addable(fun, S) => \E iter \in [SUBSET S -> Int] : IsTheSum(iter, S, fun)
<1>. SUFFICES ASSUME NEW S, NEW fun, Addable(fun, S)
              PROVE  \E iter \in [SUBSET S -> Int] : IsTheSum(iter, S, fun)
  OBVIOUS
<1>. IsFiniteSet(S) /\ \A x \in S : fun[x] \in Int
  BY DEF Addable
<1>1. PICK iter \in [SUBSET S -> Int] : SumsUp(iter, S, fun)
  BY SumExists
<1>2. ASSUME NEW s \in SUBSET S
      PROVE  SumFunctionOnSet(fun, s) = iter[s]
  <2>. DEFINE g == CHOOSE g : g = [t \in SUBSET s |->
                                    IF t = {} THEN 0 ELSE fun[Some(t)] + g[t \ {Some(t)}]]
  <2>1. SumFunctionOnSet(fun, s) = g[s]
    BY DEF SumFunctionOnSet, FoldFunctionOnSet, MapThenFoldSet, Some
  <2>2. \E k : k = [t \in SUBSET s |-> IF t = {} THEN 0 ELSE fun[Some(t)] + k[t \ {Some(t)}]]
    <3>1. IsFiniteSet(s) /\ \A x \in s : fun[x] \in Int
      BY FS_Subset
    <3>2. PICK k \in [SUBSET s -> Int] : SumsUp(k, s, fun)
      BY <3>1, SumExists
    <3>3. k = [t \in SUBSET s |-> IF t = {} THEN 0 ELSE fun[Some(t)] + k[t \ {Some(t)}]]
      BY <3>2 DEF SumsUp
    <3>. QED
      BY <3>3
  <2>3. g = [t \in SUBSET s |-> IF t = {} THEN 0 ELSE fun[Some(t)] + g[t \ {Some(t)}]]
    <3>1. g = CHOOSE g1 : g1 = [t \in SUBSET s |->
                                  IF t = {} THEN 0 ELSE fun[Some(t)] + g1[t \ {Some(t)}]]
      OBVIOUS
    <3>. HIDE DEF g
    <3>. QED
      BY <2>2, <3>1
  <2>. HIDE DEF g
  <2>4. SumsUp(g, s, fun)
    BY <2>3 DEF SumsUp
  <2>5. IsFiniteSet(s)
    BY FS_Subset
  <2>. QED
    BY <1>1, <2>1, <2>4, <2>5, SumUnique
<1>. QED
  BY <1>1, <1>2 DEF IsTheSum

\* What holds of {}, and survives adding an element, holds of a finite set.
LEMMA EverySubset ==
  ASSUME NEW S, IsFiniteSet(S), NEW A, {} \in A,
         \A s \in SUBSET S : \A x \in S \ s : s \in A => s \cup {x} \in A
  PROVE  S \in A
<1>. DEFINE B == {n \in Nat : \A s \in SUBSET S : Cardinality(s) = n => s \in A}
<1>0. \A s \in SUBSET S : IsFiniteSet(s) /\ Cardinality(s) \in Nat
  BY FS_Subset, FS_CardinalityType
<1>1. 0 \in B
  <2>1. \A s \in SUBSET S : Cardinality(s) = 0 => s = {}
    BY <1>0, FS_EmptySet
  <2>. QED
    BY <2>1
<1>2. ASSUME NEW n \in Nat, n \in B
      PROVE  n + 1 \in B
  <2>. SUFFICES ASSUME NEW s \in SUBSET S, Cardinality(s) = n + 1
                PROVE  s \in A
    OBVIOUS
  <2>1. s # {}
    <3>1. Cardinality({}) = 0 /\ n + 1 # 0
      BY FS_EmptySet
    <3>. QED
      BY <3>1, Zenon
  <2>2. PICK x \in s : TRUE
    BY <2>1
  <2>3. IsFiniteSet(s) /\ s \ {x} \in SUBSET S
    BY <1>0
  <2>4. Cardinality(s \ {x}) = Cardinality(s) - 1
    BY <2>2, <2>3, FS_RemoveElement
  <2>5. s \ {x} \in A
    BY <1>2, <2>3, <2>4
  <2>6. (s \ {x}) \cup {x} \in A
    BY <2>2, <2>3, <2>5
  <2>7. (s \ {x}) \cup {x} = s
    BY <2>2
  <2>. QED
    BY <2>6, <2>7
<1>. HIDE DEF B
<1>3. Cardinality(S) \in B /\ S \in SUBSET S
  BY <1>0, <1>1, <1>2, EveryNumber
<1>. QED
  BY <1>3 DEF B

\* Any element can be taken out of the sum first.
Pulls(iter, S, fun) ==
  \A s \in SUBSET S : \A y \in s : iter[s] = fun[y] + iter[s \ {y}]

LEMMA SumsPull ==
  \A S, fun, iter :
    iter \in [SUBSET S -> Int] /\ Addable(fun, S) /\ SumsUp(iter, S, fun) => Pulls(iter, S, fun)
<1>. SUFFICES ASSUME NEW S, NEW fun, NEW iter, iter \in [SUBSET S -> Int],
                     Addable(fun, S), SumsUp(iter, S, fun)
              PROVE  Pulls(iter, S, fun)
  BY Zenon
<1>. IsFiniteSet(S) /\ \A x \in S : fun[x] \in Int
  BY DEF Addable
<1>. DEFINE A == {n \in Nat : \A s \in SUBSET S : Cardinality(s) = n =>
                    \A y \in s : iter[s] = fun[y] + iter[s \ {y}]}
<1>0. \A s \in SUBSET S : IsFiniteSet(s) /\ Cardinality(s) \in Nat
  BY FS_Subset, FS_CardinalityType
<1>1. 0 \in A
  <2>1. \A s \in SUBSET S : Cardinality(s) = 0 => s = {}
    BY <1>0, FS_EmptySet
  <2>. QED
    BY <2>1
<1>2. ASSUME NEW n \in Nat, n \in A
      PROVE  n + 1 \in A
  <2>. SUFFICES ASSUME NEW s \in SUBSET S, Cardinality(s) = n + 1, NEW y \in s
                PROVE  iter[s] = fun[y] + iter[s \ {y}]
    OBVIOUS
  <2>. DEFINE x == Some(s)
              rest == (s \ {x}) \ {y}
  <2>1. x \in s /\ iter[s] = fun[x] + iter[s \ {x}]
    BY DEF Some, SumsUp
  <2>2. CASE x = y
    BY <2>1, <2>2
  <2>3. CASE x # y
    <3>. HIDE DEF x
    <3>1. ASSUME NEW z \in s
          PROVE  s \ {z} \in SUBSET S /\ Cardinality(s \ {z}) = n
      <4>1. IsFiniteSet(s)
        BY <1>0
      <4>2. Cardinality(s \ {z}) = Cardinality(s) - 1
        BY <4>1, FS_RemoveElement
      <4>. QED
        BY <4>2
    <3>2. iter[s \ {x}] = fun[y] + iter[rest]
      BY <1>2, <2>1, <2>3, <3>1
    <3>3. iter[s \ {y}] = fun[x] + iter[(s \ {y}) \ {x}]
      BY <1>2, <2>1, <2>3, <3>1
    <3>4. (s \ {y}) \ {x} = rest /\ rest \in SUBSET S
      OBVIOUS
    <3>5. fun[x] \in Int /\ fun[y] \in Int /\ iter[rest] \in Int
      BY <2>1, <3>4
    <3>. HIDE DEF rest
    <3>6. iter[s] = fun[x] + (fun[y] + iter[rest])
      BY <2>1, <3>2, Zenon
    <3>7. fun[y] + iter[s \ {y}] = fun[y] + (fun[x] + iter[rest])
      BY <3>3, <3>4, Zenon
    <3>8. fun[x] + (fun[y] + iter[rest]) = fun[y] + (fun[x] + iter[rest])
      BY <3>5
    <3>. QED
      BY <3>6, <3>7, <3>8, Zenon
  <2>. QED
    BY <2>2, <2>3
<1>. HIDE DEF A
<1>3. \A n \in Nat : n \in A
  BY <1>1, <1>2, EveryNumber
<1>. QED
  BY <1>0, <1>3 DEF A, Pulls

LEMMA SumEmpty ==
  \A fun : SumFunctionOnSet(fun, {}) = 0
<1>. SUFFICES ASSUME NEW fun PROVE SumFunctionOnSet(fun, {}) = 0
  OBVIOUS
<1>1. Addable(fun, {})
  BY FS_EmptySet DEF Addable
<1>2. PICK iter \in [SUBSET {} -> Int] : IsTheSum(iter, {}, fun)
  BY <1>1, SumIs, Zenon
<1>. QED
  BY <1>2 DEF IsTheSum, SumsUp

\* One element more.
LEMMA SumPull ==
  \A S, fun : Addable(fun, S) =>
    /\ \A s \in SUBSET S : SumFunctionOnSet(fun, s) \in Int
    /\ \A s \in SUBSET S : \A y \in s :
         SumFunctionOnSet(fun, s) = fun[y] + SumFunctionOnSet(fun, s \ {y})
<1>. SUFFICES ASSUME NEW S, NEW fun, Addable(fun, S)
              PROVE  /\ \A s \in SUBSET S : SumFunctionOnSet(fun, s) \in Int
                     /\ \A s \in SUBSET S : \A y \in s :
                          SumFunctionOnSet(fun, s) = fun[y] + SumFunctionOnSet(fun, s \ {y})
  OBVIOUS
<1>1. PICK iter \in [SUBSET S -> Int] : IsTheSum(iter, S, fun)
  BY SumIs, Zenon
<1>2. \A s \in SUBSET S : \A y \in s : iter[s] = fun[y] + iter[s \ {y}]
  <2>1. SumsUp(iter, S, fun)
    BY <1>1 DEF IsTheSum
  <2>2. Pulls(iter, S, fun)
    BY <1>1, <2>1, SumsPull, Zenon
  <2>. QED
    BY <2>2 DEF Pulls
<1>3. \A s \in SUBSET S : \A y \in s : s \ {y} \in SUBSET S
  OBVIOUS
<1>4. \A s \in SUBSET S : SumFunctionOnSet(fun, s) = iter[s]
  BY <1>1 DEF IsTheSum
<1>. QED
  BY <1>2, <1>3, <1>4

\* The sum over the part of T that names S, one for one, is the sum over S; the
\* rest of T adds what it holds, here nothing.
Names1to1(m, S, T) ==
  /\ \A x \in S : m[x] \in T
  /\ \A x, y \in S : m[x] = m[y] => x = y

Mirrors(g, T, f, S, m) ==
  /\ \A x \in S : g[m[x]] = f[x]
  /\ \A t \in T : (\A x \in S : m[x] # t) => g[t] = 0

LEMMA SumMirrored ==
  \A S, f, T, g, m :
    Addable(f, S) /\ Addable(g, T) /\ Names1to1(m, S, T) /\ Mirrors(g, T, f, S, m) =>
      SumFunctionOnSet(f, S) = SumFunctionOnSet(g, T)
<1>. SUFFICES ASSUME NEW S, NEW f, NEW T, NEW g, NEW m, Addable(f, S), Addable(g, T),
                     Names1to1(m, S, T), Mirrors(g, T, f, S, m)
              PROVE  SumFunctionOnSet(f, S) = SumFunctionOnSet(g, T)
  OBVIOUS
<1>. DEFINE image(s) == {m[x] : x \in s}
            A == {s \in SUBSET S : SumFunctionOnSet(f, s) = SumFunctionOnSet(g, image(s))}
            rest == T \ image(S)
            B == {u \in SUBSET rest :
                   SumFunctionOnSet(g, image(S) \cup u) = SumFunctionOnSet(g, image(S))}
<1>0. /\ IsFiniteSet(S) /\ IsFiniteSet(T)
      /\ \A s \in SUBSET S : image(s) \in SUBSET T
  BY DEF Addable, Names1to1
<1>2p. ASSUME NEW s \in SUBSET T, NEW y \in s
      PROVE  SumFunctionOnSet(g, s) = g[y] + SumFunctionOnSet(g, s \ {y})
  BY SumPull
<1>1. S \in A
  <2>1. {} \in A
    <3>1. image({}) = {}
      OBVIOUS
    <3>2. SumFunctionOnSet(f, {}) = 0 /\ SumFunctionOnSet(g, {}) = 0
      BY SumEmpty, Zenon
    <3>. QED
      BY <3>1, <3>2
  <2>2. ASSUME NEW s \in SUBSET S, NEW x \in S \ s, s \in A
        PROVE  s \cup {x} \in A
    <3>1. /\ s \cup {x} \in SUBSET S /\ (s \cup {x}) \ {x} = s
          /\ image(s \cup {x}) \ {m[x]} = image(s) /\ m[x] \in image(s \cup {x})
      BY DEF Names1to1
    <3>2. image(s \cup {x}) \in SUBSET T
      BY <1>0, <3>1
    <3>3. SumFunctionOnSet(f, s \cup {x}) = f[x] + SumFunctionOnSet(f, s)
      <4>1. SumFunctionOnSet(f, s \cup {x}) = f[x] + SumFunctionOnSet(f, (s \cup {x}) \ {x})
        BY <3>1, SumPull
      <4>. QED
        BY <3>1, <4>1
    <3>4. SumFunctionOnSet(g, image(s \cup {x})) = g[m[x]] + SumFunctionOnSet(g, image(s))
      <4>. HIDE DEF image
      <4>1. SumFunctionOnSet(g, image(s \cup {x}))
              = g[m[x]] + SumFunctionOnSet(g, image(s \cup {x}) \ {m[x]})
        BY <3>1, <3>2, <1>2p, Zenon
      <4>. QED
        BY <3>1, <4>1
    <3>5. g[m[x]] = f[x]
      BY DEF Mirrors
    <3>6. SumFunctionOnSet(f, s) = SumFunctionOnSet(g, image(s))
      BY <2>2
    <3>. HIDE DEF image
    <3>7. SumFunctionOnSet(f, s \cup {x}) = SumFunctionOnSet(g, image(s \cup {x}))
      BY <3>3, <3>4, <3>5, <3>6
    <3>. QED
      BY <3>1, <3>7
  <2>. HIDE DEF A
  <2>. QED
    BY <1>0, <2>1, <2>2, EverySubset
<1>2. rest \in B
  <2>0. IsFiniteSet(rest)
    BY <1>0, FS_Subset
  <2>1. {} \in B
    <3>. HIDE DEF image
    <3>1. image(S) \cup {} = image(S)
      OBVIOUS
    <3>. QED
      BY <3>1
  <2>2. ASSUME NEW u \in SUBSET rest, NEW t \in rest \ u, u \in B
        PROVE  u \cup {t} \in B
    <3>1. g[t] = 0
      BY DEF Mirrors
    <3>2. image(S) \in SUBSET T
      BY <1>0
    <3>. HIDE DEF image
    <3>3. /\ image(S) \cup (u \cup {t}) \in SUBSET T /\ t \in image(S) \cup (u \cup {t})
          /\ (image(S) \cup (u \cup {t})) \ {t} = image(S) \cup u
      BY <3>2
    <3>4. SumFunctionOnSet(g, image(S) \cup (u \cup {t})) = g[t] + SumFunctionOnSet(g, image(S) \cup u)
      <4>1. SumFunctionOnSet(g, image(S) \cup (u \cup {t}))
              = g[t] + SumFunctionOnSet(g, (image(S) \cup (u \cup {t})) \ {t})
        BY <3>3, SumPull
      <4>. QED
        BY <3>3, <4>1
    <3>5. SumFunctionOnSet(g, image(S) \cup u) \in Int
      BY <3>2, SumPull
    <3>6. SumFunctionOnSet(g, image(S) \cup u) = SumFunctionOnSet(g, image(S))
      BY <2>2
    <3>7. SumFunctionOnSet(g, image(S) \cup (u \cup {t})) = SumFunctionOnSet(g, image(S))
      BY <3>1, <3>4, <3>5, <3>6
    <3>. QED
      BY <3>7
  <2>. HIDE DEF B, rest
  <2>. QED
    BY <2>0, <2>1, <2>2, EverySubset
<1>3. image(S) \cup rest = T
  BY <1>0
<1>. QED
  BY <1>1, <1>2, <1>3

\* One more at x.
LEMMA SumBumped ==
  \A S, f, g, x :
    /\ Addable(f, S) /\ x \in S /\ g[x] = f[x] + 1
    /\ \A y \in S : y # x => g[y] = f[y]
    => SumFunctionOnSet(g, S) = SumFunctionOnSet(f, S) + 1
<1>. SUFFICES ASSUME NEW S, NEW f, NEW g, NEW x, Addable(f, S), x \in S, g[x] = f[x] + 1,
                     \A y \in S : y # x => g[y] = f[y]
              PROVE  SumFunctionOnSet(g, S) = SumFunctionOnSet(f, S) + 1
  BY Zenon
<1>. DEFINE rest == S \ {x}
            m == [y \in rest |-> y]
<1>1. Addable(g, S)
  BY DEF Addable
<1>2. Addable(f, rest) /\ Addable(g, rest)
  BY <1>1, FS_Subset DEF Addable
<1>3. Names1to1(m, rest, rest) /\ Mirrors(g, rest, f, rest, m)
  BY DEF Names1to1, Mirrors
<1>4. SumFunctionOnSet(f, rest) = SumFunctionOnSet(g, rest)
  <2>. HIDE DEF rest, m
  <2>. QED
    BY <1>2, <1>3, SumMirrored
<1>5. /\ SumFunctionOnSet(f, S) = f[x] + SumFunctionOnSet(f, rest)
      /\ SumFunctionOnSet(g, S) = g[x] + SumFunctionOnSet(g, rest)
      /\ SumFunctionOnSet(f, rest) \in Int
  <2>1. S \in SUBSET S /\ rest \in SUBSET S
    OBVIOUS
  <2>. QED
    BY <1>1, <2>1, SumPull
<1>6. f[x] \in Int
  BY DEF Addable
<1>. HIDE DEF rest
<1>. QED
  BY <1>4, <1>5, <1>6

-----------------------------------------------------------------------------
(***************************************************************************)
(* The ring.                                                               *)
(***************************************************************************)
LEMMA Divides ==
  ASSUME NEW B \in Nat \ {0}, NEW a \in Int
  PROVE  a % B \in 0..B - 1 /\ a = B * (a \div B) + (a % B) /\ a \div B \in Int
  OBVIOUS

\* A multiple of B nearer to 0 than B is 0.
LEMMA SmallMultiple ==
  ASSUME NEW B \in Nat \ {0}, NEW q \in Int, B * q < B, -B < B * q
  PROVE  q = 0
<1>1. CASE q >= 1
  <2>1. B * q >= B
    <3>1. q - 1 \in Nat
      BY <1>1
    <3>2. B * (q - 1) >= 0
      BY <3>1
    <3>. QED
      BY <3>2
  <2>. QED
    BY <2>1
<1>2. CASE q <= -1
  <2>1. B * (-1 - q) >= 0
    BY <1>2
  <2>. QED
    BY <2>1
<1>. QED
  BY <1>1, <1>2

\* Slots less than a round of the ring apart have places of their own.
LEMMA OwnPlace ==
  ASSUME NEW B \in Nat \ {0}, NEW a \in Int, NEW b \in Int,
         a % B = b % B, a - b < B, b - a < B
  PROVE  a = b
<1>. DEFINE qa == a \div B
            qb == b \div B
<1>1. a = B * qa + (a % B) /\ b = B * qb + (b % B) /\ qa \in Int /\ qb \in Int
  BY Divides
<1>2. a % B \in Int /\ b % B \in Int
  BY Divides
<1>. HIDE DEF qa, qb
<1>3. a - b = B * (qa - qb)
  BY <1>1, <1>2
<1>4. qa - qb = 0
  BY <1>1, <1>3, SmallMultiple
<1>. QED
  BY <1>3, <1>4

\* Every place of the ring is that of a slot of the last round.
LEMMA EveryPlace ==
  ASSUME NEW B \in Nat \ {0}, NEW n \in Int, NEW i \in 0..B - 1
  PROVE  (n - ((n - i) % B)) % B = i
<1>. DEFINE q == (n - i) \div B
            r == (n - i) % B
<1>1. n - i = B * q + r /\ q \in Int /\ r \in 0..B - 1
  <2>1. n - i \in Int
    OBVIOUS
  <2>. QED
    BY <2>1, Divides
<1>. HIDE DEF q, r
<1>2. n - r = B * q + i
  BY <1>1
<1>3. n - r \in Int
  BY <1>1
<1>4. (n - r) % B = i
  <2>. DEFINE q2 == (n - r) \div B
              r2 == (n - r) % B
  <2>1. n - r = B * q2 + r2 /\ q2 \in Int /\ r2 \in 0..B - 1
    BY <1>3, Divides
  <2>. HIDE DEF q2, r2
  <2>2. r2 - i = B * (q - q2)
    BY <2>1, <1>2, <1>1
  <2>3. q - q2 = 0
    BY <2>1, <2>2, <1>1, SmallMultiple
  <2>4. r2 = i
    BY <2>1, <2>2, <2>3
  <2>. QED
    BY <2>4 DEF r2
<1>. QED
  BY <1>4 DEF r

\* A slot the clock moves into has the place of none that is kept.
LEMMA NoRoundTrip ==
  ASSUME NEW B \in Nat \ {0}, NEW l \in Int, NEW now \in Int, NEW slot \in Int,
         NEW i \in 1..now - l, slot <= l, now - slot < B
  PROVE  slot % B # (l + i) % B
<1>1. l + i \in Int /\ (l + i) - slot < B /\ slot - (l + i) < B /\ l + i # slot
  OBVIOUS
<1>. DEFINE there == l + i
<1>. HIDE DEF there
<1>2. there \in Int /\ there - slot < B /\ slot - there < B /\ there # slot
  BY <1>1 DEF there
<1>3. slot % B # there % B
  BY <1>2, OwnPlace
<1>. QED
  BY <1>3 DEF there

\* What was recorded for a slot, also for those before the run.
At(rec, slot) == IF slot \in 0..MaxTime THEN rec[slot] ELSE 0

\* A ring that holds the last round of what was recorded; nothing was recorded
\* for a later slot.
Holds(t, rec) ==
  /\ t \in [slots : [0..BucketCount - 1 -> Nat], lastSlot : Int, firstRecord : Int]
  /\ \A slot \in 0..MaxTime : slot > t.lastSlot => rec[slot] = 0
  /\ \A slot \in t.lastSlot - BucketCount + 1 .. t.lastSlot :
       t.slots[slot % BucketCount] = At(rec, slot)

\* However far the clock has moved, the ring holds the last round of then.
LEMMA AdvanceHolds ==
  ASSUME NEW t, NEW rec, Holds(t, rec), NEW now \in Int
  PROVE  /\ Holds(Advance(t, now), rec)
         /\ Advance(t, now).lastSlot = IF now > t.lastSlot THEN now ELSE t.lastSlot
         /\ Advance(t, now).firstRecord = t.firstRecord
<1>. DEFINE stale == {(t.lastSlot + i) % BucketCount : i \in 1..now - t.lastSlot}
            gap == now - t.lastSlot
            kept == [i \in 0..BucketCount - 1 |->
                      IF gap >= BucketCount \/ i \in stale THEN 0 ELSE t.slots[i]]
            a == Advance(t, now)
<1>0. /\ t \in [slots : [0..BucketCount - 1 -> Nat], lastSlot : Int, firstRecord : Int]
      /\ BucketCount \in Nat \ {0} /\ MaxTime \in Nat
  BY RingAssumption, ReportAssumption DEF Holds
<1>1. CASE gap <= 0
  <2>1. a = t
    BY <1>1 DEF Advance, AdvanceWith
  <2>. QED
    BY <1>0, <1>1, <2>1
<1>2. CASE gap > 0
  <2>1. a = [t EXCEPT !.slots = kept, !.lastSlot = now]
    BY <1>0, <1>2 DEF Advance, AdvanceWith
  <2>. HIDE DEF a, kept
  <2>2. kept \in [0..BucketCount - 1 -> Nat]
    BY <1>0 DEF kept
  <2>3. /\ a.slots = kept /\ a.lastSlot = now /\ a.firstRecord = t.firstRecord
        /\ a \in [slots : [0..BucketCount - 1 -> Nat], lastSlot : Int, firstRecord : Int]
    BY <1>0, <2>1, <2>2
  <2>4. ASSUME NEW slot \in 0..MaxTime, slot > a.lastSlot
        PROVE  rec[slot] = 0
    <3>1. slot > t.lastSlot
      BY <1>0, <1>2, <2>3, <2>4
    <3>. QED
      BY <3>1 DEF Holds
  <2>5. ASSUME NEW slot \in now - BucketCount + 1 .. now
        PROVE  kept[slot % BucketCount] = At(rec, slot)
    <3>0. slot \in Int /\ slot % BucketCount \in 0..BucketCount - 1
      BY <1>0, Divides
    <3>1. CASE slot > t.lastSlot
      <4>1. At(rec, slot) = 0
        BY <3>0, <3>1 DEF At, Holds
      <4>2. gap >= BucketCount \/ slot % BucketCount \in stale
        <5>1. slot - t.lastSlot \in 1..now - t.lastSlot
          BY <1>0, <3>1
        <5>2. t.lastSlot + (slot - t.lastSlot) = slot
          BY <1>0
        <5>. QED
          BY <5>1, <5>2
      <4>3. kept[slot % BucketCount] = 0
        <5>. HIDE DEF stale, gap
        <5>. QED
          BY <3>0, <4>2 DEF kept
      <4>. QED
        BY <4>1, <4>3
    <3>2. CASE slot <= t.lastSlot
      <4>1. ~(gap >= BucketCount)
        BY <1>0, <3>0, <3>2
      <4>2. slot % BucketCount \notin stale
        <5>. SUFFICES ASSUME NEW i \in 1..now - t.lastSlot,
                             slot % BucketCount = (t.lastSlot + i) % BucketCount
                      PROVE  FALSE
          OBVIOUS
        <5>1. t.lastSlot \in Int /\ BucketCount \in Nat \ {0} /\ slot \in Int
          BY <1>0, <3>0
        <5>2. slot <= t.lastSlot /\ now - slot < BucketCount
          BY <3>0, <3>2, <5>1
        <5>. QED
          BY <5>1, <5>2, NoRoundTrip
      <4>3. kept[slot % BucketCount] = t.slots[slot % BucketCount]
        <5>. HIDE DEF stale, gap
        <5>. QED
          BY <3>0, <4>1, <4>2 DEF kept
      <4>4. slot \in t.lastSlot - BucketCount + 1 .. t.lastSlot
        BY <1>0, <1>2, <3>0, <3>2
      <4>5. t.slots[slot % BucketCount] = At(rec, slot)
        BY <4>4 DEF Holds
      <4>. QED
        BY <4>3, <4>5
    <3>. QED
      BY <1>0, <3>0, <3>1, <3>2
  <2>6. Holds(a, rec)
    BY <2>3, <2>4, <2>5 DEF Holds
  <2>7. now > t.lastSlot
    BY <1>0, <1>2
  <2>. QED
    BY <2>3, <2>6, <2>7 DEF a
<1>. QED
  BY <1>0, <1>1, <1>2

\* A reading less than a round old is counted in its slot, and in no other.
LEMMA RecordHolds ==
  ASSUME NEW t, NEW rec \in [0..MaxTime -> Nat], Holds(t, rec),
         NEW now \in 0..MaxTime, t.lastSlot - now < BucketCount
  PROVE  /\ Holds(RecordEvent(t, now), [rec EXCEPT ![now] = @ + 1])
         /\ RecordEvent(t, now).lastSlot = IF now > t.lastSlot THEN now ELSE t.lastSlot
         /\ RecordEvent(t, now).firstRecord # Never
         /\ RecordEvent(t, now).firstRecord =
              IF t.firstRecord = Never THEN now ELSE t.firstRecord
<1>. DEFINE a == Advance(t, now)
            rec2 == [rec EXCEPT ![now] = @ + 1]
            r == RecordEvent(t, now)
            B == BucketCount
<1>0. BucketCount \in Nat \ {0} /\ MaxTime \in Nat /\ t.lastSlot \in Int /\ now \in Int
  BY RingAssumption, ReportAssumption DEF Holds
<1>1. /\ Holds(a, rec)
      /\ a.lastSlot = IF now > t.lastSlot THEN now ELSE t.lastSlot
      /\ a.firstRecord = t.firstRecord
  BY <1>0, AdvanceHolds
<1>2. r = [a EXCEPT !.slots[now % BucketCount] = @ + 1,
                    !.firstRecord = IF @ = Never THEN now ELSE @]
  BY DEF RecordEvent
<1>. HIDE DEF a, r
<1>3. /\ a \in [slots : [0..B - 1 -> Nat], lastSlot : Int, firstRecord : Int]
      /\ now % B \in 0..B - 1
  BY <1>0, <1>1, Divides DEF Holds
<1>4. /\ r \in [slots : [0..B - 1 -> Nat], lastSlot : Int, firstRecord : Int]
      /\ r.lastSlot = a.lastSlot
      /\ r.slots = [a.slots EXCEPT ![now % B] = @ + 1]
      /\ r.firstRecord = IF a.firstRecord = Never THEN now ELSE a.firstRecord
  <2>. DEFINE place == now % B
              slots == [a.slots EXCEPT ![place] = @ + 1]
              first == IF a.firstRecord = Never THEN now ELSE a.firstRecord
  <2>1. slots \in [0..B - 1 -> Nat] /\ first \in Int
    <3>1. a.slots \in [0..B - 1 -> Nat] /\ a.firstRecord \in Int
      BY <1>3
    <3>. HIDE DEF place
    <3>2. \A n \in Nat : n + 1 \in Nat
      OBVIOUS
    <3>3. slots \in [0..B - 1 -> Nat]
      BY <3>1, <3>2
    <3>4. first \in Int
      BY <1>0, <3>1
    <3>. QED
      BY <3>3, <3>4
  <2>2. r = [a EXCEPT !.slots = slots, !.firstRecord = first]
    BY <1>2, <1>3
  <2>. HIDE DEF slots, first
  <2>3. /\ r \in [slots : [0..B - 1 -> Nat], lastSlot : Int, firstRecord : Int]
        /\ r.lastSlot = a.lastSlot /\ r.slots = slots /\ r.firstRecord = first
    BY <1>3, <2>1, <2>2
  <2>. QED
    BY <2>3 DEF slots, first
<1>5. r.firstRecord # Never
  BY <1>4 DEF Never
<1>6. ASSUME NEW slot \in 0..MaxTime, slot > r.lastSlot
      PROVE  rec2[slot] = 0
  <2>1. slot # now /\ slot > a.lastSlot
    BY <1>0, <1>1, <1>4, <1>6
  <2>2. rec[slot] = 0
    BY <1>1, <2>1 DEF Holds
  <2>. QED
    BY <2>1, <2>2
<1>7. ASSUME NEW slot \in r.lastSlot - B + 1 .. r.lastSlot
      PROVE  r.slots[slot % B] = At(rec2, slot)
  <2>1. slot \in Int /\ slot % B \in 0..B - 1 /\ slot \in a.lastSlot - B + 1 .. a.lastSlot
    BY <1>0, <1>4, Divides
  <2>2. a.slots[slot % B] = At(rec, slot)
    BY <1>1, <2>1 DEF Holds
  <2>3. CASE slot = now
    <3>1. At(rec2, slot) = rec[now] + 1 /\ At(rec, slot) = rec[now]
      BY <2>3 DEF At
    <3>. QED
      BY <1>3, <1>4, <2>2, <2>3, <3>1
  <2>4. CASE slot # now
    <3>1. slot - now < B /\ now - slot < B
      <4>. DEFINE l == a.lastSlot
      <4>1. /\ l = IF now > t.lastSlot THEN now ELSE t.lastSlot
            /\ slot \in Int /\ l - B + 1 <= slot /\ slot <= l
        BY <1>0, <1>1, <2>1
      <4>. HIDE DEF l
      <4>. QED
        BY <1>0, <4>1
    <3>2. slot % B # now % B
      BY <1>0, <2>1, <2>4, <3>1, OwnPlace
    <3>3. At(rec2, slot) = At(rec, slot)
      BY <2>4 DEF At
    <3>. QED
      BY <1>3, <1>4, <2>1, <2>2, <3>2, <3>3
  <2>. QED
    BY <2>3, <2>4
<1>8. Holds(r, rec2)
  BY <1>4, <1>6, <1>7 DEF Holds
<1>. QED
  BY <1>1, <1>4, <1>5, <1>8 DEF r

\* Noughts add up to nothing.
LEMMA SumOfNothing ==
  \A S, f : Addable(f, S) /\ (\A x \in S : f[x] = 0) => SumFunctionOnSet(f, S) = 0
<1>. SUFFICES ASSUME NEW S, NEW f, Addable(f, S), \A x \in S : f[x] = 0
              PROVE  SumFunctionOnSet(f, S) = 0
  OBVIOUS
<1>. DEFINE m == [x \in {} |-> x]
<1>1. Addable(f, {}) /\ Names1to1(m, {}, S) /\ Mirrors(f, S, f, {}, m)
  BY FS_EmptySet DEF Addable, Names1to1, Mirrors
<1>. HIDE DEF m
<1>2. SumFunctionOnSet(f, {}) = SumFunctionOnSet(f, S)
  BY <1>1, SumMirrored
<1>. QED
  BY <1>2, SumEmpty

\* Restart and the start of the run leave an empty ring.
LEMMA FreshHolds ==
  ASSUME NEW now \in Int
  PROVE  /\ Holds(FreshRing(now), [slot \in 0..MaxTime |-> 0])
         /\ FreshRing(now).lastSlot = now
<1>. DEFINE none == [i \in 0..BucketCount - 1 |-> 0]
            rec == [slot \in 0..MaxTime |-> 0]
            t == FreshRing(now)
<1>0. BucketCount \in Nat \ {0} /\ MaxTime \in Nat
  BY RingAssumption, ReportAssumption
<1>1. t = [slots |-> none, lastSlot |-> now, firstRecord |-> -1]
  BY DEF FreshRing, Never
<1>2. /\ t \in [slots : [0..BucketCount - 1 -> Nat], lastSlot : Int, firstRecord : Int]
      /\ t.slots = none /\ t.lastSlot = now
  BY <1>0, <1>1
<1>3. ASSUME NEW slot \in now - BucketCount + 1 .. now
      PROVE  none[slot % BucketCount] = At(rec, slot)
  <2>1. slot % BucketCount \in 0..BucketCount - 1
    BY <1>0, Divides
  <2>. QED
    BY <2>1 DEF At
<1>. QED
  BY <1>2, <1>3 DEF Holds

\* What the CSV writer does is its own.
LEMMA OnlyTheWriter ==
  ASSUME FirstRow \/ TickRow \/ CloseDone \/ FirstRowStopped \/ FinalRow
  PROVE  WriterOnly
BY DEF FirstRow, TickRow, CloseDone, FirstRowStopped, FinalRow

\* Readings are not older than MaxLag, and there are none once the run has
\* ended, so that none outlives a Reset.
Recent ==
  /\ clock \in 0..MaxTime /\ running \in BOOLEAN
  /\ reading \in [Senders -> (0..MaxTime) \cup {Never}]
  /\ \A s \in Senders : reading[s] # Never => reading[s] <= clock /\ clock - reading[s] <= MaxLag
  /\ ~running => \A s \in Senders : reading[s] = Never

\* Nobody asks for a rate of the future.
Asked ==
  /\ asked \in [Readers -> (0..MaxTime) \cup {Never}]
  /\ \A r \in Readers : asked[r] # Never => asked[r] <= clock

\* The first to take the lock need not have the oldest reading, but it comes
\* before no reading by more than the lag.
FirstLags ==
  /\ ring.firstRecord <= clock
  /\ \A slot \in 0..MaxTime : recorded[slot] > 0 =>
       ring.firstRecord # Never /\ ring.firstRecord - slot <= MaxLag

RingInv ==
  /\ Recent
  /\ Asked
  /\ FirstLags
  /\ recorded \in [0..MaxTime -> Nat]
  /\ Holds(ring, recorded)
  /\ ring.lastSlot <= clock
  /\ ring.firstRecord = Never => \A slot \in 0..MaxTime : recorded[slot] = 0

LEMMA RingInvInit == Init => RingInv
<1>. SUFFICES ASSUME Init PROVE RingInv
  OBVIOUS
<1>. BucketCount \in Nat \ {0} /\ MaxTime \in Nat /\ Never = -1
  BY RingAssumption, ReportAssumption DEF Never
<1>1. /\ clock = 0 /\ reading = [s \in Senders |-> Never] /\ running = TRUE
      /\ asked = [r \in Readers |-> Never]
      /\ recorded = [slot \in 0..MaxTime |-> 0] /\ ring = FreshRing(0)
  BY DEF Init
<1>2. Recent
  BY <1>1 DEF Recent
<1>3. /\ Holds(ring, recorded) /\ ring.lastSlot <= clock
      /\ recorded \in [0..MaxTime -> Nat] /\ \A slot \in 0..MaxTime : recorded[slot] = 0
  BY <1>1, FreshHolds
<1>4. Asked
  BY <1>1 DEF Asked
<1>5. FirstLags
  BY <1>1, <1>3 DEF FirstLags, FreshRing
<1>. QED
  BY <1>2, <1>3, <1>4, <1>5 DEF RingInv

\* Where neither the ring nor the readings change.
LEMMA RingRests ==
  ASSUME RingInv, UNCHANGED <<clock, ring, asked, recorded>>
  PROVE  Asked' /\ FirstLags'
BY DEF RingInv, Asked, FirstLags

LEMMA RingInvNext == RingInv /\ [Next]_vars => RingInv'
<1>. SUFFICES ASSUME RingInv, [Next]_vars PROVE RingInv'
  OBVIOUS
<1>0. /\ BucketCount \in Nat \ {0} /\ MaxTime \in Nat /\ Never = -1
      /\ MaxLag \in Nat /\ MaxLag < BucketCount
  BY RingAssumption, ReportAssumption DEF Never
<1>1. CASE Pass
  <2>1. /\ clock' = clock + 1 /\ clock < MaxTime
        /\ \A s \in Senders : reading[s] # Never => clock - reading[s] < MaxLag
        /\ UNCHANGED <<ring, reading, asked, recorded, running>>
    BY <1>1 DEF Pass, ringVars, runVars
  <2>2. Recent'
    BY <1>0, <2>1 DEF Recent, RingInv
  <2>3. Holds(ring, recorded)'
    BY <2>1 DEF RingInv, Holds, At
  <2>4. (ring.lastSlot <= clock)'
    BY <1>0, <2>1 DEF RingInv, Recent, Holds
  <2>5. Asked'
    BY <1>0, <2>1 DEF RingInv, Recent, Asked
  <2>6. FirstLags'
    BY <1>0, <2>1 DEF RingInv, Recent, Holds, FirstLags
  <2>. QED
    BY <2>1, <2>2, <2>3, <2>4, <2>5, <2>6 DEF RingInv
<1>2. ASSUME NEW s \in Senders, SubmitSent(s)
      PROVE  RingInv'
  <2>1. /\ running /\ reading' = [reading EXCEPT ![s] = clock]
        /\ UNCHANGED <<clock, ring, asked, recorded, running>>
    BY <1>2 DEF SubmitSent, ringVars, runVars
  <2>2. Recent'
    BY <1>0, <2>1 DEF Recent, RingInv
  <2>3. Holds(ring, recorded)'
    BY <2>1 DEF RingInv, Holds, At
  <2>. QED
    BY <2>1, <2>2, <2>3, RingRests DEF RingInv
<1>3. ASSUME NEW s \in Senders, Record(s)
      PROVE  RingInv'
  <2>. DEFINE now == reading[s]
  <2>1. /\ now # Never
        /\ ring' = RecordEvent(ring, now)
        /\ recorded' = [recorded EXCEPT ![now] = @ + 1]
        /\ reading' = [reading EXCEPT ![s] = Never]
        /\ UNCHANGED <<clock, asked, running>>
    BY <1>3 DEF Record, runVars
  <2>2. Recent'
    BY <1>0, <2>1 DEF Recent, RingInv
  <2>3. now \in 0..MaxTime /\ now <= clock /\ clock - now <= MaxLag
    BY <2>1 DEF Recent, RingInv
  <2>4. ring.lastSlot \in Int /\ ring.lastSlot <= clock /\ clock \in Int
    BY DEF RingInv, Holds, Recent
  <2>. HIDE DEF now
  <2>5. ring.lastSlot - now < BucketCount
    BY <1>0, <2>3, <2>4
  <2>6. recorded \in [0..MaxTime -> Nat] /\ Holds(ring, recorded)
    BY DEF RingInv
  <2>7. /\ Holds(RecordEvent(ring, now), [recorded EXCEPT ![now] = @ + 1])
        /\ RecordEvent(ring, now).lastSlot = IF now > ring.lastSlot THEN now ELSE ring.lastSlot
        /\ RecordEvent(ring, now).firstRecord # Never
        /\ RecordEvent(ring, now).firstRecord =
             IF ring.firstRecord = Never THEN now ELSE ring.firstRecord
    BY <2>3, <2>5, <2>6, RecordHolds
  <2>8. Holds(ring, recorded)' /\ (ring.firstRecord # Never)'
    <3>1. Holds(ring', recorded')
      BY <2>1, <2>7
    <3>2. ring'.firstRecord # Never
      BY <2>1, <2>7
    <3>. QED
      BY <3>1, <3>2 DEF Holds, At
  <2>9. (ring.lastSlot <= clock)'
    BY <2>1, <2>3, <2>4, <2>7
  <2>10. recorded' \in [0..MaxTime -> Nat]
    BY <2>1, <2>3, <2>6
  <2>11. Asked'
    BY <2>1 DEF RingInv, Asked
  <2>12. FirstLags'
    <3>1. ring'.firstRecord = IF ring.firstRecord = Never THEN now ELSE ring.firstRecord
      BY <2>1, <2>7
    <3>2. ring.firstRecord \in Int /\ ring.firstRecord <= clock
      BY DEF RingInv, FirstLags, Holds
    <3>3. ring'.firstRecord <= clock' /\ ring'.firstRecord - now <= MaxLag
      BY <1>0, <2>1, <2>3, <2>4, <3>1, <3>2
    <3>4. ASSUME NEW slot \in 0..MaxTime, slot # now, recorded'[slot] > 0
          PROVE  ring'.firstRecord - slot <= MaxLag
      <4>1. recorded[slot] > 0
        BY <2>1, <2>6, <3>4
      <4>2. ring.firstRecord # Never /\ ring.firstRecord - slot <= MaxLag
        BY <4>1 DEF RingInv, FirstLags
      <4>. QED
        BY <3>1, <4>2
    <3>. QED
      BY <2>8, <3>3, <3>4 DEF FirstLags
  <2>. QED
    BY <2>2, <2>8, <2>9, <2>10, <2>11, <2>12 DEF RingInv
<1>4. ASSUME NEW name \in Names, NEW us \in Latencies, Apply(name, us)
      PROVE  RingInv'
  <2>1. UNCHANGED <<clock, ring, reading, asked, recorded, running>>
    BY <1>4 DEF Apply, ringVars, runVars
  <2>. QED
    BY <2>1, RingRests DEF RingInv, Recent, Holds, At
<1>5. CASE Finish
  <2>1. /\ \A s \in Senders : reading[s] = Never
        /\ running' = FALSE /\ UNCHANGED <<clock, ring, reading, asked, recorded>>
    BY <1>5 DEF Finish, ringVars
  <2>. QED
    BY <2>1, RingRests DEF RingInv, Recent, Holds, At
<1>6. CASE Restart
  <2>1. /\ ~running /\ running' = TRUE
        /\ ring' = FreshRing(clock) /\ recorded' = [slot \in 0..MaxTime |-> 0]
        /\ UNCHANGED <<clock, reading, asked>>
    BY <1>6 DEF Restart
  <2>2. Recent'
    BY <2>1 DEF RingInv, Recent
  <2>3. clock \in Int
    BY DEF RingInv, Recent
  <2>4. /\ Holds(FreshRing(clock), [slot \in 0..MaxTime |-> 0])
        /\ FreshRing(clock).lastSlot = clock
    BY <2>3, FreshHolds
  <2>5. Holds(ring, recorded)' /\ (ring.lastSlot <= clock)'
    <3>1. Holds(ring', recorded') /\ ring'.lastSlot = clock
      BY <2>1, <2>4
    <3>. QED
      BY <2>1, <2>3, <3>1 DEF Holds, At
  <2>6. recorded' \in [0..MaxTime -> Nat] /\ \A slot \in 0..MaxTime : recorded'[slot] = 0
    BY <2>1
  <2>7. Asked'
    BY <2>1 DEF RingInv, Asked
  <2>8. FirstLags'
    <3>1. ring'.firstRecord = -1
      BY <2>1 DEF FreshRing, Never
    <3>2. ring'.firstRecord <= clock'
      BY <1>0, <2>1, <3>1 DEF RingInv, Recent
    <3>3. \A slot \in 0..MaxTime : ~(recorded'[slot] > 0)
      BY <2>6
    <3>. QED
      BY <3>2, <3>3 DEF FirstLags
  <2>. QED
    BY <2>2, <2>5, <2>6, <2>7, <2>8 DEF RingInv
<1>7. CASE WriterOnly \/ UNCHANGED vars
  <2>1. UNCHANGED <<clock, ring, reading, asked, recorded, running>>
    BY <1>7 DEF WriterOnly, vars, ringVars, runVars
  <2>. QED
    BY <2>1, RingRests DEF RingInv, Recent, Holds, At
<1>8. ASSUME NEW r \in Readers, AskRate(r)
      PROVE  RingInv'
  <2>1. /\ asked' = [asked EXCEPT ![r] = clock]
        /\ UNCHANGED <<clock, ring, reading, recorded, running>>
    BY <1>8 DEF AskRate, runVars
  <2>2. Asked'
    BY <1>0, <2>1 DEF RingInv, Recent, Asked
  <2>. QED
    BY <2>1, <2>2 DEF RingInv, Recent, Holds, At, FirstLags
<1>9. ASSUME NEW r \in Readers, TakeRate(r)
      PROVE  RingInv'
  <2>. DEFINE now == asked[r]
  <2>1. /\ now # Never
        /\ ring' = Advance(ring, now)
        /\ asked' = [asked EXCEPT ![r] = Never]
        /\ UNCHANGED <<clock, reading, recorded, running>>
    BY <1>9 DEF TakeRate, runVars
  <2>2. now \in 0..MaxTime /\ now <= clock
    BY <2>1 DEF RingInv, Asked
  <2>3. Asked'
    BY <1>0, <2>1 DEF RingInv, Asked
  <2>. HIDE DEF now
  <2>4. Holds(ring, recorded) /\ ring.lastSlot <= clock
    BY DEF RingInv
  <2>5. /\ Holds(Advance(ring, now), recorded)
        /\ Advance(ring, now).lastSlot = IF now > ring.lastSlot THEN now ELSE ring.lastSlot
        /\ Advance(ring, now).firstRecord = ring.firstRecord
    <3>1. now \in Int
      BY <2>2
    <3>. QED
      BY <2>4, <3>1, AdvanceHolds
  <2>6. Holds(ring', recorded) /\ ring'.lastSlot <= clock /\ ring'.firstRecord = ring.firstRecord
    BY <2>1, <2>2, <2>4, <2>5
  <2>7. FirstLags'
    BY <2>1, <2>6 DEF RingInv, FirstLags
  <2>. QED
    BY <2>1, <2>3, <2>6, <2>7 DEF RingInv, Recent, Holds, At
<1>. QED
  BY <1>1, <1>2, <1>3, <1>4, <1>5, <1>6, <1>7, <1>8, <1>9, OnlyTheWriter DEF Next

\* throughput.go:34-105: the ring counts exactly the events of the last second,
\* slot for slot, however late the clock readings of other sessions and readers
\* arrive, and no event counted is older than the time it is divided by, plus
\* the lag of one reading.
THEOREM RateIsOfTheWindow == Spec => []RateCountsTheWindow
<1>1. RingInv => RateCountsTheWindow
  <2>. SUFFICES ASSUME RingInv PROVE RateCountsTheWindow
    OBVIOUS
  <2>. DEFINE a == Advance(ring, clock)
              r == Rate(ring, clock)
              since == clock - a.firstRecord
              Places == 0..BucketCount - 1
              place == [slot \in Window |-> slot % BucketCount]
  <2>0. /\ BucketCount \in Nat \ {0} /\ MaxTime \in Nat /\ clock \in 0..MaxTime /\ clock \in Nat
        /\ recorded \in [0..MaxTime -> Nat] /\ Holds(ring, recorded)
        /\ ring.lastSlot \in Int /\ ring.lastSlot <= clock
    BY RingAssumption, ReportAssumption DEF RingInv, Recent, Holds
  <2>1. /\ Holds(a, recorded) /\ a.lastSlot = clock /\ a.firstRecord = ring.firstRecord
    <3>1. /\ Holds(a, recorded) /\ a.firstRecord = ring.firstRecord
          /\ a.lastSlot = IF clock > ring.lastSlot THEN clock ELSE ring.lastSlot
      BY <2>0, AdvanceHolds
    <3>. QED
      BY <2>0, <3>1
  <2>2. /\ r.events = IF a.firstRecord = Never THEN 0 ELSE SumFunction(a.slots)
        /\ r.over = IF since > BucketCount THEN BucketCount
                    ELSE IF since < 0 THEN 0 ELSE since
    BY DEF Rate
  <2>. HIDE DEF a, r
  <2>3. a.slots \in [Places -> Nat] /\ a.firstRecord \in Int
    BY <2>1 DEF Holds
  <2>4. Addable(recorded, Window) /\ Addable(a.slots, Places)
    <3>1. Window \subseteq 0..clock /\ Window \subseteq 0..MaxTime
      BY <2>0 DEF Window
    <3>2. IsFiniteSet(0..clock) /\ IsFiniteSet(Places)
      <4>1. 0 \in Int /\ clock \in Int /\ BucketCount - 1 \in Int
        BY <2>0
      <4>. QED
        BY <4>1, FS_Interval
    <3>3. IsFiniteSet(Window)
      BY <3>1, <3>2, FS_Subset
    <3>4. \A slot \in Window : recorded[slot] \in Int
      BY <2>0, <3>1
    <3>5. \A i \in Places : a.slots[i] \in Int
      <4>1. a.slots \in [Places -> Nat]
        BY <2>3
      <4>. HIDE DEF Places
      <4>. QED
        BY <4>1
    <3>. QED
      BY <3>2, <3>3, <3>4, <3>5, Zenon DEF Addable
  <2>5. Names1to1(place, Window, Places)
    <3>1. \A slot \in Window : slot \in Int /\ slot <= clock /\ slot > clock - BucketCount
      BY <2>0 DEF Window
    <3>2. \A slot \in Window : slot % BucketCount \in Places
      BY <2>0, <3>1, Divides
    <3>3. ASSUME NEW x \in Window, NEW y \in Window, x % BucketCount = y % BucketCount
          PROVE  x = y
      <4>1. x \in Int /\ y \in Int /\ x - y < BucketCount /\ y - x < BucketCount
        BY <2>0, <3>1
      <4>. QED
        BY <2>0, <3>3, <4>1, OwnPlace
    <3>. QED
      BY <3>2, <3>3 DEF Names1to1
  <2>6. Mirrors(a.slots, Places, recorded, Window, place)
    <3>1. ASSUME NEW slot \in Window
          PROVE  a.slots[place[slot]] = recorded[slot]
      <4>1. /\ slot \in clock - BucketCount + 1 .. clock /\ slot \in 0..MaxTime
            /\ place[slot] = slot % BucketCount
        BY <2>0 DEF Window
      <4>2. a.slots[slot % BucketCount] = At(recorded, slot)
        BY <2>1, <4>1 DEF Holds
      <4>. QED
        BY <4>1, <4>2 DEF At
    <3>2. ASSUME NEW i \in Places, \A slot \in Window : place[slot] # i
          PROVE  a.slots[i] = 0
      <4>. DEFINE back == (clock - i) % BucketCount
                  slot == clock - back
      <4>1. slot % BucketCount = i
        <5>1. clock \in Int /\ BucketCount \in Nat \ {0}
          BY <2>0
        <5>. QED
          BY <5>1, EveryPlace, Zenon
      <4>2. back \in Places
        <5>1. clock - i \in Int
          BY <2>0
        <5>. QED
          BY <2>0, <5>1, Divides
      <4>. HIDE DEF back
      <4>3. slot \in clock - BucketCount + 1 .. clock
        BY <2>0, <4>2
      <4>. HIDE DEF slot
      <4>4. slot \notin Window
        BY <3>2, <4>1
      <4>5. slot \notin 0..MaxTime
        BY <2>0, <4>3, <4>4 DEF Window
      <4>6. a.slots[slot % BucketCount] = At(recorded, slot)
        BY <2>1, <4>3 DEF Holds
      <4>. QED
        BY <4>1, <4>5, <4>6 DEF At
    <3>. QED
      BY <3>1, <3>2 DEF Mirrors
  <2>7. SumFunctionOnSet(recorded, Window) = SumFunctionOnSet(a.slots, Places)
    <3>. HIDE DEF place, Places
    <3>. QED
      BY <2>4, <2>5, <2>6, SumMirrored
  <2>8. SumFunction(a.slots) = SumFunctionOnSet(a.slots, Places)
    <3>1. DOMAIN a.slots = Places
      BY <2>3
    <3>. QED
      BY <3>1 DEF SumFunction, SumFunctionOnSet
  <2>9. CASE a.firstRecord = Never
    <3>1. \A slot \in Window : recorded[slot] = 0
      BY <2>0, <2>1, <2>9 DEF RingInv, Window
    <3>2. SumFunctionOnSet(recorded, Window) = 0
      BY <2>4, <3>1, SumOfNothing
    <3>3. \A slot \in Window : ~(recorded[slot] > 0)
      BY <3>1
    <3>. QED
      BY <2>2, <2>9, <3>2, <3>3 DEF RateCountsTheWindow, r
  <2>10. CASE a.firstRecord # Never
    <3>1. r.events = SumFunctionOnSet(recorded, Window)
      BY <2>2, <2>7, <2>8, <2>10
    <3>2. ASSUME NEW slot \in Window, recorded[slot] > 0
          PROVE  clock - slot <= r.over + MaxLag
      <4>1. slot \in 0..MaxTime /\ slot > clock - BucketCount /\ MaxLag \in Nat
        BY <2>0, ReportAssumption DEF Window
      <4>2. a.firstRecord - slot <= MaxLag
        BY <2>1, <3>2, <4>1 DEF RingInv, FirstLags
      <4>3. since \in Int /\ clock - slot <= since + MaxLag /\ clock - slot <= BucketCount
        BY <2>0, <2>3, <4>1, <4>2
      <4>. HIDE DEF since
      <4>. QED
        BY <2>0, <2>2, <4>1, <4>3
    <3>. QED
      BY <3>1, <3>2 DEF RateCountsTheWindow, r
  <2>. QED
    BY <2>9, <2>10
<1>. QED
  BY <1>1, RingInvInit, RingInvNext, PTL DEF Spec

-----------------------------------------------------------------------------
(***************************************************************************)
(* The bars.                                                               *)
(***************************************************************************)
\* buckets.go:110-111, "keeping the slice strictly increasing so the bucket
\* walker stays correct": an edge that is appended, wherever rounding has put
\* it, leaves the edges strictly increasing.
THEOREM EdgesStayIncreasing ==
  ASSUME NEW edges \in Seq(Int), NEW e \in Int, StrictlyIncreasing(edges)
  PROVE  /\ AppendStrictlyIncreasing(edges, e) \in Seq(Int)
         /\ StrictlyIncreasing(AppendStrictlyIncreasing(edges, e))
<1>. DEFINE end == IF Len(edges) > 0 /\ e <= edges[Len(edges)]
                   THEN edges[Len(edges)] + 1 ELSE e
            longer == Append(edges, end)
<1>1. end \in Int
  OBVIOUS
<1>2. /\ longer \in Seq(Int)
      /\ Len(longer) = Len(edges) + 1
      /\ \A i \in 1..Len(edges) : longer[i] = edges[i]
      /\ longer[Len(edges) + 1] = end
  BY <1>1
<1>3. \A i \in 1..Len(edges) : edges[i] < end
  <2>. SUFFICES ASSUME NEW i \in 1..Len(edges) PROVE edges[i] < end
    OBVIOUS
  <2>1. edges[i] <= edges[Len(edges)] /\ edges[i] \in Int /\ edges[Len(edges)] \in Int
    BY DEF StrictlyIncreasing
  <2>. QED
    BY <2>1
<1>4. StrictlyIncreasing(longer)
  <2>. SUFFICES ASSUME NEW i \in 1..Len(longer), NEW j \in 1..Len(longer), i < j
                PROVE  longer[i] < longer[j]
    BY DEF StrictlyIncreasing
  <2>. HIDE DEF end, longer
  <2>1. i \in 1..Len(edges) /\ j \in 1..Len(edges) + 1 /\ Len(edges) \in Nat
    BY <1>2
  <2>2. CASE j = Len(edges) + 1
    <3>1. longer[i] = edges[i] /\ longer[j] = end
      BY <1>2, <2>1, <2>2
    <3>. QED
      BY <1>3, <2>1, <3>1
  <2>3. CASE j # Len(edges) + 1
    <3>1. j \in 1..Len(edges)
      BY <2>1, <2>3
    <3>2. longer[i] = edges[i] /\ longer[j] = edges[j]
      BY <1>2, <2>1, <3>1
    <3>. QED
      BY <2>1, <3>1, <3>2 DEF StrictlyIncreasing
  <2>. QED
    BY <2>2, <2>3
<1>. QED
  BY <1>2, <1>4 DEF AppendStrictlyIncreasing

\* The largest of some numbers up to n.
LEMMA MaxIsIn ==
  ASSUME NEW n \in Nat, NEW s \in SUBSET (1..n), s # {}
  PROVE  Max(s) \in s /\ \A y \in s : Max(s) >= y
<1>. DEFINE below == {n - x : x \in s}
<1>0. \A x \in s : x \in Int /\ x <= n /\ n - x \in Nat
  OBVIOUS
<1>1. below \in SUBSET Nat /\ below # {}
  BY <1>0
<1>2. PICK m \in below : \A k \in below : m <= k
  <2>. HIDE DEF below
  <2>. QED
    BY <1>1, LeastExists
<1>3. PICK x \in s : m = n - x
  BY <1>2
<1>4. \A y \in s : x >= y
  <2>. SUFFICES ASSUME NEW y \in s PROVE x >= y
    OBVIOUS
  <2>1. n - x <= n - y
    BY <1>2, <1>3
  <2>2. x \in Int /\ y \in Int
    BY <1>0
  <2>. QED
    BY <2>1, <2>2
<1>. QED
  BY <1>4 DEF Max

\* AppendAll takes the new edges in order.
LEMMA AppendAllStep ==
  ASSUME NEW new \in Seq(Int)
  PROVE  \E g : /\ AppendAll(<<>>, new) = g[1..Len(new)]
                /\ g[{}] = <<>>
                /\ \A k \in 1..Len(new) :
                     g[1..k] = AppendStrictlyIncreasing(g[1..k - 1], new[k])
<1>. DEFINE D == 1..Len(new)
            g == CHOOSE g : g = [s \in SUBSET D |->
                   IF s = {} THEN <<>>
                   ELSE AppendStrictlyIncreasing(g[s \ {Max(s)}], new[Max(s)])]
            c == [s \in SUBSET D |-> Max(s)]
            h == [p \in D \X Seq(Int) |-> AppendStrictlyIncreasing(p[2], new[p[1]])]
<1>0. Len(new) \in Nat /\ DOMAIN new = D /\ \A k \in D : new[k] \in Int
  OBVIOUS
<1>1. AppendAll(<<>>, new) = g[D]
  BY <1>0 DEF AppendAll, FoldLeft, MapThenFoldSet
<1>2. \A s \in SUBSET D : s # {} => Max(s) \in s
  BY <1>0, MaxIsIn
<1>3. \A x \in D : \A v \in Seq(Int) : h[<<x, v>>] = AppendStrictlyIncreasing(v, new[x])
  OBVIOUS
<1>4. \A x \in D : \A v \in Seq(Int) : AppendStrictlyIncreasing(v, new[x]) \in Seq(Int)
  BY <1>0 DEF AppendStrictlyIncreasing
<1>5. PICK f \in [SUBSET D -> Seq(Int)] : Folds(f, D, <<>>, c, h)
  <2>1. IsFiniteSet(D)
    <3>1. 1 \in Int /\ Len(new) \in Int
      BY <1>0
    <3>. QED
      BY <3>1, FS_Interval
  <2>2. <<>> \in Seq(Int)
    OBVIOUS
  <2>3. \A s \in SUBSET D : s # {} => c[s] \in s
    BY <1>2
  <2>4. \A x \in D : \A v \in Seq(Int) : h[<<x, v>>] \in Seq(Int)
    <3>. HIDE DEF h
    <3>. QED
      BY <1>3, <1>4
  <2>. HIDE DEF c, h, D
  <2>. QED
    BY <2>1, <2>2, <2>3, <2>4, FoldExists
<1>6. f = [s \in SUBSET D |->
            IF s = {} THEN <<>> ELSE AppendStrictlyIncreasing(f[s \ {Max(s)}], new[Max(s)])]
  <2>1. ASSUME NEW s \in SUBSET D, s # {}
        PROVE  f[s] = AppendStrictlyIncreasing(f[s \ {Max(s)}], new[Max(s)])
    <3>1. Max(s) \in D /\ f[s \ {Max(s)}] \in Seq(Int)
      BY <1>2, <2>1
    <3>2. f[s] = h[<<c[s], f[s \ {c[s]}]>>]
      BY <1>5, <2>1 DEF Folds
    <3>3. c[s] = Max(s)
      OBVIOUS
    <3>. HIDE DEF h, c
    <3>. QED
      BY <1>3, <3>1, <3>2, <3>3
  <2>2. f[{}] = <<>>
    BY <1>5 DEF Folds
  <2>. HIDE DEF D
  <2>. QED
    BY <2>1, <2>2
<1>7. g = [s \in SUBSET D |->
            IF s = {} THEN <<>> ELSE AppendStrictlyIncreasing(g[s \ {Max(s)}], new[Max(s)])]
  <2>1. g = CHOOSE g1 : g1 = [s \in SUBSET D |->
              IF s = {} THEN <<>>
              ELSE AppendStrictlyIncreasing(g1[s \ {Max(s)}], new[Max(s)])]
    OBVIOUS
  <2>. HIDE DEF g
  <2>. QED
    BY <1>6, <2>1
<1>. HIDE DEF g
<1>8. g[{}] = <<>>
  BY <1>7
<1>9. ASSUME NEW k \in D
      PROVE  g[1..k] = AppendStrictlyIncreasing(g[1..k - 1], new[k])
  <2>1. 1..k \in SUBSET D /\ 1..k # {} /\ k \in Nat
    BY <1>0
  <2>2. Max(1..k) = k
    <3>1. Max(1..k) \in 1..k /\ \A y \in 1..k : Max(1..k) >= y
      BY <2>1, MaxIsIn
    <3>2. k \in 1..k
      BY <2>1
    <3>. QED
      BY <2>1, <3>1, <3>2
  <2>3. (1..k) \ {k} = 1..k - 1
    BY <2>1
  <2>. HIDE DEF D
  <2>4. g[1..k] = AppendStrictlyIncreasing(g[(1..k) \ {Max(1..k)}], new[Max(1..k)])
    BY <1>7, <2>1
  <2>. QED
    BY <2>2, <2>3, <2>4
<1>. QED
  BY <1>1, <1>8, <1>9

\* Appended one by one, any numbers make a list of edges, of which the first
\* is as given.
LEMMA AppendAllIncreases ==
  ASSUME NEW new \in Seq(Int)
  PROVE  /\ AppendAll(<<>>, new) \in Seq(Int) /\ StrictlyIncreasing(AppendAll(<<>>, new))
         /\ Len(AppendAll(<<>>, new)) = Len(new)
         /\ new # <<>> => AppendAll(<<>>, new)[1] = new[1]
<1>1. PICK g : /\ AppendAll(<<>>, new) = g[1..Len(new)]
               /\ g[{}] = <<>>
               /\ \A k \in 1..Len(new) :
                    g[1..k] = AppendStrictlyIncreasing(g[1..k - 1], new[k])
  BY AppendAllStep
<1>. DEFINE Fine(k) == /\ g[1..k] \in Seq(Int) /\ StrictlyIncreasing(g[1..k])
                       /\ Len(g[1..k]) = k
                       /\ k >= 1 => g[1..k][1] = new[1]
            A == {k \in Nat : k <= Len(new) => Fine(k)}
<1>0. Len(new) \in Nat /\ \A k \in 1..Len(new) : new[k] \in Int
  OBVIOUS
<1>2. 0 \in A
  <2>1. 1..0 = {}
    OBVIOUS
  <2>2. <<>> \in Seq(Int) /\ StrictlyIncreasing(<<>>) /\ Len(<<>>) = 0
    BY DEF StrictlyIncreasing
  <2>3. g[1..0] = <<>>
    BY <1>1, <2>1
  <2>4. Fine(0)
    BY <2>2, <2>3
  <2>. QED
    BY <2>4
<1>3. ASSUME NEW k \in Nat, k \in A
      PROVE  k + 1 \in A
  <2>. SUFFICES ASSUME k + 1 <= Len(new)
                PROVE  Fine(k + 1)
    OBVIOUS
  <2>. DEFINE prev == g[1..k]
              e == new[k + 1]
  <2>1. k <= Len(new) /\ k + 1 \in 1..Len(new) /\ (k + 1) - 1 = k
    BY <1>0
  <2>2. Fine(k)
    BY <1>3, <2>1
  <2>3. g[1..k + 1] = AppendStrictlyIncreasing(prev, e)
    BY <1>1, <2>1
  <2>4. prev \in Seq(Int) /\ StrictlyIncreasing(prev) /\ Len(prev) = k /\ e \in Int
        /\ (k >= 1 => prev[1] = new[1])
    BY <1>0, <2>1, <2>2
  <2>. HIDE DEF prev, e
  <2>5. /\ g[1..k + 1] \in Seq(Int) /\ StrictlyIncreasing(g[1..k + 1])
    BY <2>3, <2>4, EdgesStayIncreasing
  <2>6. Len(g[1..k + 1]) = k + 1
    <3>1. Len(AppendStrictlyIncreasing(prev, e)) = k + 1
      BY <2>4 DEF AppendStrictlyIncreasing
    <3>. QED
      BY <2>3, <3>1
  <2>7. g[1..k + 1][1] = new[1]
    <3>1. CASE k = 0
      <4>1. AppendStrictlyIncreasing(prev, e)[1] = e
        BY <2>4, <3>1 DEF AppendStrictlyIncreasing
      <4>. QED
        BY <2>3, <3>1, <4>1 DEF e
    <3>2. CASE k >= 1
      <4>1. AppendStrictlyIncreasing(prev, e)[1] = prev[1]
        BY <2>4, <3>2 DEF AppendStrictlyIncreasing
      <4>. QED
        BY <2>3, <2>4, <3>2, <4>1
    <3>. QED
      BY <3>1, <3>2
  <2>. QED
    BY <2>5, <2>6, <2>7
<1>. HIDE DEF A
<1>4. Len(new) \in A
  BY <1>0, <1>2, <1>3, EveryNumber
<1>5. Fine(Len(new))
  BY <1>0, <1>4 DEF A
<1>6. new # <<>> => Len(new) >= 1
  OBVIOUS
<1>. QED
  BY <1>1, <1>5, <1>6

\* Of every setting come edges, above which and below which there is a bar.
LEMMA EdgesFit ==
  ASSUME NEW layout \in Settings
  PROVE  LET edges == ResolveBuckets(layout, layout.maxUs)
         IN  /\ edges \in Seq(Int) /\ StrictlyIncreasing(edges)
             /\ Len(edges) >= 1 /\ edges[1] >= 0
<1>0. /\ layout.edges \in Seq(Int) /\ layout.count \in Int
      /\ layout.maxUs \in Nat \ {0}
  BY SettingsAssumption
<1>1. CASE layout.edges # <<>>
  <2>. DEFINE halves == layout.edges
              new == [i \in DOMAIN halves |->
                       IF halves[i] < 1 THEN 1 ELSE (halves[i] + 1) \div 2]
  <2>1. ResolveBuckets(layout, layout.maxUs) = AppendAll(<<>>, new)
    BY <1>1 DEF ResolveBuckets, ManualEdgesToUs
  <2>2. \A i \in DOMAIN halves : new[i] \in Int /\ new[i] >= 0
    BY <1>0
  <2>3. DOMAIN halves = 1..Len(halves) /\ Len(halves) \in Nat /\ Len(halves) >= 1
    BY <1>0, <1>1
  <2>4. new \in Seq(Int) /\ Len(new) = Len(halves)
    <3>1. DOMAIN new = DOMAIN halves
      OBVIOUS
    <3>2. new = [i \in DOMAIN halves |-> new[i]]
      OBVIOUS
    <3>. HIDE DEF new, halves
    <3>3. new \in [1..Len(halves) -> Int]
      BY <2>2, <2>3, <3>2
    <3>. QED
      BY <2>3, <3>3
  <2>5. new # <<>> /\ new[1] >= 0
    <3>1. 1 \in DOMAIN halves
      BY <2>3
    <3>. HIDE DEF new, halves
    <3>. QED
      BY <2>2, <2>3, <2>4, <3>1
  <2>. HIDE DEF new, halves
  <2>. QED
    BY <2>1, <2>3, <2>4, <2>5, AppendAllIncreases
<1>2. CASE layout.edges = <<>>
  <2>. DEFINE wanted == layout.count
              limit == layout.maxUs
              count == IF wanted < 2 THEN 20 ELSE wanted
              maxUs == IF limit < 2 THEN 2 ELSE limit
              share == (3 * count + 2) \div 4
              fineParts == IF share >= count THEN count - 1 ELSE share
              coarseParts == count - fineParts
              half == maxUs \div 2
              fineMax == IF half >= fineParts THEN half
                         ELSE IF fineParts > maxUs THEN maxUs ELSE fineParts
              fine == [i \in 1..fineParts |-> (fineMax * i) \div fineParts]
              coarse == [i \in 1..coarseParts |->
                          fineMax + ((maxUs - fineMax) * i) \div coarseParts]
              new == fine \o coarse
  <2>1. ResolveBuckets(layout, layout.maxUs) = AppendAll(<<>>, new)
    BY <1>2 DEF ResolveBuckets, AutoBucketEdgesUs
  <2>2. count \in Nat /\ count >= 2 /\ maxUs \in Nat /\ maxUs >= 2
    BY <1>0
  <2>. HIDE DEF count, maxUs
  <2>3. fineParts \in Nat \ {0} /\ coarseParts \in Nat \ {0}
    BY <2>2
  <2>. HIDE DEF fineParts, coarseParts
  <2>4. fineMax \in Nat
    BY <2>2, <2>3
  <2>. HIDE DEF fineMax
  <2>5. \A i \in 1..fineParts : (fineMax * i) \div fineParts \in Int
    BY <2>3, <2>4
  <2>6. \A i \in 1..coarseParts : fineMax + ((maxUs - fineMax) * i) \div coarseParts \in Int
    <3>1. \A i \in 1..coarseParts : (maxUs - fineMax) * i \in Int
      BY <2>2, <2>3, <2>4
    <3>2. \A n \in Int : n \div coarseParts \in Int
      BY <2>3
    <3>. QED
      BY <2>4, <3>1, <3>2
  <2>7. fine \in Seq(Int) /\ Len(fine) = fineParts /\ coarse \in Seq(Int) /\ Len(coarse) = coarseParts
    BY <2>3, <2>5, <2>6
  <2>8. fine[1] >= 0
    <3>1. fine[1] = (fineMax * 1) \div fineParts
      BY <2>3
    <3>2. (fineMax * 1) \div fineParts >= 0
      BY <2>3, <2>4
    <3>. QED
      BY <3>1, <3>2
  <2>. HIDE DEF fine, coarse
  <2>9. new \in Seq(Int) /\ Len(new) >= 1 /\ new[1] = fine[1]
    BY <2>3, <2>7
  <2>10. new # <<>>
    BY <2>9
  <2>. HIDE DEF new
  <2>. QED
    BY <2>1, <2>8, <2>9, <2>10, AppendAllIncreases
<1>. QED
  BY <1>1, <1>2

\* histogram.go:97-121: on increasing edges every latency falls into exactly
\* the bar whose label covers it.
THEOREM BarIsTheOneLabelled ==
  ASSUME NEW edges \in Seq(Int), StrictlyIncreasing(edges),
         NEW us \in Nat \ {0},
         NEW i \in 1..Len(edges) + 1
  PROVE  BarOf(us, edges) = i
           <=> /\ us > BucketLabels(edges)[i].above
               /\ i <= Len(edges) => us <= BucketLabels(edges)[i].upTo
<1>. DEFINE fits == {k \in 1..Len(edges) : us <= edges[k]}
            first == CHOOSE k \in fits : \A j \in fits : k <= j
<1>. Len(edges) \in Nat /\ \A k \in 1..Len(edges) : edges[k] \in Int
  OBVIOUS
<1>1. ASSUME fits # {}
      PROVE  first \in fits /\ \A j \in fits : first <= j
  <2>1. fits \in SUBSET Nat
    OBVIOUS
  <2>2. \E k \in fits : \A j \in fits : k <= j
    <3>. HIDE DEF fits
    <3>. QED
      BY <1>1, <2>1, LeastExists
  <2>. QED
    BY <2>2
<1>2. BarOf(us, edges) = IF fits = {} THEN Len(edges) + 1 ELSE first
  BY DEF BarOf
<1>3. /\ BucketLabels(edges)[i].above = IF i = 1 THEN 0 ELSE edges[i - 1]
      /\ i <= Len(edges) => BucketLabels(edges)[i].upTo = edges[i]
  BY DEF BucketLabels
<1>. HIDE DEF first
<1>4. CASE fits = {}
  <2>1. \A k \in 1..Len(edges) : edges[k] < us
    BY <1>4
  <2>2. BarOf(us, edges) = i <=> i = Len(edges) + 1
    BY <1>2, <1>4
  <2>. QED
    BY <1>3, <2>1, <2>2
<1>5. CASE fits # {}
  <2>1. first \in 1..Len(edges) /\ us <= edges[first] /\ \A j \in fits : first <= j
    BY <1>1, <1>5
  <2>2. \A k \in 1..Len(edges) : k < first => edges[k] < us
    BY <2>1
  <2>3. \A k \in 1..Len(edges) : first <= k => us <= edges[k]
    BY <2>1 DEF StrictlyIncreasing
  <2>4. BarOf(us, edges) = first
    BY <1>2, <1>5
  <2>5. CASE i < first
    BY <1>3, <2>1, <2>2, <2>4, <2>5
  <2>6. CASE i = first
    BY <1>3, <2>1, <2>2, <2>4, <2>6
  <2>7. CASE i > first
    BY <1>3, <2>1, <2>3, <2>4, <2>7
  <2>. QED
    BY <2>1, <2>5, <2>6, <2>7
<1>. QED
  BY <1>4, <1>5
\* The latencies the label of bar i covers, as far as the histogram tells them
\* apart.
Covered(i, edges, us) ==
  {v \in us : /\ UpperEnd(v) > BucketLabels(edges)[i].above
              /\ BucketLabels(edges)[i].upTo = -1 \/ UpperEnd(v) <= BucketLabels(edges)[i].upTo}

BarsInv ==
  /\ setting \in Settings
  /\ bars \in [1..Len(Edges) + 1 -> Nat]
  /\ latencies \in [1..setting.top -> Nat]
  /\ \A i \in 1..Len(Edges) + 1 :
       bars[i] = SumFunctionOnSet(latencies, Covered(i, Edges, 1..setting.top))

\* A recorded latency is covered by the label of the bar that counts it only.
LEMMA CoveredByOne ==
  ASSUME NEW layout \in Settings, NEW v \in 1..layout.top,
         NEW i \in 1..Len(ResolveBuckets(layout, layout.maxUs)) + 1
  PROVE  LET edges == ResolveBuckets(layout, layout.maxUs)
         IN  /\ v \in Covered(i, edges, 1..layout.top) <=> BarOf(UpperEnd(v), edges) = i
             /\ BarOf(UpperEnd(v), edges) \in 1..Len(edges) + 1
<1>. DEFINE edges == ResolveBuckets(layout, layout.maxUs)
            us == UpperEnd(v)
<1>0. layout.top \in Nat /\ v \in Nat \ {0}
  BY SettingsAssumption
<1>1. /\ edges \in Seq(Int) /\ StrictlyIncreasing(edges)
      /\ Len(edges) >= 1 /\ edges[1] >= 0
  BY EdgesFit
<1>2. us \in Nat \ {0}
  BY <1>0 DEF UpperEnd
<1>. HIDE DEF edges, us
<1>3. Len(edges) \in Nat /\ \A k \in 1..Len(edges) : edges[k] \in Int /\ edges[k] >= 0
  <2>1. Len(edges) \in Nat /\ \A k \in 1..Len(edges) : edges[k] \in Int
    BY <1>1
  <2>2. \A k \in 1..Len(edges) : edges[1] <= edges[k]
    BY <1>1, <2>1 DEF StrictlyIncreasing
  <2>3. 1 \in 1..Len(edges)
    BY <1>1, <2>1
  <2>. QED
    BY <1>1, <2>1, <2>2, <2>3
<1>4. i \in 1..Len(edges) + 1
  BY DEF edges
<1>5. BarOf(us, edges) = i <=> /\ us > BucketLabels(edges)[i].above
                               /\ i <= Len(edges) => us <= BucketLabels(edges)[i].upTo
  BY <1>1, <1>2, <1>4, BarIsTheOneLabelled
<1>6. /\ i > Len(edges) => BucketLabels(edges)[i].upTo = -1
      /\ i <= Len(edges) => BucketLabels(edges)[i].upTo >= 0 /\ BucketLabels(edges)[i].upTo \in Int
  BY <1>3, <1>4 DEF BucketLabels
<1>7. v \in Covered(i, edges, 1..layout.top)
        <=> /\ us > BucketLabels(edges)[i].above
            /\ BucketLabels(edges)[i].upTo = -1 \/ us <= BucketLabels(edges)[i].upTo
  BY DEF Covered, us
<1>8. (BucketLabels(edges)[i].upTo = -1 \/ us <= BucketLabels(edges)[i].upTo)
        <=> (i <= Len(edges) => us <= BucketLabels(edges)[i].upTo)
  <2>. DEFINE upTo == BucketLabels(edges)[i].upTo
  <2>1. CASE i > Len(edges)
    BY <1>3, <1>4, <1>6, <2>1
  <2>2. CASE i <= Len(edges)
    <3>1. upTo # -1
      BY <1>6, <2>2
    <3>. QED
      BY <2>2, <3>1
  <2>. QED
    BY <1>3, <1>4, <2>1, <2>2
<1>9. BarOf(us, edges) \in 1..Len(edges) + 1
  <2>. DEFINE fits == {k \in 1..Len(edges) : us <= edges[k]}
  <2>1. fits \in SUBSET Nat
    OBVIOUS
  <2>2. CASE fits = {}
    BY <1>3, <2>2 DEF BarOf
  <2>3. CASE fits # {}
    <3>1. \E k \in fits : \A j \in fits : k <= j
      <4>. HIDE DEF fits
      <4>. QED
        BY <2>1, <2>3, LeastExists
    <3>2. BarOf(us, edges) \in fits
      BY <2>3, <3>1 DEF BarOf
    <3>. QED
      BY <1>3, <3>2
  <2>. QED
    BY <2>2, <2>3
<1>10. v \in Covered(i, edges, 1..layout.top) <=> BarOf(us, edges) = i
  BY <1>5, <1>7, <1>8, Zenon
<1>. QED
  BY <1>9, <1>10 DEF edges, us

LEMMA SumSame ==
  \A S, f, g : Addable(f, S) /\ (\A x \in S : g[x] = f[x]) =>
    SumFunctionOnSet(g, S) = SumFunctionOnSet(f, S)
<1>. SUFFICES ASSUME NEW S, NEW f, NEW g, Addable(f, S), \A x \in S : g[x] = f[x]
              PROVE  SumFunctionOnSet(g, S) = SumFunctionOnSet(f, S)
  OBVIOUS
<1>. DEFINE m == [x \in S |-> x]
<1>1. Addable(g, S) /\ Names1to1(m, S, S) /\ Mirrors(g, S, f, S, m)
  BY DEF Addable, Names1to1, Mirrors
<1>. HIDE DEF m
<1>. QED
  BY <1>1, SumMirrored

LEMMA NothingCovered ==
  ASSUME NEW top \in Nat, NEW S \in SUBSET (1..top)
  PROVE  SumFunctionOnSet([us \in 1..top |-> 0], S) = 0
<1>. DEFINE none == [us \in 1..top |-> 0]
<1>1. IsFiniteSet(1..top)
  <2>1. 1 \in Int /\ top \in Int
    OBVIOUS
  <2>. QED
    BY <2>1, FS_Interval
<1>2. IsFiniteSet(S) /\ \A x \in S : none[x] = 0
  BY <1>1, FS_Subset
<1>. HIDE DEF none
<1>3. Addable(none, S)
  BY <1>2 DEF Addable
<1>4. SumFunctionOnSet(none, S) = 0
  BY <1>2, <1>3, SumOfNothing
<1>. QED
  BY <1>4 DEF none

\* The bars and the history at the start and after a Reset.
LEMMA NoBarsInv ==
  ASSUME setting \in Settings
  PROVE  /\ NoBars \in [1..Len(Edges) + 1 -> Nat]
         /\ NoLatencies \in [1..setting.top -> Nat]
         /\ \A i \in 1..Len(Edges) + 1 :
              NoBars[i] = SumFunctionOnSet(NoLatencies, Covered(i, Edges, 1..setting.top))
<1>1. setting.top \in Nat
  BY SettingsAssumption
<1>2. ASSUME NEW i \in 1..Len(Edges) + 1
      PROVE  NoBars[i] = SumFunctionOnSet(NoLatencies, Covered(i, Edges, 1..setting.top))
  <2>1. Covered(i, Edges, 1..setting.top) \in SUBSET (1..setting.top)
    BY DEF Covered
  <2>2. SumFunctionOnSet([us \in 1..setting.top |-> 0], Covered(i, Edges, 1..setting.top)) = 0
    BY <1>1, <2>1, NothingCovered
  <2>. QED
    BY <2>2 DEF NoBars, NoLatencies
<1>. QED
  BY <1>2 DEF NoBars, NoLatencies

LEMMA BarsInvNext == BarsInv /\ [Next]_vars => BarsInv'
<1>. SUFFICES ASSUME BarsInv, [Next]_vars PROVE BarsInv'
  OBVIOUS
<1>0. /\ setting \in Settings /\ setting.top \in Nat /\ setting.maxUs \in Nat \ {0}
      /\ setting.maxUs <= setting.top
      /\ Edges = ResolveBuckets(setting, setting.maxUs)
      /\ Edges \in Seq(Int)
  BY SettingsAssumption, EdgesFit DEF BarsInv, Edges
<1>1. ASSUME UNCHANGED barVars
      PROVE  BarsInv'
  <2>1. setting' = setting /\ bars' = bars /\ latencies' = latencies /\ Edges' = Edges
    BY <1>1 DEF barVars, Edges
  <2>. QED
    BY <2>1 DEF BarsInv
<1>2. ASSUME NEW name \in Names, NEW us \in Latencies, Apply(name, us)
      PROVE  BarsInv'
  <2>. DEFINE v == Clamp(us, setting.maxUs, setting.top)
              j == BarOf(UpperEnd(v), Edges)
              covered(i) == Covered(i, Edges, 1..setting.top)
  <2>1. /\ bars' = [bars EXCEPT ![j] = @ + 1]
        /\ latencies' = [latencies EXCEPT ![v] = @ + 1]
        /\ setting' = setting /\ Edges' = Edges
    BY <1>2 DEF Apply, Edges
  <2>2. v \in 1..setting.top
    <3>1. us \in Int
      BY ReportAssumption
    <3>. QED
      BY <1>0, <3>1 DEF Clamp
  <2>. HIDE DEF v
  <2>3. Len(Edges) \in Nat
    BY <1>0
  <2>4. \A i \in 1..Len(Edges) + 1 : v \in covered(i) <=> j = i
    BY <1>0, <2>2, CoveredByOne
  <2>5. j \in 1..Len(Edges) + 1
    <3>1. 1 \in 1..Len(ResolveBuckets(setting, setting.maxUs)) + 1
      BY <1>0, <2>3
    <3>. QED
      BY <1>0, <2>2, <3>1, CoveredByOne
  <2>6. /\ bars \in [1..Len(Edges) + 1 -> Nat] /\ latencies \in [1..setting.top -> Nat]
        /\ \A i \in 1..Len(Edges) + 1 : bars[i] = SumFunctionOnSet(latencies, covered(i))
    BY DEF BarsInv
  <2>. HIDE DEF j
  <2>7. ASSUME NEW i \in 1..Len(Edges) + 1
        PROVE  Addable(latencies, covered(i)) /\ covered(i) \subseteq 1..setting.top
    <3>1. IsFiniteSet(1..setting.top)
      <4>1. 1 \in Int /\ setting.top \in Int
        BY <1>0
      <4>. QED
        BY <4>1, FS_Interval
    <3>2. covered(i) \subseteq 1..setting.top
      BY DEF Covered
    <3>. HIDE DEF covered
    <3>3. IsFiniteSet(covered(i))
      BY <3>1, <3>2, FS_Subset
    <3>4. \A x \in covered(i) : latencies[x] \in Int
      BY <2>6, <3>2
    <3>. QED
      BY <3>2, <3>3, <3>4 DEF Addable
  <2>. HIDE DEF covered
  <2>8. ASSUME NEW i \in 1..Len(Edges) + 1
        PROVE  bars'[i] = SumFunctionOnSet(latencies', covered(i))
    <3>1. CASE i = j
      <4>1. v \in covered(i)
        BY <2>4, <3>1
      <4>2. latencies'[v] = latencies[v] + 1 /\ \A y \in covered(i) : y # v => latencies'[y] = latencies[y]
        BY <2>1, <2>2, <2>6, <2>7
      <4>3. SumFunctionOnSet(latencies', covered(i)) = SumFunctionOnSet(latencies, covered(i)) + 1
        BY <2>7, <4>1, <4>2, SumBumped
      <4>4. bars'[i] = bars[i] + 1
        BY <2>1, <2>6, <3>1
      <4>. QED
        BY <2>6, <4>3, <4>4
    <3>2. CASE i # j
      <4>1. v \notin covered(i)
        BY <2>4, <3>2
      <4>2. \A y \in covered(i) : latencies'[y] = latencies[y]
        BY <2>1, <2>6, <2>7, <4>1
      <4>3. SumFunctionOnSet(latencies', covered(i)) = SumFunctionOnSet(latencies, covered(i))
        BY <2>7, <4>2, SumSame
      <4>4. bars'[i] = bars[i]
        BY <2>1, <2>6, <3>2
      <4>. QED
        BY <2>6, <4>3, <4>4
    <3>. QED
      BY <3>1, <3>2
  <2>9. bars' \in [1..Len(Edges) + 1 -> Nat] /\ latencies' \in [1..setting.top -> Nat]
    <3>1. \A n \in Nat : n + 1 \in Nat
      OBVIOUS
    <3>2. bars' \in [1..Len(Edges) + 1 -> Nat]
      BY <2>1, <2>5, <2>6, <3>1
    <3>3. latencies' \in [1..setting.top -> Nat]
      BY <2>1, <2>2, <2>6, <3>1
    <3>. QED
      BY <3>2, <3>3
  <2>. QED
    BY <1>0, <2>1, <2>8, <2>9 DEF BarsInv, covered
<1>3. CASE Restart
  <2>1. bars' = NoBars /\ latencies' = NoLatencies /\ setting' = setting /\ Edges' = Edges
    BY <1>3 DEF Restart, Edges
  <2>. QED
    BY <1>0, <2>1, NoBarsInv DEF BarsInv
<1>4. CASE Pass \/ Finish \/ (\E s \in Senders : SubmitSent(s) \/ Record(s))
         \/ (\E r \in Readers : AskRate(r) \/ TakeRate(r))
  BY <1>1, <1>4 DEF Pass, Finish, SubmitSent, Record, AskRate, TakeRate
<1>5. CASE WriterOnly \/ UNCHANGED vars
  BY <1>1, <1>5 DEF WriterOnly, vars
<1>. QED
  BY <1>2, <1>3, <1>4, <1>5, OnlyTheWriter DEF Next

\* buckets.go:108-117, histogram.go:97-121: every recorded latency is in one
\* bar, the one whose label covers it, for every setting of the edges; the
\* edges increase and none is negative.
THEOREM BarsAreAsLabelled == Spec => []BarsMatchLabels
<1>1. Init => BarsInv
  BY NoBarsInv DEF Init, BarsInv
<1>2. BarsInv => BarsMatchLabels
  <2>. SUFFICES ASSUME BarsInv PROVE BarsMatchLabels
    OBVIOUS
  <2>1. /\ Edges \in Seq(Int) /\ StrictlyIncreasing(Edges) /\ Len(Edges) >= 1 /\ Edges[1] >= 0
    BY EdgesFit DEF BarsInv, Edges
  <2>2. Len(Edges) \in Nat
    BY <2>1
  <2>. HIDE DEF Edges
  <2>3. DOMAIN bars = 1..Len(Edges) + 1 /\ DOMAIN latencies = 1..setting.top
    BY DEF BarsInv
  <2>4. Len(BucketLabels(Edges)) = Len(Edges) + 1 /\ Len(bars) = Len(Edges) + 1
    BY <2>2, <2>3 DEF BucketLabels
  <2>5. \A i \in DOMAIN bars :
          bars[i] = SumFunctionOnSet(latencies,
                      {us \in DOMAIN latencies :
                        /\ UpperEnd(us) > BucketLabels(Edges)[i].above
                        /\ \/ BucketLabels(Edges)[i].upTo = -1
                           \/ UpperEnd(us) <= BucketLabels(Edges)[i].upTo})
    BY <2>3 DEF BarsInv, Covered
  <2>. QED
    BY <2>1, <2>4, <2>5 DEF BarsMatchLabels
<1>. QED
  BY <1>1, <1>2, BarsInvNext, PTL DEF Spec

-----------------------------------------------------------------------------
(***************************************************************************)
(* The CSV file.                                                           *)
(***************************************************************************)
\* The largest of some numbers.
LEMMA LargestExists ==
  ASSUME NEW S \in SUBSET Nat, IsFiniteSet(S), S # {}
  PROVE  \E m \in S : \A n \in S : n <= m
<1>. DEFINE A == {s \in SUBSET S : s = {} \/ \E m \in s : \A n \in s : n <= m}
<1>1. {} \in A
  OBVIOUS
<1>2. ASSUME NEW s \in SUBSET S, NEW x \in S \ s, s \in A
      PROVE  s \cup {x} \in A
  <2>1. \A n \in s \cup {x} : n \in Nat
    OBVIOUS
  <2>2. CASE s = {}
    <3>1. \A n \in s \cup {x} : n <= x
      BY <2>1, <2>2
    <3>. QED
      BY <3>1
  <2>3. CASE s # {}
    <3>1. PICK m \in s : \A n \in s : n <= m
      BY <1>2, <2>3
    <3>2. CASE x <= m
      <4>1. \A n \in s \cup {x} : n <= m
        BY <3>1, <3>2
      <4>. QED
        BY <4>1
    <3>3. CASE ~(x <= m)
      <4>1. \A n \in s \cup {x} : n <= x
        BY <2>1, <3>1, <3>3
      <4>. QED
        BY <4>1
    <3>. QED
      BY <3>2, <3>3
  <2>. QED
    BY <2>2, <2>3
<1>. HIDE DEF A
<1>3. S \in A
  BY <1>1, <1>2, EverySubset
<1>. QED
  BY <1>3 DEF A

\* Any finite set of names has an order of columns.
LEMMA OrderExists ==
  ASSUME NEW S \in SUBSET Nat, IsFiniteSet(S)
  PROVE  \E cols \in [1..Cardinality(S) -> S] :
           \A i, j \in 1..Cardinality(S) : i < j => cols[i] < cols[j]
<1>. DEFINE Ordered(s) == \E cols \in [1..Cardinality(s) -> s] :
                            \A i, j \in 1..Cardinality(s) : i < j => cols[i] < cols[j]
            A == {n \in Nat : \A s \in SUBSET S : Cardinality(s) = n => Ordered(s)}
<1>0. \A s \in SUBSET S : IsFiniteSet(s) /\ Cardinality(s) \in Nat
  BY FS_Subset, FS_CardinalityType
<1>1. 0 \in A
  <2>. SUFFICES ASSUME NEW s \in SUBSET S, Cardinality(s) = 0
                PROVE  Ordered(s)
    OBVIOUS
  <2>1. 1..Cardinality(s) = {}
    OBVIOUS
  <2>. DEFINE none == [i \in {} |-> i]
  <2>2. none \in [1..Cardinality(s) -> s]
    BY <2>1
  <2>. HIDE DEF none
  <2>. QED
    BY <2>1, <2>2
<1>2. ASSUME NEW n \in Nat, n \in A
      PROVE  n + 1 \in A
  <2>. SUFFICES ASSUME NEW s \in SUBSET S, Cardinality(s) = n + 1
                PROVE  Ordered(s)
    OBVIOUS
  <2>1. s # {}
    <3>1. Cardinality({}) = 0 /\ n + 1 # 0
      BY FS_EmptySet
    <3>. QED
      BY <3>1, Zenon
  <2>2. s \in SUBSET Nat /\ IsFiniteSet(s)
    BY <1>0
  <2>3. PICK x \in s : \A y \in s : y <= x
    BY <2>1, <2>2, LargestExists
  <2>. DEFINE rest == s \ {x}
  <2>4. rest \in SUBSET S /\ Cardinality(rest) = n
    <3>1. Cardinality(s \ {x}) = Cardinality(s) - 1
      BY <2>2, FS_RemoveElement
    <3>. QED
      BY <3>1
  <2>5. PICK f \in [1..n -> rest] : \A i, j \in 1..n : i < j => f[i] < f[j]
    <3>1. Ordered(rest)
      BY <1>2, <2>4
    <3>. QED
      BY <2>4, <3>1
  <2>. DEFINE g == [i \in 1..n + 1 |-> IF i <= n THEN f[i] ELSE x]
  <2>6. \A i \in 1..n : f[i] \in s /\ f[i] \in Nat /\ f[i] < x
    <3>1. \A y \in rest : y \in s /\ y \in Nat /\ y < x
      BY <2>2, <2>3
    <3>. HIDE DEF rest
    <3>. QED
      BY <3>1
  <2>7. g \in [1..n + 1 -> s]
    BY <2>6
  <2>8. ASSUME NEW i \in 1..n + 1, NEW j \in 1..n + 1, i < j
        PROVE  g[i] < g[j]
    <3>1. i \in 1..n /\ g[i] = f[i]
      BY <2>8
    <3>2. CASE j <= n
      BY <2>5, <2>8, <3>1, <3>2
    <3>3. CASE ~(j <= n)
      BY <2>6, <2>8, <3>1, <3>3
    <3>. QED
      BY <3>2, <3>3
  <2>. HIDE DEF g
  <2>. QED
    BY <2>7, <2>8
<1>. HIDE DEF A
<1>3. Cardinality(S) \in A /\ S \in SUBSET S
  BY <1>0, <1>1, <1>2, EveryNumber
<1>. QED
  BY <1>3 DEF A

\* The columns of a row: every name seen so far, in order.
LEMMA ColumnsAreAll ==
  ASSUME Range(predicateCols) \cup DOMAIN matched \subseteq Nat,
         IsFiniteSet(Range(predicateCols) \cup DOMAIN matched)
  PROVE  Range(Reconciled) = Range(predicateCols) \cup DOMAIN matched
<1>. DEFINE S == Range(predicateCols) \cup DOMAIN matched
            D == 1..Cardinality(S)
<1>1. Cardinality(S) \in Nat
  BY FS_CardinalityType
<1>2. PICK f \in [D -> S] : \A i, j \in D : i < j => f[i] < f[j]
  <2>1. S \in SUBSET Nat /\ IsFiniteSet(S)
    OBVIOUS
  <2>. HIDE DEF S
  <2>. QED
    BY <2>1, OrderExists
<1>. HIDE DEF S
<1>3. \A i \in D : f[i] \in Nat
  BY DEF S
<1>4. f \in SetToSeqs(S) /\ StrictlyIncreasing(f)
  <2>1. \A i, j \in D : i # j => f[i] # f[j]
    BY <1>1, <1>2, <1>3
  <2>2. Len(f) = Cardinality(S)
    BY <1>1
  <2>. QED
    BY <1>2, <2>1, <2>2 DEF SetToSeqs, StrictlyIncreasing
<1>5. Reconciled \in SetToSeqs(S)
  BY <1>4 DEF Reconciled, S
<1>. DEFINE cols == Reconciled
<1>. HIDE DEF cols
<1>6. cols \in [D -> S] /\ \A i, j \in D : i # j => cols[i] # cols[j]
  BY <1>5 DEF SetToSeqs, cols
<1>7. cols \in Injection(D, S)
  BY <1>6 DEF Injection, IsInjective
<1>8. IsFiniteSet(S) /\ IsFiniteSet(D) /\ Cardinality(D) = Cardinality(S)
  <2>1. IsFiniteSet(S)
    BY DEF S
  <2>2. 1 \in Int /\ Cardinality(S) \in Int
    BY <1>1
  <2>3. IsFiniteSet(D) /\ Cardinality(D) = Cardinality(S)
    <3>1. /\ IsFiniteSet(1..Cardinality(S))
          /\ Cardinality(1..Cardinality(S)) = IF 1 > Cardinality(S) THEN 0 ELSE Cardinality(S) - 1 + 1
      BY <2>2, FS_Interval
    <3>2. (IF 1 > Cardinality(S) THEN 0 ELSE Cardinality(S) - 1 + 1) = Cardinality(S)
      BY <1>1
    <3>. QED
      BY <3>1, <3>2
  <2>. QED
    BY <2>1, <2>3
<1>9. cols \in Surjection(D, S)
  BY <1>7, <1>8, FS_Injection
<1>10. Range(cols) = S
  BY <1>6, <1>9 DEF Surjection, Range
<1>. QED
  BY <1>10 DEF cols, S

\* The writer is told to stop only when the run has ended, for good; its
\* columns are names of predicates that have matched.
FileInv ==
  /\ running \in BOOLEAN
  /\ writer \in {"startStop", "stop", "closed"} => ~running
  /\ DOMAIN matched \subseteq Names /\ IsFiniteSet(DOMAIN matched)
  /\ Range(predicateCols) \subseteq DOMAIN matched
  /\ FileEndsFinal

\* A row has the figures of the moment, of every name.
LEMMA RowIsFinal ==
  ASSUME FileInv, WriteRow, WriterOnly
  PROVE  /\ last'.sent = sent' /\ last'.received = received'
         /\ Range(predicateCols') = DOMAIN matched'
         /\ \A i \in DOMAIN last'.counts : last'.counts[i] = matched'[predicateCols'[i]]
<1>1. /\ predicateCols' = Reconciled
      /\ last' = [sent |-> sent, received |-> received,
                  counts |-> [i \in DOMAIN predicateCols' |-> matched[predicateCols'[i]]]]
  BY DEF WriteRow
<1>2. sent' = sent /\ received' = received /\ matched' = matched
  BY DEF WriterOnly, figureVars
<1>3. Range(predicateCols) \cup DOMAIN matched = DOMAIN matched
  BY DEF FileInv
<1>4. DOMAIN matched \subseteq Nat /\ IsFiniteSet(DOMAIN matched)
  BY ReportAssumption DEF FileInv
<1>5. Range(Reconciled) = DOMAIN matched
  <2>. DEFINE S == Range(predicateCols) \cup DOMAIN matched
  <2>1. S \subseteq Nat /\ IsFiniteSet(S)
    BY <1>3, <1>4
  <2>2. Range(Reconciled) = S
    BY <2>1, ColumnsAreAll
  <2>. QED
    BY <1>3, <2>2
<1>6. Range(predicateCols') = DOMAIN matched'
  BY <1>1, <1>2, <1>5
<1>7. \A i \in DOMAIN last'.counts : last'.counts[i] = matched'[predicateCols'[i]]
  BY <1>1, <1>2
<1>. QED
  BY <1>1, <1>2, <1>6, <1>7

LEMMA FileInvNext == FileInv /\ [Next]_vars => FileInv'
<1>. SUFFICES ASSUME FileInv, [Next]_vars PROVE FileInv'
  OBVIOUS
<1>1. ASSUME WriteRow, WriterOnly, writer' \in {"startStop", "stop", "closed"} => ~running
      PROVE  FileInv'
  <2>1. running' = running /\ matched' = matched
    BY <1>1 DEF WriterOnly, runVars, figureVars
  <2>2. /\ last'.sent = sent' /\ last'.received = received'
        /\ Range(predicateCols') = DOMAIN matched'
        /\ \A i \in DOMAIN last'.counts : last'.counts[i] = matched'[predicateCols'[i]]
    BY <1>1, RowIsFinal
  <2>3. Range(predicateCols)' = Range(predicateCols')
    BY DEF Range
  <2>4. FileEndsFinal'
    BY <2>2, <2>3 DEF FileEndsFinal
  <2>. QED
    BY <1>1, <2>1, <2>2, <2>3, <2>4 DEF FileInv
<1>2. ASSUME running \/ writer # "closed", UNCHANGED csvVars, running' \in BOOLEAN,
             writer \in {"startStop", "stop", "closed"} => ~running',
             DOMAIN matched \subseteq DOMAIN matched', DOMAIN matched' \subseteq Names,
             IsFiniteSet(DOMAIN matched')
      PROVE  FileInv'
  <2>1. writer' = writer /\ predicateCols' = predicateCols
    BY <1>2 DEF csvVars
  <2>2. writer # "closed"
    BY <1>2 DEF FileInv
  <2>3. Range(predicateCols)' = Range(predicateCols)
    BY <2>1 DEF Range
  <2>4. FileEndsFinal'
    BY <2>1, <2>2 DEF FileEndsFinal
  <2>. QED
    BY <1>2, <2>1, <2>3, <2>4 DEF FileInv
<1>3. CASE Pass \/ UNCHANGED vars
  <2>1. UNCHANGED <<sent, received, matched, running, writer, predicateCols, last>>
    BY <1>3 DEF Pass, vars, figureVars, runVars, csvVars
  <2>2. Range(predicateCols)' = Range(predicateCols)
    BY <2>1 DEF Range
  <2>. QED
    BY <2>1, <2>2 DEF FileInv, FileEndsFinal
<1>4. CASE Finish
  <2>1. running /\ running' = FALSE /\ matched' = matched /\ UNCHANGED csvVars
    BY <1>4 DEF Finish, figureVars
  <2>. QED
    BY <1>2, <2>1 DEF FileInv
<1>5. CASE Restart
  <2>1. /\ writer \in {"start", "sample"} /\ running' = TRUE /\ UNCHANGED csvVars
        /\ matched' = [n \in DOMAIN matched |-> 0]
    BY <1>5 DEF Restart
  <2>2. DOMAIN matched' = DOMAIN matched
    BY <2>1
  <2>. QED
    BY <1>2, <2>1, <2>2 DEF FileInv
<1>6. ASSUME NEW s \in Senders, SubmitSent(s)
      PROVE  FileInv'
  <2>1. running /\ running' = running /\ matched' = matched /\ UNCHANGED csvVars
    BY <1>6 DEF SubmitSent, runVars
  <2>. QED
    BY <1>2, <2>1 DEF FileInv
<1>7. ASSUME NEW s \in Senders, Record(s)
      PROVE  FileInv'
  <2>1. UNCHANGED <<sent, received, matched, running, writer, predicateCols, last>>
    BY <1>7 DEF Record, figureVars, runVars, csvVars
  <2>2. Range(predicateCols)' = Range(predicateCols)
    BY <2>1 DEF Range
  <2>. QED
    BY <2>1, <2>2 DEF FileInv, FileEndsFinal
<1>8. ASSUME NEW name \in Names, NEW us \in Latencies, Apply(name, us)
      PROVE  FileInv'
  <2>1. /\ running /\ running' = running /\ UNCHANGED csvVars
        /\ DOMAIN matched' = DOMAIN matched \cup {name}
    BY <1>8 DEF Apply, runVars
  <2>2. IsFiniteSet(DOMAIN matched) /\ DOMAIN matched \subseteq Names
    BY DEF FileInv
  <2>3. IsFiniteSet(DOMAIN matched \cup {name})
    BY <2>2, FS_AddElement
  <2>4. /\ DOMAIN matched \subseteq DOMAIN matched' /\ DOMAIN matched' \subseteq Names
        /\ IsFiniteSet(DOMAIN matched')
    BY <2>1, <2>2, <2>3
  <2>. QED
    BY <1>2, <2>1, <2>4 DEF FileInv
<1>9. CASE FirstRow
  <2>1. WriteRow /\ WriterOnly /\ writer' = "sample"
    BY <1>9 DEF FirstRow
  <2>. QED
    BY <1>1, <2>1
<1>10. CASE TickRow
  <2>1. WriteRow /\ WriterOnly /\ writer' = writer
    BY <1>10 DEF TickRow
  <2>. QED
    BY <1>1, <2>1 DEF FileInv
<1>11. CASE CloseDone
  <2>1. /\ ~running /\ running' = running /\ writer' \in {"startStop", "stop"}
        /\ matched' = matched /\ predicateCols' = predicateCols
    BY <1>11 DEF CloseDone, WriterOnly, runVars, figureVars
  <2>2. Range(predicateCols)' = Range(predicateCols)
    BY <2>1 DEF Range
  <2>3. FileEndsFinal'
    BY <2>1 DEF FileEndsFinal
  <2>. QED
    BY <2>1, <2>2, <2>3 DEF FileInv
<1>12. CASE FirstRowStopped \/ FinalRow
  <2>1. WriteRow /\ WriterOnly /\ writer \in {"startStop", "stop"}
    BY <1>12 DEF FirstRowStopped, FinalRow
  <2>. QED
    BY <1>1, <2>1 DEF FileInv
<1>13. ASSUME NEW r \in Readers, AskRate(r) \/ TakeRate(r)
       PROVE  FileInv'
  <2>1. UNCHANGED <<sent, received, matched, running, writer, predicateCols, last>>
    BY <1>13 DEF AskRate, TakeRate, figureVars, runVars, csvVars
  <2>2. Range(predicateCols)' = Range(predicateCols)
    BY <2>1 DEF Range
  <2>. QED
    BY <2>1, <2>2 DEF FileInv, FileEndsFinal
<1>. QED
  BY <1>3, <1>4, <1>5, <1>6, <1>7, <1>8, <1>9, <1>10, <1>11, <1>12, <1>13 DEF Next

\* csv.go:106-124: a closed file ends with the final figures, of every
\* predicate that matched, whatever ticks and Restarts came before.
THEOREM TheFileEndsFinal == Spec => []FileEndsFinal
<1>1. Init => FileInv
  <2>. SUFFICES ASSUME Init PROVE FileInv
    OBVIOUS
  <2>1. /\ running = TRUE /\ writer = "start" /\ matched = Nothing /\ predicateCols = <<>>
    BY DEF Init
  <2>2. DOMAIN matched = {}
    BY <2>1 DEF Nothing
  <2>3. IsFiniteSet(DOMAIN matched)
    BY <2>2, FS_EmptySet
  <2>4. Range(predicateCols) = {}
    BY <2>1 DEF Range
  <2>. QED
    BY <2>1, <2>2, <2>3, <2>4 DEF FileInv, FileEndsFinal
<1>2. FileInv => FileEndsFinal
  BY DEF FileInv
<1>. QED
  BY <1>1, <1>2, FileInvNext, PTL DEF Spec

=============================================================================
