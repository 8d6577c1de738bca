---------------------------- MODULE Reader_proofs ----------------------------
(***************************************************************************)
(* What a reader is shown adds up, for any calendar, any old file and any  *)
(* writers that can take the flock.                                        *)
(***************************************************************************)
EXTENDS Reader, Collector_proofs, FiniteSetTheorems, WellFoundedInduction

(***************************************************************************)
(* Sums over finite sets.                                                  *)
(***************************************************************************)
\* What HourSum and year are: the sum over S of one direction of readings.
Sum(f, S, d) == MapThenSumSet(LAMBDA x : f[x][d], S)

\* g is the recursive function that Sum takes its value from.
Rec(f, S, d, g) ==
  g = [s \in SUBSET S |-> IF s = {} THEN 0
                          ELSE f[CHOOSE x \in s : TRUE][d] + g[s \ {CHOOSE x \in s : TRUE}]]

LEMMA SumIs ==
  ASSUME NEW f, NEW S, NEW d
  PROVE  Sum(f, S, d) = (CHOOSE g : Rec(f, S, d, g))[S]
BY DEF Sum, MapThenSumSet, MapThenFoldSet, Rec

LEMMA HourSumIs ==
  ASSUME NEW e, NEW H, NEW d
  PROVE  HourSum(e, H, d) = Sum(e.hours, H, d)
BY DEF Sum, HourSum

\* What holds of a set whenever it holds of its proper subsets holds of a finite set.
LEMMA SubsetInduction ==
  ASSUME NEW S, IsFiniteSet(S), NEW C,
         \A T \in SUBSET S : (\A U \in SUBSET T : U # T => U \in C) => T \in C
  PROVE  \A T \in SUBSET S : T \in C
<1> DEFINE B == {T \in SUBSET S : T \notin C}
<1>1. SUFFICES ASSUME B # {}
               PROVE  FALSE
  OBVIOUS
<1>2. B \subseteq FiniteSubsetsOf(S)
  BY FS_Subset DEF FiniteSubsetsOf
<1>3. PICK T \in B : \A U \in B : ~(<<U, T>> \in StrictSubsetOrdering(S))
  <2>1. IsWellFoundedOn(StrictSubsetOrdering(S), FiniteSubsetsOf(S))
    BY FS_StrictSubsetOrderingWellFounded
  <2> HIDE DEF B
  <2> QED BY <1>1, <1>2, <2>1, WFMin
<1>4. \A U \in SUBSET T : U # T => U \in C
  BY <1>3 DEF StrictSubsetOrdering
<1> QED BY <1>3, <1>4

LEMMA RecUnique ==
  ASSUME NEW f, NEW S, NEW T, NEW d, NEW g, NEW h, Rec(f, S, d, g), Rec(f, T, d, h),
         NEW U, U \subseteq S, U \subseteq T, IsFiniteSet(U)
  PROVE  g[U] = h[U]
<1> DEFINE C == {V \in SUBSET U : g[V] = h[V]}
<1>1. ASSUME NEW V \in SUBSET U, \A W \in SUBSET V : W # V => W \in C
      PROVE  V \in C
  <2> DEFINE c == CHOOSE x \in V : TRUE
  <2>1. V \in SUBSET S /\ V \in SUBSET T
    OBVIOUS
  <2>2. g[V] = IF V = {} THEN 0 ELSE f[c][d] + g[V \ {c}]
    BY <2>1 DEF Rec
  <2>3. h[V] = IF V = {} THEN 0 ELSE f[c][d] + h[V \ {c}]
    BY <2>1 DEF Rec
  <2>4. V # {} => g[V \ {c}] = h[V \ {c}]
    BY <1>1
  <2> QED BY <2>2, <2>3, <2>4
<1> HIDE DEF C
<1>2. U \in C
  BY <1>1, SubsetInduction
<1> QED BY <1>2 DEF C

LEMMA RecExists ==
  ASSUME NEW f, NEW S, NEW d, IsFiniteSet(S)
  PROVE  \E g : Rec(f, S, d, g)
<1> DEFINE C == {T \in SUBSET S : \E g : Rec(f, T, d, g)}
           G(T) == CHOOSE g : Rec(f, T, d, g)
           c(T) == CHOOSE x \in T : TRUE
<1>1. ASSUME NEW T \in SUBSET S, \A U \in SUBSET T : U # T => U \in C
      PROVE  T \in C
  <2>1. \A U \in SUBSET T : U # T => Rec(f, U, d, G(U))
    BY <1>1
  <2>2. \A U \in SUBSET T : U # {} => c(U) \in U
    OBVIOUS
  <2> HIDE DEF C, c
  <2>3. ASSUME NEW U \in SUBSET T, U # T, U # {}
        PROVE  G(U)[U] = f[c(U)][d] + G(U \ {c(U)})[U \ {c(U)}]
    <3>1. G(U)[U] = f[c(U)][d] + G(U)[U \ {c(U)}]
      <4>1. Rec(f, U, d, G(U))
        BY <2>1, <2>3
      <4> HIDE DEF G
      <4> QED BY <2>3, <4>1 DEF Rec, c
    <3>2. U \ {c(U)} # T /\ U \ {c(U)} \in SUBSET T /\ U \ {c(U)} \subseteq U
      BY <2>3
    <3>3. Rec(f, U, d, G(U)) /\ Rec(f, U \ {c(U)}, d, G(U \ {c(U)}))
      BY <2>1, <2>3, <3>2
    <3>4. IsFiniteSet(U \ {c(U)})
      BY <3>2, FS_Subset
    <3> HIDE DEF G
    <3>5. G(U)[U \ {c(U)}] = G(U \ {c(U)})[U \ {c(U)}]
      BY <3>2, <3>3, <3>4, RecUnique
    <3> QED BY <3>1, <3>5
  <2>4. T # {} => G({})[{}] = 0
    <3> SUFFICES ASSUME T # {}
                 PROVE  G({})[{}] = 0
      OBVIOUS
    <3>1. Rec(f, {}, d, G({}))
      BY <2>1
    <3> QED BY <3>1 DEF Rec
  <2> HIDE DEF G
  <2> DEFINE v(s) == IF s = {} THEN 0 ELSE f[c(s)][d] + G(s \ {c(s)})[s \ {c(s)}]
             g == [s \in SUBSET T |-> v(s)]
  <2>5. ASSUME NEW s \in SUBSET T, s # {}
        PROVE  G(s \ {c(s)})[s \ {c(s)}] = v(s \ {c(s)})
    <3>1. s \ {c(s)} \in SUBSET T /\ s \ {c(s)} # T
      BY <2>2, <2>5
    <3>2. T # {}
      BY <2>5
    <3> QED BY <2>3, <2>4, <3>1, <3>2
  <2>6. \A s \in SUBSET T : g[s] = v(s)
    OBVIOUS
  <2> HIDE DEF g
  <2>7. \A s \in SUBSET T : v(s) = IF s = {} THEN 0 ELSE f[c(s)][d] + g[s \ {c(s)}]
    BY <2>5, <2>6
  <2>8. g = [s \in SUBSET T |-> IF s = {} THEN 0 ELSE f[c(s)][d] + g[s \ {c(s)}]]
    <3> HIDE DEF v
    <3>1. g = [s \in SUBSET T |-> v(s)]
      BY DEF g
    <3> QED BY <2>7, <3>1
  <2>9. Rec(f, T, d, g)
    BY <2>8 DEF Rec, c
  <2> QED BY <2>9 DEF C
<1> HIDE DEF C
<1>2. S \in C
  BY <1>1, SubsetInduction
<1> QED BY <1>2 DEF C

\* Sum obeys the recursion it is written as.
LEMMA SumRecursion ==
  ASSUME NEW f, NEW S, NEW d, IsFiniteSet(S)
  PROVE  /\ Sum(f, {}, d) = 0
         /\ S # {} => \E c \in S : Sum(f, S, d) = f[c][d] + Sum(f, S \ {c}, d)
<1> DEFINE G(T) == CHOOSE g : Rec(f, T, d, g)
<1>1. \A T : IsFiniteSet(T) => Rec(f, T, d, G(T))
  BY RecExists
<1>2. \A T : Sum(f, T, d) = G(T)[T]
  BY SumIs
<1> HIDE DEF G
<1>3. Sum(f, {}, d) = 0
  <2>1. Rec(f, {}, d, G({}))
    BY <1>1, FS_EmptySet
  <2> QED BY <1>2, <2>1 DEF Rec
<1>4. ASSUME S # {}
      PROVE  \E c \in S : Sum(f, S, d) = f[c][d] + Sum(f, S \ {c}, d)
  <2> DEFINE c == CHOOSE x \in S : TRUE
  <2>1. c \in S
    BY <1>4
  <2>2. G(S)[S] = f[c][d] + G(S)[S \ {c}]
    <3>1. Rec(f, S, d, G(S)) /\ S \in SUBSET S
      BY <1>1
    <3> QED BY <1>4, <3>1 DEF Rec
  <2> HIDE DEF c
  <2>3. IsFiniteSet(S \ {c}) /\ S \ {c} \subseteq S
    BY FS_Subset
  <2>4. G(S)[S \ {c}] = G(S \ {c})[S \ {c}]
    BY <1>1, <2>3, RecUnique
  <2> QED BY <1>2, <2>1, <2>2, <2>4
<1> QED BY <1>3, <1>4

LEMMA SumType ==
  ASSUME NEW f, NEW S, NEW d, IsFiniteSet(S), \A x \in S : f[x][d] \in Nat
  PROVE  Sum(f, S, d) \in Nat
<1> DEFINE C == {T \in SUBSET S : Sum(f, T, d) \in Nat}
<1>1. ASSUME NEW T \in SUBSET S, \A U \in SUBSET T : U # T => U \in C
      PROVE  T \in C
  <2>1. IsFiniteSet(T)
    BY FS_Subset
  <2>2. CASE T = {}
    BY <2>1, <2>2, SumRecursion
  <2>3. CASE T # {}
    <3>1. PICK c \in T : Sum(f, T, d) = f[c][d] + Sum(f, T \ {c}, d)
      BY <2>1, <2>3, SumRecursion
    <3>2. Sum(f, T \ {c}, d) \in Nat /\ f[c][d] \in Nat
      BY <1>1
    <3> QED BY <3>1, <3>2
  <2> QED BY <2>2, <2>3
<1> HIDE DEF C
<1>2. S \in C
  BY <1>1, SubsetInduction
<1> QED BY <1>2 DEF C

\* Any element can be split off a sum.
LEMMA SumElement ==
  ASSUME NEW f, NEW S, NEW d, IsFiniteSet(S), \A x \in S : f[x][d] \in Nat
  PROVE  \A x \in S : Sum(f, S, d) = f[x][d] + Sum(f, S \ {x}, d)
<1> DEFINE C == {T \in SUBSET S : \A x \in T : Sum(f, T, d) = f[x][d] + Sum(f, T \ {x}, d)}
<1>1. ASSUME NEW T \in SUBSET S, \A U \in SUBSET T : U # T => U \in C, NEW x \in T
      PROVE  Sum(f, T, d) = f[x][d] + Sum(f, T \ {x}, d)
  <2>1. \A U \in SUBSET S : IsFiniteSet(U) /\ Sum(f, U, d) \in Nat
    BY FS_Subset, SumType
  <2>2. PICK c \in T : Sum(f, T, d) = f[c][d] + Sum(f, T \ {c}, d)
    <3>1. T # {} /\ IsFiniteSet(T)
      BY <2>1
    <3> QED BY <3>1, SumRecursion
  <2>3. CASE c = x
    BY <2>2, <2>3
  <2>4. CASE c # x
    <3>1. T \ {c} \in C /\ x \in T \ {c}
      BY <1>1, <2>4
    <3>2. T \ {x} \in C /\ c \in T \ {x}
      BY <1>1, <2>4
    <3>3. /\ Sum(f, T \ {c}, d) = f[x][d] + Sum(f, (T \ {c}) \ {x}, d)
          /\ Sum(f, T \ {x}, d) = f[c][d] + Sum(f, (T \ {x}) \ {c}, d)
      BY <3>1, <3>2
    <3>4. (T \ {c}) \ {x} = (T \ {x}) \ {c} /\ (T \ {x}) \ {c} \in SUBSET S
      OBVIOUS
    <3>5. Sum(f, (T \ {x}) \ {c}, d) \in Nat /\ f[x][d] \in Nat /\ f[c][d] \in Nat
      BY <2>1, <3>4
    <3>6. Sum(f, T \ {c}, d) = f[x][d] + Sum(f, (T \ {x}) \ {c}, d)
      BY <3>3, <3>4, Zenon
    <3> HIDE DEF C
    <3> QED BY <2>2, <3>3, <3>5, <3>6
  <2> QED BY <2>3, <2>4
<1>2. \A T \in SUBSET S : (\A U \in SUBSET T : U # T => U \in C) => T \in C
  BY <1>1
<1> HIDE DEF C
<1>3. S \in C
  BY <1>2, SubsetInduction
<1> QED BY <1>3 DEF C

\* A sum over fewer and lesser readings is at most as much.
LEMMA SumMonotone ==
  ASSUME NEW f, NEW g, NEW S, NEW T, NEW d, IsFiniteSet(T), S \subseteq T,
         \A x \in T : g[x][d] \in Nat,
         \A x \in S : f[x][d] \in Nat /\ f[x][d] <= g[x][d]
  PROVE  Sum(f, S, d) <= Sum(g, T, d)
<1> DEFINE C == {U \in SUBSET T : Sum(f, U \cap S, d) <= Sum(g, U, d)}
<1>1. ASSUME NEW U \in SUBSET T, \A V \in SUBSET U : V # U => V \in C
      PROVE  Sum(f, U \cap S, d) <= Sum(g, U, d)
  <2>1. IsFiniteSet(U) /\ IsFiniteSet(U \cap S)
    BY FS_Subset
  <2>2. CASE U = {}
    <3>1. U \cap S = {} /\ Sum(f, {}, d) = 0 /\ Sum(g, {}, d) = 0
      BY <2>1, <2>2, SumRecursion
    <3> QED BY <2>2, <3>1
  <2>3. CASE U # {}
    <3>1. PICK x \in U : Sum(g, U, d) = g[x][d] + Sum(g, U \ {x}, d)
      BY <2>1, <2>3, SumRecursion
    <3>2. U \ {x} \in C
      BY <1>1
    <3>3. Sum(f, (U \ {x}) \cap S, d) <= Sum(g, U \ {x}, d)
      BY <3>2
    <3>4. IsFiniteSet(U \ {x}) /\ IsFiniteSet((U \ {x}) \cap S)
      BY FS_Subset
    <3>5. /\ Sum(g, U \ {x}, d) \in Nat /\ g[x][d] \in Nat
          /\ Sum(f, (U \ {x}) \cap S, d) \in Nat
      BY <3>4, SumType
    <3>6. CASE x \in S
      <4>1. Sum(f, U \cap S, d) = f[x][d] + Sum(f, (U \cap S) \ {x}, d)
        BY <2>1, <3>6, SumElement
      <4>2. (U \cap S) \ {x} = (U \ {x}) \cap S
        OBVIOUS
      <4>3. f[x][d] \in Nat /\ f[x][d] <= g[x][d]
        BY <3>6
      <4>4. Sum(f, U \cap S, d) = f[x][d] + Sum(f, (U \ {x}) \cap S, d)
        BY <4>1, <4>2, Zenon
      <4> HIDE DEF C
      <4> QED BY <3>1, <3>3, <3>5, <4>3, <4>4
    <3>7. CASE x \notin S
      <4>1. U \cap S = (U \ {x}) \cap S
        BY <3>7
      <4>2. Sum(f, U \cap S, d) = Sum(f, (U \ {x}) \cap S, d)
        BY <4>1, Zenon
      <4> HIDE DEF C
      <4> QED BY <3>1, <3>3, <3>5, <4>2
    <3> QED BY <3>6, <3>7
  <2> QED BY <2>2, <2>3
<1>2. \A U \in SUBSET T : (\A V \in SUBSET U : V # U => V \in C) => U \in C
  BY <1>1
<1> HIDE DEF C
<1>3. T \in C
  BY <1>2, SubsetInduction
<1>4. T \cap S = S
  OBVIOUS
<1> QED BY <1>3, <1>4 DEF C

\* A sum depends on nothing but its readings.
LEMMA SumSame ==
  ASSUME NEW f, NEW g, NEW S, NEW d, IsFiniteSet(S),
         \A x \in S : f[x][d] \in Nat /\ f[x][d] = g[x][d]
  PROVE  Sum(f, S, d) = Sum(g, S, d)
<1>1. Sum(f, S, d) \in Nat /\ Sum(g, S, d) \in Nat
  BY SumType
<1>2. Sum(f, S, d) <= Sum(g, S, d) /\ Sum(g, S, d) <= Sum(f, S, d)
  BY SumMonotone
<1> QED BY <1>1, <1>2

\* Readings of zero sum up to zero.
LEMMA SumZero ==
  ASSUME NEW f, NEW S, NEW d, IsFiniteSet(S), \A x \in S : f[x][d] = 0
  PROVE  Sum(f, S, d) = 0
<1> DEFINE C == {T \in SUBSET S : Sum(f, T, d) = 0}
<1>1. ASSUME NEW T \in SUBSET S, \A U \in SUBSET T : U # T => U \in C
      PROVE  T \in C
  <2>1. IsFiniteSet(T)
    BY FS_Subset
  <2>2. CASE T = {}
    BY <2>1, <2>2, SumRecursion
  <2>3. CASE T # {}
    <3>1. PICK c \in T : Sum(f, T, d) = f[c][d] + Sum(f, T \ {c}, d)
      BY <2>1, <2>3, SumRecursion
    <3>2. Sum(f, T \ {c}, d) = 0 /\ f[c][d] = 0
      BY <1>1
    <3> QED BY <3>1, <3>2
  <2> QED BY <2>2, <2>3
<1> HIDE DEF C
<1>2. S \in C
  BY <1>1, SubsetInduction
<1> QED BY <1>2 DEF C

\* A reading that grows by n makes every sum it is in grow by n, and no other.
LEMMA SumChange ==
  ASSUME NEW f, NEW g, NEW S, NEW d, IsFiniteSet(S), NEW x, NEW n \in Nat,
         \A y \in S : f[y][d] \in Nat,
         \A y \in S \ {x} : g[y][d] = f[y][d],
         x \in S => g[x][d] = f[x][d] + n
  PROVE  Sum(g, S, d) = Sum(f, S, d) + IF x \in S THEN n ELSE 0
<1>1. Sum(f, S, d) \in Nat
  BY SumType
<1>2. CASE x \in S
  <2>1. \A y \in S : g[y][d] \in Nat
    BY <1>2
  <2>2. Sum(f, S, d) = f[x][d] + Sum(f, S \ {x}, d)
    BY <1>2, SumElement
  <2>3. Sum(g, S, d) = g[x][d] + Sum(g, S \ {x}, d)
    BY <1>2, <2>1, SumElement
  <2>4. IsFiniteSet(S \ {x})
    BY FS_Subset
  <2>5. Sum(f, S \ {x}, d) = Sum(g, S \ {x}, d) /\ Sum(f, S \ {x}, d) \in Nat
    BY <2>4, SumSame, SumType
  <2> QED BY <1>2, <2>2, <2>3, <2>5
<1>3. CASE x \notin S
  <2>1. \A y \in S : g[y][d] = f[y][d]
    BY <1>3
  <2>2. Sum(g, S, d) = Sum(f, S, d)
    BY <2>1, SumSame
  <2> QED BY <1>1, <1>3, <2>2
<1> QED BY <1>2, <1>3

\* The sum over a set is that over two parts of it.
LEMMA SumOfParts ==
  ASSUME NEW f, NEW S, NEW T, NEW d, IsFiniteSet(S), IsFiniteSet(T), S \cap T = {},
         \A x \in S \cup T : f[x][d] \in Nat
  PROVE  Sum(f, S \cup T, d) = Sum(f, S, d) + Sum(f, T, d)
<1> DEFINE C == {U \in SUBSET T : Sum(f, S \cup U, d) = Sum(f, S, d) + Sum(f, U, d)}
<1>1. ASSUME NEW U \in SUBSET T, \A V \in SUBSET U : V # U => V \in C
      PROVE  Sum(f, S \cup U, d) = Sum(f, S, d) + Sum(f, U, d)
  <2>1. IsFiniteSet(U) /\ IsFiniteSet(S \cup U)
    BY FS_Subset, FS_Union
  <2>2. Sum(f, S, d) \in Nat
    BY SumType
  <2>3. CASE U = {}
    <3>1. S \cup U = S
      BY <2>3
    <3>2. Sum(f, U, d) = 0
      BY <2>1, <2>3, SumRecursion
    <3>3. Sum(f, S \cup U, d) = Sum(f, S, d)
      BY <3>1, Zenon
    <3> QED BY <2>2, <3>2, <3>3
  <2>4. CASE U # {}
    <3>1. PICK x \in U : TRUE
      BY <2>4
    <3>2. U \ {x} \in C
      BY <1>1
    <3>3. Sum(f, S \cup (U \ {x}), d) = Sum(f, S, d) + Sum(f, U \ {x}, d)
      BY <3>2
    <3>4. Sum(f, U, d) = f[x][d] + Sum(f, U \ {x}, d)
      BY <2>1, SumElement
    <3>5. (S \cup U) \ {x} = S \cup (U \ {x})
      OBVIOUS
    <3>6. \A y \in S \cup U : f[y][d] \in Nat
      OBVIOUS
    <3>7. Sum(f, S \cup U, d) = f[x][d] + Sum(f, (S \cup U) \ {x}, d)
      BY <2>1, <3>6, SumElement
    <3>8. IsFiniteSet(U \ {x}) /\ f[x][d] \in Nat
      BY <2>1, FS_Subset
    <3>9. Sum(f, U \ {x}, d) \in Nat
      BY <3>8, SumType
    <3>10. Sum(f, S \cup U, d) = f[x][d] + Sum(f, S \cup (U \ {x}), d)
      BY <3>5, <3>7, Zenon
    <3> HIDE DEF C
    <3> QED BY <2>2, <3>3, <3>4, <3>8, <3>9, <3>10
  <2> QED BY <2>3, <2>4
<1>2. \A U \in SUBSET T : (\A V \in SUBSET U : V # U => V \in C) => U \in C
  BY <1>1
<1> HIDE DEF C
<1>3. T \in C
  BY <1>2, SubsetInduction
<1> QED BY <1>3 DEF C

\* The members of S that key maps into K.
KeyIn(S, key, K) == {x \in S : key[x] \in K}

\* The sums over the classes of S, one for each of the keys in K, add up to the
\* sum over the members of S with a key in K.
LEMMA SumOfClasses ==
  ASSUME NEW f, NEW S, NEW K, NEW key, NEW g, NEW d, IsFiniteSet(S), IsFiniteSet(K),
         \A x \in S : f[x][d] \in Nat,
         \A k \in K : g[k][d] = Sum(f, KeyIn(S, key, {k}), d)
  PROVE  Sum(g, K, d) = Sum(f, KeyIn(S, key, K), d)
<1> DEFINE Of(L) == KeyIn(S, key, L)
           C == {L \in SUBSET K : Sum(g, L, d) = Sum(f, Of(L), d)}
<1>1. ASSUME NEW L \in SUBSET K, \A M \in SUBSET L : M # L => M \in C
      PROVE  Sum(g, L, d) = Sum(f, Of(L), d)
  <2>1. IsFiniteSet(L)
    BY FS_Subset
  <2>2. CASE L = {}
    <3>1. Of(L) = {} /\ Sum(f, {}, d) = 0 /\ Sum(g, {}, d) = 0
      BY <2>1, <2>2, SumRecursion DEF KeyIn
    <3> QED BY <2>2, <3>1
  <2>3. CASE L # {}
    <3>1. PICK k \in L : Sum(g, L, d) = g[k][d] + Sum(g, L \ {k}, d)
      BY <2>1, <2>3, SumRecursion
    <3>2. L \ {k} \in C
      BY <1>1
    <3>3. Sum(g, L \ {k}, d) = Sum(f, Of(L \ {k}), d)
      BY <3>2
    <3> DEFINE Ck == KeyIn(S, key, {k})
    <3>4. g[k][d] = Sum(f, Ck, d)
      OBVIOUS
    <3>5. Of(L) = Of(L \ {k}) \cup Ck /\ Of(L \ {k}) \cap Ck = {}
      BY DEF KeyIn
    <3>6. Of(L \ {k}) \subseteq S /\ Ck \subseteq S
      BY DEF KeyIn
    <3> HIDE DEF Of, Ck, C
    <3>7. IsFiniteSet(Of(L \ {k})) /\ IsFiniteSet(Ck)
      BY <3>6, FS_Subset
    <3>8. \A x \in Of(L \ {k}) \cup Ck : f[x][d] \in Nat
      BY <3>6
    <3>9. Sum(f, Of(L), d) = Sum(f, Of(L \ {k}), d) + Sum(f, Ck, d)
      <4>1. Of(L \ {k}) \cap Ck = {}
        BY <3>5
      <4> DEFINE A == Of(L \ {k})
      <4>2. /\ IsFiniteSet(A) /\ IsFiniteSet(Ck) /\ A \cap Ck = {}
            /\ \A x \in A \cup Ck : f[x][d] \in Nat
        BY <3>7, <3>8, <4>1
      <4> HIDE DEF A
      <4>3. Sum(f, A \cup Ck, d) = Sum(f, A, d) + Sum(f, Ck, d)
        BY <4>2, SumOfParts
      <4> QED BY <3>5, <4>3, Zenon DEF A
    <3>10. Sum(f, Of(L \ {k}), d) \in Nat /\ Sum(f, Ck, d) \in Nat
      BY <3>7, <3>8, SumType
    <3> QED BY <3>1, <3>3, <3>4, <3>9, <3>10
  <2> QED BY <2>2, <2>3
<1>2. \A L \in SUBSET K : (\A M \in SUBSET L : M # L => M \in C) => L \in C
  BY <1>1
<1> HIDE DEF C
<1>3. K \in C
  BY <1>2, SubsetInduction
<1> QED BY <1>3 DEF C

(***************************************************************************)
(* The books of one key.                                                   *)
(***************************************************************************)
\* The hours of the present version that lie in month m by the collector's clock.
HoursOf(m) == {h \in NewHours : ZoneMonth[h] = m}

\* The hours of an entry are in its months, its months and its hours in its total;
\* a key is in all maps or in none.
Booked(e) ==
  /\ e.known <=> e.last # None
  /\ ~e.known => e = Absent
  /\ \A d \in Dir :
       /\ \A m \in Month : Sum(e.hours, HoursOf(m), d) <= e.months[m][d]
       /\ Sum(e.months, Month, d) <= e.total[d]
       /\ Sum(e.hours, Hour, d) <= e.total[d]

\* No hour after that of time t has bytes.
Past(e, t) == \A h \in Hour : e.hours[h] # Zero => h <= HourOf[t]

\* What entry f has more than e, save what was read first on another interface.
Gain(e, f) == [d \in Dir |-> IF e.known /\ ~Moved(e, f.iface) THEN f.total[d] - e.total[d] ELSE 0]

\* f has what e has, and in the hour of t also its gain; hours prune takes are left out.
DayGrown(e, f, t) ==
  /\ \A d \in Dir : Gain(e, f)[d] \in Nat
  /\ \A h \in Hour, d \in Dir : h >= HourOf[t] - KeepHours =>
       f.hours[h][d] = e.hours[h][d] + IF h = HourOf[t] THEN Gain(e, f)[d] ELSE 0

\* Hours and months are finitely many.
LEMMA CalendarFinite ==
  /\ IsFiniteSet(Hour) /\ IsFiniteSet(Month)
  /\ \A m : IsFiniteSet(HoursOf(m)) /\ HoursOf(m) \subseteq Hour
  /\ \A t : IsFiniteSet(TodayHours(t)) /\ TodayHours(t) \subseteq Hour
<1>1. IsFiniteSet(Hour)
  <2>1. MaxTime \in Time
    BY CalendarAssumption DEF Time
  <2>2. HourOf[MaxTime] \in Int /\ 0 \in Int
    BY <2>1, CalendarAssumption
  <2> QED BY <2>2, FS_Interval DEF Hour
<1>2. ASSUME NEW g
      PROVE  IsFiniteSet({g[h] : h \in Hour})
  <2> DEFINE G == [h \in Hour |-> g[h]]
             R == {g[h] : h \in Hour}
  <2>1. G \in Surjection(Hour, R)
    BY DEF Surjection
  <2> HIDE DEF G, R
  <2>2. IsFiniteSet(R)
    BY <1>1, <2>1, FS_Surjection
  <2> QED BY <2>2 DEF R
<1>3. IsFiniteSet(Month)
  <2>1. IsFiniteSet({ZoneMonth[h] : h \in Hour}) /\ IsFiniteSet({UtcMonth[h] : h \in Hour})
    BY <1>2
  <2> QED BY <2>1, FS_Union DEF Month
<1>4. \A m : HoursOf(m) \subseteq Hour
  BY DEF HoursOf, NewHours
<1>5. \A t : TodayHours(t) \subseteq Hour
  BY DEF TodayHours
<1>6. \A H \in SUBSET Hour : IsFiniteSet(H)
  BY <1>1, FS_Subset
<1> QED BY <1>1, <1>3, <1>4, <1>5, <1>6

\* The readings of an entry are natural numbers.
LEMMA EntryNumbers ==
  ASSUME NEW e \in Entry
  PROVE  /\ \A h \in Hour, d \in Dir : e.hours[h][d] \in Nat
         /\ \A m \in Month, d \in Dir : e.months[m][d] \in Nat
         /\ \A d \in Dir : e.total[d] \in Nat
<1>1. /\ e.total \in Reading /\ e.hours \in [Hour -> Reading]
      /\ e.months \in [Month -> Reading]
  BY DEF Entry
<1> QED BY <1>1 DEF Reading

\* A key the ledger does not have has nothing booked.
LEMMA AbsentBooked ==
  /\ Booked(Absent)
  /\ \A t : Past(Absent, t)
<1>1. /\ ~Absent.known /\ Absent.last = None
      /\ \A h \in Hour : Absent.hours[h] = Zero
      /\ \A d \in Dir : /\ Absent.total[d] = 0
                        /\ \A m \in Month : Absent.months[m][d] = 0
                        /\ \A h \in Hour : Absent.hours[h][d] = 0
  BY DEF Absent, NoHours, NoMonths, Zero
<1>2. \A d \in Dir : /\ Sum(Absent.hours, Hour, d) = 0
                     /\ Sum(Absent.months, Month, d) = 0
                     /\ \A m : Sum(Absent.hours, HoursOf(m), d) = 0
  BY <1>1, CalendarFinite, SumZero
<1> QED BY <1>1, <1>2 DEF Booked, Past

\* backfill leaves everything but the months alone.
LEMMA BackfillType ==
  ASSUME NEW e \in Entry
  PROVE  /\ backfill(e) \in Entry
         /\ backfill(e) = [e EXCEPT !.months = backfill(e).months]
         /\ \/ backfill(e) = e /\ Upgraded(e)
            \/ /\ e.months = NoMonths
               /\ \A m \in Month, d \in Dir :
                    backfill(e).months[m][d] = Sum(e.hours, KeyIn(Hour, UtcMonth, {m}), d)
<1>1. CASE Upgraded(e)
  BY <1>1, BackfillIdle DEF Entry
<1>2. CASE ~Upgraded(e)
  <2> DEFINE rebuilt == [m \in Month |-> [d \in Dir |->
                           HourSum(e, {h \in Hour : UtcMonth[h] = m}, d)]]
  <2>1. e.months = NoMonths /\ backfill(e) = [e EXCEPT !.months = rebuilt]
    BY <1>2 DEF backfill, Upgraded
  <2>2. ASSUME NEW m \in Month, NEW d \in Dir
        PROVE  /\ rebuilt[m][d] = Sum(e.hours, KeyIn(Hour, UtcMonth, {m}), d)
               /\ rebuilt[m][d] \in Nat
    <3> DEFINE H == {h \in Hour : UtcMonth[h] = m}
    <3>1. rebuilt[m][d] = Sum(e.hours, H, d)
      BY HourSumIs
    <3>2. H \subseteq Hour /\ IsFiniteSet(H)
      BY CalendarFinite, FS_Subset
    <3>3. H = KeyIn(Hour, UtcMonth, {m})
      BY DEF KeyIn
    <3> HIDE DEF H
    <3>4. Sum(e.hours, H, d) \in Nat
      BY <3>2, EntryNumbers, SumType
    <3>5. Sum(e.hours, KeyIn(Hour, UtcMonth, {m}), d) = Sum(e.hours, H, d)
      BY <3>3, Zenon
    <3>6. rebuilt[m][d] = Sum(e.hours, H, d)
      BY <3>1 DEF H
    <3> HIDE DEF rebuilt
    <3> QED BY <3>4, <3>5, <3>6
  <2>3. rebuilt \in [Month -> Reading]
    <3> DEFINE R(m) == [d \in Dir |-> HourSum(e, {h \in Hour : UtcMonth[h] = m}, d)]
    <3>1. \A m \in Month : rebuilt[m] = R(m)
      OBVIOUS
    <3>2. \A m \in Month : R(m) \in Reading
      BY <2>2 DEF Reading
    <3> QED BY <3>2
  <2> HIDE DEF rebuilt
  <2>4. backfill(e) \in Entry /\ backfill(e).months = rebuilt
    BY <2>1, <2>3 DEF Entry
  <2> QED BY <2>1, <2>2, <2>4
<1> QED BY <1>1, <1>2

\* The months rebuilt for an old entry hold its hours, and no more.
LEMMA BackfillBooked ==
  ASSUME NEW e \in Entry, Booked(e)
  PROVE  Booked(backfill(e))
<1> DEFINE b == backfill(e)
<1>1. CASE b = e
  BY <1>1
<1>2. CASE b # e
  <2>1. /\ b \in Entry /\ b = [e EXCEPT !.months = b.months]
        /\ e.months = NoMonths
        /\ \A m \in Month, d \in Dir :
             b.months[m][d] = Sum(e.hours, KeyIn(Hour, UtcMonth, {m}), d)
    BY <1>2, BackfillType
  <2> HIDE DEF b
  <2>2. /\ b.hours = e.hours /\ b.total = e.total /\ b.known = e.known /\ b.last = e.last
        /\ b.known
    <3>1. /\ b.hours = e.hours /\ b.total = e.total /\ b.known = e.known /\ b.last = e.last
      BY <2>1 DEF Entry
    <3>2. ~e.known => e = Absent
      BY DEF Booked
    <3>3. backfill(Absent) = Absent
      BY AbsentType, BackfillIdle
    <3> QED BY <1>2, <3>1, <3>2, <3>3 DEF b, Entry
  <2>3. ASSUME NEW d \in Dir, NEW m \in Month
        PROVE  Sum(b.hours, HoursOf(m), d) <= b.months[m][d]
    <3>1. Sum(e.hours, HoursOf(m), d) <= 0
      BY <2>1 DEF Booked, NoMonths, Zero
    <3>2. Sum(e.hours, HoursOf(m), d) \in Nat
      BY CalendarFinite, EntryNumbers, SumType
    <3>3. b.months[m][d] \in Nat
      BY <2>1, EntryNumbers
    <3> QED BY <2>2, <3>1, <3>2, <3>3
  <2>4. ASSUME NEW d \in Dir
        PROVE  Sum(b.months, Month, d) <= b.total[d]
    <3>1. /\ IsFiniteSet(Hour) /\ IsFiniteSet(Month)
          /\ \A h \in Hour : e.hours[h][d] \in Nat
      BY CalendarFinite, EntryNumbers
    <3> DEFINE f == e.hours
               g == b.months
    <3>2. /\ \A h \in Hour : f[h][d] \in Nat
          /\ \A m \in Month : g[m][d] = Sum(f, KeyIn(Hour, UtcMonth, {m}), d)
      BY <2>1, <3>1
    <3> HIDE DEF f, g
    <3>3. Sum(g, Month, d) = Sum(f, KeyIn(Hour, UtcMonth, Month), d)
      BY <3>1, <3>2, SumOfClasses
    <3>4. KeyIn(Hour, UtcMonth, Month) = Hour
      BY DEF KeyIn, Month
    <3>5. Sum(g, Month, d) = Sum(f, Hour, d)
      BY <3>3, <3>4, Zenon
    <3> QED BY <2>2, <3>5 DEF Booked, f, g
  <2> QED BY <2>2, <2>3, <2>4 DEF Booked, b
<1> QED BY <1>1, <1>2

\* A change of the hours of one hour and the months of its month, by as much as
\* the total grows or less, keeps the books.
LEMMA GrowthBooked ==
  ASSUME NEW e \in Entry, NEW f \in Entry, Booked(e), NEW t \in Time,
         f.known, f.last # None,
         NEW n \in [Dir -> Nat],
         \A d \in Dir : e.total[d] + n[d] <= f.total[d],
         \A h \in Hour, d \in Dir :
           f.hours[h][d] = e.hours[h][d] + IF h = HourOf[t] THEN n[d] ELSE 0,
         \A m \in Month, d \in Dir :
           f.months[m][d] = e.months[m][d] + IF m = ZoneMonth[HourOf[t]] THEN n[d] ELSE 0
  PROVE  Booked(f)
<1> DEFINE h0 == HourOf[t]
           m0 == ZoneMonth[h0]
<1>1. h0 \in Hour /\ m0 \in Month
  BY CalendarFacts
<1>2. /\ \A h \in Hour, d \in Dir : f.hours[h][d] = e.hours[h][d] + IF h = h0 THEN n[d] ELSE 0
      /\ \A m \in Month, d \in Dir : f.months[m][d] = e.months[m][d] + IF m = m0 THEN n[d] ELSE 0
  OBVIOUS
<1> HIDE DEF h0, m0
<1>3. ASSUME NEW H \in SUBSET Hour, NEW d \in Dir
      PROVE  /\ Sum(f.hours, H, d) = Sum(e.hours, H, d) + IF h0 \in H THEN n[d] ELSE 0
             /\ Sum(e.hours, H, d) \in Nat
  <2>1. IsFiniteSet(H) /\ \A h \in H : e.hours[h][d] \in Nat
    BY CalendarFinite, FS_Subset, EntryNumbers
  <2>2. /\ \A h \in H \ {h0} : f.hours[h][d] = e.hours[h][d]
        /\ h0 \in H => f.hours[h0][d] = e.hours[h0][d] + n[d]
        /\ n[d] \in Nat
    BY <1>2, <2>1
  <2> DEFINE a == e.hours
             b == f.hours
  <2>3. /\ \A h \in H : a[h][d] \in Nat
        /\ \A h \in H \ {h0} : b[h][d] = a[h][d]
        /\ h0 \in H => b[h0][d] = a[h0][d] + n[d]
    BY <2>1, <2>2
  <2> DEFINE nd == n[d]
  <2>4. nd \in Nat /\ (h0 \in H => b[h0][d] = a[h0][d] + nd)
    BY <2>2, <2>3
  <2> HIDE DEF a, b, nd
  <2>5. Sum(b, H, d) = Sum(a, H, d) + IF h0 \in H THEN nd ELSE 0
    BY <2>1, <2>3, <2>4, SumChange
  <2>6. Sum(b, H, d) = Sum(a, H, d) + IF h0 \in H THEN n[d] ELSE 0
    BY <2>5 DEF nd
  <2>7. Sum(a, H, d) \in Nat
    BY <2>1, <2>3, SumType
  <2> QED BY <2>6, <2>7 DEF a, b
<1>4. ASSUME NEW d \in Dir
      PROVE  /\ Sum(f.months, Month, d) = Sum(e.months, Month, d) + n[d]
             /\ Sum(e.months, Month, d) \in Nat
  <2>1. IsFiniteSet(Month) /\ \A m \in Month : e.months[m][d] \in Nat
    BY CalendarFinite, EntryNumbers
  <2>2. /\ \A m \in Month \ {m0} : f.months[m][d] = e.months[m][d]
        /\ f.months[m0][d] = e.months[m0][d] + n[d]
        /\ n[d] \in Nat
    BY <1>1, <1>2, <2>1
  <2> DEFINE a == e.months
             b == f.months
  <2>3. /\ \A m \in Month : a[m][d] \in Nat
        /\ \A m \in Month \ {m0} : b[m][d] = a[m][d]
        /\ b[m0][d] = a[m0][d] + n[d]
    BY <2>1, <2>2
  <2> HIDE DEF a, b
  <2>4. Sum(b, Month, d) = Sum(a, Month, d) + IF m0 \in Month THEN n[d] ELSE 0
    BY <2>1, <2>2, <2>3, SumChange
  <2>5. Sum(a, Month, d) \in Nat
    BY <2>1, <2>3, SumType
  <2> QED BY <1>1, <2>4, <2>5 DEF a, b
<1>5. ASSUME NEW d \in Dir, NEW m \in Month
      PROVE  Sum(f.hours, HoursOf(m), d) <= f.months[m][d]
  <2>1. h0 \in HoursOf(m) => m = m0
    BY DEF HoursOf, m0
  <2>2. Sum(e.hours, HoursOf(m), d) <= e.months[m][d]
    BY DEF Booked
  <2>3. /\ Sum(f.hours, HoursOf(m), d)
             = Sum(e.hours, HoursOf(m), d) + IF h0 \in HoursOf(m) THEN n[d] ELSE 0
        /\ Sum(e.hours, HoursOf(m), d) \in Nat
    BY <1>3, CalendarFinite
  <2>4. e.months[m][d] \in Nat /\ n[d] \in Nat
    BY EntryNumbers
  <2>5. f.months[m][d] = e.months[m][d] + IF m = m0 THEN n[d] ELSE 0
    BY <1>2
  <2> QED BY <2>1, <2>2, <2>3, <2>4, <2>5
<1>6. ASSUME NEW d \in Dir
      PROVE  Sum(f.months, Month, d) <= f.total[d] /\ Sum(f.hours, Hour, d) <= f.total[d]
  <2>1. Sum(e.months, Month, d) <= e.total[d] /\ Sum(e.hours, Hour, d) <= e.total[d]
    BY DEF Booked
  <2>2. Sum(f.hours, Hour, d) = Sum(e.hours, Hour, d) + n[d] /\ Sum(e.hours, Hour, d) \in Nat
    BY <1>1, <1>3
  <2>3. e.total[d] \in Nat /\ f.total[d] \in Nat /\ n[d] \in Nat /\ e.total[d] + n[d] <= f.total[d]
    BY EntryNumbers
  <2> QED BY <1>4, <2>1, <2>2, <2>3
<1> QED BY <1>5, <1>6 DEF Booked

\* What folding a reading adds to the hours, the months and the total.
LEMMA FoldGrowth ==
  ASSUME NEW e \in Entry, NEW t \in Time, NEW i \in Iface, NEW r \in Reading, NEW h \in Nat
  PROVE  LET f == foldPeer(e, t, i, r, h)
             q == Rebaselined(e, i)
             n == IF q.last = None THEN Zero ELSE Fresh(q, r)
         IN  /\ n \in [Dir -> Nat]
             /\ \A d \in Dir : /\ e.total[d] + n[d] <= f.total[d]
                               /\ q.last # None => f.total[d] = e.total[d] + n[d]
             /\ \A k \in Hour, d \in Dir :
                  f.hours[k][d] = e.hours[k][d] + IF k = HourOf[t] THEN n[d] ELSE 0
             /\ \A m \in Month, d \in Dir :
                  f.months[m][d] = e.months[m][d] + IF m = ZoneMonth[HourOf[t]] THEN n[d] ELSE 0
<1> DEFINE f == foldPeer(e, t, i, r, h)
           q == Rebaselined(e, i)
           n == IF q.last = None THEN Zero ELSE Fresh(q, r)
           a == addDelta(q, t, r)
<1>1. f.total = Plus(e.total, Fresh(q, r)) /\ f.hours = a.hours /\ f.months = a.months
  BY FoldPeerType
<1>2. /\ q \in Entry /\ q.hours = e.hours /\ q.months = e.months
  BY RebaselinedType
<1> HIDE DEF q, f
<1>3. Fresh(q, r) \in Reading /\ n \in Reading
  BY <1>2, FreshType, ReadingFacts
<1>4. HourOf[t] \in Hour /\ ZoneMonth[HourOf[t]] \in Month
  BY CalendarFacts
<1>5. /\ e.hours \in [Hour -> Reading] /\ e.months \in [Month -> Reading]
      /\ e.total \in Reading
  BY DEF Entry
<1>6. /\ a.hours = IF q.last = None THEN e.hours ELSE addBucket(e.hours, HourOf[t], n)
      /\ a.months = IF q.last = None THEN e.months ELSE addBucket(e.months, ZoneMonth[HourOf[t]], n)
  BY <1>2 DEF addDelta, Entry
<1>7. \A d \in Dir : q.last = None => n[d] = 0
  BY DEF Zero
<1>8. \A d \in Dir : /\ f.total[d] = e.total[d] + Fresh(q, r)[d]
                     /\ Fresh(q, r)[d] \in Nat /\ e.total[d] \in Nat /\ n[d] \in Nat
  BY <1>1, <1>3, <1>5 DEF Plus, Reading
<1>9. \A d \in Dir : /\ e.total[d] + n[d] <= f.total[d]
                     /\ q.last # None => f.total[d] = e.total[d] + n[d]
  BY <1>7, <1>8
<1> HIDE DEF n, a
<1>10. ASSUME NEW k \in Hour, NEW d \in Dir
       PROVE  a.hours[k][d] = e.hours[k][d] + IF k = HourOf[t] THEN n[d] ELSE 0
  <2>1. e.hours[k][d] \in Nat
    BY <1>5 DEF Reading
  <2> QED BY <1>4, <1>5, <1>6, <1>7, <2>1 DEF addBucket, Plus
<1>11. ASSUME NEW m \in Month, NEW d \in Dir
       PROVE  a.months[m][d] = e.months[m][d] + IF m = ZoneMonth[HourOf[t]] THEN n[d] ELSE 0
  <2>1. e.months[m][d] \in Nat
    BY <1>5 DEF Reading
  <2> QED BY <1>4, <1>5, <1>6, <1>7, <2>1 DEF addBucket, Plus
<1>12. n \in [Dir -> Nat]
  BY <1>3 DEF Reading
<1> QED BY <1>1, <1>9, <1>10, <1>11, <1>12 DEF f, q, n

\* Folding a reading keeps the books, and what it books is its gain in the hour.
LEMMA FoldBooked ==
  ASSUME NEW e \in Entry, Booked(e), NEW t \in Time, Past(e, t),
         NEW i \in Iface, NEW r \in Reading, NEW h \in Nat
  PROVE  LET f == foldPeer(e, t, i, r, h)
         IN  Booked(f) /\ Past(f, t) /\ DayGrown(e, f, t)
<1> DEFINE f == foldPeer(e, t, i, r, h)
           q == Rebaselined(e, i)
           n == IF q.last = None THEN Zero ELSE Fresh(q, r)
<1>1. f \in Entry /\ f.known /\ f.iface = i /\ f.last = r
  BY FoldPeerType
<1>2. /\ n \in [Dir -> Nat]
      /\ \A d \in Dir : /\ e.total[d] + n[d] <= f.total[d]
                        /\ q.last # None => f.total[d] = e.total[d] + n[d]
      /\ \A k \in Hour, d \in Dir :
           f.hours[k][d] = e.hours[k][d] + IF k = HourOf[t] THEN n[d] ELSE 0
      /\ \A m \in Month, d \in Dir :
           f.months[m][d] = e.months[m][d] + IF m = ZoneMonth[HourOf[t]] THEN n[d] ELSE 0
  BY FoldGrowth
<1>3. q.last = None <=> ~e.known \/ Moved(e, i)
  BY DEF Booked, Rebaselined, Moved, Entry
<1>4. \A d \in Dir : q.last = None => n[d] = 0
  BY DEF Zero
<1> HIDE DEF f, q, n
<1>5. r # None
  BY NoneAssumption
<1>6. Booked(f)
  BY <1>1, <1>2, <1>5, GrowthBooked
<1>7. Past(f, t)
  <2> SUFFICES ASSUME NEW k \in Hour, f.hours[k] # Zero, ~(k <= HourOf[t])
               PROVE  FALSE
    BY DEF Past
  <2>1. e.hours[k] = Zero
    BY DEF Past
  <2>2. k # HourOf[t]
    BY CalendarAssumption DEF Hour
  <2>3. \A d \in Dir : f.hours[k][d] = 0
    BY <1>2, <2>1, <2>2 DEF Zero
  <2>4. f.hours[k] \in Reading
    BY <1>1 DEF Entry
  <2>5. f.hours[k] = Zero
    BY <2>3, <2>4 DEF Zero, Reading
  <2> QED BY <2>5
<1>8. \A d \in Dir : Gain(e, f)[d] = n[d] /\ n[d] \in Nat
  <2> TAKE d \in Dir
  <2>1. e.total[d] \in Nat /\ f.total[d] \in Nat /\ n[d] \in Nat
    BY <1>1, <1>2, EntryNumbers
  <2>2. CASE q.last = None
    BY <1>1, <1>3, <1>4, <2>1, <2>2 DEF Gain
  <2>3. CASE q.last # None
    BY <1>1, <1>2, <1>3, <2>1, <2>3 DEF Gain
  <2> QED BY <2>2, <2>3
<1>9. DayGrown(e, f, t)
  BY <1>2, <1>8 DEF DayGrown
<1> QED BY <1>6, <1>7, <1>9 DEF f

\* Pruning takes hours alone, and none that DayGrown looks at.
LEMMA PruneBooked ==
  ASSUME NEW e \in Entry, NEW t \in Time, Booked(e), Past(e, t)
  PROVE  /\ Booked(prune(e, t)) /\ Past(prune(e, t), t)
         /\ \A d \in Entry : DayGrown(d, e, t) => DayGrown(d, prune(e, t), t)
<1> DEFINE u == prune(e, t)
<1>1. u \in Entry /\ u = [e EXCEPT !.hours = u.hours]
  BY PruneType
<1>2. \A h \in Hour : u.hours[h] = IF h < HourOf[t] - KeepHours THEN Zero ELSE e.hours[h]
  BY DEF prune, Entry
<1> HIDE DEF u
<1>3. /\ u.known = e.known /\ u.last = e.last /\ u.total = e.total /\ u.months = e.months
      /\ u.iface = e.iface
  BY <1>1 DEF Entry
<1>4. \A h \in Hour, d \in Dir : u.hours[h][d] \in Nat /\ u.hours[h][d] <= e.hours[h][d]
  BY <1>2, EntryNumbers DEF Zero
<1>5. ASSUME NEW H \in SUBSET Hour, NEW d \in Dir
      PROVE  Sum(u.hours, H, d) <= Sum(e.hours, H, d)
  <2> DEFINE a == u.hours
             b == e.hours
  <2>1. /\ \A h \in H : b[h][d] \in Nat
        /\ \A h \in H : a[h][d] \in Nat /\ a[h][d] <= b[h][d]
    BY <1>4, EntryNumbers
  <2>2. IsFiniteSet(H)
    BY CalendarFinite, FS_Subset
  <2> HIDE DEF a, b
  <2>3. Sum(a, H, d) <= Sum(b, H, d)
    BY <2>1, <2>2, SumMonotone
  <2> QED BY <2>3 DEF a, b
<1>6. \A H \in SUBSET Hour, d \in Dir : Sum(u.hours, H, d) \in Nat /\ Sum(e.hours, H, d) \in Nat
  <2> TAKE H \in SUBSET Hour, d \in Dir
  <2>1. /\ \A h \in H : e.hours[h][d] \in Nat
        /\ \A h \in H : u.hours[h][d] \in Nat
    BY <1>4, EntryNumbers
  <2>2. IsFiniteSet(H)
    BY CalendarFinite, FS_Subset
  <2> QED BY <2>1, <2>2, SumType
<1>7. ASSUME NEW d \in Dir
      PROVE  /\ \A m \in Month : Sum(u.hours, HoursOf(m), d) <= u.months[m][d]
             /\ Sum(u.months, Month, d) <= u.total[d]
             /\ Sum(u.hours, Hour, d) <= u.total[d]
  <2>1. /\ \A m \in Month : Sum(e.hours, HoursOf(m), d) <= e.months[m][d]
        /\ Sum(e.months, Month, d) <= e.total[d]
        /\ Sum(e.hours, Hour, d) <= e.total[d]
    BY DEF Booked
  <2>2. /\ Sum(u.hours, Hour, d) <= Sum(e.hours, Hour, d)
        /\ Sum(u.hours, Hour, d) \in Nat /\ Sum(e.hours, Hour, d) \in Nat
    BY <1>5, <1>6
  <2>3. \A m \in Month : /\ Sum(u.hours, HoursOf(m), d) <= Sum(e.hours, HoursOf(m), d)
                         /\ Sum(u.hours, HoursOf(m), d) \in Nat /\ Sum(e.hours, HoursOf(m), d) \in Nat
    BY <1>5, <1>6, CalendarFinite
  <2>4. e.total[d] \in Nat /\ \A m \in Month : e.months[m][d] \in Nat
    BY EntryNumbers
  <2> QED BY <1>3, <2>1, <2>2, <2>3, <2>4
<1>8. ~u.known => u = Absent
  <2>1. SUFFICES ASSUME ~u.known
                 PROVE  u = Absent
    OBVIOUS
  <2>2. e = Absent
    BY <1>3, <2>1 DEF Booked
  <2>3. u.hours = NoHours
    BY <1>1, <1>2, <2>2 DEF Absent, NoHours, Entry
  <2> QED BY <1>1, <2>2, <2>3 DEF Absent
<1>9. Booked(u)
  BY <1>3, <1>7, <1>8 DEF Booked
<1>10. Past(u, t)
  BY <1>2 DEF Past
<1>11. ASSUME NEW d \in Entry, DayGrown(d, e, t)
       PROVE  DayGrown(d, u, t)
  <2>1. Gain(d, u) = Gain(d, e)
    BY <1>3 DEF Gain
  <2>2. \A h \in Hour : h >= HourOf[t] - KeepHours => u.hours[h] = e.hours[h]
    <3> TAKE h \in Hour
    <3>1. h \in Nat /\ HourOf[t] \in Nat /\ KeepHours \in Nat
      BY CalendarAssumption DEF Hour
    <3> QED BY <1>2, <3>1
  <2> QED BY <1>11, <2>1, <2>2 DEF DayGrown
<1> QED BY <1>9, <1>10, <1>11 DEF u

\* Reading the file: what is loaded has gained nothing yet.
LEMMA LoadedBooked ==
  ASSUME NEW e \in Entry, NEW t \in Time, Booked(e), Past(e, t)
  PROVE  /\ backfill(e) \in Entry /\ Booked(backfill(e)) /\ Past(backfill(e), t)
         /\ backfill(e).hours = e.hours /\ backfill(e).total = e.total
         /\ backfill(e).known = e.known /\ backfill(e).iface = e.iface
         /\ \A f : Gain(backfill(e), f) = Gain(e, f)
         /\ DayGrown(e, backfill(e), t)
<1> DEFINE b == backfill(e)
<1>1. b \in Entry /\ b = [e EXCEPT !.months = b.months] /\ Booked(b)
  BY BackfillType, BackfillBooked
<1> HIDE DEF b
<1>2. b.hours = e.hours /\ b.total = e.total /\ b.known = e.known /\ b.iface = e.iface
  BY <1>1 DEF Entry
<1>3. Past(b, t)
  BY <1>2 DEF Past
<1>4. \A f : Gain(b, f) = Gain(e, f)
  BY <1>2 DEF Gain, Moved
<1>5. \A d \in Dir : Gain(e, b)[d] = 0
  BY <1>2, EntryNumbers DEF Gain, Moved
<1>6. DayGrown(e, b, t)
  BY <1>2, <1>5, EntryNumbers DEF DayGrown
<1> QED BY <1>1, <1>2, <1>3, <1>4, <1>6 DEF b

(***************************************************************************)
(* The inductive invariant.                                                *)
(***************************************************************************)
\* What a call works on: books kept up to its time; its erased key is absent, and
\* every other has gained what the call booked; keys not yet dumped are as loaded.
CallReads(w) ==
  /\ pc[w] = "idle" \/ target[w] # None => todo[w] = {}
  /\ pc[w] \in Inside =>
       /\ at[w] <= now
       /\ \A p \in Pub :
            /\ Booked(mem[w][p]) /\ Past(mem[w][p], at[w])
            /\ p = target[w] => mem[w][p] = Absent
            /\ p # target[w] => DayGrown(disk[p], mem[w][p], at[w])
            /\ pc[w] = "folding" /\ p # target[w] /\ p \notin seen[w] => mem[w][p] = backfill(disk[p])
  /\ pc[w] = "renaming" => tmp = mem[w]

ReaderInv ==
  /\ Typed /\ LockInv
  /\ \A p \in Pub : Booked(disk[p]) /\ Past(disk[p], now)
  /\ \A w \in Writer : CallReads(w)

(***************************************************************************)
(* The steps.                                                              *)
(***************************************************************************)
\* The kernel's steps touch no ledger, and time passes.
LEMMA EnvironmentReads ==
  ASSUME ReaderInv, Environment
  PROVE  ReaderInv'
<1>1. Typed /\ LockInv
  BY DEF ReaderInv
<1>2. Typed' /\ UNCHANGED <<files, calls>>
  BY <1>1, EnvironmentTypes
<1>3. now \in Time /\ now' \in Time /\ now <= now'
  <2>1. now' = now \/ now' = now + 1
    BY DEF Environment, Traffic, Handshake, Attach, Detach, Restart, Recreate, Tick
  <2>2. now \in Time /\ now' \in Time
    BY <1>1, <1>2 DEF Typed, TypeOK
  <2> QED BY <2>1, <2>2, CalendarAssumption DEF Time
<1>4. /\ disk' = disk /\ tmp' = tmp /\ holder' = holder /\ pc' = pc /\ target' = target
      /\ todo' = todo /\ seen' = seen /\ at' = at /\ mem' = mem
  BY <1>2 DEF files, calls
<1>5. \A h \in Hour : h <= HourOf[now] => h <= HourOf[now']
  <2>1. HourOf[now] <= HourOf[now'] /\ HourOf[now] \in Nat /\ HourOf[now'] \in Nat
    BY <1>3, CalendarAssumption
  <2> QED BY <2>1 DEF Hour
<1>6. \A p \in Pub : Booked(disk'[p]) /\ Past(disk'[p], now')
  BY <1>4, <1>5 DEF ReaderInv, Past
<1>7. \A w \in Writer : at[w] <= now => at[w] <= now'
  <2>1. \A w \in Writer : at[w] \in Time
    BY <1>1 DEF Typed, TypeOK
  <2> QED BY <1>3, <2>1, CalendarAssumption DEF Time
<1>8. \A w \in Writer : CallReads(w)'
  BY <1>4, <1>7 DEF ReaderInv, CallReads
<1>9. LockInv'
  BY <1>1, <1>4 DEF LockInv
<1> QED BY <1>2, <1>6, <1>8, <1>9 DEF ReaderInv

\* The call of w stays inside withLock and alone there.
LEMMA InsideReads ==
  ASSUME ReaderInv, NEW w \in Writer, pc[w] \in Inside, Typed',
         UNCHANGED <<now, disk, holder, target>>,
         NEW next \in Inside, pc' = [pc EXCEPT ![w] = next],
         \A v \in Writer \ {w} : todo'[v] = todo[v],
         CallReads(w)'
  PROVE  ReaderInv'
<1>1. Typed /\ LockInv
  BY DEF ReaderInv
<1>2. LockInv'
  BY <1>1 DEF LockInv, Typed, TypeOK
<1>3. ASSUME NEW v \in Writer, v # w
      PROVE  CallReads(v)'
  <2>1. pc'[v] = pc[v] /\ target'[v] = target[v] /\ todo'[v] = todo[v]
    BY <1>1, <1>3 DEF Typed, TypeOK
  <2>2. pc[v] \notin Inside
    BY <1>1, <1>3, OneInside
  <2> QED BY <2>1, <2>2 DEF ReaderInv, CallReads, Inside
<1>4. \A p \in Pub : Booked(disk'[p]) /\ Past(disk'[p], now')
  BY DEF ReaderInv
<1> QED BY <1>2, <1>3, <1>4 DEF ReaderInv

LEMMA StartReads ==
  ASSUME ReaderInv, NEW w \in Writer, StartCollect(w) \/ \E p \in Pub : StartForget(w, p)
  PROVE  ReaderInv'
<1> USE DEF kernel, files, ghosts
<1>1. Typed /\ LockInv
  BY DEF ReaderInv
<1>2. /\ UNCHANGED <<on, ctr, hs, now, disk, tmp, holder, seen, at, mem, carried, zeroed>>
      /\ pc[w] = "idle" /\ pc' = [pc EXCEPT ![w] = "waiting"]
      /\ \E t \in Pub \cup {None} : target' = [target EXCEPT ![w] = t]
      /\ todo' \in [Writer -> SUBSET Iface]
      /\ \A v \in Writer : v # w => todo'[v] = todo[v]
      /\ target'[w] # None => todo'[w] = {}
  <2>1. CASE StartCollect(w)
    <3>1. PICK I \in (SUBSET Iface) \ {{}} : todo' = [todo EXCEPT ![w] = I]
      BY <2>1 DEF StartCollect
    <3>2. todo \in [Writer -> SUBSET Iface] /\ target \in [Writer -> Pub \cup {None}]
      BY <1>1 DEF Typed, TypeOK
    <3> QED BY <2>1, <3>1, <3>2 DEF StartCollect
  <2>2. CASE \E p \in Pub : StartForget(w, p)
    <3>1. pc[w] = "idle" => todo[w] = {}
      BY DEF ReaderInv, CallReads
    <3> QED BY <1>1, <2>2, <3>1 DEF StartForget, Typed, TypeOK
  <2> QED BY <2>1, <2>2
<1>3. Typed'
  BY <1>1, <1>2 DEF Typed, TypeOK, LedgerIsWhole, PCs
<1>4. LockInv'
  BY <1>1, <1>2 DEF LockInv, Inside, Typed, TypeOK
<1>5. ASSUME NEW v \in Writer
      PROVE  CallReads(v)'
  <2>1. CASE v = w
    BY <1>1, <1>2, <2>1 DEF CallReads, Inside, Typed, TypeOK
  <2>2. CASE v # w
    <3>1. pc'[v] = pc[v] /\ target'[v] = target[v] /\ todo'[v] = todo[v]
      BY <1>1, <1>2, <2>2 DEF Typed, TypeOK
    <3> QED BY <1>2, <3>1 DEF ReaderInv, CallReads
  <2> QED BY <2>1, <2>2
<1> QED BY <1>2, <1>3, <1>4, <1>5 DEF ReaderInv

LEMMA LoadReads ==
  ASSUME ~FlockFails, ReaderInv, NEW w \in Writer, Load(w)
  PROVE  ReaderInv'
<1> USE DEF kernel, ghosts
<1>1. Typed /\ LockInv
  BY DEF ReaderInv
<1> DEFINE loaded == [p \in Pub |-> backfill(disk[p])]
           got == IF target[w] = None THEN loaded ELSE [loaded EXCEPT ![target[w]] = Absent]
<1>2. \A p \in Pub : disk[p] \in Entry
  BY <1>1, EntryTypes
<1>3. now \in Time
  BY <1>1 DEF Typed, TypeOK
<1>4. ASSUME NEW p \in Pub
      PROVE  /\ backfill(disk[p]) \in Entry /\ Booked(backfill(disk[p]))
             /\ Past(backfill(disk[p]), now) /\ DayGrown(disk[p], backfill(disk[p]), now)
  BY <1>2, <1>3, LoadedBooked DEF ReaderInv
<1>5. got \in LedgerType
  BY <1>4, AbsentType DEF LedgerType
<1>6. \A p \in Pub : got[p] = IF p = target[w] THEN Absent ELSE backfill(disk[p])
  BY WriterAssumption
<1>7. /\ UNCHANGED <<on, ctr, hs, now, disk, tmp, target, todo, carried, zeroed>>
      /\ pc[w] = "waiting" /\ holder = None /\ holder' = w
      /\ pc' = [pc EXCEPT ![w] = "folding"]
      /\ seen' = [seen EXCEPT ![w] = {}]
      /\ at' = [at EXCEPT ![w] = now]
      /\ mem' = [mem EXCEPT ![w] = got]
  BY DEF Load, LockFree, Forgotten
<1> HIDE DEF got, loaded
<1>8. Typed'
  BY <1>1, <1>5, <1>7 DEF Typed, TypeOK, LedgerIsWhole, PCs
<1>9. LockInv'
  BY <1>1, <1>7, WriterAssumption DEF LockInv, Inside, Typed, TypeOK
<1>10. ASSUME NEW v \in Writer
       PROVE  CallReads(v)'
  <2>1. CASE v = w
    <3>1. /\ mem'[w] = got /\ pc'[w] = "folding" /\ target'[w] = target[w] /\ todo'[w] = todo[w]
          /\ at'[w] = now /\ now' = now /\ disk' = disk
      BY <1>1, <1>7 DEF Typed, TypeOK
    <3>2. target[w] # None => todo[w] = {}
      BY DEF ReaderInv, CallReads
    <3>3. \A p \in Pub : Booked(got[p]) /\ Past(got[p], now)
      BY <1>4, <1>6, AbsentBooked
    <3>4. at'[w] <= now'
      BY <1>3, <3>1, CalendarAssumption DEF Time
    <3> QED BY <1>4, <1>6, <2>1, <3>1, <3>2, <3>3, <3>4 DEF CallReads
  <2>2. CASE v # w
    <3>1. /\ pc'[v] = pc[v] /\ target'[v] = target[v] /\ todo'[v] = todo[v] /\ mem'[v] = mem[v]
          /\ at'[v] = at[v] /\ seen'[v] = seen[v]
      BY <1>1, <1>7, <2>2 DEF Typed, TypeOK
    <3> QED BY <1>7, <3>1 DEF ReaderInv, CallReads
  <2> QED BY <2>1, <2>2
<1>11. \A p \in Pub : Booked(disk'[p]) /\ Past(disk'[p], now')
  BY <1>7 DEF ReaderInv
<1> QED BY <1>8, <1>9, <1>10, <1>11 DEF ReaderInv

LEMMA DumpReads ==
  ASSUME ReaderInv, NEW w \in Writer, NEW i \in Iface, FoldIface(w, i) \/ SkipIface(w, i)
  PROVE  ReaderInv'
<1> USE DEF kernel, files, ghosts
<1>1. Typed /\ LockInv /\ CallReads(w)
  BY DEF ReaderInv
<1>2. /\ UNCHANGED <<on, ctr, hs, now, disk, tmp, holder, pc, target, at, carried, zeroed>>
      /\ pc[w] = "folding" /\ i \in todo[w]
      /\ todo' = [todo EXCEPT ![w] = @ \ {i}]
  BY DEF FoldIface, SkipIface, Dump
<1>3. target[w] = None /\ pc[w] \in Inside
  BY <1>1, <1>2 DEF CallReads, Inside
<1>4. mem[w] \in LedgerType /\ at[w] \in Time
  BY <1>1 DEF Typed, TypeOK
<1>5. ASSUME NEW p \in Pub
      PROVE  /\ Folded(w, i)[p] \in Entry
             /\ Booked(Folded(w, i)[p]) /\ Past(Folded(w, i)[p], at[w])
             /\ DayGrown(disk[p], Folded(w, i)[p], at[w])
             /\ p \notin seen[w] \cup on[i] => Folded(w, i)[p] = mem[w][p]
  <2> DEFINE e == mem[w][p]
             f == foldPeer(e, at[w], i, ctr[i][p], hs[i][p])
  <2>1. e \in Entry /\ disk[p] \in Entry
    BY <1>1, EntryTypes
  <2>2. p # target[w]
    BY <1>3, WriterAssumption
  <2>3. Booked(e) /\ Past(e, at[w]) /\ DayGrown(disk[p], e, at[w])
    BY <1>1, <1>3, <2>2 DEF CallReads
  <2>4. CASE p \in on[i] \ seen[w]
    <3>1. ctr[i][p] \in Reading /\ hs[i][p] \in Nat
      BY <1>1, KernelTypes
    <3>2. Booked(f) /\ Past(f, at[w]) /\ DayGrown(e, f, at[w]) /\ f \in Entry
      BY <1>4, <2>1, <2>3, <3>1, FoldBooked, FoldPeerType
    <3>3. e = backfill(disk[p])
      BY <1>1, <1>2, <1>3, <2>2, <2>4 DEF CallReads
    <3>4. Folded(w, i)[p] = f
      BY <2>4 DEF Folded
    <3>5. Booked(disk[p]) /\ Past(disk[p], now)
      BY DEF ReaderInv
    <3>6. now \in Time
      BY <1>1 DEF Typed, TypeOK
    <3> HIDE DEF e, f
    <3>7. e.hours = disk[p].hours /\ Gain(e, f) = Gain(disk[p], f)
      BY <2>1, <3>3, <3>5, <3>6, LoadedBooked
    <3>8. DayGrown(disk[p], f, at[w])
      BY <3>2, <3>7 DEF DayGrown
    <3> QED BY <2>4, <3>2, <3>4, <3>8
  <2>5. CASE p \notin on[i] \ seen[w]
    <3>1. Folded(w, i)[p] = e
      BY <2>5 DEF Folded
    <3> QED BY <2>1, <2>3, <3>1
  <2> QED BY <2>4, <2>5
<1>6. Folded(w, i) \in LedgerType
  <2>1. \A p \in Pub : Folded(w, i)[p] \in Entry
    BY <1>5
  <2> QED BY <2>1 DEF Folded, LedgerType
<1>7. mem' = [mem EXCEPT ![w] = mem'[w]] /\ mem'[w] \in {mem[w], Folded(w, i)}
  BY <1>1 DEF FoldIface, SkipIface, Typed, TypeOK
<1>8. /\ seen' \in [Writer -> SUBSET Pub]
      /\ seen[w] \subseteq seen'[w]
      /\ mem'[w] # mem[w] => on[i] \subseteq seen'[w]
  <2>1. seen \in [Writer -> SUBSET Pub] /\ on[i] \subseteq Pub
    BY <1>1 DEF Typed, TypeOK
  <2>2. CASE FoldIface(w, i)
    BY <2>1, <2>2 DEF FoldIface
  <2>3. CASE SkipIface(w, i)
    BY <2>1, <2>3 DEF SkipIface
  <2> QED BY <2>2, <2>3
<1>9. Typed'
  <2>1. mem' \in [Writer -> LedgerType]
    BY <1>1, <1>4, <1>6, <1>7 DEF Typed, TypeOK
  <2> QED BY <1>1, <1>2, <1>8, <2>1 DEF Typed, TypeOK, LedgerIsWhole
<1>10. ASSUME NEW p \in Pub
       PROVE  /\ Booked(mem'[w][p]) /\ Past(mem'[w][p], at[w])
              /\ DayGrown(disk[p], mem'[w][p], at[w])
              /\ p \notin seen'[w] => mem'[w][p] = backfill(disk[p])
  <2>1. p # target[w]
    BY <1>3, WriterAssumption
  <2>2. /\ Booked(mem[w][p]) /\ Past(mem[w][p], at[w]) /\ DayGrown(disk[p], mem[w][p], at[w])
        /\ p \notin seen[w] => mem[w][p] = backfill(disk[p])
    BY <1>1, <1>2, <1>3, <2>1 DEF CallReads
  <2>3. p \notin seen'[w] => mem'[w][p] = mem[w][p]
    BY <1>5, <1>7, <1>8
  <2>4. mem'[w][p] = mem[w][p] \/ mem'[w][p] = Folded(w, i)[p]
    BY <1>7
  <2> QED BY <1>5, <1>8, <2>2, <2>3, <2>4
<1>11. CallReads(w)'
  <2>1. at[w] <= now
    BY <1>1, <1>3 DEF CallReads
  <2>2. \A p \in Pub : p # target[w]
    BY <1>3, WriterAssumption
  <2> QED BY <1>2, <1>3, <1>10, <2>1, <2>2 DEF CallReads
<1>12. pc' = [pc EXCEPT ![w] = "folding"] /\ "folding" \in Inside
  BY <1>1, <1>2 DEF Typed, TypeOK, Inside
<1>13. \A v \in Writer \ {w} : todo'[v] = todo[v]
  BY <1>1, <1>2 DEF Typed, TypeOK
<1> QED BY <1>2, <1>3, <1>9, <1>11, <1>12, <1>13, InsideReads

LEMMA OpenTmpReads ==
  ASSUME ReaderInv, NEW w \in Writer, OpenTmp(w)
  PROVE  ReaderInv'
<1> USE DEF kernel, ghosts
<1>1. Typed /\ LockInv /\ CallReads(w)
  BY DEF ReaderInv
<1> DEFINE got == IF target[w] # None THEN mem[w] ELSE [p \in Pub |-> prune(mem[w][p], at[w])]
<1>2. /\ UNCHANGED <<on, ctr, hs, now, disk, holder, target, todo, seen, at, carried, zeroed>>
      /\ pc[w] = "folding" /\ pc' = [pc EXCEPT ![w] = "writing"] /\ tmp' = Torn
      /\ mem' = [mem EXCEPT ![w] = got]
  BY DEF OpenTmp
<1>3. mem[w] \in LedgerType /\ at[w] \in Time /\ pc[w] \in Inside
  BY <1>1, <1>2 DEF Typed, TypeOK, Inside
<1>4. \A p \in Pub : mem[w][p] \in Entry /\ disk[p] \in Entry
  BY <1>1, EntryTypes
<1>5. got \in LedgerType
  BY <1>3, <1>4, PruneType DEF LedgerType
<1>6. ASSUME NEW p \in Pub
      PROVE  /\ Booked(got[p]) /\ Past(got[p], at[w])
             /\ p = target[w] => got[p] = Absent
             /\ p # target[w] => DayGrown(disk[p], got[p], at[w])
  <2>1. /\ Booked(mem[w][p]) /\ Past(mem[w][p], at[w])
        /\ p = target[w] => mem[w][p] = Absent
        /\ p # target[w] => DayGrown(disk[p], mem[w][p], at[w])
    BY <1>1, <1>3 DEF CallReads
  <2>2. CASE target[w] # None
    BY <2>1, <2>2
  <2>3. CASE target[w] = None
    <3>1. got[p] = prune(mem[w][p], at[w]) /\ p # target[w]
      BY <2>3, WriterAssumption
    <3>2. /\ Booked(prune(mem[w][p], at[w])) /\ Past(prune(mem[w][p], at[w]), at[w])
          /\ DayGrown(disk[p], prune(mem[w][p], at[w]), at[w])
      BY <1>3, <1>4, <2>1, <3>1, PruneBooked
    <3> QED BY <3>1, <3>2
  <2> QED BY <2>2, <2>3
<1> HIDE DEF got
<1>7. mem'[w] = got /\ mem' \in [Writer -> LedgerType] /\ pc'[w] = "writing"
  BY <1>1, <1>2, <1>5 DEF Typed, TypeOK
<1>8. Typed'
  BY <1>1, <1>2, <1>7 DEF Typed, TypeOK, LedgerIsWhole, PCs
<1>9. CallReads(w)'
  BY <1>1, <1>2, <1>3, <1>6, <1>7 DEF CallReads
<1>10. "writing" \in Inside
  BY DEF Inside
<1> QED BY <1>2, <1>3, <1>8, <1>9, <1>10, InsideReads

LEMMA WriteTmpReads ==
  ASSUME ReaderInv, NEW w \in Writer, WriteTmp(w)
  PROVE  ReaderInv'
<1> USE DEF kernel, ghosts
<1>1. Typed /\ LockInv /\ CallReads(w)
  BY DEF ReaderInv
<1>2. /\ UNCHANGED <<on, ctr, hs, now, disk, holder, target, todo, seen, at, mem, carried, zeroed>>
      /\ pc[w] = "writing" /\ pc' = [pc EXCEPT ![w] = "renaming"] /\ tmp' = mem[w]
  BY DEF WriteTmp
<1>3. pc[w] \in Inside /\ "renaming" \in Inside /\ pc'[w] = "renaming"
  BY <1>1, <1>2 DEF Inside, Typed, TypeOK
<1>4. Typed'
  BY <1>1, <1>2 DEF Typed, TypeOK, LedgerIsWhole, PCs
<1>5. CallReads(w)'
  BY <1>1, <1>2, <1>3 DEF CallReads
<1> QED BY <1>2, <1>3, <1>4, <1>5, InsideReads

\* A call that ends: the ledger file is as it was, or the call's own.
LEMMA LeaveReads ==
  ASSUME ReaderInv, NEW w \in Writer, Leave(w), pc[w] # "idle",
         UNCHANGED <<on, ctr, hs, now>>, Typed',
         \/ disk' = disk /\ tmp' = tmp
         \/ disk' = disk /\ pc[w] \in Inside
         \/ disk' = mem[w] /\ pc[w] \in Inside
  PROVE  ReaderInv'
<1>1. Typed /\ LockInv
  BY DEF ReaderInv
<1>2. LockInv'
  BY <1>1, WriterAssumption DEF LockInv, Leave, Inside, Typed, TypeOK
<1>3. ASSUME NEW v \in Writer
      PROVE  CallReads(v)'
  <2>1. CASE v = w
    BY <1>1, <2>1 DEF Leave, CallReads, Inside, Typed, TypeOK
  <2>2. CASE v # w
    <3>1. /\ pc'[v] = pc[v] /\ target'[v] = target[v] /\ todo'[v] = todo[v] /\ mem'[v] = mem[v]
          /\ at'[v] = at[v] /\ seen'[v] = seen[v]
      BY <1>1, <2>2 DEF Leave, Typed, TypeOK
    <3>2. pc[v] \in Inside => disk' = disk /\ tmp' = tmp
      BY <1>1, <2>2, OneInside
    <3>3. pc[v] = "renaming" => pc[v] \in Inside
      BY DEF Inside
    <3> QED BY <3>1, <3>2, <3>3 DEF ReaderInv, CallReads
  <2> QED BY <2>1, <2>2
<1>4. ASSUME NEW p \in Pub
      PROVE  Booked(disk'[p]) /\ Past(disk'[p], now')
  <2>1. CASE disk' = disk
    BY <2>1 DEF ReaderInv
  <2>2. CASE disk' = mem[w] /\ pc[w] \in Inside
    <3>1. Booked(mem[w][p]) /\ Past(mem[w][p], at[w]) /\ at[w] <= now
      BY <2>2 DEF ReaderInv, CallReads
    <3>2. at[w] \in Time /\ now \in Time
      BY <1>1 DEF Typed, TypeOK
    <3>3. HourOf[at[w]] <= HourOf[now] /\ HourOf[at[w]] \in Nat /\ HourOf[now] \in Nat
      BY <3>1, <3>2, CalendarAssumption
    <3>4. Past(mem[w][p], now)
      BY <3>1, <3>3 DEF Past, Hour
    <3> QED BY <2>2, <3>1, <3>4
  <2> QED BY <2>1, <2>2
<1> QED BY <1>2, <1>3, <1>4 DEF ReaderInv

\* The types of what a call leaves behind.
LEMMA LeaveTypes ==
  ASSUME Typed, NEW w \in Writer, Leave(w), UNCHANGED <<on, ctr, hs, now>>,
         disk' \in LedgerType, tmp' \in LedgerType \cup {NoFile, Torn},
         carried' \in [Pub -> Reading], zeroed' \in [Pub -> {"never", "read", "unread"}]
  PROVE  Typed'
BY AbsentType, CalendarAssumption DEF Typed, TypeOK, LedgerIsWhole, Leave, PCs, Time

LEMMA RenameReads ==
  ASSUME ReaderInv, NEW w \in Writer, Rename(w)
  PROVE  ReaderInv' /\ disk' = mem[w] /\ pc[w] \in Inside
<1> USE DEF kernel, ghosts
<1>1. Typed /\ LockInv /\ CallReads(w)
  BY DEF ReaderInv
<1>2. /\ UNCHANGED <<on, ctr, hs, now>> /\ pc[w] = "renaming" /\ pc[w] \in Inside
      /\ disk' = mem[w] /\ tmp' = NoFile /\ Leave(w)
  BY <1>1 DEF Rename, CallReads, Inside
<1>3. /\ carried' \in [Pub -> Reading]
      /\ zeroed' \in [Pub -> {"never", "read", "unread"}]
  <2>1. carried \in [Pub -> Reading] /\ zeroed \in [Pub -> {"never", "read", "unread"}]
    BY <1>1 DEF Typed, TypeOK
  <2>2. CASE target[w] = None
    BY <2>1, <2>2 DEF Rename
  <2>3. CASE target[w] # None
    <3>1. target[w] \in Pub
      BY <1>1, <2>3 DEF Typed, TypeOK
    <3>2. \A i \in Iface : ctr[i][target[w]] \in Reading
      BY <1>1, <3>1, KernelTypes
    <3>3. Showing(target[w]) \in Reading
      BY <2>1, <3>1, <3>2, ReadingFacts DEF Showing
    <3>4. /\ carried' = [carried EXCEPT ![target[w]] = Showing(target[w])]
          /\ zeroed' = [zeroed EXCEPT ![target[w]] = "never"]
      BY <2>3 DEF Rename
    <3> QED BY <2>1, <3>3, <3>4
  <2> QED BY <2>2, <2>3
<1>4. mem[w] \in LedgerType
  BY <1>1 DEF Typed, TypeOK
<1>5. Typed'
  BY <1>1, <1>2, <1>3, <1>4, LeaveTypes
<1>6. ReaderInv'
  BY <1>2, <1>5, LeaveReads
<1> QED BY <1>2, <1>6

LEMMA EndReads ==
  ASSUME ReaderInv, NEW w \in Writer, Fail(w) \/ Crash(w)
  PROVE  ReaderInv' /\ disk' = disk
<1> USE DEF kernel, ghosts
<1>1. Typed
  BY DEF ReaderInv
<1>2. /\ UNCHANGED <<on, ctr, hs, now, disk, carried, zeroed>> /\ Leave(w) /\ pc[w] # "idle"
      /\ \/ tmp' = tmp
         \/ pc[w] \in Inside /\ tmp' = NoFile
  BY DEF Fail, Crash, Inside
<1>3. Typed'
  BY <1>1, <1>2, LeaveTypes DEF Typed, TypeOK, LedgerIsWhole
<1> QED BY <1>2, <1>3, LeaveReads

\* A new installation, and an upgraded one.
LEMMA BootReads ==
  ASSUME Init \/ OldInit
  PROVE  ReaderInv
<1>1. PICK l \in {newLedger, OldFile} : Boot(l)
  BY DEF Init, OldInit
<1>2. 1 \in Time /\ newLedger \in LedgerType /\ \A p \in Pub : newLedger[p] = Absent
  BY AbsentType, CalendarAssumption DEF newLedger, Time
<1>3. l \in LedgerType
  BY <1>1, <1>2, OldFileAssumption
<1>4. ASSUME NEW p \in Pub
      PROVE  Booked(l[p]) /\ Past(l[p], 1)
  <2>1. CASE l = newLedger
    BY <1>2, <2>1, AbsentBooked
  <2>2. CASE l = OldFile
    <3> DEFINE e == OldFile[p]
    <3>1. /\ e.known <=> e.last # None
          /\ ~e.known => e = Absent
          /\ e.months = NoMonths
          /\ \A h \in Hour : e.hours[h] # Zero => h <= HourOf[1]
          /\ \A d \in Dir : HourSum(e, Hour, d) <= e.total[d]
          /\ e \in Entry
      BY OldFileAssumption DEF LedgerType
    <3>2. \A h \in NewHours : e.hours[h] = Zero
      BY DEF NewHours
    <3> HIDE DEF e
    <3>3. ASSUME NEW d \in Dir, NEW m \in Month
          PROVE  Sum(e.hours, HoursOf(m), d) <= e.months[m][d]
      <4>1. \A h \in HoursOf(m) : e.hours[h][d] = 0
        BY <3>2 DEF HoursOf, Zero
      <4>2. Sum(e.hours, HoursOf(m), d) = 0
        BY <4>1, CalendarFinite, SumZero
      <4> QED BY <3>1, <4>2 DEF NoMonths, Zero
    <3>4. ASSUME NEW d \in Dir
          PROVE  Sum(e.months, Month, d) <= e.total[d] /\ Sum(e.hours, Hour, d) <= e.total[d]
      <4>1. \A m \in Month : e.months[m][d] = 0
        BY <3>1 DEF NoMonths, Zero
      <4>2. Sum(e.months, Month, d) = 0
        BY <4>1, CalendarFinite, SumZero
      <4>3. Sum(e.hours, Hour, d) = HourSum(e, Hour, d)
        BY HourSumIs
      <4> QED BY <3>1, <4>2, <4>3, EntryNumbers
    <3>5. Booked(e) /\ Past(e, 1)
      BY <3>1, <3>3, <3>4 DEF Booked, Past
    <3> QED BY <2>2, <3>5 DEF e
  <2> QED BY <1>1, <2>1, <2>2
<1>5. \A p \in Pub : l[p].total \in Reading
  BY <1>3 DEF LedgerType, Entry
<1>6. Typed
  BY <1>1, <1>2, <1>3, <1>5, ReadingFacts DEF Boot, Typed, TypeOK, LedgerIsWhole, PCs
<1>7. LockInv
  BY <1>1, WriterAssumption DEF Boot, LockInv, Inside
<1>8. \A w \in Writer : CallReads(w)
  BY <1>1 DEF Boot, CallReads, Inside
<1> QED BY <1>1, <1>4, <1>6, <1>7, <1>8 DEF Boot, ReaderInv

LEMMA ReaderStep ==
  ASSUME ~FlockFails, ReaderInv, [Next]_vars
  PROVE  ReaderInv'
<1>1. CASE Environment
  BY <1>1, EnvironmentReads
<1>2. ASSUME NEW w \in Writer, Step(w)
      PROVE  ReaderInv'
  BY <1>2, StartReads, LoadReads, DumpReads, OpenTmpReads, WriteTmpReads, RenameReads, EndReads DEF Step
<1>3. CASE UNCHANGED vars
  BY <1>3 DEF vars, kernel, files, calls, ghosts, ReaderInv, Typed, TypeOK, LedgerIsWhole, LockInv, CallReads
<1> QED BY <1>1, <1>2, <1>3 DEF Next

(***************************************************************************)
(* Two calendars.                                                          *)
(***************************************************************************)
\* The hours of an entry are in their months.
InMonths(e) ==
  \A d \in Dir, m \in Month : Sum(e.hours, HoursOfMonth(m), d) <= e.months[m][d]

\* So it is with what a load makes of the file, and with what a call works on.
MonthsInv ==
  /\ \A p \in Pub : InMonths(backfill(disk[p]))
  /\ \A w \in Writer : pc[w] \in Inside => \A p \in Pub : InMonths(mem[w][p])

\* The hours of a month are finitely many, and an hour of the clock is in the month
\* of the configured zone.
LEMMA MonthHours ==
  /\ \A m : IsFiniteSet(HoursOfMonth(m)) /\ HoursOfMonth(m) \subseteq Hour
  /\ \A t \in Time : \A m : HourOf[t] \in HoursOfMonth(m) => ZoneMonth[HourOf[t]] = m
<1>1. \A m : HoursOfMonth(m) \subseteq Hour
  BY DEF HoursOfMonth, OldHours, NewHours
<1>2. ASSUME NEW t \in Time
      PROVE  HourOf[t] \notin OldHours
  <2>1. 1 \in Time /\ 1 <= t
    BY CalendarAssumption DEF Time
  <2>2. HourOf[1] \in Nat /\ HourOf[t] \in Nat /\ HourOf[1] <= HourOf[t]
    BY <2>1, CalendarAssumption
  <2> QED BY <2>2 DEF OldHours
<1> QED BY <1>1, <1>2, CalendarFinite, FS_Subset DEF HoursOfMonth

LEMMA AbsentInMonths == InMonths(Absent)
<1>1. /\ \A h \in Hour, d \in Dir : Absent.hours[h][d] = 0
      /\ \A m \in Month, d \in Dir : Absent.months[m][d] = 0
  BY DEF Absent, NoHours, NoMonths, Zero
<1>2. \A m : \A d \in Dir : Sum(Absent.hours, HoursOfMonth(m), d) = 0
  BY <1>1, MonthHours, SumZero
<1> QED BY <1>1, <1>2 DEF InMonths

\* Folding a reading books it to one hour and to the month of that hour.
LEMMA FoldInMonths ==
  ASSUME NEW e \in Entry, InMonths(e), NEW t \in Time,
         NEW i \in Iface, NEW r \in Reading, NEW h \in Nat
  PROVE  InMonths(foldPeer(e, t, i, r, h))
<1> DEFINE f == foldPeer(e, t, i, r, h)
           q == Rebaselined(e, i)
           n == IF q.last = None THEN Zero ELSE Fresh(q, r)
           h0 == HourOf[t]
<1>1. /\ n \in [Dir -> Nat]
      /\ \A k \in Hour, d \in Dir : f.hours[k][d] = e.hours[k][d] + IF k = h0 THEN n[d] ELSE 0
      /\ \A m \in Month, d \in Dir :
           f.months[m][d] = e.months[m][d] + IF m = ZoneMonth[h0] THEN n[d] ELSE 0
  BY FoldGrowth
<1>2. \A m : h0 \in HoursOfMonth(m) => ZoneMonth[h0] = m
  BY MonthHours
<1> HIDE DEF f, q, n, h0
<1>3. ASSUME NEW d \in Dir, NEW m \in Month
      PROVE  Sum(f.hours, HoursOfMonth(m), d) <= f.months[m][d]
  <2> DEFINE H == HoursOfMonth(m)
             a == e.hours
             b == f.hours
             nd == n[d]
  <2>1. IsFiniteSet(H) /\ nd \in Nat
    BY <1>1, MonthHours
  <2>2. /\ \A k \in H : a[k][d] \in Nat
        /\ \A k \in H \ {h0} : b[k][d] = a[k][d]
        /\ h0 \in H => b[h0][d] = a[h0][d] + nd
    <3>1. \A k \in H : k \in Hour /\ a[k][d] \in Nat
      BY MonthHours, EntryNumbers
    <3>2. \A k \in H : b[k][d] = a[k][d] + IF k = h0 THEN nd ELSE 0
      BY <1>1, <3>1
    <3> QED BY <2>1, <3>1, <3>2
  <2>3. h0 \in H => ZoneMonth[h0] = m
    BY <1>2
  <2>4. Sum(a, H, d) <= e.months[m][d] /\ e.months[m][d] \in Nat
    BY EntryNumbers DEF InMonths
  <2>5. f.months[m][d] = e.months[m][d] + IF m = ZoneMonth[h0] THEN nd ELSE 0
    BY <1>1
  <2> HIDE DEF H, a, b, nd
  <2>6. Sum(b, H, d) = Sum(a, H, d) + IF h0 \in H THEN nd ELSE 0
    BY <2>1, <2>2, SumChange
  <2>7. Sum(a, H, d) \in Nat
    BY <2>1, <2>2, SumType
  <2>8. Sum(b, H, d) <= f.months[m][d]
    BY <2>1, <2>3, <2>4, <2>5, <2>6, <2>7
  <2> QED BY <2>8 DEF b, H
<1> QED BY <1>3 DEF InMonths, f

\* Pruning takes hours and no months.
LEMMA PruneInMonths ==
  ASSUME NEW e \in Entry, NEW t \in Time, InMonths(e)
  PROVE  InMonths(prune(e, t))
<1> DEFINE u == prune(e, t)
<1>1. /\ \A h \in Hour : u.hours[h] = IF h < HourOf[t] - KeepHours THEN Zero ELSE e.hours[h]
      /\ u.months = e.months
  BY DEF prune, Entry
<1> HIDE DEF u
<1>2. ASSUME NEW d \in Dir, NEW m \in Month
      PROVE  Sum(u.hours, HoursOfMonth(m), d) <= u.months[m][d]
  <2> DEFINE H == HoursOfMonth(m)
             a == u.hours
             b == e.hours
  <2>1. IsFiniteSet(H) /\ H \subseteq Hour
    BY MonthHours
  <2>2. \A h \in H : a[h][d] \in Nat /\ b[h][d] \in Nat /\ a[h][d] <= b[h][d]
    BY <1>1, <2>1, EntryNumbers DEF Zero
  <2>3. Sum(b, H, d) <= e.months[m][d] /\ e.months[m][d] \in Nat
    BY EntryNumbers DEF InMonths
  <2> HIDE DEF H, a, b
  <2>4. Sum(a, H, d) <= Sum(b, H, d)
    BY <2>1, <2>2, SumMonotone
  <2>5. Sum(a, H, d) \in Nat /\ Sum(b, H, d) \in Nat
    BY <2>1, <2>2, SumType
  <2>6. Sum(a, H, d) <= u.months[m][d]
    BY <1>1, <2>3, <2>4, <2>5
  <2> QED BY <2>6 DEF a, H
<1> QED BY <1>2 DEF InMonths, u

\* A file written by this version has months where it has hours, and is loaded as it is.
LEMMA LoadInMonths ==
  ASSUME NEW e \in Entry, InMonths(e)
  PROVE  InMonths(backfill(e))
<1> DEFINE b == backfill(e)
<1>1. CASE b = e
  BY <1>1
<1>2. CASE b # e
  <2>1. b \in Entry /\ b = [e EXCEPT !.months = b.months] /\ e.months = NoMonths
    BY <1>2, BackfillType
  <2> HIDE DEF b
  <2>2. b.hours = e.hours
    BY <2>1 DEF Entry
  <2>3. ASSUME NEW d \in Dir, NEW m \in Month
        PROVE  Sum(b.hours, HoursOfMonth(m), d) <= b.months[m][d]
    <3>1. Sum(e.hours, HoursOfMonth(m), d) <= 0
      BY <2>1 DEF InMonths, NoMonths, Zero
    <3>2. \A h \in HoursOfMonth(m) : e.hours[h][d] \in Nat
      BY MonthHours, EntryNumbers
    <3>3. Sum(e.hours, HoursOfMonth(m), d) \in Nat
      BY <3>2, MonthHours, SumType
    <3>4. b.months[m][d] \in Nat
      BY <2>1, EntryNumbers
    <3> QED BY <2>2, <3>1, <3>3, <3>4
  <2> QED BY <2>3 DEF InMonths, b
<1> QED BY <1>1, <1>2

\* The months rebuilt for an old file hold its hours by UTC, and it has no others.
LEMMA OldInMonths ==
  ASSUME NEW p \in Pub
  PROVE  InMonths(backfill(OldFile[p]))
<1> DEFINE e == OldFile[p]
           b == backfill(e)
<1>1. e \in Entry /\ e.months = NoMonths /\ \A h \in NewHours : e.hours[h] = Zero
  BY OldFileAssumption DEF LedgerType, NewHours
<1> HIDE DEF e
<1>2. /\ b \in Entry /\ b = [e EXCEPT !.months = b.months]
      /\ \/ e.hours = NoHours
         \/ \A m \in Month, d \in Dir : b.months[m][d] = Sum(e.hours, KeyIn(Hour, UtcMonth, {m}), d)
  BY <1>1, BackfillType DEF Upgraded
<1> HIDE DEF b
<1>3. b.hours = e.hours
  BY <1>1, <1>2 DEF Entry
<1>4. ASSUME NEW d \in Dir, NEW m \in Month
      PROVE  Sum(e.hours, HoursOfMonth(m), d) <= b.months[m][d]
  <2> DEFINE f == e.hours
             O == {h \in OldHours : UtcMonth[h] = m}
             N == {h \in NewHours \ OldHours : ZoneMonth[h] = m}
             U == KeyIn(Hour, UtcMonth, {m})
  <2>1. /\ \A h \in Hour : f[h][d] \in Nat
        /\ \A h \in N : f[h][d] = 0
        /\ b.months[m][d] \in Nat
    BY <1>1, <1>2, EntryNumbers DEF Zero
  <2>2. /\ HoursOfMonth(m) = O \cup N /\ O \cap N = {} /\ O \subseteq U
        /\ O \subseteq Hour /\ N \subseteq Hour /\ U \subseteq Hour
    BY DEF HoursOfMonth, OldHours, NewHours, KeyIn
  <2>3. IsFiniteSet(O) /\ IsFiniteSet(N) /\ IsFiniteSet(U)
    BY <2>2, CalendarFinite, FS_Subset
  <2>4. f = NoHours => \A h \in Hour : f[h][d] = 0
    BY DEF NoHours, Zero
  <2>5. f = NoHours \/ b.months[m][d] = Sum(f, U, d)
    BY <1>2
  <2> HIDE DEF f, O, N, U
  <2>6. Sum(f, O \cup N, d) = Sum(f, O, d) + Sum(f, N, d)
    BY <2>1, <2>2, <2>3, SumOfParts
  <2>7. Sum(f, N, d) = 0
    BY <2>1, <2>3, SumZero
  <2>8. Sum(f, O, d) <= Sum(f, U, d)
    <3>1. \A h \in U : f[h][d] \in Nat
      BY <2>1, <2>2
    <3>2. \A h \in O : f[h][d] \in Nat /\ f[h][d] <= f[h][d]
      BY <2>1, <2>2
    <3> QED BY <2>2, <2>3, <3>1, <3>2, SumMonotone
  <2>9. Sum(f, O, d) \in Nat
    BY <2>1, <2>2, <2>3, SumType
  <2>10. CASE f = NoHours
    <3>1. Sum(f, O, d) = 0
      BY <2>2, <2>3, <2>4, <2>10, SumZero
    <3>2. Sum(f, O \cup N, d) <= b.months[m][d]
      BY <2>1, <2>6, <2>7, <3>1
    <3> QED BY <2>2, <3>2 DEF f
  <2>11. CASE f # NoHours
    <3>1. Sum(f, O \cup N, d) <= b.months[m][d]
      BY <2>1, <2>5, <2>6, <2>7, <2>8, <2>9, <2>11
    <3> QED BY <2>2, <3>1 DEF f
  <2> QED BY <2>10, <2>11
<1>5. InMonths(b)
  BY <1>3, <1>4 DEF InMonths
<1> QED BY <1>5 DEF b, e

\* One call goes on or ends, and the file stays.
LEMMA CallInMonths ==
  ASSUME Typed, MonthsInv, NEW w \in Writer, disk' = disk,
         \A v \in Writer \ {w} : pc'[v] = pc[v] /\ mem'[v] = mem[v],
         pc'[w] \in Inside => \A p \in Pub : InMonths(mem'[w][p])
  PROVE  MonthsInv'
<1>1. \A p \in Pub : InMonths(backfill(disk'[p]))
  BY DEF MonthsInv
<1>2. \A v \in Writer : pc'[v] \in Inside => \A p \in Pub : InMonths(mem'[v][p])
  BY DEF MonthsInv
<1> QED BY <1>1, <1>2 DEF MonthsInv, InMonths

LEMMA MonthsStep ==
  ASSUME ~FlockFails, ReaderInv, MonthsInv, [Next]_vars
  PROVE  MonthsInv'
<1> USE DEF kernel, files, calls, ghosts
<1>1. Typed
  BY DEF ReaderInv
<1>2. CASE Environment \/ UNCHANGED vars
  <2>1. UNCHANGED <<disk, pc, mem>>
    BY <1>1, <1>2, EnvironmentTypes DEF vars
  <2> QED BY <2>1 DEF MonthsInv, InMonths
<1>3. ASSUME NEW w \in Writer, Step(w)
      PROVE  MonthsInv'
  <2>1. /\ pc \in [Writer -> PCs] /\ mem \in [Writer -> LedgerType] /\ at[w] \in Time
        /\ \A p \in Pub : disk[p] \in Entry /\ mem[w][p] \in Entry
    BY <1>1, EntryTypes DEF Typed, TypeOK
  <2>2. CASE StartCollect(w) \/ \E p \in Pub : StartForget(w, p)
    <3>1. disk' = disk /\ mem' = mem /\ pc' = [pc EXCEPT ![w] = "waiting"]
      BY <2>2 DEF StartCollect, StartForget
    <3> QED BY <1>1, <2>1, <3>1, CallInMonths DEF Inside
  <2>3. CASE Load(w)
    <3>1. /\ disk' = disk /\ pc' = [pc EXCEPT ![w] = "folding"]
          /\ \E l : mem' = [mem EXCEPT ![w] = l]
      BY <2>3 DEF Load
    <3>2. ASSUME NEW p \in Pub
          PROVE  mem'[w][p] \in {Absent, backfill(disk[p])}
      BY <2>1, <2>3 DEF Load, Forgotten
    <3>3. \A p \in Pub : InMonths(mem'[w][p])
      BY <3>2, AbsentInMonths DEF MonthsInv
    <3> QED BY <1>1, <2>1, <3>1, <3>3, CallInMonths
  <2>4. ASSUME NEW i \in Iface, FoldIface(w, i) \/ SkipIface(w, i)
        PROVE  MonthsInv'
    <3>1. /\ disk' = disk /\ pc' = pc /\ pc[w] \in Inside
          /\ \E l : mem' = [mem EXCEPT ![w] = l]
          /\ mem'[w] \in {mem[w], Folded(w, i)}
      <4>1. mem = [mem EXCEPT ![w] = mem[w]]
        BY <2>1
      <4> QED BY <2>1, <2>4, <4>1 DEF FoldIface, SkipIface, Dump, Inside
    <3>2. \A p \in Pub : InMonths(mem[w][p])
      BY <3>1 DEF MonthsInv
    <3>3. ASSUME NEW p \in Pub
          PROVE  InMonths(Folded(w, i)[p])
      <4>1. CASE p \in on[i] \ seen[w]
        <5>1. ctr[i][p] \in Reading /\ hs[i][p] \in Nat
          BY <1>1, KernelTypes
        <5>2. InMonths(foldPeer(mem[w][p], at[w], i, ctr[i][p], hs[i][p]))
          BY <2>1, <3>2, <5>1, FoldInMonths
        <5> QED BY <4>1, <5>2 DEF Folded
      <4>2. CASE p \notin on[i] \ seen[w]
        BY <3>2, <4>2 DEF Folded
      <4> QED BY <4>1, <4>2
    <3> QED BY <1>1, <2>1, <3>1, <3>2, <3>3, CallInMonths
  <2>5. CASE OpenTmp(w)
    <3> DEFINE got == IF target[w] # None THEN mem[w] ELSE [p \in Pub |-> prune(mem[w][p], at[w])]
    <3>1. /\ disk' = disk /\ pc' = [pc EXCEPT ![w] = "writing"] /\ pc[w] \in Inside
          /\ mem' = [mem EXCEPT ![w] = got]
      BY <2>5 DEF OpenTmp, Inside
    <3>2. \A p \in Pub : got[p] \in {mem[w][p], prune(mem[w][p], at[w])}
      OBVIOUS
    <3>3. \A p \in Pub : InMonths(mem[w][p]) /\ InMonths(prune(mem[w][p], at[w]))
      BY <2>1, <3>1, PruneInMonths DEF MonthsInv
    <3> HIDE DEF got
    <3>4. \A p \in Pub : InMonths(mem'[w][p])
      BY <2>1, <3>1, <3>2, <3>3
    <3> QED BY <1>1, <2>1, <3>1, <3>4, CallInMonths
  <2>6. CASE WriteTmp(w)
    <3>1. disk' = disk /\ mem' = mem /\ pc' = [pc EXCEPT ![w] = "renaming"] /\ pc[w] \in Inside
      BY <2>6 DEF WriteTmp, Inside
    <3>2. \A p \in Pub : InMonths(mem'[w][p])
      BY <3>1 DEF MonthsInv
    <3> QED BY <1>1, <2>1, <3>1, <3>2, CallInMonths
  <2>7. CASE Rename(w)
    <3>1. disk' = mem[w] /\ pc[w] \in Inside
      BY <2>7, RenameReads
    <3>2. \A p \in Pub : InMonths(backfill(disk'[p]))
      BY <2>1, <3>1, LoadInMonths DEF MonthsInv
    <3>3. /\ pc'[w] \notin Inside
          /\ \A v \in Writer \ {w} : pc'[v] = pc[v] /\ mem'[v] = mem[v]
      BY <2>1, <2>7 DEF Rename, Leave, Inside
    <3>4. \A v \in Writer : pc'[v] \in Inside => \A p \in Pub : InMonths(mem'[v][p])
      BY <3>3 DEF MonthsInv
    <3> QED BY <3>2, <3>4 DEF MonthsInv, InMonths
  <2>8. CASE Fail(w) \/ Crash(w)
    <3>1. /\ disk' = disk /\ pc'[w] \notin Inside
          /\ \A v \in Writer \ {w} : pc'[v] = pc[v] /\ mem'[v] = mem[v]
      BY <2>1, <2>8 DEF Fail, Crash, Leave, Inside
    <3> QED BY <1>1, <3>1, CallInMonths
  <2> QED BY <1>3, <2>2, <2>3, <2>4, <2>5, <2>6, <2>7, <2>8 DEF Step
<1> QED BY <1>2, <1>3 DEF Next

(***************************************************************************)
(* The theorems.                                                           *)
(***************************************************************************)
\* With a flock that works, the books are kept at every moment, in the file and in
\* every call, on a new installation and on an upgraded one.
THEOREM ReaderInvariant ==
  ASSUME ~FlockFails
  PROVE  UpgradeSpec => []ReaderInv
<1>1. Init \/ OldInit => ReaderInv
  BY BootReads
<1>2. ReaderInv /\ [Next]_vars => ReaderInv'
  BY ReaderStep
<1> QED BY <1>1, <1>2, PTL DEF UpgradeSpec

\* Every month holds its own hours, by the configured zone or, of hours before the
\* upgrade, by UTC, whatever snapshots, prunings, erasures and upgrades do (addDelta,
\* prune, loadLedger's backfill).
THEOREM HoursStayInTheirMonth ==
  ASSUME ~FlockFails
  PROVE  UpgradeSpec => []HoursInTheirMonth
<1>1. Init \/ OldInit => ReaderInv /\ MonthsInv
  <2> SUFFICES ASSUME Init \/ OldInit
               PROVE  MonthsInv
    BY BootReads
  <2>1. PICK l \in {newLedger, OldFile} : Boot(l)
    BY DEF Init, OldInit
  <2>2. backfill(Absent) = Absent
    BY AbsentType, BackfillIdle
  <2>3. \A p \in Pub : InMonths(backfill(l[p]))
    BY <2>2, AbsentInMonths, OldInMonths DEF newLedger
  <2> QED BY <2>1, <2>3 DEF Boot, MonthsInv, Inside
<1>2. ReaderInv /\ MonthsInv /\ [Next]_vars => (ReaderInv /\ MonthsInv)'
  BY ReaderStep, MonthsStep
<1>3. MonthsInv => HoursInTheirMonth
  BY HourSumIs DEF MonthsInv, InMonths, HoursInTheirMonth
<1> QED BY <1>1, <1>2, <1>3, PTL DEF UpgradeSpec

\* What a reader in the collector's zone sees nests: today in the month, the month
\* in the year, the year in all.
THEOREM RowsAlwaysNest ==
  ASSUME ~FlockFails, SameZone
  PROVE  UpgradeSpec => []RowsNest
<1>1. ReaderInv => RowsNest
  <2> SUFFICES ASSUME ReaderInv, NEW p \in Pub, NEW d \in Dir
               PROVE  LET e == backfill(disk[p])
                          shown == row(e, now, selMonth(now)) IN
                      /\ HourSum(e, TodayHours(now) \cap NewHours, d) <= shown.month[d]
                      /\ \A m \in availableMonths(disk) :
                           e.months[m][d] <= year(e, m)[d] /\ year(e, m)[d] <= e.total[d]
    BY DEF RowsNest
  <2> DEFINE e == backfill(disk[p])
             m0 == selMonth(now)
  <2>1. now \in Time /\ disk[p] \in Entry
    BY EntryTypes DEF ReaderInv, Typed, TypeOK
  <2>2. e \in Entry /\ Booked(e)
    BY <2>1, LoadedBooked DEF ReaderInv
  <2> HIDE DEF e
  <2>3. /\ \A h \in Hour : e.hours[h][d] \in Nat
        /\ \A m \in Month : e.months[m][d] \in Nat
        /\ e.total[d] \in Nat
    BY <2>2, EntryNumbers
  <2>4. m0 \in Month
    BY <2>1, CalendarFacts DEF selMonth
  <2>5. HourSum(e, TodayHours(now) \cap NewHours, d) <= e.months[m0][d]
    <3> DEFINE A == TodayHours(now) \cap NewHours
    <3>1. A \subseteq HoursOf(m0)
      BY <2>1 DEF SameZone, HoursOf
    <3>2. IsFiniteSet(A) /\ A \subseteq Hour
      BY CalendarFinite, FS_Subset
    <3> HIDE DEF A, m0
    <3>3. Sum(e.hours, A, d) <= Sum(e.hours, HoursOf(m0), d)
      <4> DEFINE f == e.hours
      <4>1. \A h \in HoursOf(m0) : f[h][d] \in Nat
        BY <2>3, CalendarFinite
      <4>2. \A h \in A : f[h][d] \in Nat /\ f[h][d] <= f[h][d]
        BY <2>3, <3>2
      <4> HIDE DEF f
      <4>3. Sum(f, A, d) <= Sum(f, HoursOf(m0), d)
        BY <3>1, <4>1, <4>2, CalendarFinite, SumMonotone
      <4> QED BY <4>3 DEF f
    <3>4. Sum(e.hours, HoursOf(m0), d) <= e.months[m0][d]
      BY <2>2, <2>4 DEF Booked
    <3>5. /\ Sum(e.hours, A, d) \in Nat /\ Sum(e.hours, HoursOf(m0), d) \in Nat
          /\ e.months[m0][d] \in Nat
      BY <2>3, <2>4, <3>2, CalendarFinite, SumType
    <3>6. Sum(e.hours, A, d) <= e.months[m0][d]
      BY <3>3, <3>4, <3>5
    <3> QED BY <3>6, HourSumIs DEF A
  <2>6. ASSUME NEW m \in Month
        PROVE  e.months[m][d] <= year(e, m)[d] /\ year(e, m)[d] <= e.total[d]
    <3> DEFINE Y == {k \in Month : YearOf[k] = YearOf[m]}
               f == e.months
    <3>1. year(e, m)[d] = Sum(f, Y, d)
      BY DEF year, Sum
    <3>2. Y \subseteq Month /\ m \in Y /\ IsFiniteSet(Y) /\ IsFiniteSet(Month)
      BY CalendarFinite, FS_Subset
    <3>3. Sum(f, Month, d) <= e.total[d]
      BY <2>2 DEF Booked
    <3>4. \A k \in Month : f[k][d] \in Nat
      BY <2>3
    <3> HIDE DEF f, Y
    <3>5. Sum(f, Y, d) = f[m][d] + Sum(f, Y \ {m}, d)
      BY <3>2, <3>4, SumElement
    <3>6. Sum(f, Y \ {m}, d) \in Nat /\ Sum(f, Y, d) \in Nat /\ Sum(f, Month, d) \in Nat
      <4>1. IsFiniteSet(Y \ {m})
        BY <3>2, FS_Subset
      <4> QED BY <3>2, <3>4, <4>1, SumType
    <3>7. Sum(f, Y, d) <= Sum(f, Month, d)
      <4>1. \A k \in Y : f[k][d] \in Nat /\ f[k][d] <= f[k][d]
        BY <3>2, <3>4
      <4> QED BY <3>2, <3>4, <4>1, SumMonotone
    <3>8. f[m][d] <= Sum(f, Y, d) /\ Sum(f, Y, d) <= e.total[d]
      BY <2>3, <3>2, <3>3, <3>4, <3>5, <3>6, <3>7
    <3> QED BY <3>1, <3>8 DEF f
  <2>7. row(e, now, m0).month = e.months[m0]
    BY DEF row
  <2>8. availableMonths(disk) \subseteq Month
    BY DEF availableMonths
  <2> QED BY <2>5, <2>6, <2>7, <2>8 DEF e
<1> QED BY <1>1, ReaderInvariant, PTL

(***************************************************************************)
(* The local day.                                                          *)
(***************************************************************************)
\* A day has a first moment.
LEMMA DayStarts ==
  ASSUME NEW t \in Time
  PROVE  /\ DayStart(t) \in Time /\ DayOf[DayStart(t)] = DayOf[t]
         /\ \A u \in Time : DayOf[u] = DayOf[t] => DayStart(t) <= u
<1> DEFINE D == {s \in Time : DayOf[s] = DayOf[t]}
<1>1. D # {} /\ D \subseteq Nat
  BY DEF Time
<1>2. PICK s \in D : \A u \in D : ~(<<u, s>> \in OpToRel(<, Nat))
  <2> HIDE DEF D
  <2> QED BY <1>1, NatLessThanWellFounded, WFMin
<1>3. ASSUME NEW u \in D
      PROVE  s <= u
  <2>1. s \in Nat /\ u \in Nat
    BY <1>1
  <2>2. ~(u < s)
    <3> HIDE DEF D
    <3> QED BY <1>2, <2>1, Zenon DEF OpToRel
  <2> QED BY <2>1, <2>2
<1>4. \E x \in Time : DayOf[x] = DayOf[t] /\ \A u \in Time : DayOf[u] = DayOf[t] => x <= u
  BY <1>2, <1>3
<1> QED BY <1>4 DEF DayStart

\* A moment of an earlier day lies before the hours of today; one of this day has
\* the same hours of today, is in one of them, and prune leaves them all.
LEMMA HoursOfToday ==
  ASSUME WholeHours, NEW s \in Time, NEW t \in Time
  PROVE  /\ DayOf[s] < DayOf[t] => \A h \in TodayHours(t) : HourOf[s] < h
         /\ DayOf[s] = DayOf[t] => /\ TodayHours(s) = TodayHours(t)
                                   /\ HourOf[s] \in TodayHours(t)
         /\ KeepsTheDay /\ DayOf[s] = DayOf[t] =>
              \A h \in TodayHours(t) : h >= HourOf[s] - KeepHours
<1> DEFINE a == DayStart(t)
<1>1. /\ a \in Time /\ DayOf[a] = DayOf[t]
      /\ \A u \in Time : DayOf[u] = DayOf[t] => a <= u
  BY DayStarts
<1>2. /\ HourOf[a] \in Nat /\ HourOf[s] \in Nat /\ KeepHours \in Nat
  BY <1>1, CalendarAssumption
<1>3. \A h \in TodayHours(t) : h \in Int /\ HourOf[a] <= h
  BY DEF TodayHours, Hour
<1> HIDE DEF a
<1>4. ASSUME DayOf[s] < DayOf[t], NEW h \in TodayHours(t)
      PROVE  HourOf[s] < h
  <2>1. HourOf[s] < HourOf[a]
    BY <1>1, <1>4 DEF WholeHours
  <2> QED BY <1>2, <1>3, <2>1
<1>5. ASSUME KeepsTheDay, DayOf[s] = DayOf[t], NEW h \in TodayHours(t)
      PROVE  h >= HourOf[s] - KeepHours
  <2>1. HourOf[s] - HourOf[a] <= KeepHours
    BY <1>1, <1>5 DEF KeepsTheDay
  <2> QED BY <1>2, <1>3, <2>1
<1>6. ASSUME DayOf[s] = DayOf[t]
      PROVE  TodayHours(s) = TodayHours(t) /\ HourOf[s] \in TodayHours(t)
  <2>1. DayStart(s) = a
    <3> DEFINE b == DayStart(s)
    <3>1. b \in Time /\ DayOf[b] = DayOf[s] /\ \A u \in Time : DayOf[u] = DayOf[s] => b <= u
      BY DayStarts
    <3> HIDE DEF b
    <3>2. a <= b /\ b <= a /\ a \in Nat /\ b \in Nat
      BY <1>1, <1>6, <3>1 DEF Time
    <3> QED BY <3>2 DEF b
  <2>2. TodayHours(s) = TodayHours(t)
    BY <1>6, <2>1 DEF TodayHours, a
  <2>3. HourOf[a] <= HourOf[s]
    BY <1>1, <1>6, CalendarAssumption
  <2>4. HourOf[s] \in Hour /\ \A u \in Time : DayOf[u] > DayOf[t] => HourOf[s] < HourOf[u]
    BY <1>6, CalendarFacts, DayAssumption DEF WholeHours
  <2> QED BY <2>2, <2>3, <2>4 DEF TodayHours, a
<1> QED BY <1>4, <1>5, <1>6

\* What a reader is shown of the day is the sum of the hours in the file.
LEMMA TodayIsSum ==
  ASSUME NEW e \in Entry, NEW t \in Time, Booked(e), Past(e, t)
  PROVE  /\ today(backfill(e), t) = [d \in Dir |-> Sum(e.hours, TodayHours(t), d)]
         /\ ~e.known => today(backfill(e), t) = Zero
<1>1. backfill(e).hours = e.hours
  BY LoadedBooked
<1>2. today(backfill(e), t) = [d \in Dir |-> Sum(e.hours, TodayHours(t), d)]
  BY <1>1, HourSumIs DEF today
<1>3. ASSUME ~e.known
      PROVE  \A d \in Dir : Sum(e.hours, TodayHours(t), d) = 0
  <2>1. \A h \in Hour, d \in Dir : e.hours[h][d] = 0
    BY <1>3 DEF Booked, Absent, NoHours, Zero
  <2> QED BY <2>1, CalendarFinite, SumZero
<1> QED BY <1>2, <1>3 DEF Zero

\* What a snapshot of time s makes of today, seen at time t.
LEMMA SnapshotToday ==
  ASSUME WholeHours, KeepsTheDay, NEW e \in Entry, NEW f \in Entry,
         NEW s \in Time, NEW t \in Time, s <= t, DayGrown(e, f, s), NEW d \in Dir
  PROVE  Sum(f.hours, TodayHours(t), d)
           = Sum(e.hours, TodayHours(t), d) + IF DayOf[s] = DayOf[t] THEN Gain(e, f)[d] ELSE 0
<1> DEFINE g == f.hours
           k == e.hours
           n == Gain(e, f)[d]
           T == TodayHours(t)
<1>1. /\ \A h \in T : k[h][d] \in Nat
      /\ IsFiniteSet(T) /\ T \subseteq Hour /\ n \in Nat
      /\ HourOf[s] \in Nat /\ KeepHours \in Nat /\ Hour \subseteq Int
  BY CalendarFinite, EntryNumbers, CalendarAssumption DEF DayGrown, Hour
<1>2. \A h \in Hour : h >= HourOf[s] - KeepHours => g[h][d] = k[h][d] + IF h = HourOf[s] THEN n ELSE 0
  BY DEF DayGrown
<1>3. Sum(k, T, d) \in Nat
  BY <1>1, SumType
<1> HIDE DEF g, k, n, T
<1>4. IsFiniteSet(T) /\ n \in Nat
  BY <1>1
<1>5. ASSUME DayOf[s] = DayOf[t]
      PROVE  Sum(g, T, d) = Sum(k, T, d) + IF DayOf[s] = DayOf[t] THEN n ELSE 0
  <2>1. HourOf[s] \in T /\ \A h \in T : h >= HourOf[s] - KeepHours
    BY <1>5, HoursOfToday DEF T
  <2>2. g[HourOf[s]][d] = k[HourOf[s]][d] + n /\ \A h \in T \ {HourOf[s]} : g[h][d] = k[h][d]
    BY <1>1, <1>2, <2>1
  <2> DEFINE x == HourOf[s]
  <2>3. /\ x \in T /\ g[x][d] = k[x][d] + n /\ \A h \in T \ {x} : g[h][d] = k[h][d]
        /\ \A h \in T : k[h][d] \in Nat
    BY <1>1, <2>1, <2>2
  <2> HIDE DEF x
  <2>4. Sum(g, T, d) = Sum(k, T, d) + IF x \in T THEN n ELSE 0
    BY <1>4, <2>3, SumChange
  <2>5. Sum(g, T, d) = Sum(k, T, d) + IF DayOf[s] = DayOf[t] THEN n ELSE 0
    BY <1>5, <2>3, <2>4
  <2> QED BY <2>5
<1>6. ASSUME DayOf[s] < DayOf[t]
      PROVE  Sum(g, T, d) = Sum(k, T, d) + IF DayOf[s] = DayOf[t] THEN n ELSE 0
  <2>1. \A h \in T : HourOf[s] < h
    BY <1>6, HoursOfToday DEF T
  <2>2. \A h \in T : k[h][d] \in Nat /\ k[h][d] = g[h][d]
    BY <1>1, <1>2, <2>1
  <2>3. Sum(k, T, d) = Sum(g, T, d)
    BY <1>4, <2>2, SumSame
  <2>4. DayOf[s] # DayOf[t]
    BY <1>6, DayAssumption
  <2> QED BY <1>3, <2>3, <2>4
<1>7. DayOf[s] <= DayOf[t] /\ DayOf[s] \in Nat /\ DayOf[t] \in Nat
  BY DayAssumption
<1>8. Sum(g, T, d) = Sum(k, T, d) + IF DayOf[s] = DayOf[t] THEN n ELSE 0
  BY <1>5, <1>6, <1>7
<1> QED BY <1>8, Zenon DEF g, k, n, T

\* The file changes only where a call renames its ledger over it; none else is about to.
LEMMA FileChanges ==
  ASSUME ~FlockFails, ReaderInv, Next, disk' # disk
  PROVE  /\ now' = now
         /\ \E w \in Writer : /\ Rename(w)
                              /\ \A v \in Writer : pc[v] = "renaming" <=> v = w
<1> USE DEF kernel, ghosts, files
<1>1. PICK w \in Writer : Rename(w)
  <2>1. ~Environment
    BY DEF Environment, Traffic, Handshake, Attach, Detach, Restart, Recreate, Tick
  <2>2. PICK w \in Writer : Step(w)
    BY <2>1 DEF Next
  <2>3. Rename(w)
    BY <2>2 DEF Step, StartCollect, StartForget, Load, FoldIface, SkipIface, Dump, OpenTmp,
                WriteTmp, Fail, Crash
  <2> QED BY <2>3
<1>2. pc[w] = "renaming" /\ now' = now
  BY <1>1 DEF Rename
<1>3. \A v \in Writer : pc[v] = "renaming" => v = w
  BY <1>2 DEF ReaderInv, LockInv, Inside
<1> QED BY <1>1, <1>2, <1>3

\* Every step that changes the file or the clock makes of today what it must.
LEMMA DayStep ==
  ASSUME ~FlockFails, WholeHours, KeepsTheDay, ReaderInv, Next, disk' # disk \/ now' # now
  PROVE  TodayCoversTheDay
<1>1. ReaderInv'
  BY ReaderStep
<1>2. now \in Time /\ now' \in Time
  BY <1>1 DEF ReaderInv, Typed, TypeOK
<1>3. ASSUME NEW p \in Pub
      PROVE  /\ disk[p] \in Entry /\ Booked(disk[p]) /\ Past(disk[p], now)
             /\ disk'[p] \in Entry /\ Booked(disk'[p]) /\ Past(disk'[p], now')
  BY <1>1 DEF ReaderInv, Typed, TypeOK, LedgerIsWhole, LedgerType
<1>4. ASSUME NEW p \in Pub
      PROVE  /\ TodayOf(p) = [d \in Dir |-> Sum(disk[p].hours, TodayHours(now), d)]
             /\ TodayOf(p)' = [d \in Dir |-> Sum(disk'[p].hours, TodayHours(now'), d)]
             /\ ~disk'[p].known => TodayOf(p)' = Zero
  <2>1. /\ today(backfill(disk[p]), now) = [d \in Dir |-> Sum(disk[p].hours, TodayHours(now), d)]
        /\ today(backfill(disk'[p]), now') = [d \in Dir |-> Sum(disk'[p].hours, TodayHours(now'), d)]
        /\ ~disk'[p].known => today(backfill(disk'[p]), now') = Zero
    BY <1>2, <1>3, TodayIsSum
  <2> QED BY <2>1 DEF TodayOf
<1> SUFFICES ASSUME NEW p \in Pub
             PROVE  TodayOf(p)' = IF DayOf[now'] # DayOf[now] \/ ~disk'[p].known THEN Zero
                                  ELSE IF SavesToday THEN Plus(TodayOf(p), Growth(p))
                                  ELSE TodayOf(p)
  BY DEF TodayCoversTheDay
<1>5. CASE disk' = disk
  <2>1. now' # now /\ ~SavesToday
    BY <1>5 DEF SavesToday
  <2>2. now' = now + 1
    <3>1. CASE Environment
      BY <2>1, <3>1 DEF Environment, Traffic, Handshake, Attach, Detach, Restart, Recreate, Tick
    <3>2. ASSUME NEW w \in Writer, Step(w)
          PROVE  now' = now
      BY <3>2 DEF Step, StartCollect, StartForget, Load, FoldIface, SkipIface, Dump, OpenTmp,
                  WriteTmp, Rename, Fail, Crash, kernel
    <3> QED BY <2>1, <3>1, <3>2 DEF Next
  <2>3. now <= now'
    BY <1>2, <2>2 DEF Time
  <2>4. CASE DayOf[now'] = DayOf[now]
    <3>1. TodayHours(now') = TodayHours(now)
      BY <1>2, <2>4, HoursOfToday
    <3>2. [d \in Dir |-> Sum(disk'[p].hours, TodayHours(now'), d)]
            = [d \in Dir |-> Sum(disk[p].hours, TodayHours(now), d)]
      BY <1>5, <3>1, Zenon
    <3>3. TodayOf(p)' = TodayOf(p)
      BY <1>4, <3>2, Zenon
    <3> QED BY <1>4, <2>1, <2>4, <3>3
  <2>5. CASE DayOf[now'] # DayOf[now]
    <3>1. DayOf[now] < DayOf[now']
      BY <1>2, <2>3, <2>5, DayAssumption
    <3> DEFINE T == TodayHours(now')
               k == disk'[p].hours
    <3>2. \A h \in T : HourOf[now] < h /\ h \in Hour
      BY <1>2, <3>1, HoursOfToday, CalendarFinite
    <3>3. \A h \in Hour : h > HourOf[now] => k[h] = Zero
      <4>1. \A h \in Hour : k[h] # Zero => h <= HourOf[now]
        BY <1>3, <1>5 DEF Past
      <4>2. HourOf[now] \in Int /\ Hour \subseteq Int
        BY <1>2, CalendarAssumption DEF Hour
      <4> HIDE DEF k
      <4> QED BY <4>1, <4>2
    <3>4. \A h \in T, d \in Dir : k[h][d] = 0
      BY <3>2, <3>3 DEF Zero
    <3>5. IsFiniteSet(T)
      BY CalendarFinite
    <3> HIDE DEF T, k
    <3>6. \A d \in Dir : Sum(k, T, d) = 0
      BY <3>4, <3>5, SumZero
    <3>7. TodayOf(p)' = Zero
      BY <1>4, <3>6 DEF T, k, Zero
    <3> QED BY <2>5, <3>7
  <2> QED BY <2>4, <2>5
<1>6. CASE disk' # disk
  <2>1. now' = now
    BY <1>6, FileChanges
  <2>2. PICK w \in Writer : Rename(w) /\ \A v \in Writer : pc[v] = "renaming" <=> v = w
    BY <1>6, FileChanges
  <2>3. SavesToday <=> DayOf[at[w]] = DayOf[now]
    BY <1>6, <2>2 DEF SavesToday
  <2>4. disk' = mem[w] /\ pc[w] \in Inside
    BY <2>2, RenameReads
  <2>5. at[w] \in Time /\ at[w] <= now /\ CallReads(w)
    BY <2>4 DEF ReaderInv, CallReads, Typed, TypeOK
  <2>6. CASE ~disk'[p].known
    BY <1>4, <2>6
  <2>7. CASE disk'[p].known
    <3>1. p # target[w]
      BY <2>4, <2>5, <2>7 DEF CallReads, Absent
    <3>2. DayGrown(disk[p], disk'[p], at[w])
      BY <2>4, <2>5, <3>1 DEF CallReads
    <3>3. Growth(p) = Gain(disk[p], disk'[p])
      BY DEF Growth, Gain
    <3> DEFINE n(d) == IF DayOf[at[w]] = DayOf[now] THEN Gain(disk[p], disk'[p])[d] ELSE 0
    <3>4. \A d \in Dir : Sum(disk'[p].hours, TodayHours(now), d)
                           = Sum(disk[p].hours, TodayHours(now), d) + n(d)
      BY <1>2, <1>3, <2>5, <3>2, SnapshotToday
    <3>5. TodayOf(p)' = [d \in Dir |-> TodayOf(p)[d] + n(d)]
      BY <1>4, <2>1, <3>4
    <3>6. \A d \in Dir : TodayOf(p)[d] \in Nat
      BY <1>2, <1>3, <1>4, CalendarFinite, EntryNumbers, SumType
    <3>7. TodayOf(p)' = IF SavesToday THEN Plus(TodayOf(p), Growth(p)) ELSE TodayOf(p)
      BY <1>4, <2>3, <3>3, <3>5, <3>6 DEF Plus
    <3> QED BY <2>1, <2>7, <3>7
  <2> QED BY <2>6, <2>7
<1> QED BY <1>5, <1>6

\* "today" must cover the local day exactly": where midnights fall on whole hours and
\* prune leaves a day, whatever a snapshot books during a local day is in today until
\* midnight, nothing else is, and midnight takes all of it.
THEOREM TodayIsAlwaysExact ==
  ASSUME ~FlockFails, WholeHours, KeepsTheDay
  PROVE  UpgradeSpec => TodayIsExact
<1>1. ReaderInv /\ [Next]_vars => [disk' # disk \/ now' # now => TodayCoversTheDay]_vars
  BY DayStep
<1> QED BY <1>1, ReaderInvariant, PTL DEF UpgradeSpec, TodayIsExact
=============================================================================
