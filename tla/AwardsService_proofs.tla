----------------------- MODULE AwardsService_proofs ------------------------
(***************************************************************************)
(* The loyalty programme, for any number of calls, clients, accounts, rows *)
(* and days: its tables keep their types however the calls interleave, and *)
(* calls that come one at a time conserve miles, leave inactive accounts   *)
(* alone and spend in the order of their strategy.                         *)
(*                                                                         *)
(* The argument: what a call keeps in memory is a copy of an account of    *)
(* the tables (IsCopyOf).  One call at a time, the copy is of the rows the *)
(* tables still hold (IsCurrent, SeesTheTables), so that its save replaces *)
(* the rows of that account by those of the copy and touches no other      *)
(* (WrittenAlone, OtherRows).  What all accounts hold then changes by what *)
(* the copy holds more than its account (HeldAfterSave), and the books     *)
(* balance after every save that is still to come (Balanced).              *)
(*                                                                         *)
(* removeMiles and moveMilesTo are loops.  Their folds and recursive       *)
(* functions are tables of values on the subsets, or initial segments, of  *)
(* what they run over (Sums, Debts, Turns); such a table exists because it *)
(* exists on every smaller subset (SubsetInduction), and its facts are     *)
(* proved from one entry to the next (StepInduction).                      *)
(***************************************************************************)
EXTENDS AwardsService, SequenceTheorems, FiniteSetTheorems, TLAPS

-----------------------------------------------------------------------------
(* Induction over the subsets of a finite set                               *)

\* What holds of a subset when it holds of its strict subsets holds of all.
LEMMA SubsetInduction ==
  ASSUME NEW S, IsFiniteSet(S), NEW A,
         \A T \in SUBSET S : (\A U \in SUBSET T : U # T => U \in A) => T \in A
  PROVE  SUBSET S \subseteq A
<1>. DEFINE R == StrictSubsetOrdering(S)
            F == FiniteSubsetsOf(S)
            B == (SUBSET S) \ A
<1>. SUFFICES ASSUME B # {} PROVE FALSE
  OBVIOUS
<1>1. IsWellFoundedOn(R, F)
  BY FS_StrictSubsetOrderingWellFounded
<1>2. B \subseteq F
  BY FS_FiniteSubsetsOfFinite
<1>3. PICK T \in B : \A U \in B : ~(<<U, T>> \in R)
  <2>. HIDE DEF R, F, B
  <2>. QED
    BY <1>1, <1>2, WFMin
<1>4. ASSUME NEW U \in SUBSET T, U # T PROVE U \in A
  <2>1. U \in SUBSET S /\ T \in SUBSET S
    OBVIOUS
  <2>2. <<U, T>> \in R
    BY <1>4, <2>1 DEF StrictSubsetOrdering
  <2>. QED
    BY <1>3, <2>1, <2>2
<1>. QED
  BY <1>4

\* What holds of 0, and of the successor of what it holds of, holds up to n.
LEMMA StepInduction ==
  ASSUME NEW n \in Nat, NEW A, 0 \in A,
         \A m \in Nat : m < n /\ m \in A => m + 1 \in A
  PROVE  0 .. n \subseteq A
<1>. DEFINE S == 1 .. n
            B == {T \in SUBSET S : Cardinality(T) \in A}
<1>1. IsFiniteSet(S) /\ Cardinality(S) = n
  BY FS_Interval
<1>2. ASSUME NEW T \in SUBSET S, \A U \in SUBSET T : U # T => U \in B
      PROVE  T \in B
  <2>1. IsFiniteSet(T) /\ Cardinality(T) \in Nat /\ Cardinality(T) <= n
    <3>. HIDE DEF S
    <3>. QED
      BY <1>1, FS_Subset, FS_CardinalityType
  <2>2. CASE T = {}
    BY <2>2, FS_EmptySet
  <2>3. CASE T # {}
    <3>1. PICK x \in T : TRUE
      BY <2>3
    <3>2. /\ T \ {x} \in B
          /\ Cardinality(T \ {x}) = Cardinality(T) - 1
          /\ Cardinality(T \ {x}) \in Nat
      BY <1>2, <2>1, <3>1, FS_RemoveElement, FS_CardinalityType
    <3>3. Cardinality(T \ {x}) \in A /\ Cardinality(T \ {x}) < n
      BY <2>1, <3>2
    <3>4. Cardinality(T \ {x}) + 1 \in A
      BY <3>2, <3>3
    <3>. QED
      BY <2>1, <3>2, <3>4
  <2>. QED
    BY <2>2, <2>3
<1>3. SUBSET S \subseteq B
  <2>. HIDE DEF S, B
  <2>. QED
    BY <1>1, <1>2, SubsetInduction
<1>4. ASSUME NEW m \in 0 .. n PROVE m \in A
  <2>1. 1 .. m \in SUBSET S
    OBVIOUS
  <2>2. Cardinality(1 .. m) = m
    BY FS_Interval
  <2>. QED
    BY <1>3, <2>1, <2>2
<1>. QED
  BY <1>4

-----------------------------------------------------------------------------
(* Sums over finite sets                                                    *)

\* The recursion behind SumFunctionOnSet: h sums f over each subset of S.
Sums(f, S, h) ==
  h = [s \in SUBSET S |->
         IF s = {} THEN 0
         ELSE f[CHOOSE x \in s : TRUE] + h[s \ {CHOOSE x \in s : TRUE}]]

\* The fold is the last value of such a table, when there is one.
LEMMA SumIsSums ==
  ASSUME NEW f, NEW S, \E h : Sums(f, S, h)
  PROVE  \E h : Sums(f, S, h) /\ SumFunctionOnSet(f, S) = h[S]
<1>. DEFINE g == CHOOSE h : Sums(f, S, h)
<1>1. Sums(f, S, g)
  OBVIOUS
<1>2. SumFunctionOnSet(f, S) = g[S]
  BY DEF SumFunctionOnSet, FoldFunctionOnSet, MapThenFoldSet, Sums
<1>. QED
  BY <1>1, <1>2

\* There is one for every finite set.
LEMMA SumsExist ==
  ASSUME NEW f, NEW S, IsFiniteSet(S)
  PROVE  \E h : Sums(f, S, h)
<1>. DEFINE c(s) == CHOOSE x \in s : TRUE
            Next1(h, s) == IF s = {} THEN 0 ELSE f[c(s)] + h[s \ {c(s)}]
            Up(n, h) == \A s \in SUBSET S : Cardinality(s) <= n => h[s] = Next1(h, s)
            A == {n \in Nat : \E h : Up(n, h)}
<1>1. Cardinality(S) \in Nat
  BY FS_CardinalityType
<1>2. \A s \in SUBSET S : IsFiniteSet(s) /\ Cardinality(s) \in Nat
                            /\ Cardinality(s) <= Cardinality(S)
  BY FS_Subset, FS_CardinalityType
<1>3. \A s \in SUBSET S : s # {} => /\ c(s) \in s /\ s \ {c(s)} \in SUBSET S
                                    /\ Cardinality(s \ {c(s)}) = Cardinality(s) - 1
  BY <1>2, FS_RemoveElement
<1>4. 0 \in A
  <2>. DEFINE h == [s \in SUBSET S |-> 0]
  <2>1. ASSUME NEW s \in SUBSET S, Cardinality(s) <= 0 PROVE s = {}
    BY <1>2, <2>1, FS_EmptySet
  <2>2. Up(0, h)
    BY <2>1
  <2>. QED
    BY <2>2
<1>5. ASSUME NEW n \in Nat, n \in A PROVE n + 1 \in A
  <2>1. PICK h : Up(n, h)
    BY <1>5
  <2>. DEFINE g == [s \in SUBSET S |-> Next1(h, s)]
  <2>2. ASSUME NEW s \in SUBSET S, Cardinality(s) <= n + 1 PROVE g[s] = Next1(g, s)
    <3>1. CASE s = {}
      BY <3>1
    <3>2. CASE s # {}
      <4>. DEFINE t == s \ {c(s)}
      <4>1. t \in SUBSET S /\ Cardinality(t) <= n
        BY <1>2, <1>3, <2>2, <3>2
      <4>2. g[t] = h[t]
        BY <2>1, <4>1
      <4>. HIDE DEF t
      <4>3. g[s] = f[c(s)] + h[t]
        BY <3>2 DEF t
      <4>. QED
        BY <3>2, <4>2, <4>3 DEF t
    <3>. QED
      BY <3>1, <3>2
  <2>3. Up(n + 1, g)
    BY <2>2
  <2>. HIDE DEF g, Up
  <2>. QED
    BY <2>3
<1>6. Cardinality(S) \in A
  <2>. HIDE DEF A
  <2>1. 0 .. Cardinality(S) \subseteq A
    BY <1>1, <1>4, <1>5, StepInduction
  <2>. QED
    BY <1>1, <2>1
<1>7. PICK h : Up(Cardinality(S), h)
  BY <1>6
<1>. DEFINE g == [s \in SUBSET S |-> h[s]]
<1>8. \A s \in SUBSET S : h[s] = Next1(h, s)
  BY <1>2, <1>7
<1>9. \A s \in SUBSET S : g[s] = Next1(g, s)
  BY <1>3, <1>8
<1>10. g = [s \in SUBSET S |-> Next1(g, s)]
  BY <1>9
<1>. QED
  BY <1>10 DEF Sums

\* All its values are sums.
LEMMA SumsAgree ==
  ASSUME NEW f, NEW S, IsFiniteSet(S), NEW h, Sums(f, S, h), NEW T \in SUBSET S
  PROVE  SumFunctionOnSet(f, T) = h[T]
<1>. DEFINE c(s) == CHOOSE x \in s : TRUE
<1>1. IsFiniteSet(T)
  BY FS_Subset
<1>2. PICK g : Sums(f, T, g) /\ SumFunctionOnSet(f, T) = g[T]
  BY <1>1, SumsExist, SumIsSums
<1>. DEFINE A == {U \in SUBSET T : g[U] = h[U]}
<1>3. ASSUME NEW U \in SUBSET T, \A V \in SUBSET U : V # U => V \in A
      PROVE  U \in A
  <2>1. U \in SUBSET S
    OBVIOUS
  <2>2. CASE U = {}
    BY <1>2, <2>1, <2>2 DEF Sums
  <2>3. CASE U # {}
    <3>1. c(U) \in U /\ U \ {c(U)} \in SUBSET U /\ U \ {c(U)} # U
      BY <2>3
    <3>2. g[U \ {c(U)}] = h[U \ {c(U)}]
      BY <1>3, <3>1
    <3>3. g[U] = f[c(U)] + g[U \ {c(U)}]
      BY <1>2, <2>3 DEF Sums
    <3>4. h[U] = f[c(U)] + h[U \ {c(U)}]
      BY <2>1, <2>3 DEF Sums
    <3>. QED
      BY <3>2, <3>3, <3>4
  <2>. QED
    BY <2>2, <2>3
<1>4. SUBSET T \subseteq A
  <2>. HIDE DEF A
  <2>. QED
    BY <1>1, <1>3, SubsetInduction
<1>. QED
  BY <1>2, <1>4

\* A sum takes any element first.
LEMMA SumRecursion ==
  ASSUME NEW f, NEW T, IsFiniteSet(T)
  PROVE  /\ SumFunctionOnSet(f, {}) = 0
         /\ T # {} => \E x \in T :
              SumFunctionOnSet(f, T) = f[x] + SumFunctionOnSet(f, T \ {x})
<1>. DEFINE c(s) == CHOOSE x \in s : TRUE
<1>1. PICK h : Sums(f, T, h)
  BY SumsExist
<1>2. \A U \in SUBSET T : SumFunctionOnSet(f, U) = h[U]
  BY <1>1, SumsAgree
<1>3. h[{}] = 0
  BY <1>1 DEF Sums
<1>4. ASSUME T # {} PROVE c(T) \in T /\ h[T] = f[c(T)] + h[T \ {c(T)}]
  BY <1>1, <1>4 DEF Sums
<1>. QED
  BY <1>2, <1>3, <1>4

\* The sum of nothing.
LEMMA SumOfEmpty == ASSUME NEW f PROVE SumFunctionOnSet(f, {}) = 0
BY SumRecursion, FS_EmptySet

\* A sum of naturals is a natural, and a sum of integers an integer.
LEMMA SumType ==
  ASSUME NEW f, NEW T, IsFiniteSet(T), NEW N \in {Nat, Int}, \A x \in T : f[x] \in N
  PROVE  SumFunctionOnSet(f, T) \in N
<1>. DEFINE A == {U \in SUBSET T : SumFunctionOnSet(f, U) \in N}
<1>1. ASSUME NEW U \in SUBSET T, \A V \in SUBSET U : V # U => V \in A
      PROVE  U \in A
  <2>1. IsFiniteSet(U)
    BY FS_Subset
  <2>2. CASE U = {}
    BY <2>2, SumOfEmpty
  <2>3. CASE U # {}
    <3>1. PICK x \in U :
            SumFunctionOnSet(f, U) = f[x] + SumFunctionOnSet(f, U \ {x})
      BY <2>1, <2>3, SumRecursion
    <3>2. U \ {x} \in A
      BY <1>1
    <3>3. f[x] \in N /\ SumFunctionOnSet(f, U \ {x}) \in N
      BY <3>2
    <3>. QED
      BY <3>1, <3>3
  <2>. QED
    BY <2>2, <2>3
<1>2. SUBSET T \subseteq A
  <2>. HIDE DEF A
  <2>. QED
    BY <1>1, SubsetInduction
<1>. QED
  BY <1>2

\* Any term can be taken out of a sum first.
LEMMA SumRemove ==
  ASSUME NEW f, NEW T, IsFiniteSet(T), \A x \in T : f[x] \in Int, NEW y \in T
  PROVE  SumFunctionOnSet(f, T) = f[y] + SumFunctionOnSet(f, T \ {y})
<1>. DEFINE V(U) == SumFunctionOnSet(f, U)
            A == {U \in SUBSET T : \A x \in U : V(U) = f[x] + V(U \ {x})}
<1>1. \A U \in SUBSET T : IsFiniteSet(U) /\ V(U) \in Int
  BY SumType, FS_Subset
<1>2. ASSUME NEW U \in SUBSET T, \A W \in SUBSET U : W # U => W \in A
      PROVE  U \in A
  <2>. SUFFICES ASSUME NEW x \in U PROVE V(U) = f[x] + V(U \ {x})
    OBVIOUS
  <2>1. PICK z \in U : V(U) = f[z] + V(U \ {z})
    BY <1>1, SumRecursion
  <2>2. CASE z = x
    BY <2>1, <2>2
  <2>3. CASE z # x
    <3>. DEFINE W == U \ {x, z}
    <3>1. U \ {x} \in A /\ U \ {z} \in A
      BY <1>2
    <3>2. (U \ {z}) \ {x} = W /\ (U \ {x}) \ {z} = W
      OBVIOUS
    <3>3. V(U \ {z}) = f[x] + V(W) /\ V(U \ {x}) = f[z] + V(W)
      BY <2>3, <3>1, <3>2
    <3>4. f[x] \in Int /\ f[z] \in Int /\ V(W) \in Int
      BY <1>1
    <3>. QED
      BY <2>1, <3>3, <3>4
  <2>. QED
    BY <2>2, <2>3
<1>3. SUBSET T \subseteq A
  <2>. HIDE DEF A
  <2>. QED
    BY <1>2, SubsetInduction
<1>. QED
  BY <1>3

\* The same, with a term that joins.
LEMMA SumAdd ==
  ASSUME NEW f, NEW T, IsFiniteSet(T), \A x \in T : f[x] \in Int,
         NEW y, y \notin T, f[y] \in Int
  PROVE  SumFunctionOnSet(f, T \union {y}) = f[y] + SumFunctionOnSet(f, T)
<1>1. IsFiniteSet(T \union {y})
  BY FS_AddElement
<1>2. (T \union {y}) \ {y} = T
  OBVIOUS
<1>3. SumFunctionOnSet(f, T \union {y})
        = f[y] + SumFunctionOnSet(f, (T \union {y}) \ {y})
  BY <1>1, SumRemove
<1>. QED
  BY <1>2, <1>3

\* Functions that agree on a set have the same sum over it.
LEMMA SumSame ==
  ASSUME NEW f, NEW g, NEW T, IsFiniteSet(T),
         \A x \in T : f[x] \in Int /\ f[x] = g[x]
  PROVE  SumFunctionOnSet(f, T) = SumFunctionOnSet(g, T)
<1>. DEFINE A == {U \in SUBSET T :
                    SumFunctionOnSet(f, U) = SumFunctionOnSet(g, U)}
<1>1. ASSUME NEW U \in SUBSET T, \A W \in SUBSET U : W # U => W \in A
      PROVE  U \in A
  <2>1. IsFiniteSet(U)
    BY FS_Subset
  <2>2. CASE U = {}
    BY <2>2, SumOfEmpty
  <2>3. CASE U # {}
    <3>1. PICK x \in U : TRUE
      BY <2>3
    <3>2. SumFunctionOnSet(f, U \ {x}) = SumFunctionOnSet(g, U \ {x})
      BY <1>1
    <3>3. SumFunctionOnSet(f, U) = f[x] + SumFunctionOnSet(f, U \ {x})
      BY <2>1, SumRemove
    <3>4. SumFunctionOnSet(g, U) = g[x] + SumFunctionOnSet(g, U \ {x})
      <4>1. \A y \in U : g[y] \in Int
        OBVIOUS
      <4>. QED
        BY <2>1, <4>1, SumRemove
    <3>. QED
      BY <3>2, <3>3, <3>4
  <2>. QED
    BY <2>2, <2>3
<1>2. SUBSET T \subseteq A
  <2>. HIDE DEF A
  <2>. QED
    BY <1>1, SubsetInduction
<1>. QED
  BY <1>2

\* The sum over two sets that have nothing in common.
LEMMA SumUnion ==
  ASSUME NEW f, NEW S, IsFiniteSet(S), NEW T, IsFiniteSet(T), S \cap T = {},
         \A x \in S \union T : f[x] \in Int
  PROVE  SumFunctionOnSet(f, S \union T)
           = SumFunctionOnSet(f, S) + SumFunctionOnSet(f, T)
<1>. DEFINE V(U) == SumFunctionOnSet(f, U)
            A == {U \in SUBSET T : V(S \union U) = V(S) + V(U)}
<1>1. V(S) \in Int /\ \A U \in SUBSET T : IsFiniteSet(U) /\ V(U) \in Int
  BY SumType, FS_Subset
<1>2. ASSUME NEW U \in SUBSET T, \A W \in SUBSET U : W # U => W \in A
      PROVE  U \in A
  <2>1. CASE U = {}
    <3>1. S \union U = S /\ V({}) = 0
      BY <2>1, SumOfEmpty
    <3>. QED
      BY <1>1, <2>1, <3>1
  <2>2. CASE U # {}
    <3>1. PICK x \in U : TRUE
      BY <2>2
    <3>. DEFINE W == U \ {x}
    <3>2. V(S \union W) = V(S) + V(W)
      BY <1>2
    <3>3. V(U) = f[x] + V(W)
      BY <1>1, SumRemove
    <3>4. V(S \union U) = f[x] + V(S \union W)
      <4>1. IsFiniteSet(S \union U)
        BY <1>1, FS_Union
      <4>2. V(S \union U) = f[x] + V((S \union U) \ {x})
        BY <4>1, SumRemove
      <4>3. (S \union U) \ {x} = S \union W
        BY <3>1
      <4>. QED
        BY <4>2, <4>3
    <3>5. f[x] \in Int /\ V(W) \in Int
      BY <1>1
    <3>. QED
      BY <1>1, <3>2, <3>3, <3>4, <3>5
  <2>. QED
    BY <2>1, <2>2
<1>3. SUBSET T \subseteq A
  <2>. HIDE DEF A
  <2>. QED
    BY <1>2, SubsetInduction
<1>. QED
  BY <1>3

\* A sum of smaller terms is smaller, and exactly by what they differ.
LEMMA SumOfDifferences ==
  ASSUME NEW f, NEW g, NEW d, NEW T, IsFiniteSet(T),
         \A x \in T : f[x] \in Int /\ d[x] \in Int /\ g[x] = f[x] - d[x]
  PROVE  SumFunctionOnSet(g, T)
           = SumFunctionOnSet(f, T) - SumFunctionOnSet(d, T)
<1>. DEFINE F(U) == SumFunctionOnSet(f, U)
            G(U) == SumFunctionOnSet(g, U)
            D(U) == SumFunctionOnSet(d, U)
            A == {U \in SUBSET T : G(U) = F(U) - D(U)}
<1>1. \A U \in SUBSET T : IsFiniteSet(U) /\ F(U) \in Int /\ D(U) \in Int
  BY SumType, FS_Subset
<1>2. ASSUME NEW U \in SUBSET T, \A W \in SUBSET U : W # U => W \in A
      PROVE  U \in A
  <2>1. CASE U = {}
    BY <2>1, SumOfEmpty
  <2>2. CASE U # {}
    <3>1. PICK x \in U : TRUE
      BY <2>2
    <3>. DEFINE W == U \ {x}
    <3>2. G(W) = F(W) - D(W)
      BY <1>2
    <3>3. \A y \in U : f[y] \in Int /\ d[y] \in Int /\ g[y] \in Int
      OBVIOUS
    <3>4. F(U) = f[x] + F(W) /\ D(U) = d[x] + D(W) /\ G(U) = g[x] + G(W)
      BY <1>1, <3>3, SumRemove
    <3>5. F(W) \in Int /\ D(W) \in Int
      BY <1>1
    <3>. QED
      BY <3>2, <3>4, <3>5
  <2>. QED
    BY <2>1, <2>2
<1>3. SUBSET T \subseteq A
  <2>. HIDE DEF A
  <2>. QED
    BY <1>2, SubsetInduction
<1>. QED
  BY <1>3

\* Of natural numbers, the sum over a set is at least that over a part of it.
LEMMA SumMonotonic ==
  ASSUME NEW f, NEW T, IsFiniteSet(T), \A x \in T : f[x] \in Nat, NEW S \in SUBSET T
  PROVE  SumFunctionOnSet(f, S) <= SumFunctionOnSet(f, T)
<1>. DEFINE R == T \ S
<1>1. IsFiniteSet(S) /\ IsFiniteSet(R) /\ S \cap R = {} /\ S \union R = T
  BY FS_Subset
<1>2. /\ SumFunctionOnSet(f, S) \in Nat
      /\ SumFunctionOnSet(f, R) \in Nat
  BY <1>1, SumType
<1>3. SumFunctionOnSet(f, S \union R) = SumFunctionOnSet(f, S) + SumFunctionOnSet(f, R)
  <2>. HIDE DEF R
  <2>1. \A x \in S \union R : f[x] \in Int
    BY <1>1
  <2>. QED
    BY <1>1, <2>1, SumUnion
<1>4. SumFunctionOnSet(f, T) = SumFunctionOnSet(f, S \union R)
  BY <1>1
<1>. HIDE DEF R
<1>. QED
  BY <1>2, <1>3, <1>4

Further(n, T) == {n + k : k \in T}

\* The same terms at indices that are n further.
LEMMA SumShift ==
  ASSUME NEW f, NEW g, NEW n \in Nat, NEW T \in SUBSET Nat, IsFiniteSet(T),
         \A k \in T : g[k] \in Int /\ f[n + k] = g[k]
  PROVE  /\ IsFiniteSet(Further(n, T))
         /\ SumFunctionOnSet(f, Further(n, T)) = SumFunctionOnSet(g, T)
<1>. DEFINE Up(U) == {n + k : k \in U}
            A == {U \in SUBSET T :
                    /\ IsFiniteSet(Up(U))
                    /\ SumFunctionOnSet(f, Up(U)) = SumFunctionOnSet(g, U)}
<1>1. ASSUME NEW U \in SUBSET T, \A W \in SUBSET U : W # U => W \in A
      PROVE  U \in A
  <2>1. CASE U = {}
    <3>1. Up(U) = {}
      BY <2>1
    <3>. QED
      BY <2>1, <3>1, SumOfEmpty, FS_EmptySet
  <2>2. CASE U # {}
    <3>1. PICK x \in U : TRUE
      BY <2>2
    <3>. DEFINE W == U \ {x}
                V == Up(W)
    <3>2. IsFiniteSet(V) /\ SumFunctionOnSet(f, V) = SumFunctionOnSet(g, W)
      BY <1>1
    <3>3. Up(U) = V \union {n + x} /\ n + x \notin V
      OBVIOUS
    <3>4. \A y \in V : f[y] \in Int
      OBVIOUS
    <3>5. f[n + x] \in Int /\ f[n + x] = g[x]
      OBVIOUS
    <3>6. SumFunctionOnSet(g, U) = g[x] + SumFunctionOnSet(g, W)
      <4>1. IsFiniteSet(U)
        BY FS_Subset
      <4>. QED
        BY <4>1, SumRemove
    <3>. HIDE DEF V
    <3>7. SumFunctionOnSet(f, V \union {n + x}) = f[n + x] + SumFunctionOnSet(f, V)
      BY <3>2, <3>3, <3>4, <3>5, SumAdd
    <3>8. IsFiniteSet(V \union {n + x})
      BY <3>2, FS_AddElement
    <3>. QED
      BY <3>2, <3>3, <3>5, <3>6, <3>7, <3>8
  <2>. QED
    BY <2>1, <2>2
<1>2. SUBSET T \subseteq A
  <2>. HIDE DEF A
  <2>. QED
    BY <1>1, SubsetInduction
<1>3. T \in A
  BY <1>2
<1>. QED
  BY <1>3 DEF Further

-----------------------------------------------------------------------------
(* removeMiles                                                              *)

\* A list of a finite set names each of its elements once.
LEMMA ListOf ==
  ASSUME NEW D, IsFiniteSet(D), NEW list \in SetToSeqs(D)
  PROVE  \E n \in Nat :
           /\ DOMAIN list = 1 .. n
           /\ \A k \in 1 .. n : list[k] \in D
           /\ \A j, k \in 1 .. n : j # k => list[j] # list[k]
           /\ \A x \in D : \E k \in 1 .. n : list[k] = x
<1>. DEFINE n == Cardinality(D)
<1>1. n \in Nat
  BY FS_CardinalityType
<1>2. /\ list \in [1 .. n -> D]
      /\ \A j, k \in 1 .. n : j # k => list[j] # list[k]
  BY DEF SetToSeqs
<1>3. IsFiniteSet(1 .. n) /\ Cardinality(1 .. n) = n
  BY <1>1, FS_Interval
<1>4. list \in Injection(1 .. n, D)
  BY <1>2 DEF Injection, IsInjective
<1>5. list \in Surjection(1 .. n, D)
  BY <1>3, <1>4, FS_Injection
<1>6. \A x \in D : \E k \in 1 .. n : list[k] = x
  BY <1>5 DEF Surjection
<1>. QED
  BY <1>1, <1>2, <1>6

Worth(m, at) == IF Live(m, at) THEN m.amount ELSE 0

\* What removeMiles has still to take when it comes to each entry of the list.
Debts(acc, amount, list, at, d) ==
  d = [k \in DOMAIN list |->
         IF k = 1 THEN amount
         ELSE d[k - 1] - Smaller(d[k - 1],
                                 IF Live(acc.miles[list[k - 1]], at)
                                 THEN acc.miles[list[k - 1]].amount ELSE 0)]

\* What it takes from the k-th.
Taken(acc, list, at, d, k) == Smaller(d[k], Worth(acc.miles[list[k]], at))

Place(list, i) == CHOOSE n \in DOMAIN list : list[n] = i

\* The recursive definition of the debts has a solution.
LEMMA DebtsExist ==
  ASSUME NEW acc, NEW amount, NEW list, NEW at, \E n \in Nat : DOMAIN list = 1 .. n
  PROVE  \E d : Debts(acc, amount, list, at, d)
<1>0. PICK n \in Nat : DOMAIN list = 1 .. n
  OBVIOUS
<1>. DEFINE worth(k) == IF Live(acc.miles[list[k]], at)
                        THEN acc.miles[list[k]].amount ELSE 0
            After(d, k) == IF k = 1 THEN amount
                           ELSE d[k - 1] - Smaller(d[k - 1], worth(k - 1))
            UpTo(m, d) == \A k \in 1 .. n : k <= m => d[k] = After(d, k)
            A == {m \in Nat : \E d : UpTo(m, d)}
<1>1. 0 \in A
  OBVIOUS
<1>2. ASSUME NEW m \in Nat, m \in A PROVE m + 1 \in A
  <2>1. PICK d : UpTo(m, d)
    BY <1>2
  <2>. DEFINE e == [k \in 1 .. n |-> After(d, k)]
  <2>2. ASSUME NEW k \in 1 .. n, k <= m + 1 PROVE e[k] = After(e, k)
    <3>1. CASE k = 1
      BY <3>1
    <3>2. CASE k # 1
      <4>1. k - 1 \in 1 .. n /\ k - 1 <= m
        BY <2>2, <3>2
      <4>2. e[k - 1] = d[k - 1]
        BY <2>1, <4>1
      <4>. QED
        BY <3>2, <4>2
    <3>. QED
      BY <3>1, <3>2
  <2>3. UpTo(m + 1, e)
    BY <2>2
  <2>. HIDE DEF e, UpTo
  <2>. QED
    BY <2>3
<1>3. n \in A
  <2>. HIDE DEF A
  <2>1. 0 .. n \subseteq A
    BY <1>1, <1>2, StepInduction
  <2>. QED
    BY <2>1
<1>4. PICK d : UpTo(n, d)
  BY <1>3
<1>. DEFINE e == [k \in 1 .. n |-> d[k]]
<1>5. \A k \in 1 .. n : e[k] = After(e, k)
  BY <1>4
<1>6. e = [k \in 1 .. n |-> After(e, k)]
  BY <1>5
<1>. QED
  BY <1>0, <1>6 DEF Debts

\* What it takes from each entry.
Takings(acc, list, at, d) ==
  [i \in DOMAIN acc.miles |-> Taken(acc, list, at, d, Place(list, i))]

Lessened(acc, t) ==
  [acc EXCEPT !.miles = [i \in DOMAIN acc.miles |-> Subtracted(acc.miles[i], t[i])]]

\* removeMiles subtracts from every entry what one such table takes.
LEMMA WithoutIsPaid ==
  ASSUME NEW acc, NEW amount, NEW list, NEW at, \E n \in Nat : DOMAIN list = 1 .. n
  PROVE  \E d : /\ Debts(acc, amount, list, at, d)
                /\ WithoutMiles(acc, amount, list, at)
                     = Lessened(acc, Takings(acc, list, at, d))
<1>. DEFINE d == CHOOSE x : Debts(acc, amount, list, at, x)
            t == Takings(acc, list, at, d)
<1>1. Debts(acc, amount, list, at, d)
  BY DebtsExist
<1>2. WithoutMiles(acc, amount, list, at) =
        [acc EXCEPT !.miles =
           [i \in DOMAIN acc.miles |->
              Subtracted(acc.miles[i],
                         Taken(acc, list, at, d, Place(list, i)))]]
  BY DEF WithoutMiles, Debts, Taken, Worth, Place
<1>. HIDE DEF d
<1>3. \A i \in DOMAIN acc.miles : t[i] = Taken(acc, list, at, d, Place(list, i))
  BY DEF Takings
<1>. HIDE DEF t
<1>4. [i \in DOMAIN acc.miles |->
         Subtracted(acc.miles[i], Taken(acc, list, at, d, Place(list, i)))]
        = [i \in DOMAIN acc.miles |-> Subtracted(acc.miles[i], t[i])]
  BY <1>3
<1>5. WithoutMiles(acc, amount, list, at) = Lessened(acc, t)
  BY <1>2, <1>4 DEF Lessened
<1>. QED
  BY <1>1, <1>5 DEF t

\* A list of n entries, what each is worth, and the debt that d records.
Paying(acc, amount, list, at, n, d) ==
  /\ n \in Nat /\ DOMAIN list = 1 .. n
  /\ amount \in Nat
  /\ \A k \in 1 .. n : Worth(acc.miles[list[k]], at) \in Nat
  /\ Debts(acc, amount, list, at, d)

\* One turn of the loop: it takes the smaller of what is owed and what there is.
LEMMA DebtFacts ==
  ASSUME NEW acc, NEW amount, NEW list, NEW at, NEW n, NEW d,
         Paying(acc, amount, list, at, n, d)
  PROVE  \A k \in 1 .. n :
           /\ d[k] \in Nat
           /\ Taken(acc, list, at, d, k) \in Nat
           /\ Taken(acc, list, at, d, k) <= d[k]
           /\ Taken(acc, list, at, d, k) <= Worth(acc.miles[list[k]], at)
           /\ \/ Taken(acc, list, at, d, k) = d[k]
              \/ Taken(acc, list, at, d, k) = Worth(acc.miles[list[k]], at)
           /\ k = 1 => d[k] = amount
           /\ k < n => d[k + 1] = d[k] - Taken(acc, list, at, d, k)
<1>. DEFINE w(k) == Worth(acc.miles[list[k]], at)
            t(k) == Smaller(d[k], w(k))
            A == {k \in Nat : k >= 1 /\ k <= n => d[k] \in Nat}
<1>1. \A k \in 1 .. n : d[k] = IF k = 1 THEN amount ELSE d[k - 1] - t(k - 1)
  BY DEF Debts, Worth, Paying
<1>2. n \in Nat /\ amount \in Nat /\ \A k \in 1 .. n : w(k) \in Nat
  BY DEF Paying
<1>. HIDE DEF w
<1>3. 0 \in A
  OBVIOUS
<1>4. ASSUME NEW k \in Nat, k < n /\ k \in A PROVE k + 1 \in A
  <2>1. CASE k = 0
    <3>1. d[1] = amount
      BY <1>1, <1>2, <1>4, <2>1
    <3>. QED
      BY <1>2, <2>1, <3>1
  <2>2. CASE k # 0
    <3>1. k \in 1 .. n /\ k + 1 \in 1 .. n
      BY <1>2, <1>4, <2>2
    <3>2. d[k] \in Nat /\ w(k) \in Nat
      BY <1>2, <1>4, <3>1
    <3>3. d[k + 1] = d[k] - t(k)
      BY <1>1, <3>1
    <3>. QED
      BY <3>2, <3>3 DEF Smaller
  <2>. QED
    BY <2>1, <2>2
<1>5. 0 .. n \subseteq A
  <2>. HIDE DEF A
  <2>. QED
    BY <1>2, <1>3, <1>4, StepInduction
<1>6. ASSUME NEW k \in 1 .. n
      PROVE  /\ d[k] \in Nat /\ t(k) \in Nat /\ t(k) <= d[k] /\ t(k) <= w(k)
             /\ t(k) = d[k] \/ t(k) = w(k)
  <2>1. d[k] \in Nat
    BY <1>2, <1>5
  <2>. QED
    BY <1>2, <2>1 DEF Smaller
<1>7. ASSUME NEW k \in 1 .. n
      PROVE  /\ k = 1 => d[k] = amount
             /\ k < n => d[k + 1] = d[k] - t(k)
  <2>1. ASSUME k < n PROVE d[k + 1] = d[k] - t(k)
    <3>1. k + 1 \in 1 .. n /\ k + 1 # 1 /\ (k + 1) - 1 = k
      BY <1>2, <2>1
    <3>. QED
      BY <1>1, <3>1
  <2>. QED
    BY <1>1, <2>1
<1>. QED
  BY <1>6, <1>7 DEF Taken, w

\* While something is left to take, entries give all they are worth.
LEMMA DebtLasts ==
  ASSUME NEW acc, NEW amount, NEW list, NEW at, NEW n, NEW d,
         Paying(acc, amount, list, at, n, d)
  PROVE  \A k \in 1 .. n : d[k] > 0 => \A j \in 1 .. n : j < k =>
           Taken(acc, list, at, d, j) = Worth(acc.miles[list[j]], at)
<1>. DEFINE w(k) == Worth(acc.miles[list[k]], at)
            t(k) == Taken(acc, list, at, d, k)
            Good(k) == d[k] > 0 => \A j \in 1 .. n : j < k => t(j) = w(j)
            A == {k \in Nat : k >= 1 /\ k <= n => Good(k)}
<1>1. \A k \in 1 .. n :
        /\ d[k] \in Nat /\ t(k) \in Nat
        /\ \/ t(k) = d[k]
           \/ t(k) = w(k)
        /\ k < n => d[k + 1] = d[k] - t(k)
  <2>. HIDE DEF w
  <2>1. \A k \in 1 .. n :
           /\ d[k] \in Nat
           /\ Taken(acc, list, at, d, k) \in Nat
           /\ Taken(acc, list, at, d, k) <= d[k]
           /\ Taken(acc, list, at, d, k) <= Worth(acc.miles[list[k]], at)
           /\ \/ Taken(acc, list, at, d, k) = d[k]
              \/ Taken(acc, list, at, d, k) = Worth(acc.miles[list[k]], at)
           /\ k = 1 => d[k] = amount
           /\ k < n => d[k + 1] = d[k] - Taken(acc, list, at, d, k)
    BY DebtFacts
  <2>. QED
    BY <2>1 DEF w
<1>0. n \in Nat
  BY DEF Paying
<1>. HIDE DEF w, t
<1>2. 0 \in A
  OBVIOUS
<1>3. ASSUME NEW k \in Nat, k < n /\ k \in A PROVE k + 1 \in A
  <2>1. CASE k = 0
    BY <2>1
  <2>2. CASE k # 0
    <3>1. k \in 1 .. n /\ k < n
      BY <1>0, <1>3, <2>2
    <3>2. Good(k)
      BY <1>3, <3>1
    <3>3. d[k + 1] > 0 => d[k] > 0 /\ t(k) = w(k)
      <4>. HIDE DEF A, Good
      <4>1. d[k] \in Nat /\ d[k + 1] = d[k] - t(k) /\ (t(k) = d[k] \/ t(k) = w(k))
        BY <1>1, <3>1
      <4>2. CASE t(k) = d[k]
        BY <4>1, <4>2
      <4>3. CASE t(k) = w(k)
        <5>1. k + 1 \in 1 .. n
          BY <1>0, <3>1
        <5>2. d[k + 1] \in Nat /\ t(k) \in Nat
          BY <1>1, <3>1, <5>1
        <5>. QED
          BY <4>1, <4>3, <5>2
      <4>. QED
        BY <4>1, <4>2, <4>3
    <3>4. ASSUME d[k + 1] > 0, NEW j \in 1 .. n, j < k + 1 PROVE t(j) = w(j)
      <4>1. j = k \/ j < k
        BY <3>4
      <4>. QED
        BY <3>2, <3>3, <3>4, <4>1
    <3>. QED
      BY <3>4
  <2>. QED
    BY <2>1, <2>2
<1>4. 0 .. n \subseteq A
  <2>. HIDE DEF A
  <2>. QED
    BY <1>0, <1>2, <1>3, StepInduction
<1>5. \A k \in 1 .. n : Good(k)
  BY <1>0, <1>4
<1>. QED
  BY <1>5 DEF w, t

\* The elements that count, in a sum over a larger set where others are 0.
LEMMA SumOfPart ==
  ASSUME NEW f, NEW g, NEW T, IsFiniteSet(T), NEW S \in SUBSET T,
         \A x \in S : f[x] \in Int /\ g[x] = f[x], \A x \in T \ S : g[x] = 0
  PROVE  SumFunctionOnSet(g, T) = SumFunctionOnSet(f, S)
<1>. DEFINE R == T \ S
            z == [x \in T |-> 0]
            A == {U \in SUBSET R : SumFunctionOnSet(g, U) = 0}
<1>1. IsFiniteSet(S) /\ IsFiniteSet(R) /\ S \cap R = {} /\ T = S \union R
  BY FS_Subset
<1>2. ASSUME NEW U \in SUBSET R, \A W \in SUBSET U : W # U => W \in A
      PROVE  U \in A
  <2>1. IsFiniteSet(U)
    <3>. HIDE DEF R
    <3>. QED
      BY <1>1, FS_Subset
  <2>2. CASE U = {}
    BY <2>2, SumOfEmpty
  <2>3. CASE U # {}
    <3>1. PICK x \in U :
            SumFunctionOnSet(g, U) = g[x] + SumFunctionOnSet(g, U \ {x})
      BY <2>1, <2>3, SumRecursion
    <3>2. SumFunctionOnSet(g, U \ {x}) = 0 /\ g[x] = 0
      BY <1>2
    <3>. QED
      BY <3>1, <3>2
  <2>. QED
    BY <2>2, <2>3
<1>3. SUBSET R \subseteq A
  <2>. HIDE DEF A, R
  <2>. QED
    BY <1>1, <1>2, SubsetInduction
<1>4. SumFunctionOnSet(g, R) = 0
  BY <1>3
<1>5. SumFunctionOnSet(g, S) = SumFunctionOnSet(f, S)
  BY <1>1, SumSame
<1>6. SumFunctionOnSet(f, S) \in Int
  <2>. DEFINE N == Int
  <2>1. N \in {Nat, Int} /\ \A x \in S : f[x] \in N
    OBVIOUS
  <2>. QED
    BY <1>1, <2>1, SumType
<1>7. \A x \in S \union R : g[x] \in Int
  OBVIOUS
<1>. HIDE DEF R
<1>8. SumFunctionOnSet(g, S \union R) = SumFunctionOnSet(g, S) + SumFunctionOnSet(g, R)
  BY <1>1, <1>7, SumUnion
<1>9. SumFunctionOnSet(g, T) = SumFunctionOnSet(g, S \union R)
  BY <1>1
<1>. QED
  BY <1>4, <1>5, <1>6, <1>8, <1>9

\* An account in memory, with the columns of its rows.
AccountRow == [client : Clients, active : BOOLEAN, transactions : Nat]
MileRow == [amount : Nat, expires : Dates, date : 0 .. MaxTime]

IsCopy(acc) ==
  /\ acc = [id |-> acc.id, row |-> acc.row, miles |-> acc.miles, added |-> acc.added]
  /\ acc.row \in AccountRow
  /\ DOMAIN acc.miles \subseteq Nat /\ IsFiniteSet(DOMAIN acc.miles)
  /\ acc.miles \in [DOMAIN acc.miles -> MileRow]
  /\ acc.added \in Seq(MileRow)

AmountOf(m) == [i \in DOMAIN m |-> m[i].amount]

\* Every entry is in the list once, so that its part is what its turn takes.
LEMMA WithoutShape ==
  ASSUME NEW acc, IsCopy(acc), NEW amount \in Nat, NEW at,
         NEW list \in SetToSeqs(DOMAIN acc.miles)
  PROVE  \E n, d :
           /\ Paying(acc, amount, list, at, n, d)
           /\ \A k \in 1 .. n : list[k] \in DOMAIN acc.miles
           /\ \A j, k \in 1 .. n : j # k => list[j] # list[k]
           /\ \A i \in DOMAIN acc.miles : \E k \in 1 .. n : list[k] = i
           /\ Takings(acc, list, at, d) \in [DOMAIN acc.miles -> Nat]
           /\ \A k \in 1 .. n :
                Takings(acc, list, at, d)[list[k]] = Taken(acc, list, at, d, k)
           /\ \A i \in DOMAIN acc.miles :
                Takings(acc, list, at, d)[i] <= Worth(acc.miles[i], at)
           /\ WithoutMiles(acc, amount, list, at)
                = Lessened(acc, Takings(acc, list, at, d))
<1>. DEFINE D == DOMAIN acc.miles
<1>1. IsFiniteSet(D) /\ acc.miles \in [D -> MileRow]
  BY DEF IsCopy
<1>2. PICK n \in Nat :
        /\ DOMAIN list = 1 .. n
        /\ \A k \in 1 .. n : list[k] \in D
        /\ \A j, k \in 1 .. n : j # k => list[j] # list[k]
        /\ \A x \in D : \E k \in 1 .. n : list[k] = x
  <2>. HIDE DEF D
  <2>. QED
    BY <1>1, ListOf DEF D
<1>3. PICK d : /\ Debts(acc, amount, list, at, d)
               /\ WithoutMiles(acc, amount, list, at)
                    = Lessened(acc, Takings(acc, list, at, d))
  BY <1>2, WithoutIsPaid
<1>4. \A i \in D : Worth(acc.miles[i], at) \in Nat
  <2>1. \A i \in D : acc.miles[i] \in MileRow
    BY <1>1
  <2>2. \A m \in MileRow : Worth(m, at) \in Nat
    BY DEF MileRow, Worth
  <2>. QED
    BY <2>1, <2>2
<1>5. Paying(acc, amount, list, at, n, d)
  BY <1>2, <1>3, <1>4 DEF Paying
<1>. DEFINE t == Takings(acc, list, at, d)
<1>6. \A i \in D : Place(list, i) \in 1 .. n /\ list[Place(list, i)] = i
  BY <1>2 DEF Place
<1>7. \A k \in 1 .. n : Place(list, list[k]) = k
  BY <1>2, <1>6
<1>8. \A k \in 1 .. n : /\ Taken(acc, list, at, d, k) \in Nat
                        /\ Taken(acc, list, at, d, k) <= Worth(acc.miles[list[k]], at)
  BY <1>5, DebtFacts
<1>9. t \in [D -> Nat] /\ \A i \in D : t[i] <= Worth(acc.miles[i], at)
  BY <1>6, <1>8 DEF Takings
<1>10. \A k \in 1 .. n : t[list[k]] = Taken(acc, list, at, d, k)
  BY <1>2, <1>7 DEF Takings
<1>. QED
  BY <1>2, <1>3, <1>5, <1>9, <1>10

\* No comparator puts a row before itself.
LEMMA PrecedesIsStrict ==
  ASSUME NEW strategy, NEW m \in MileRow PROVE ~Precedes(strategy, m, m)
<1>1. m.date \in Nat /\ (m.expires = Never \/ m.expires \in Nat)
  BY AwardsAssumption DEF MileRow, Dates
<1>. QED
  BY <1>1 DEF Precedes

\* What removeMiles does to a copy: it takes from live entries, what its
\* strategy puts first goes first, and it takes the amount when it is there.
LEMMA WithoutFacts ==
  ASSUME NEW acc, IsCopy(acc), NEW amount \in Nat, NEW at,
         NEW list \in SetToSeqs(DOMAIN acc.miles),
         NEW new, new = WithoutMiles(acc, amount, list, at)
  PROVE  /\ IsCopy(new)
         /\ new.id = acc.id /\ new.row = acc.row /\ new.added = acc.added
         /\ DOMAIN new.miles = DOMAIN acc.miles
         /\ \A i \in DOMAIN acc.miles :
              /\ new.miles[i].expires = acc.miles[i].expires
              /\ new.miles[i].amount <= acc.miles[i].amount
         /\ Balance(acc, at) >= amount =>
              SumFunctionOnSet(AmountOf(new.miles), DOMAIN acc.miles)
                = SumFunctionOnSet(AmountOf(acc.miles), DOMAIN acc.miles) - amount
         /\ \A strategy : list \in SortedLists(acc, strategy) =>
              \A i, j \in DOMAIN acc.miles :
                new.miles[j].amount < acc.miles[j].amount =>
                  /\ Live(acc.miles[j], at)
                  /\ /\ Live(acc.miles[i], at)
                     /\ Precedes(strategy, acc.miles[i], acc.miles[j])
                     => new.miles[i].amount = 0
<1>. DEFINE D == DOMAIN acc.miles
            w == [i \in D |-> Worth(acc.miles[i], at)]
<1>1. PICK n, d :
        /\ Paying(acc, amount, list, at, n, d)
        /\ \A k \in 1 .. n : list[k] \in D
        /\ \A j, k \in 1 .. n : j # k => list[j] # list[k]
        /\ \A i \in D : \E k \in 1 .. n : list[k] = i
        /\ Takings(acc, list, at, d) \in [D -> Nat]
        /\ \A k \in 1 .. n :
             Takings(acc, list, at, d)[list[k]] = Taken(acc, list, at, d, k)
        /\ \A i \in D : Takings(acc, list, at, d)[i] <= Worth(acc.miles[i], at)
        /\ new = Lessened(acc, Takings(acc, list, at, d))
  BY WithoutShape
<1>. DEFINE t == Takings(acc, list, at, d)
<1>2. n \in Nat /\ DOMAIN list = 1 .. n
  BY <1>1 DEF Paying
<1>3. \A i \in D :
        /\ acc.miles[i] \in MileRow
        /\ t[i] \in Nat /\ w[i] \in Nat /\ t[i] <= w[i]
        /\ w[i] = IF Live(acc.miles[i], at) THEN acc.miles[i].amount ELSE 0
  <2>1. \A i \in D : acc.miles[i] \in MileRow
    BY DEF IsCopy
  <2>2. \A m \in MileRow : Worth(m, at) \in Nat
    BY DEF MileRow, Worth
  <2>. QED
    BY <1>1, <2>1, <2>2 DEF Worth
<1>. HIDE DEF t, w
<1>4. /\ new = [acc EXCEPT !.miles = [i \in D |-> Subtracted(acc.miles[i], t[i])]]
      /\ acc = [id |-> acc.id, row |-> acc.row, miles |-> acc.miles, added |-> acc.added]
  BY <1>1 DEF t, Lessened, IsCopy
<1>5. /\ new = [id |-> acc.id, row |-> acc.row, miles |-> new.miles, added |-> acc.added]
      /\ new.id = acc.id /\ new.row = acc.row /\ new.added = acc.added
      /\ new.miles = [i \in D |-> Subtracted(acc.miles[i], t[i])]
  BY <1>4
<1>6. \A i \in D : /\ new.miles[i] \in MileRow
                   /\ new.miles[i].expires = acc.miles[i].expires
                   /\ new.miles[i].amount = acc.miles[i].amount - t[i]
                   /\ new.miles[i].amount <= acc.miles[i].amount
  <2>1. ASSUME NEW m \in MileRow, NEW x \in Nat, x <= m.amount
        PROVE  /\ Subtracted(m, x) \in MileRow
               /\ Subtracted(m, x).expires = m.expires
               /\ Subtracted(m, x).amount = m.amount - x
               /\ Subtracted(m, x).amount <= m.amount
    BY <2>1 DEF Subtracted, MileRow
  <2>2. \A i \in D : t[i] <= acc.miles[i].amount /\ t[i] \in Nat
    <3>1. \A i \in D : acc.miles[i].amount \in Nat
      BY <1>3 DEF MileRow
    <3>. QED
      BY <1>3, <3>1
  <2>. QED
    BY <1>3, <1>5, <2>1, <2>2
<1>7. IsCopy(new) /\ DOMAIN new.miles = D
  <2>1. DOMAIN new.miles = D /\ new.miles \in [D -> MileRow]
    BY <1>5, <1>6
  <2>. QED
    BY <1>5, <2>1 DEF IsCopy
<1>8. \A k \in 1 .. n :
        /\ d[k] \in Nat
        /\ t[list[k]] <= d[k]
        /\ \/ t[list[k]] = d[k]
           \/ t[list[k]] = w[list[k]]
        /\ k = 1 => d[k] = amount
        /\ k < n => d[k + 1] = d[k] - t[list[k]]
  <2>1. \A k \in 1 .. n :
          /\ d[k] \in Nat
          /\ Taken(acc, list, at, d, k) <= d[k]
          /\ \/ Taken(acc, list, at, d, k) = d[k]
             \/ Taken(acc, list, at, d, k) = Worth(acc.miles[list[k]], at)
          /\ k = 1 => d[k] = amount
          /\ k < n => d[k + 1] = d[k] - Taken(acc, list, at, d, k)
    BY <1>1, DebtFacts
  <2>. QED
    BY <1>1, <2>1 DEF t, w
<1>9. \A k \in 1 .. n : d[k] > 0 =>
        \A j \in 1 .. n : j < k => t[list[j]] = w[list[j]]
  <2>1. \A k \in 1 .. n : d[k] > 0 => \A j \in 1 .. n : j < k =>
          Taken(acc, list, at, d, j) = Worth(acc.miles[list[j]], at)
    BY <1>1, DebtLasts
  <2>. QED
    BY <1>1, <2>1 DEF t, w
<1>10. ASSUME NEW strategy, list \in SortedLists(acc, strategy),
              NEW i \in D, NEW j \in D, new.miles[j].amount < acc.miles[j].amount
       PROVE  /\ Live(acc.miles[j], at)
              /\ /\ Live(acc.miles[i], at)
                 /\ Precedes(strategy, acc.miles[i], acc.miles[j])
                 => new.miles[i].amount = 0
  <2>1. \A m \in D : acc.miles[m].amount \in Nat
    BY <1>3 DEF MileRow
  <2>2. t[j] > 0
    BY <1>3, <1>6, <1>10, <2>1
  <2>3. Live(acc.miles[j], at)
    BY <1>3, <2>2
  <2>4. ASSUME Live(acc.miles[i], at), Precedes(strategy, acc.miles[i], acc.miles[j])
        PROVE  new.miles[i].amount = 0
    <3>1. PICK a \in 1 .. n, b \in 1 .. n : list[a] = i /\ list[b] = j
      BY <1>1
    <3>2. ~(b < a)
      BY <1>2, <1>10, <2>4, <3>1 DEF SortedLists
    <3>3. a # b
      BY <1>3, <2>4, <3>1, PrecedesIsStrict
    <3>4. a < b
      BY <1>2, <3>2, <3>3
    <3>5. d[b] > 0
      BY <1>3, <1>8, <2>2, <3>1
    <3>6. t[i] = w[i]
      BY <1>9, <3>1, <3>4, <3>5
    <3>. QED
      BY <1>3, <1>6, <2>1, <2>4, <3>6
  <2>. QED
    BY <2>3, <2>4
<1>11. ASSUME Balance(acc, at) >= amount
       PROVE  SumFunctionOnSet(AmountOf(new.miles), D)
                = SumFunctionOnSet(AmountOf(acc.miles), D) - amount
  <2>. DEFINE first(k) == {list[j] : j \in 1 .. k}
              V(k) == SumFunctionOnSet(t, first(k))
              rest(k) == IF k = 0 THEN amount ELSE d[k] - t[list[k]]
              A == {k \in Nat : k <= n => V(k) + rest(k) = amount}
  <2>1. IsFiniteSet(D)
    BY DEF IsCopy
  <2>2. \A k \in 0 .. n : first(k) \subseteq D /\ IsFiniteSet(first(k))
    <3>1. \A k \in 0 .. n : first(k) \in SUBSET D
      BY <1>1, <1>2
    <3>. HIDE DEF first, D
    <3>. QED
      BY <2>1, <3>1, FS_Subset
  <2>3. \A k \in 0 .. n : V(k) \in Int /\ rest(k) \in Nat
    <3>1. ASSUME NEW k \in 0 .. n PROVE rest(k) \in Nat
      <4>1. CASE k = 0
        BY <4>1
      <4>2. CASE k # 0
        <5>1. k \in 1 .. n
          BY <1>2, <4>2
        <5>2. d[k] \in Nat /\ t[list[k]] \in Nat /\ t[list[k]] <= d[k]
          BY <1>1, <1>3, <1>8, <5>1
        <5>. QED
          BY <4>2, <5>2
      <4>. QED
        BY <4>1, <4>2
    <3>. HIDE DEF first
    <3>2. \A k \in 0 .. n : \A x \in first(k) : t[x] \in Int
      BY <1>3, <2>2
    <3>. QED
      BY <2>2, <3>1, <3>2, SumType
  <2>4. 0 \in A
    <3>1. first(0) = {} /\ V(0) = 0
      BY SumOfEmpty
    <3>. QED
      BY <3>1
  <2>5. ASSUME NEW k \in Nat, k < n /\ k \in A PROVE k + 1 \in A
    <3>. DEFINE x == list[k + 1]
    <3>1. k \in 0 .. n /\ k + 1 \in 1 .. n
      BY <1>2, <2>5
    <3>2. first(k + 1) = first(k) \union {x} /\ x \notin first(k)
      <4>1. 1 .. k + 1 = (1 .. k) \union {k + 1} /\ 1 .. k \subseteq 1 .. n
        BY <1>2, <3>1
      <4>2. \A j \in 1 .. k : list[j] # x
        BY <1>1, <1>2, <3>1, <4>1
      <4>3. first(k + 1) = first(k) \union {x}
        BY <4>1, Zenon
      <4>. QED
        BY <4>2, <4>3
    <3>3. x \in D /\ t[x] \in Int /\ \A y \in first(k) : t[y] \in Int
      <4>. HIDE DEF first
      <4>. QED
        BY <1>1, <1>3, <2>2, <3>1
    <3>4. V(k + 1) = t[x] + V(k)
      <4>. HIDE DEF first, x
      <4>1. SumFunctionOnSet(t, first(k) \union {x}) = t[x] + V(k)
        BY <2>2, <3>1, <3>2, <3>3, SumAdd
      <4>. QED
        BY <3>2, <4>1
    <3>5. d[k + 1] = rest(k)
      BY <1>2, <1>8, <2>5, <3>1
    <3>6. rest(k + 1) = rest(k) - t[x]
      BY <3>1, <3>5
    <3>7. V(k) + rest(k) = amount
      BY <1>2, <2>5
    <3>. QED
      BY <2>3, <3>1, <3>3, <3>4, <3>6, <3>7
  <2>6. V(n) + rest(n) = amount
    <3>. HIDE DEF A
    <3>1. 0 .. n \subseteq A
      BY <1>2, <2>4, <2>5, StepInduction
    <3>. QED
      BY <1>2, <3>1 DEF A
  <2>7. first(n) = D
    BY <1>1, <1>2
  <2>8. Balance(acc, at) = SumFunctionOnSet(w, D)
    <3>. DEFINE f == [i \in D |-> acc.miles[i].amount]
                S == {i \in D : Live(acc.miles[i], at)}
    <3>1. \A i \in S : f[i] \in Int /\ w[i] = f[i]
      BY <1>3 DEF MileRow
    <3>2. \A i \in D \ S : w[i] = 0
      BY <1>3
    <3>3. Balance(acc, at) = SumFunctionOnSet(f, S)
      BY DEF Balance
    <3>4. S \in SUBSET D
      OBVIOUS
    <3>. HIDE DEF f, S, D
    <3>5. SumFunctionOnSet(w, D) = SumFunctionOnSet(f, S)
      BY <2>1, <3>1, <3>2, <3>4, SumOfPart
    <3>. QED
      BY <3>3, <3>5
  <2>9. rest(n) = 0
    <3>0. n \in 0 .. n /\ rest(n) \in Nat
      <4>1. n \in 0 .. n
        BY <1>2
      <4>. HIDE DEF rest, V
      <4>. QED
        BY <2>3, <4>1
    <3>. SUFFICES ASSUME rest(n) > 0 PROVE FALSE
      <4>. HIDE DEF rest
      <4>. QED
        BY <3>0
    <3>1. \A i \in D : t[i] = w[i]
      <4>1. ASSUME NEW k \in 1 .. n PROVE t[list[k]] = w[list[k]]
        <5>1. n \in 1 .. n /\ n # 0
          BY <1>2
        <5>2. d[n] > t[list[n]] /\ t[list[n]] \in Nat /\ d[n] \in Nat
          BY <1>1, <1>3, <1>8, <5>1
        <5>3. CASE k = n
          BY <1>8, <5>1, <5>2, <5>3
        <5>4. CASE k < n
          BY <1>9, <5>1, <5>2, <5>4
        <5>. QED
          BY <1>2, <5>3, <5>4
      <4>. QED
        BY <1>1, <4>1
    <3>2. SumFunctionOnSet(t, D) = SumFunctionOnSet(w, D)
      <4>1. \A i \in D : t[i] \in Int /\ t[i] = w[i]
        BY <1>3, <3>1
      <4>. QED
        BY <2>1, <4>1, SumSame
    <3>3. V(n) = Balance(acc, at)
      BY <2>7, <2>8, <3>2
    <3>4. V(n) \in Int /\ rest(n) \in Nat
      BY <1>2, <2>3
    <3>. HIDE DEF V, rest
    <3>. QED
      BY <1>11, <2>6, <3>3, <3>4
  <2>10. SumFunctionOnSet(t, D) = amount
    <3>1. V(n) \in Int
      BY <1>2, <2>3
    <3>2. V(n) = amount
      <4>. HIDE DEF V, rest
      <4>. QED
        BY <2>6, <2>9, <3>1
    <3>. QED
      BY <2>7, <3>2
  <2>. DEFINE f == AmountOf(acc.miles)
              g == AmountOf(new.miles)
  <2>11. \A i \in D : f[i] \in Int /\ t[i] \in Int /\ g[i] = f[i] - t[i]
    BY <1>3, <1>6, <1>7 DEF AmountOf, MileRow
  <2>12. SumFunctionOnSet(g, D) = SumFunctionOnSet(f, D) - SumFunctionOnSet(t, D)
    <3>. HIDE DEF f, g, D
    <3>. QED
      BY <2>1, <2>11, SumOfDifferences
  <2>. QED
    BY <2>10, <2>12
<1>. QED
  BY <1>5, <1>6, <1>7, <1>10, <1>11

-----------------------------------------------------------------------------
(* moveMilesTo                                                              *)

\* The last index of a segment.
LEMMA MaxOf ==
  ASSUME NEW n \in Nat, NEW S \in SUBSET (1 .. n), S # {}
  PROVE  Max(S) \in S /\ \A x \in S : x <= Max(S)
<1>. DEFINE A == {T \in SUBSET S : T # {} => \E m \in T : \A x \in T : m >= x}
<1>1. IsFiniteSet(S)
  <2>1. IsFiniteSet(1 .. n)
    BY FS_Interval
  <2>. QED
    BY <2>1, FS_Subset
<1>2. ASSUME NEW T \in SUBSET S, \A U \in SUBSET T : U # T => U \in A
      PROVE  T \in A
  <2>. SUFFICES ASSUME T # {} PROVE \E m \in T : \A x \in T : m >= x
    OBVIOUS
  <2>1. PICK y \in T : TRUE
    OBVIOUS
  <2>2. CASE T = {y}
    BY <2>2
  <2>3. CASE T # {y}
    <3>1. PICK m \in T \ {y} : \A x \in T \ {y} : m >= x
      <4>1. T \ {y} \in A /\ T \ {y} # {}
        BY <1>2, <2>1, <2>3
      <4>. QED
        BY <4>1
    <3>2. m \in Nat /\ y \in Nat /\ \A x \in T : x \in Nat
      OBVIOUS
    <3>3. CASE m >= y
      BY <3>1, <3>3
    <3>4. CASE y > m
      <4>1. \A x \in T : y >= x
        BY <3>1, <3>2, <3>4
      <4>. QED
        BY <4>1
    <3>. QED
      BY <3>2, <3>3, <3>4
  <2>. QED
    BY <2>2, <2>3
<1>3. SUBSET S \subseteq A
  <2>. HIDE DEF A
  <2>. QED
    BY <1>1, <1>2, SubsetInduction
<1>4. \E m \in S : \A x \in S : m >= x
  BY <1>3
<1>. QED
  BY <1>4 DEF Max

\* The recursion behind FoldLeft: h[1 .. k] is the state after k turns.
Turns(base, list, at, h) ==
  h = [s \in SUBSET DOMAIN list |->
         IF s = {} THEN base
         ELSE MoveEntry(h[s \ {Max(s)}], list[Max(s)], at)]

\* There is a table of the states of the loop.
LEMMA TurnsExist ==
  ASSUME NEW base, NEW list, NEW at, \E n \in Nat : DOMAIN list = 1 .. n
  PROVE  \E h : Turns(base, list, at, h)
<1>0. PICK n \in Nat : DOMAIN list = 1 .. n
  OBVIOUS
<1>. DEFINE S == 1 .. n
            After(h, s) == IF s = {} THEN base
                           ELSE MoveEntry(h[s \ {Max(s)}], list[Max(s)], at)
            Up(k, h) == \A s \in SUBSET S : Cardinality(s) <= k => h[s] = After(h, s)
            A == {k \in Nat : \E h : Up(k, h)}
<1>1. IsFiniteSet(S) /\ Cardinality(S) = n
  BY FS_Interval
<1>2. \A s \in SUBSET S : IsFiniteSet(s) /\ Cardinality(s) \in Nat
                            /\ Cardinality(s) <= n
  <2>. HIDE DEF S
  <2>. QED
    BY <1>1, FS_Subset, FS_CardinalityType
<1>3. \A s \in SUBSET S : s # {} => /\ s \ {Max(s)} \in SUBSET S
                                    /\ Cardinality(s \ {Max(s)}) = Cardinality(s) - 1
  <2>1. \A s \in SUBSET S : s # {} => Max(s) \in s
    BY MaxOf
  <2>. QED
    BY <1>2, <2>1, FS_RemoveElement
<1>4. 0 \in A
  <2>. DEFINE h == [s \in SUBSET S |-> base]
  <2>1. ASSUME NEW s \in SUBSET S, Cardinality(s) <= 0 PROVE s = {}
    BY <1>2, <2>1, FS_EmptySet
  <2>2. Up(0, h)
    BY <2>1
  <2>. QED
    BY <2>2
<1>5. ASSUME NEW k \in Nat, k \in A PROVE k + 1 \in A
  <2>1. PICK h : Up(k, h)
    BY <1>5
  <2>. DEFINE g == [s \in SUBSET S |-> After(h, s)]
  <2>2. ASSUME NEW s \in SUBSET S, Cardinality(s) <= k + 1 PROVE g[s] = After(g, s)
    <3>1. CASE s = {}
      BY <3>1
    <3>2. CASE s # {}
      <4>. DEFINE t == s \ {Max(s)}
      <4>1. t \in SUBSET S /\ Cardinality(t) <= k
        <5>. HIDE DEF S
        <5>1. t \in SUBSET S /\ Cardinality(t) = Cardinality(s) - 1
          BY <1>3, <3>2
        <5>2. Cardinality(s) \in Nat
          BY <1>2
        <5>. QED
          BY <2>2, <5>1, <5>2
      <4>2. g[t] = h[t]
        BY <2>1, <4>1
      <4>. HIDE DEF t
      <4>3. g[s] = MoveEntry(h[t], list[Max(s)], at)
        BY <3>2 DEF t
      <4>. QED
        BY <3>2, <4>2, <4>3 DEF t
    <3>. QED
      BY <3>1, <3>2
  <2>3. Up(k + 1, g)
    BY <2>2
  <2>. HIDE DEF g, Up
  <2>. QED
    BY <2>3
<1>6. n \in A
  <2>. HIDE DEF A
  <2>1. 0 .. n \subseteq A
    BY <1>4, <1>5, StepInduction
  <2>. QED
    BY <2>1
<1>7. PICK h : Up(n, h)
  BY <1>6
<1>. DEFINE g == [s \in SUBSET S |-> h[s]]
<1>8. \A s \in SUBSET S : h[s] = After(h, s)
  BY <1>2, <1>7
<1>9. \A s \in SUBSET S : g[s] = After(g, s)
  BY <1>3, <1>8
<1>10. g = [s \in SUBSET S |-> After(g, s)]
  BY <1>9
<1>. QED
  BY <1>0, <1>10 DEF Turns

\* What moveMilesTo returns, from the state after the last turn.
Settled(from, to, end) ==
  [from |-> [end.from EXCEPT !.row.transactions = @ + 1],
   to   |-> [end.to EXCEPT !.row.transactions = @ + 1]]

Start(from, to, amount) ==
  [amount |-> amount, skip |-> FALSE, from |-> from, to |-> to]

\* moveMilesTo ends in the last state of such a table.
LEMMA MovedIsSettled ==
  ASSUME NEW from, NEW to, NEW amount, NEW list, NEW at,
         \E n \in Nat : DOMAIN list = 1 .. n, CanTake(from, amount, at)
  PROVE  \E h : /\ Turns(Start(from, to, amount), list, at, h)
                /\ Moved(from, to, amount, list, at)
                     = Settled(from, to, h[DOMAIN list])
<1>. DEFINE h == CHOOSE x : Turns(Start(from, to, amount), list, at, x)
<1>1. Turns(Start(from, to, amount), list, at, h)
  BY TurnsExist
<1>2. Moved(from, to, amount, list, at) = Settled(from, to, h[DOMAIN list])
  BY DEF Moved, FoldLeft, MapThenFoldSet, Turns, Start, Settled
<1>. QED
  BY <1>1, <1>2

\* The states after each turn.
TurnsOver(base, list, at, n, h) ==
  n \in Nat /\ DOMAIN list = 1 .. n /\ Turns(base, list, at, h)

\* Each state follows from the one before by one turn of the loop.
LEMMA TurnStates ==
  ASSUME NEW base, NEW list, NEW at, NEW n, NEW h, TurnsOver(base, list, at, n, h)
  PROVE  /\ h[1 .. 0] = base
         /\ \A k \in Nat : k < n =>
              h[1 .. k + 1] = MoveEntry(h[1 .. k], list[k + 1], at)
<1>. n \in Nat /\ DOMAIN list = 1 .. n /\ Turns(base, list, at, h)
  BY DEF TurnsOver
<1>1. 1 .. 0 = {}
  OBVIOUS
<1>2. h[{}] = base
  BY DEF Turns
<1>3. ASSUME NEW k \in Nat, k < n
      PROVE  h[1 .. k + 1] = MoveEntry(h[1 .. k], list[k + 1], at)
  <2>. DEFINE s == 1 .. k + 1
  <2>1. s \in SUBSET (1 .. n) /\ s # {} /\ k + 1 \in s
    BY <1>3
  <2>2. Max(s) \in s /\ \A x \in s : x <= Max(s)
    <3>. HIDE DEF s
    <3>. QED
      BY <2>1, MaxOf
  <2>3. Max(s) = k + 1
    BY <2>1, <2>2
  <2>4. s \ {k + 1} = 1 .. k
    OBVIOUS
  <2>. HIDE DEF s
  <2>5. h[s] = MoveEntry(h[s \ {Max(s)}], list[Max(s)], at)
    BY <2>1 DEF Turns
  <2>. QED
    BY <2>3, <2>4, <2>5 DEF s
<1>. QED
  BY <1>1, <1>2, <1>3

-----------------------------------------------------------------------------
(* What rows hold                                                           *)

IsRows(m) == m \in [DOMAIN m -> MileRow] /\ IsFiniteSet(DOMAIN m)

\* The miles of the rows m that expire on a date of E.
Counted(row, E) == IF row.expires \in E THEN row.amount ELSE 0

Part(m, E) == [i \in DOMAIN m |-> Counted(m[i], E)]

Held(m, E) == SumFunctionOnSet(Part(m, E), DOMAIN m)

Only(m, S) == [i \in S |-> m[i]]

\* A row counts for its amount or not at all.
LEMMA CountedType ==
  ASSUME NEW row \in MileRow, NEW E
  PROVE  Counted(row, E) \in Nat /\ Counted(row, E) <= row.amount
BY DEF Counted, MileRow

\* Rows hold a natural number of miles.
LEMMA HeldType ==
  ASSUME NEW m, IsRows(m), NEW E
  PROVE  /\ \A i \in DOMAIN m : Part(m, E)[i] \in Nat /\ Part(m, E)[i] \in Int
         /\ Held(m, E) \in Nat
<1>1. \A i \in DOMAIN m : Part(m, E)[i] \in Nat
  BY CountedType DEF Part, IsRows
<1>2. Held(m, E) \in Nat
  <2>. DEFINE N == Nat
  <2>1. N \in {Nat, Int} /\ \A i \in DOMAIN m : Part(m, E)[i] \in N
    BY <1>1
  <2>. QED
    BY <2>1, SumType DEF Held, IsRows
<1>. QED
  BY <1>1, <1>2

\* A table is rows by their ids.
LEMMA SequenceIsRows ==
  ASSUME NEW s \in Seq(MileRow)
  PROVE  IsRows(s) /\ Len(s) \in Nat /\ DOMAIN s = 1 .. Len(s)
<1>1. Len(s) \in Nat /\ DOMAIN s = 1 .. Len(s) /\ s \in [DOMAIN s -> MileRow]
  BY LenProperties
<1>2. IsFiniteSet(1 .. Len(s))
  <2>1. \A n \in Nat : IsFiniteSet(1 .. n)
    BY FS_Interval
  <2>. QED
    BY <1>1, <2>1
<1>. QED
  BY <1>1, <1>2 DEF IsRows

\* Two tables that differ in one row at most.
LEMMA HeldReplace ==
  ASSUME NEW m, IsRows(m), NEW i \in DOMAIN m, NEW row \in MileRow, NEW new,
         new = [m EXCEPT ![i] = row]
  PROVE  /\ IsRows(new) /\ DOMAIN new = DOMAIN m
         /\ \A E : Held(new, E) = Held(m, E) - Counted(m[i], E) + Counted(row, E)
<1>1. IsRows(new) /\ DOMAIN new = DOMAIN m
  BY DEF IsRows
<1>2. ASSUME NEW E
      PROVE  Held(new, E) = Held(m, E) - Counted(m[i], E) + Counted(row, E)
  <2>. DEFINE D == DOMAIN m
              f == Part(m, E)
              g == Part(new, E)
              R == D \ {i}
  <2>1. IsFiniteSet(D) /\ IsFiniteSet(R)
    BY FS_RemoveElement DEF IsRows
  <2>2. /\ \A x \in D : f[x] \in Int /\ g[x] \in Int
        /\ \A x \in R : f[x] = g[x]
        /\ f[i] = Counted(m[i], E) /\ g[i] = Counted(row, E)
    <3>1. \A x \in D : f[x] \in Int /\ g[x] \in Int
      BY <1>1, HeldType
    <3>. QED
      BY <1>1, <3>1 DEF Part
  <2>. HIDE DEF f, g
  <2>3. /\ SumFunctionOnSet(f, D) = f[i] + SumFunctionOnSet(f, R)
        /\ SumFunctionOnSet(g, D) = g[i] + SumFunctionOnSet(g, R)
    BY <2>1, <2>2, SumRemove
  <2>4. SumFunctionOnSet(f, R) = SumFunctionOnSet(g, R)
    BY <2>1, <2>2, SumSame
  <2>5. /\ Held(m, E) = SumFunctionOnSet(f, D)
        /\ Held(new, E) = SumFunctionOnSet(g, D)
    BY <1>1 DEF Held, f, g
  <2>6. SumFunctionOnSet(f, R) \in Int
    <3>. DEFINE N == Int
    <3>1. N \in {Nat, Int} /\ \A x \in R : f[x] \in N
      BY <2>2
    <3>. QED
      BY <2>1, <3>1, SumType
  <2>7. f[i] \in Int /\ g[i] \in Int
    BY <2>2
  <2>. HIDE DEF R, D
  <2>. QED
    BY <2>2, <2>3, <2>4, <2>5, <2>6, <2>7
<1>. QED
  BY <1>1, <1>2

\* Rows in two parts.
LEMMA HeldSplit ==
  ASSUME NEW m, IsRows(m), NEW S \in SUBSET DOMAIN m
  PROVE  /\ IsRows(Only(m, S)) /\ IsRows(Only(m, DOMAIN m \ S))
         /\ \A E : Held(m, E) = Held(Only(m, S), E) + Held(Only(m, DOMAIN m \ S), E)
<1>. DEFINE R == DOMAIN m \ S
<1>1. IsFiniteSet(S) /\ IsFiniteSet(R)
  <2>1. R \in SUBSET DOMAIN m
    OBVIOUS
  <2>. HIDE DEF R
  <2>. QED
    BY <2>1, FS_Subset DEF IsRows
<1>2. IsRows(Only(m, S)) /\ IsRows(Only(m, R))
  BY <1>1 DEF IsRows, Only
<1>3. ASSUME NEW E PROVE Held(m, E) = Held(Only(m, S), E) + Held(Only(m, R), E)
  <2>. DEFINE f == Part(m, E)
  <2>1. \A x \in DOMAIN m : f[x] \in Int
    BY HeldType
  <2>2. Held(Only(m, S), E) = SumFunctionOnSet(f, S)
    <3>1. DOMAIN Only(m, S) = S /\ \A x \in S : f[x] = Part(Only(m, S), E)[x]
      BY DEF Part, Only
    <3>2. SumFunctionOnSet(f, S) = SumFunctionOnSet(Part(Only(m, S), E), S)
      <4>. HIDE DEF f
      <4>. QED
        BY <1>1, <2>1, <3>1, SumSame
    <3>. QED
      BY <3>1, <3>2 DEF Held
  <2>3. Held(Only(m, R), E) = SumFunctionOnSet(f, R)
    <3>1. DOMAIN Only(m, R) = R /\ \A x \in R : f[x] = Part(Only(m, R), E)[x]
      BY DEF Part, Only
    <3>2. SumFunctionOnSet(f, R) = SumFunctionOnSet(Part(Only(m, R), E), R)
      <4>1. \A x \in R : f[x] \in Int
        BY <2>1
      <4>. HIDE DEF f, R
      <4>. QED
        BY <1>1, <3>1, <4>1, SumSame
    <3>. QED
      BY <3>1, <3>2 DEF Held
  <2>4. SumFunctionOnSet(f, S \union R)
          = SumFunctionOnSet(f, S) + SumFunctionOnSet(f, R)
    <3>1. S \cap R = {} /\ \A x \in S \union R : f[x] \in Int
      BY <2>1
    <3>. HIDE DEF f, R
    <3>. QED
      BY <1>1, <3>1, SumUnion
  <2>5. Held(m, E) = SumFunctionOnSet(f, S \union R)
    <3>1. S \union R = DOMAIN m
      OBVIOUS
    <3>. QED
      BY <3>1 DEF Held
  <2>. QED
    BY <2>2, <2>3, <2>4, <2>5
<1>. QED
  BY <1>2, <1>3

\* What a single row holds.
LEMMA HeldOne ==
  ASSUME NEW m, NEW i, m = [x \in {i} |-> m[i]], m[i] \in MileRow, NEW E
  PROVE  Held(m, E) = Counted(m[i], E)
<1>. DEFINE f == Part(m, E)
<1>1. DOMAIN m = {i} /\ f[i] = Counted(m[i], E) /\ f[i] \in Int
  BY CountedType DEF Part
<1>2. \A x \in {} : f[x] \in Int
  OBVIOUS
<1>3. IsFiniteSet({}) /\ i \notin {} /\ {} \union {i} = {i}
  BY FS_EmptySet
<1>. HIDE DEF f
<1>4. SumFunctionOnSet(f, {} \union {i}) = f[i] + SumFunctionOnSet(f, {})
  BY <1>1, <1>2, <1>3, SumAdd
<1>5. SumFunctionOnSet(f, {}) = 0
  BY SumOfEmpty
<1>. QED
  BY <1>1, <1>3, <1>4, <1>5 DEF Held, f

\* What is left when a row is taken out.
LEMMA HeldWithout ==
  ASSUME NEW m, IsRows(m), NEW i \in DOMAIN m
  PROVE  /\ IsRows(Without(m, i)) /\ DOMAIN Without(m, i) = DOMAIN m \ {i}
         /\ \A E : Held(Without(m, i), E) = Held(m, E) - Counted(m[i], E)
<1>1. {i} \in SUBSET DOMAIN m
  OBVIOUS
<1>2. Without(m, i) = Only(m, DOMAIN m \ {i})
  BY DEF Without, Only
<1>3. ASSUME NEW E PROVE Held(Only(m, {i}), E) = Counted(m[i], E)
  <2>. DEFINE x == Only(m, {i})
  <2>1. x = [y \in {i} |-> x[i]] /\ x[i] = m[i] /\ m[i] \in MileRow
    BY DEF Only, IsRows
  <2>. HIDE DEF x
  <2>2. Held(x, E) = Counted(x[i], E)
    BY <2>1, HeldOne
  <2>. QED
    BY <2>1, <2>2 DEF x
<1>4. IsRows(Without(m, i)) /\ DOMAIN Without(m, i) = DOMAIN m \ {i}
  BY <1>1, <1>2, HeldSplit DEF Only
<1>5. ASSUME NEW E PROVE Held(Without(m, i), E) = Held(m, E) - Counted(m[i], E)
  <2>1. Held(m, E) = Held(Only(m, {i}), E) + Held(Only(m, DOMAIN m \ {i}), E)
    BY <1>1, HeldSplit
  <2>2. Held(Without(m, i), E) \in Nat /\ Counted(m[i], E) \in Nat
    BY <1>4, HeldType, CountedType DEF IsRows
  <2>. QED
    BY <1>2, <1>3, <2>1, <2>2
<1>. QED
  BY <1>4, <1>5

\* What one more row adds.
LEMMA HeldAppend ==
  ASSUME NEW s \in Seq(MileRow), NEW row \in MileRow, NEW E
  PROVE  Held(Append(s, row), E) = Held(s, E) + Counted(row, E)
<1>. DEFINE n == Len(s) + 1
            t == Append(s, row)
<1>1. /\ t \in Seq(MileRow) /\ Len(s) \in Nat /\ DOMAIN t = 1 .. n
      /\ t[n] = row /\ DOMAIN s = 1 .. Len(s) /\ \A k \in 1 .. Len(s) : t[k] = s[k]
  BY AppendProperties, LenProperties
<1>. HIDE DEF t
<1>2. IsRows(t) /\ n \in DOMAIN t
  BY <1>1, SequenceIsRows
<1>3. Without(t, n) = s
  <2>1. DOMAIN t \ {n} = 1 .. Len(s)
    BY <1>1
  <2>2. s = [k \in 1 .. Len(s) |-> s[k]]
    BY <1>1
  <2>. QED
    BY <1>1, <2>1, <2>2 DEF Without
<1>4. Held(Without(t, n), E) = Held(t, E) - Counted(t[n], E)
  BY <1>2, HeldWithout
<1>5. Held(t, E) \in Nat /\ Counted(row, E) \in Nat
  BY <1>2, HeldType, CountedType
<1>. QED
  BY <1>1, <1>3, <1>4, <1>5 DEF t

\* Rows that are numbered further.
LEMMA HeldShift ==
  ASSUME NEW s \in Seq(MileRow), NEW n \in Nat, NEW m,
         DOMAIN m = Further(n, DOMAIN s), \A k \in DOMAIN s : m[n + k] = s[k],
         NEW E
  PROVE  Held(m, E) = Held(s, E)
<1>. DEFINE f == Part(m, E)
            g == Part(s, E)
<1>1. IsRows(s) /\ DOMAIN s \in SUBSET Nat
  BY SequenceIsRows
<1>2. PICK T \in SUBSET Nat : T = DOMAIN s
  BY <1>1
<1>3. \A k \in T : g[k] \in Int
  BY <1>1, <1>2, HeldType
<1>4. \A k \in T : f[n + k] = g[k]
  BY <1>2 DEF Part, Further
<1>5. IsFiniteSet(T)
  BY <1>1, <1>2 DEF IsRows
<1>6. /\ Held(m, E) = SumFunctionOnSet(f, Further(n, T))
      /\ Held(s, E) = SumFunctionOnSet(g, T)
  BY <1>2 DEF Held, Part
<1>. HIDE DEF f, g
<1>7. SumFunctionOnSet(f, Further(n, T)) = SumFunctionOnSet(g, T)
  BY <1>3, <1>4, <1>5, SumShift
<1>. QED
  BY <1>6, <1>7

-----------------------------------------------------------------------------
(* What the methods do to copies                                            *)

CopyHeld(acc, E) == Held(acc.miles, E) + Held(acc.added, E)

\* Types of what a copy holds.
LEMMA CopyFacts ==
  ASSUME NEW acc, IsCopy(acc)
  PROVE  /\ IsRows(acc.miles) /\ IsRows(acc.added)
         /\ \A E : /\ Held(acc.miles, E) \in Nat /\ Held(acc.added, E) \in Nat
                   /\ CopyHeld(acc, E) \in Nat
<1>1. IsRows(acc.miles) /\ IsRows(acc.added)
  BY SequenceIsRows DEF IsCopy, IsRows
<1>2. \A E : Held(acc.miles, E) \in Nat /\ Held(acc.added, E) \in Nat
  BY <1>1, HeldType
<1>. QED
  BY <1>1, <1>2 DEF CopyHeld

\* addExpiringMiles and addNonExpiringMiles: one entry more.
LEMMA WithMilesFacts ==
  ASSUME NEW acc, IsCopy(acc), NEW amount \in Nat, NEW expires \in Dates,
         NEW at \in 0 .. MaxTime, NEW new, new = WithMiles(acc, amount, expires, at)
  PROVE  /\ IsCopy(new)
         /\ new.id = acc.id /\ new.miles = acc.miles
         /\ new.added = Append(acc.added, Entry(amount, expires, at))
         /\ new.row.client = acc.row.client /\ new.row.active = acc.row.active
         /\ \A E : CopyHeld(new, E)
                     = CopyHeld(acc, E) + Counted(Entry(amount, expires, at), E)
<1>. DEFINE e == Entry(amount, expires, at)
<1>1. e \in MileRow
  BY DEF Entry, MileRow
<1>. HIDE DEF e
<1>2. /\ acc = [id |-> acc.id, row |-> acc.row, miles |-> acc.miles, added |-> acc.added]
      /\ acc.row \in AccountRow /\ acc.added \in Seq(MileRow)
  BY DEF IsCopy
<1>3. new = [acc EXCEPT !.added = Append(@, e), !.row.transactions = @ + 1]
  BY DEF WithMiles, e
<1>4. /\ new = [id |-> acc.id, row |-> new.row, miles |-> acc.miles, added |-> Append(acc.added, e)]
      /\ new.row = [acc.row EXCEPT !.transactions = @ + 1]
  BY <1>2, <1>3
<1>5. /\ new.row \in AccountRow
      /\ new.row.client = acc.row.client /\ new.row.active = acc.row.active
  BY <1>2, <1>4 DEF AccountRow
<1>6. /\ new.id = acc.id /\ new.miles = acc.miles /\ new.added = Append(acc.added, e)
      /\ new = [id |-> new.id, row |-> new.row, miles |-> new.miles, added |-> new.added]
  BY <1>4
<1>7. Append(acc.added, e) \in Seq(MileRow)
  BY <1>1, <1>2, AppendProperties
<1>8. IsCopy(new)
  BY <1>5, <1>6, <1>7 DEF IsCopy
<1>9. ASSUME NEW E PROVE CopyHeld(new, E) = CopyHeld(acc, E) + Counted(e, E)
  <2>1. Held(Append(acc.added, e), E) = Held(acc.added, E) + Counted(e, E)
    BY <1>1, <1>2, HeldAppend
  <2>2. /\ Held(acc.added, E) \in Nat /\ Held(acc.miles, E) \in Nat
        /\ Counted(e, E) \in Nat
    BY <1>1, CopyFacts, CountedType
  <2>. QED
    BY <1>6, <2>1, <2>2 DEF CopyHeld
<1>. QED
  BY <1>5, <1>6, <1>8, <1>9 DEF e

\* The state of the loop of moveMilesTo.
IsMove(state) ==
  /\ state = [amount |-> state.amount, skip |-> state.skip,
              from |-> state.from, to |-> state.to]
  /\ state.amount \in Int /\ state.skip \in BOOLEAN
  /\ IsCopy(state.from) /\ IsCopy(state.to)

\* What a turn, or several, may change.
SameAccounts(old, new) ==
  /\ new.from.id = old.from.id /\ new.from.row = old.from.row
  /\ new.from.added = old.from.added
  /\ new.to.id = old.to.id /\ new.to.miles = old.to.miles
  /\ new.to.row.client = old.to.row.client
  /\ new.to.row.active = old.to.row.active
  /\ DOMAIN new.from.miles \subseteq DOMAIN old.from.miles
  /\ \A E : CopyHeld(new.from, E) + CopyHeld(new.to, E)
              = CopyHeld(old.from, E) + CopyHeld(old.to, E)

\* One turn of moveMilesTo keeps what both copies hold on every set of dates.
LEMMA MoveFacts ==
  ASSUME NEW state, IsMove(state), NEW at \in 0 .. MaxTime,
         NEW i \in DOMAIN state.from.miles, NEW new, new = MoveEntry(state, i, at)
  PROVE  /\ IsMove(new) /\ SameAccounts(state, new)
         /\ DOMAIN state.from.miles \ {i} \subseteq DOMAIN new.from.miles
<1>. DEFINE m == state.from.miles[i]
            rows == state.from.miles
<1>1. /\ state = [amount |-> state.amount, skip |-> state.skip,
                  from |-> state.from, to |-> state.to]
      /\ state.amount \in Int /\ state.skip \in BOOLEAN
      /\ IsCopy(state.from) /\ IsCopy(state.to)
      /\ IsRows(rows)
  BY CopyFacts DEF IsMove
<1>2. m \in MileRow /\ m.amount \in Nat /\ m.expires \in Dates
  BY <1>1 DEF IsRows, MileRow
<1>3. /\ state.from = [id |-> state.from.id, row |-> state.from.row,
                       miles |-> rows, added |-> state.from.added]
      /\ state.from.row \in AccountRow /\ state.from.added \in Seq(MileRow)
      /\ rows \in [DOMAIN rows -> MileRow] /\ DOMAIN rows \subseteq Nat
  BY <1>1 DEF IsCopy
<1>4. \A E : /\ CopyHeld(state.from, E) \in Nat /\ CopyHeld(state.to, E) \in Nat
             /\ Held(rows, E) \in Nat /\ Held(state.from.added, E) \in Nat
             /\ CopyHeld(state.from, E) = Held(rows, E) + Held(state.from.added, E)
  BY <1>1, CopyFacts DEF CopyHeld
<1>5. CASE new.amount = state.amount /\ new.from = state.from /\ new.to = state.to
           /\ new = [state EXCEPT !.skip = new.skip] /\ new.skip \in BOOLEAN
  BY <1>1, <1>4, <1>5 DEF IsMove, SameAccounts
\* A turn that takes x from entry i and gives it away.
<1>6. ASSUME NEW x \in Nat, NEW left, IsRows(left), DOMAIN left \subseteq DOMAIN rows,
             DOMAIN rows \ {i} \subseteq DOMAIN left,
             \A E : Held(left, E)
                      = Held(rows, E) - Counted(Entry(x, m.expires, at), E),
             new = [ amount |-> state.amount - m.amount, skip |-> new.skip,
                     from |-> [state.from EXCEPT !.miles = left],
                     to |-> WithMiles(state.to, x, m.expires, at) ],
             new.skip \in BOOLEAN
      PROVE  /\ IsMove(new) /\ SameAccounts(state, new)
             /\ DOMAIN state.from.miles \ {i} \subseteq DOMAIN new.from.miles
  <2>. DEFINE e == Entry(x, m.expires, at)
  <2>1. /\ new.from = [id |-> state.from.id, row |-> state.from.row,
                       miles |-> left, added |-> state.from.added]
        /\ new.to = WithMiles(state.to, x, m.expires, at)
        /\ new.amount = state.amount - m.amount
        /\ new = [amount |-> new.amount, skip |-> new.skip,
                  from |-> new.from, to |-> new.to]
    BY <1>3, <1>6
  <2>2. IsCopy(new.from)
    BY <1>3, <1>6, <2>1 DEF IsCopy, IsRows
  <2>3. /\ IsCopy(new.to) /\ new.to.id = state.to.id /\ new.to.miles = state.to.miles
        /\ new.to.row.client = state.to.row.client
        /\ new.to.row.active = state.to.row.active
        /\ \A E : CopyHeld(new.to, E) = CopyHeld(state.to, E) + Counted(e, E)
    BY <1>1, <1>2, <1>6, <2>1, WithMilesFacts
  <2>4. e \in MileRow
    BY <1>2 DEF Entry, MileRow
  <2>. HIDE DEF e
  <2>5. ASSUME NEW E
        PROVE  CopyHeld(new.from, E) + CopyHeld(new.to, E)
                 = CopyHeld(state.from, E) + CopyHeld(state.to, E)
    <3>1. CopyHeld(new.from, E) = Held(left, E) + Held(state.from.added, E)
      BY <2>1 DEF CopyHeld
    <3>2. Held(left, E) = Held(rows, E) - Counted(e, E) /\ Counted(e, E) \in Nat
      BY <1>6, <2>4, CountedType DEF e
    <3>. QED
      BY <1>4, <2>3, <3>1, <3>2
  <2>6. new.amount \in Int
    BY <1>1, <1>2, <2>1
  <2>. QED
    BY <1>6, <2>1, <2>2, <2>3, <2>5, <2>6 DEF IsMove, SameAccounts
<1>7. CASE state.skip
  <2>1. new = [state EXCEPT !.skip = FALSE]
    BY <1>7 DEF MoveEntry
  <2>. QED
    BY <1>1, <1>5, <2>1
<1>8. CASE ~state.skip /\ (state.amount <= 0 \/ ~Live(m, at))
  <2>1. new = state
    BY <1>1, <1>8 DEF MoveEntry
  <2>. QED
    BY <1>1, <1>5, <2>1
<1>9. CASE ~state.skip /\ state.amount > 0 /\ Live(m, at) /\ m.amount <= state.amount
  <2>1. new = [ amount |-> state.amount - m.amount, skip |-> TRUE,
                from |-> [state.from EXCEPT !.miles = Without(rows, i)],
                to |-> WithMiles(state.to, m.amount, m.expires, at) ]
    BY <1>1, <1>9 DEF MoveEntry
  <2>2. /\ IsRows(Without(rows, i)) /\ DOMAIN Without(rows, i) = DOMAIN rows \ {i}
        /\ \A E : Held(Without(rows, i), E) = Held(rows, E) - Counted(m, E)
    BY <1>1, HeldWithout
  <2>. DEFINE left == Without(rows, i)
  <2>3. \A E : Counted(m, E) = Counted(Entry(m.amount, m.expires, at), E)
    BY DEF Counted, Entry
  <2>4. \A E : Held(left, E)
                 = Held(rows, E) - Counted(Entry(m.amount, m.expires, at), E)
    BY <2>2, <2>3
  <2>5. /\ new = [ amount |-> state.amount - m.amount, skip |-> new.skip,
                   from |-> [state.from EXCEPT !.miles = left],
                   to |-> WithMiles(state.to, m.amount, m.expires, at) ]
        /\ new.skip \in BOOLEAN
    BY <2>1
  <2>6. /\ IsRows(left) /\ DOMAIN left \subseteq DOMAIN rows
        /\ DOMAIN rows \ {i} \subseteq DOMAIN left
    BY <2>2
  <2>. HIDE DEF left, m, rows
  <2>. QED
    BY <1>2, <1>6, <2>4, <2>5, <2>6 DEF rows
<1>10. CASE ~state.skip /\ state.amount > 0 /\ Live(m, at) /\ ~(m.amount <= state.amount)
  <2>. DEFINE row  == Subtracted(m, state.amount)
              left == [rows EXCEPT ![i] = row]
              e    == Entry(state.amount, m.expires, at)
  <2>1. new = [ amount |-> state.amount - m.amount, skip |-> FALSE,
                from |-> [state.from EXCEPT !.miles = left],
                to |-> WithMiles(state.to, state.amount, m.expires, at) ]
    BY <1>1, <1>3, <1>10 DEF MoveEntry
  <2>2. /\ row \in MileRow /\ state.amount \in Nat
        /\ row.amount = m.amount - state.amount /\ row.expires = m.expires
    BY <1>1, <1>2, <1>10 DEF Subtracted, MileRow
  <2>. HIDE DEF row
  <2>3. /\ IsRows(left) /\ DOMAIN left = DOMAIN rows
        /\ \A E : Held(left, E) = Held(rows, E) - Counted(m, E) + Counted(row, E)
    BY <1>1, <2>2, HeldReplace
  <2>4. ASSUME NEW E PROVE Held(left, E) = Held(rows, E) - Counted(e, E)
    <3>1. Counted(m, E) = Counted(row, E) + Counted(e, E)
      BY <1>1, <1>2, <2>2 DEF Counted, Entry
    <3>2. Counted(row, E) \in Nat /\ Counted(e, E) \in Nat
      BY <1>1, <1>2, <2>2 DEF Counted, Entry, MileRow
    <3>. HIDE DEF e, left
    <3>. QED
      BY <1>4, <2>3, <3>1, <3>2
  <2>5. /\ new = [ amount |-> state.amount - m.amount, skip |-> new.skip,
                   from |-> [state.from EXCEPT !.miles = left],
                   to |-> WithMiles(state.to, state.amount, m.expires, at) ]
        /\ new.skip \in BOOLEAN
    BY <2>1
  <2>. HIDE DEF left, m, rows
  <2>. QED
    BY <1>6, <2>2, <2>3, <2>4, <2>5 DEF e, rows
<1>. QED
  BY <1>1, <1>7, <1>8, <1>9, <1>10

\* The loop as a whole: rows leave one account for the other, and what both
\* hold stays the same for every date of expiration.
LEMMA MovedFacts ==
  ASSUME NEW from, IsCopy(from), NEW to, IsCopy(to), NEW amount \in Nat,
         NEW at \in 0 .. MaxTime, NEW list \in SetToSeqs(DOMAIN from.miles),
         CanTake(from, amount, at),
         NEW moved, moved = Moved(from, to, amount, list, at)
  PROVE  /\ IsCopy(moved.from) /\ IsCopy(moved.to)
         /\ moved.from.id = from.id /\ moved.to.id = to.id
         /\ moved.from.row.client = from.row.client
         /\ moved.from.row.active = from.row.active
         /\ moved.to.row.client = to.row.client
         /\ moved.to.row.active = to.row.active
         /\ moved.from.added = from.added /\ moved.to.miles = to.miles
         /\ DOMAIN moved.from.miles \subseteq DOMAIN from.miles
         /\ \A E : CopyHeld(moved.from, E) + CopyHeld(moved.to, E)
                     = CopyHeld(from, E) + CopyHeld(to, E)
<1>. DEFINE D == DOMAIN from.miles
            start == Start(from, to, amount)
<1>1. PICK n \in Nat :
        /\ DOMAIN list = 1 .. n
        /\ \A k \in 1 .. n : list[k] \in D
        /\ \A j, k \in 1 .. n : j # k => list[j] # list[k]
  <2>1. IsFiniteSet(D)
    BY DEF IsCopy
  <2>. HIDE DEF D
  <2>. QED
    BY <2>1, ListOf DEF D
<1>2. PICK h : Turns(start, list, at, h) /\ moved = Settled(from, to, h[DOMAIN list])
  <2>1. \E m \in Nat : DOMAIN list = 1 .. m
    BY <1>1
  <2>. QED
    BY <2>1, MovedIsSettled
<1>3. /\ h[1 .. 0] = start
      /\ \A k \in Nat : k < n => h[1 .. k + 1] = MoveEntry(h[1 .. k], list[k + 1], at)
  <2>. HIDE DEF start
  <2>1. TurnsOver(start, list, at, n, h)
    BY <1>1, <1>2 DEF TurnsOver
  <2>. QED
    BY <2>1, TurnStates
<1>. DEFINE Good(k) == /\ IsMove(h[1 .. k]) /\ SameAccounts(start, h[1 .. k])
                       /\ \A j \in 1 .. n : j > k => list[j] \in DOMAIN h[1 .. k].from.miles
            A == {k \in Nat : k <= n => Good(k)}
<1>4. 0 \in A
  <2>1. /\ start = [amount |-> start.amount, skip |-> start.skip,
                    from |-> start.from, to |-> start.to]
        /\ start.amount = amount /\ start.skip = FALSE
        /\ start.from = from /\ start.to = to
    BY DEF Start
  <2>. HIDE DEF start
  <2>2. IsMove(start)
    <3>1. start.amount \in Int
      BY <2>1
    <3>3. start.skip \in BOOLEAN
      BY <2>1, Zenon
    <3>2. IsCopy(start.from) /\ IsCopy(start.to)
      BY <2>1
    <3>. QED
      BY <2>1, <3>1, <3>2, <3>3, Zenon DEF IsMove
  <2>4. SameAccounts(start, start)
    BY DEF SameAccounts
  <2>3. Good(0)
    BY <1>1, <1>3, <2>1, <2>2, <2>4
  <2>. QED
    BY <2>3
<1>5. ASSUME NEW k \in Nat, k < n /\ k \in A PROVE k + 1 \in A
  <2>. DEFINE old == h[1 .. k]
              new == h[1 .. k + 1]
              i   == list[k + 1]
  <2>1. Good(k) /\ k + 1 \in 1 .. n
    BY <1>1, <1>5
  <2>2. IsMove(old) /\ SameAccounts(start, old) /\ i \in DOMAIN old.from.miles
    BY <2>1
  <2>3. new = MoveEntry(old, i, at)
    BY <1>3, <1>5
  <2>4. /\ IsMove(new) /\ SameAccounts(old, new)
        /\ DOMAIN old.from.miles \ {i} \subseteq DOMAIN new.from.miles
    <3>. HIDE DEF old, new, i
    <3>. QED
      BY <2>2, <2>3, MoveFacts
  <2>5. SameAccounts(start, new)
    <3>. HIDE DEF old, new, start
    <3>. QED
      BY <2>2, <2>4 DEF SameAccounts
  <2>6. ASSUME NEW j \in 1 .. n, j > k + 1 PROVE list[j] \in DOMAIN new.from.miles
    <3>1. list[j] \in DOMAIN old.from.miles
      BY <2>1, <2>6
    <3>2. list[j] # i
      BY <1>1, <2>1, <2>6
    <3>. HIDE DEF old, new, i
    <3>. QED
      BY <2>4, <3>1, <3>2
  <2>. QED
    BY <2>4, <2>5, <2>6
<1>6. Good(n)
  <2>. HIDE DEF A
  <2>1. 0 .. n \subseteq A
    BY <1>4, <1>5, StepInduction
  <2>. QED
    BY <2>1 DEF A
<1>. DEFINE end == h[1 .. n]
<1>7. IsMove(end) /\ SameAccounts(start, end) /\ moved = Settled(from, to, end)
  BY <1>1, <1>2, <1>6
<1>8. start.from = from /\ start.to = to
  BY DEF Start
<1>. HIDE DEF end, start
<1>9. ASSUME NEW x, IsCopy(x)
      PROVE  LET y == [x EXCEPT !.row.transactions = @ + 1]
             IN  /\ IsCopy(y) /\ y.id = x.id /\ y.miles = x.miles /\ y.added = x.added
                 /\ y.row.client = x.row.client /\ y.row.active = x.row.active
                 /\ \A E : CopyHeld(y, E) = CopyHeld(x, E)
  <2>. DEFINE y == [x EXCEPT !.row.transactions = @ + 1]
  <2>1. /\ x = [id |-> x.id, row |-> x.row, miles |-> x.miles, added |-> x.added]
        /\ x.row \in AccountRow
    BY <1>9 DEF IsCopy
  <2>2. /\ y = [id |-> x.id, row |-> y.row, miles |-> x.miles, added |-> x.added]
        /\ y.row = [x.row EXCEPT !.transactions = @ + 1]
    BY <2>1
  <2>3. /\ y.row \in AccountRow
        /\ y.row.client = x.row.client /\ y.row.active = x.row.active
    BY <2>1, <2>2 DEF AccountRow
  <2>4. y.id = x.id /\ y.miles = x.miles /\ y.added = x.added
    BY <2>2
  <2>. HIDE DEF y
  <2>5. IsCopy(y)
    BY <1>9, <2>2, <2>3, <2>4 DEF IsCopy
  <2>6. \A E : CopyHeld(y, E) = CopyHeld(x, E)
    BY <2>4 DEF CopyHeld
  <2>. QED
    BY <2>3, <2>4, <2>5, <2>6 DEF y
<1>10. /\ moved.from = [end.from EXCEPT !.row.transactions = @ + 1]
       /\ moved.to = [end.to EXCEPT !.row.transactions = @ + 1]
  BY <1>7 DEF Settled
<1>11. IsCopy(end.from) /\ IsCopy(end.to)
  BY <1>7 DEF IsMove
<1>12. /\ IsCopy(moved.from) /\ moved.from.id = end.from.id
       /\ moved.from.miles = end.from.miles /\ moved.from.added = end.from.added
       /\ moved.from.row.client = end.from.row.client
       /\ moved.from.row.active = end.from.row.active
       /\ \A E : CopyHeld(moved.from, E) = CopyHeld(end.from, E)
  BY <1>9, <1>10, <1>11
<1>13. /\ IsCopy(moved.to) /\ moved.to.id = end.to.id
       /\ moved.to.miles = end.to.miles /\ moved.to.added = end.to.added
       /\ moved.to.row.client = end.to.row.client
       /\ moved.to.row.active = end.to.row.active
       /\ \A E : CopyHeld(moved.to, E) = CopyHeld(end.to, E)
  <2>. DEFINE x == end.to
  <2>1. IsCopy(x) /\ moved.to = [x EXCEPT !.row.transactions = @ + 1]
    BY <1>10, <1>11
  <2>. HIDE DEF x
  <2>. QED
    BY <1>9, <2>1 DEF x
<1>. QED
  BY <1>7, <1>8, <1>12, <1>13 DEF SameAccounts

-----------------------------------------------------------------------------
(* Types of what the calls keep                                             *)

IsCall(c) ==
  /\ c.op \in Methods \union {"none"}
  /\ c.op # "none" => c.client \in Clients
  /\ c.op \in {"earn", "grant", "spend", "transfer"} => c.amount \in Nat
  /\ c.op = "earn" => c.at \in 0 .. MaxTime /\ c.days \in Lifetimes
  /\ c.op = "transfer" => c.to \in Clients /\ (SelfTransfer \/ c.to # c.client)

\* A copy of an account of the tables.
IsCopyOf(acc, id) ==
  /\ IsCopy(acc) /\ acc.id = id
  /\ id \in DOMAIN accounts
  /\ DOMAIN acc.miles \subseteq DOMAIN miles

\* What is left to save.
IsSave(s) ==
  /\ IsCopyOf(s.copy, s.copy.id)
  /\ s.seen \in BOOLEAN
  /\ s.seen = TRUE => /\ s.row \in AccountRow
               /\ s.miles \in [DOMAIN s.copy.miles -> MileRow]
               /\ s.mine \subseteq DOMAIN miles

Grants(r) == call[r].op \in {"earn", "grant"}

\* A call that waits for the recipient's account holds the sender's.
Holding(r) ==
  pc[r] = "loadTo" =>
    /\ call[r].op = "transfer"
    /\ loaded[r] = <<loaded[r][1]>> /\ IsCopyOf(loaded[r][1], loaded[r][1].id)

Saving(r) ==
  /\ pc[r] # "saving" => saves[r] = {}
  /\ \A s \in saves[r] : IsSave(s) /\ (Grants(r) => s.copy.added # <<>>)

Types ==
  /\ TypeOK
  /\ DOMAIN call = Calls /\ DOMAIN loaded = Calls /\ DOMAIN saves = Calls
  /\ \A r \in Calls : IsCall(call[r]) /\ Holding(r) /\ Saving(r)


\* The tables row by row.
LEMMA RowsOfTables ==
  ASSUME TypeOK
  PROVE  /\ miles \in Seq(MileRow) /\ accounts \in Seq(AccountRow)
         /\ Len(miles) \in Nat /\ DOMAIN miles = 1 .. Len(miles)
         /\ DOMAIN owner = 1 .. Len(miles) /\ Len(owner) = Len(miles)
         /\ Len(accounts) \in Nat /\ DOMAIN accounts = 1 .. Len(accounts)
         /\ \A i \in DOMAIN miles : miles[i] \in MileRow /\ owner[i] \in 0 .. Len(accounts)
         /\ \A a \in DOMAIN accounts : accounts[a] \in AccountRow
<1>1. miles \in Seq(MileRow) /\ accounts \in Seq(AccountRow) /\ owner \in Seq(0 .. Len(accounts))
  BY DEF TypeOK, MileRow, AccountRow
<1>2. Len(owner) = Len(miles)
  BY DEF TypeOK
<1>3. /\ Len(miles) \in Nat /\ DOMAIN miles = 1 .. Len(miles)
      /\ miles \in [1 .. Len(miles) -> MileRow]
  BY <1>1, LenProperties
<1>4. /\ Len(accounts) \in Nat /\ DOMAIN accounts = 1 .. Len(accounts)
      /\ accounts \in [1 .. Len(accounts) -> AccountRow]
  BY <1>1, LenProperties
<1>5. /\ DOMAIN owner = 1 .. Len(owner)
      /\ owner \in [1 .. Len(owner) -> 0 .. Len(accounts)]
  BY <1>1, LenProperties
<1>. QED
  BY <1>1, <1>2, <1>3, <1>4, <1>5

\* What a SELECT of an account returns.
LEMMA FoundFacts ==
  ASSUME TypeOK, NEW client, NEW acc \in Found(client)
  PROVE  /\ IsCopyOf(acc, acc.id)
         /\ acc.row = accounts[acc.id] /\ accounts[acc.id].client = client
         /\ acc.miles = [i \in {j \in DOMAIN miles : owner[j] = acc.id} |-> miles[i]]
         /\ acc.added = <<>>
<1>1. PICK a \in DOMAIN accounts :
        /\ accounts[a].client = client
        /\ acc = [ id    |-> a,
                   row   |-> accounts[a],
                   miles |-> [i \in {j \in DOMAIN miles : owner[j] = a} |-> miles[i]],
                   added |-> <<>> ]
  BY DEF Found
<1>. DEFINE R == {j \in DOMAIN miles : owner[j] = a}
            M == [i \in R |-> miles[i]]
<1>2. /\ acc.id = a /\ acc.row = accounts[a] /\ acc.added = <<>> /\ acc.miles = M
      /\ acc = [id |-> acc.id, row |-> acc.row, miles |-> acc.miles, added |-> acc.added]
  <2>. HIDE DEF M
  <2>1. acc = [id |-> a, row |-> accounts[a], miles |-> M, added |-> <<>>]
    BY <1>1 DEF M
  <2>. QED
    BY <2>1
<1>3. R \subseteq Nat /\ R \subseteq DOMAIN miles /\ IsFiniteSet(R)
  <2>1. R \in SUBSET (1 .. Len(miles)) /\ IsFiniteSet(1 .. Len(miles))
    BY RowsOfTables, FS_Interval
  <2>. HIDE DEF R
  <2>2. IsFiniteSet(R)
    BY <2>1, FS_Subset
  <2>. QED
    BY <2>1, <2>2, RowsOfTables
<1>4. DOMAIN M = R /\ M \in [R -> MileRow]
  <2>1. \A i \in R : miles[i] \in MileRow
    BY RowsOfTables
  <2>. HIDE DEF R
  <2>. QED
    BY <2>1
<1>5. accounts[a] \in AccountRow /\ acc.added \in Seq(MileRow)
  BY <1>2, RowsOfTables, EmptySeq
<1>6. IsCopyOf(acc, acc.id)
  <2>. HIDE DEF R, M
  <2>1. IsCopy(acc)
    BY <1>2, <1>3, <1>4, <1>5 DEF IsCopy
  <2>. QED
    BY <1>1, <1>2, <1>3, <1>4, <2>1 DEF IsCopyOf
<1>. QED
  BY <1>1, <1>2, <1>6

\* The tables start with their types.
LEMMA TypesInit == Init => Types
<1>. SUFFICES ASSUME Init PROVE Types
  OBVIOUS
<1>. DEFINE row(c) == [NewAccount(c) EXCEPT !.active = TRUE]
            S == {row(c) : c \in InitiallyActive}
<1>1. S \subseteq AccountRow
  <2>1. \A c \in InitiallyActive : row(c) \in AccountRow
    BY AwardsAssumption DEF NewAccount, AccountRow
  <2>. HIDE DEF row
  <2>. QED
    BY <2>1
<1>2. IsFiniteSet(S)
  <2>. DEFINE f == [c \in InitiallyActive |-> row(c)]
  <2>. HIDE DEF row
  <2>1. f \in Surjection(InitiallyActive, S)
    BY DEF Surjection
  <2>. HIDE DEF f, S
  <2>2. IsFiniteSet(InitiallyActive)
    BY AwardsAssumption
  <2>. QED
    BY <2>1, <2>2, FS_Surjection
<1>3. accounts = SetToSeq(S)
  BY DEF Init
<1>. HIDE DEF S
<1>4. accounts \in Seq(AccountRow)
  <2>. DEFINE n == Cardinality(S)
  <2>1. n \in Nat /\ ExistsBijection(1 .. n, S)
    BY <1>2, FS_CardinalityType
  <2>2. \E f \in [1 .. n -> S] : IsInjective(f)
    BY <2>1 DEF ExistsBijection, Bijection, Injection
  <2>3. accounts \in [1 .. n -> S]
    <3>1. accounts = CHOOSE f \in [1 .. n -> S] : IsInjective(f)
      BY <1>3 DEF SetToSeq
    <3>. HIDE DEF n
    <3>. QED
      BY <2>2, <3>1
  <2>. HIDE DEF n
  <2>4. accounts \in [1 .. n -> AccountRow]
    BY <1>1, <2>3
  <2>. QED
    BY <2>1, <2>4, SeqDef
<1>5. TypeOK
  <2>1. now \in 0 .. MaxTime
    BY AwardsAssumption DEF Init
  <2>2. miles \in Seq(MileRow) /\ owner \in Seq(0 .. Len(accounts)) /\ Len(owner) = Len(miles)
    BY EmptySeq DEF Init
  <2>3. pc \in [Calls -> {"idle", "load", "loadTo", "saving", "answered"}]
    BY DEF Init
  <2>4. granted \in [Dates -> Nat] /\ spent \in Nat
    BY DEF Init
  <2>. QED
    BY <1>4, <2>1, <2>2, <2>3, <2>4 DEF TypeOK, MileRow, AccountRow
<1>6. DOMAIN call = Calls /\ DOMAIN loaded = Calls /\ DOMAIN saves = Calls
  BY DEF Init
<1>7. ASSUME NEW r \in Calls PROVE IsCall(call[r]) /\ Holding(r) /\ Saving(r)
  <2>1. pc[r] = "idle" /\ call[r] = NoCall /\ saves[r] = {}
    BY DEF Init
  <2>. QED
    BY <2>1 DEF NoCall, IsCall, Holding, Saving
<1>. QED
  BY <1>5, <1>6, <1>7 DEF Types

\* An UPDATE of an account leaves an account.
LEMMA ColumnsOfAccount ==
  ASSUME NEW old \in AccountRow, NEW seen, NEW x \in AccountRow
  PROVE  Columns(old, seen, x) \in AccountRow /\ Columns(old, old, x) = x
<1>1. /\ x = [client |-> x.client, active |-> x.active, transactions |-> x.transactions]
      /\ DOMAIN x = {"client", "active", "transactions"}
      /\ x.client \in Clients /\ x.active \in BOOLEAN /\ x.transactions \in Nat
  BY DEF AccountRow
<1>2. old.client \in Clients /\ old.active \in BOOLEAN /\ old.transactions \in Nat
  BY DEF AccountRow
<1>. DEFINE f == Columns(old, seen, x)
<1>3. /\ f.client \in Clients /\ f.active \in BOOLEAN /\ f.transactions \in Nat
      /\ f = [client |-> f.client, active |-> f.active, transactions |-> f.transactions]
  BY <1>1, <1>2 DEF Columns
<1>4. Columns(old, old, x) = x
  BY <1>1 DEF Columns
<1>. HIDE DEF f
<1>5. f \in AccountRow
  BY <1>3 DEF AccountRow
<1>. QED
  BY <1>4, <1>5 DEF f

\* An UPDATE of a row of miles leaves a row of miles.
LEMMA ColumnsOfMiles ==
  ASSUME NEW old \in MileRow, NEW seen, NEW x \in MileRow
  PROVE  Columns(old, seen, x) \in MileRow /\ Columns(old, old, x) = x
<1>1. /\ x = [amount |-> x.amount, expires |-> x.expires, date |-> x.date]
      /\ DOMAIN x = {"amount", "expires", "date"}
      /\ x.amount \in Nat /\ x.expires \in Dates /\ x.date \in 0 .. MaxTime
  BY DEF MileRow
<1>2. old.amount \in Nat /\ old.expires \in Dates /\ old.date \in 0 .. MaxTime
  BY DEF MileRow
<1>. DEFINE f == Columns(old, seen, x)
<1>3. /\ f.amount \in Nat /\ f.expires \in Dates /\ f.date \in 0 .. MaxTime
      /\ f = [amount |-> f.amount, expires |-> f.expires, date |-> f.date]
  BY <1>1, <1>2 DEF Columns
<1>4. Columns(old, old, x) = x
  BY <1>1 DEF Columns
<1>. HIDE DEF f
<1>5. f \in MileRow
  BY <1>3 DEF MileRow
<1>. QED
  BY <1>4, <1>5 DEF f

\* What a step of call r leaves alone.
OthersWait(r) ==
  /\ DOMAIN call' = Calls /\ DOMAIN loaded' = Calls /\ DOMAIN saves' = Calls
  /\ \A q \in Calls \ {r} :
       /\ pc'[q] = pc[q] /\ call'[q] = call[q]
       /\ loaded'[q] = loaded[q] /\ saves'[q] = saves[q]
  /\ DOMAIN accounts \subseteq DOMAIN accounts' /\ DOMAIN miles \subseteq DOMAIN miles'

\* It is enough that the tables and the call that moves keep their types.
LEMMA TypesOfStep ==
  ASSUME Types, NEW r \in Calls, OthersWait(r), TypeOK',
         IsCall(call'[r]), Holding(r)', Saving(r)'
  PROVE  Types'
<1>1. ASSUME NEW q \in Calls, q # r PROVE IsCall(call'[q]) /\ Holding(q)' /\ Saving(q)'
  <2>1. /\ pc'[q] = pc[q] /\ call'[q] = call[q]
        /\ loaded'[q] = loaded[q] /\ saves'[q] = saves[q]
    BY <1>1 DEF OthersWait
  <2>2. IsCall(call[q]) /\ Holding(q) /\ Saving(q)
    BY DEF Types
  <2>3. DOMAIN accounts \subseteq DOMAIN accounts' /\ DOMAIN miles \subseteq DOMAIN miles'
    BY DEF OthersWait
  <2>4. ASSUME NEW acc, NEW id, IsCopyOf(acc, id) PROVE IsCopyOf(acc, id)'
    BY <2>3, <2>4 DEF IsCopyOf
  <2>5. Holding(q)'
    <3>. PICK l : l = loaded[q][1]
      OBVIOUS
    <3>1. pc[q] = "loadTo" => IsCopyOf(l, l.id)
      BY <2>2 DEF Holding
    <3>2. pc[q] = "loadTo" => IsCopyOf(l, l.id)'
      BY <2>4, <3>1
    <3>. QED
      BY <2>1, <2>2, <3>2 DEF Holding
  <2>6. ASSUME NEW s \in saves[q] PROVE IsSave(s)' /\ (Grants(q)' => s.copy.added # <<>>)
    <3>1. IsSave(s) /\ (Grants(q) => s.copy.added # <<>>)
      BY <2>2 DEF Saving
    <3>2. IsCopyOf(s.copy, s.copy.id)'
      BY <2>4, <3>1 DEF IsSave
    <3>. QED
      BY <2>1, <2>3, <3>1, <3>2 DEF IsSave, Grants
  <2>7. Saving(q)'
    BY <2>1, <2>2, <2>6 DEF Saving
  <2>. QED
    BY <2>1, <2>2, <2>5, <2>7
<1>2. DOMAIN call' = Calls /\ DOMAIN loaded' = Calls /\ DOMAIN saves' = Calls
  BY DEF OthersWait
<1>. QED
  BY <1>1, <1>2 DEF Types

\* A call that ends keeps nothing.
LEMMA TypesOfFinish ==
  ASSUME Types, NEW r \in Calls, Finish(r), TypeOK',
         DOMAIN accounts \subseteq DOMAIN accounts', DOMAIN miles \subseteq DOMAIN miles'
  PROVE  Types' /\ OthersWait(r)
<1>1. /\ pc \in [Calls -> {"idle", "load", "loadTo", "saving", "answered"}]
      /\ DOMAIN call = Calls /\ DOMAIN loaded = Calls /\ DOMAIN saves = Calls
  BY DEF Types, TypeOK
<1>2. OthersWait(r)
  BY <1>1 DEF OthersWait, Finish
<1>3. pc'[r] = "answered" /\ call'[r] = NoCall /\ saves'[r] = {}
  BY <1>1 DEF Finish
<1>4. IsCall(call'[r]) /\ Holding(r)' /\ Saving(r)'
  BY <1>3 DEF IsCall, NoCall, Holding, Saving
<1>. QED
  BY <1>2, <1>4, TypesOfStep

\* A call that saves copies of accounts of the tables.
LEMMA TypesOfSaveAll ==
  ASSUME Types, NEW r \in Calls, NEW copies, SaveAll(r, copies), UNCHANGED now,
         \A c \in copies : IsCopyOf(c, c.id) /\ (Grants(r) => c.added # <<>>)
  PROVE  Types' /\ OthersWait(r)
<1>1. /\ pc \in [Calls -> {"idle", "load", "loadTo", "saving", "answered"}]
      /\ DOMAIN call = Calls /\ DOMAIN loaded = Calls /\ DOMAIN saves = Calls
  BY DEF Types, TypeOK
<1>2. UNCHANGED <<now, accounts, miles, owner, call, granted, spent>>
  BY DEF SaveAll, tables, history
<1>3. OthersWait(r)
  BY <1>1, <1>2 DEF OthersWait, SaveAll
<1>4. /\ pc'[r] = "saving"
      /\ saves'[r] = {[copy |-> c, seen |-> FALSE] : c \in copies}
  BY <1>1 DEF SaveAll
<1>5. TypeOK'
  <2>1. pc' \in [Calls -> {"idle", "load", "loadTo", "saving", "answered"}]
    BY <1>1 DEF SaveAll
  <2>. QED
    BY <1>2, <2>1 DEF Types, TypeOK, Dates
<1>6. ASSUME NEW s \in saves'[r]
      PROVE  IsSave(s)' /\ (Grants(r)' => s.copy.added # <<>>)
  <2>1. PICK c \in copies : s = [copy |-> c, seen |-> FALSE]
    BY <1>4
  <2>2. s.copy = c /\ s.seen = FALSE
    BY <2>1
  <2>3. IsCopyOf(c, c.id) /\ (Grants(r) => c.added # <<>>)
    OBVIOUS
  <2>4. IsCopyOf(c, c.id)'
    BY <1>2, <2>3 DEF IsCopyOf
  <2>5. Grants(r)' = Grants(r)
    BY <1>2 DEF Grants
  <2>. QED
    BY <2>2, <2>3, <2>4, <2>5 DEF IsSave
<1>7. IsCall(call'[r]) /\ Holding(r)' /\ Saving(r)'
  BY <1>2, <1>4, <1>6 DEF Types, Holding, Saving
<1>. QED
  BY <1>3, <1>5, <1>7, TypesOfStep

-----------------------------------------------------------------------------
(* What each call saves                                                     *)

\* activateAccount and deactivateAccount.
LEMMA StatusSaved ==
  ASSUME Types, NEW r \in Calls, ChangeStatus(r)
  PROVE  /\ ~Grants(r) /\ call[r].op # "spend" /\ UNCHANGED now
         /\ \E acc \in Found(call[r].client) : \E new :
              /\ SaveAll(r, {new})
              /\ IsCopyOf(acc, acc.id) /\ IsCopyOf(new, acc.id)
              /\ new.miles = acc.miles /\ new.added = acc.added
<1>1. PICK acc \in Found(call[r].client) :
        SaveAll(r, {[acc EXCEPT !.row.active = (call[r].op = "activate")]})
  BY DEF ChangeStatus
<1>. DEFINE b == call[r].op = "activate"
            new == [acc EXCEPT !.row.active = b]
<1>2. IsCopyOf(acc, acc.id)
  BY FoundFacts DEF Types
<1>3. b \in BOOLEAN
  BY Zenon
<1>4. /\ acc = [id |-> acc.id, row |-> acc.row, miles |-> acc.miles, added |-> acc.added]
      /\ acc.row \in AccountRow
  BY <1>2 DEF IsCopyOf, IsCopy
<1>5. SaveAll(r, {new})
  BY <1>1
<1>. HIDE DEF b
<1>6. /\ new = [id |-> acc.id, row |-> new.row, miles |-> acc.miles, added |-> acc.added]
      /\ new.row = [acc.row EXCEPT !.active = b]
  BY <1>4
<1>7. new.row \in AccountRow
  BY <1>3, <1>4, <1>6 DEF AccountRow
<1>8. new.id = acc.id /\ new.miles = acc.miles /\ new.added = acc.added
  BY <1>6
<1>. HIDE DEF new
<1>9. IsCopyOf(new, acc.id)
  BY <1>2, <1>6, <1>7, <1>8 DEF IsCopyOf, IsCopy
<1>10. ~Grants(r) /\ call[r].op # "spend" /\ UNCHANGED now
  BY DEF ChangeStatus, Called, Grants
<1>. QED
  BY <1>2, <1>5, <1>8, <1>9, <1>10

\* registerMiles and registerNonExpiringMiles: the account gets one entry.
Earning(r) == RegisterMiles(r) \/ RegisterNonExpiringMiles(r)

\* The saved copy is the account loaded with one entry more.
LEMMA EarningSaved ==
  ASSUME Types, NEW r \in Calls, Earning(r), ~Refuse(r)
  PROVE  /\ Grants(r) /\ UNCHANGED now
         /\ \E acc, expires, at, new :
              /\ acc \in Found(call[r].client) /\ expires \in Dates
              /\ at \in 0 .. MaxTime
              /\ SaveAll(r, {new})
              /\ new = WithMiles(acc, call[r].amount, expires, at)
              /\ call[r].amount \in Nat
              /\ IsCopyOf(acc, acc.id) /\ IsCopyOf(new, acc.id)
              /\ new.miles = acc.miles
              /\ new.added = <<Entry(call[r].amount, expires, at)>>
<1>1. IsCall(call[r]) /\ now \in 0 .. MaxTime
  BY DEF Types, TypeOK
<1>2. /\ Grants(r) /\ UNCHANGED now
      /\ \E acc \in Found(call[r].client), expires \in Dates, at \in 0 .. MaxTime :
           SaveAll(r, {WithMiles(acc, call[r].amount, expires, at)})
  <2>1. CASE RegisterMiles(r)
    <3>1. call[r].op = "earn" /\ UNCHANGED now
      BY <2>1 DEF RegisterMiles, Called
    <3>2. call[r].at \in 0 .. MaxTime /\ call[r].days \in Lifetimes
      BY <1>1, <3>1 DEF IsCall
    <3>3. call[r].at + call[r].days \in Dates
      BY <3>2 DEF Dates
    <3>. QED
      BY <2>1, <3>1, <3>2, <3>3 DEF RegisterMiles, Grants
  <2>2. CASE RegisterNonExpiringMiles(r)
    <3>1. call[r].op = "grant" /\ UNCHANGED now
      BY <2>2 DEF RegisterNonExpiringMiles, Called
    <3>2. Never \in Dates
      BY DEF Dates
    <3>. QED
      BY <1>1, <2>2, <3>1, <3>2 DEF RegisterNonExpiringMiles, Grants
  <2>. QED
    BY <2>1, <2>2 DEF Earning
<1>3. PICK acc \in Found(call[r].client), expires \in Dates, at \in 0 .. MaxTime :
        SaveAll(r, {WithMiles(acc, call[r].amount, expires, at)})
  BY <1>2
<1>4. call[r].amount \in Nat
  BY <1>1, <1>2 DEF IsCall, Grants
<1>5. PICK new : new = WithMiles(acc, call[r].amount, expires, at)
  OBVIOUS
<1>6. IsCopyOf(acc, acc.id) /\ IsCopy(acc) /\ acc.added = <<>>
  BY FoundFacts DEF Types, IsCopyOf
<1>7. /\ IsCopy(new) /\ new.id = acc.id /\ new.miles = acc.miles
      /\ new.added = Append(acc.added, Entry(call[r].amount, expires, at))
  BY <1>4, <1>5, <1>6, WithMilesFacts
<1>8. new.added = <<Entry(call[r].amount, expires, at)>>
  BY <1>6, <1>7
<1>9. IsCopyOf(new, acc.id)
  BY <1>6, <1>7 DEF IsCopyOf
<1>. QED
  BY <1>2, <1>3, <1>4, <1>5, <1>6, <1>7, <1>8, <1>9

\* removeMiles.
LEMMA RemovalSaved ==
  ASSUME Types, NEW r \in Calls, RemoveMiles(r), ~Refuse(r)
  PROVE  /\ call[r].op = "spend" /\ UNCHANGED now
         /\ \E acc \in Found(call[r].client) : \E new :
              \E list \in SortedLists(acc, call[r].strategy) :
              /\ SaveAll(r, {new})
              /\ new = WithoutMiles(acc, call[r].amount, list, now)
              /\ call[r].amount \in Nat
              /\ CanTake(acc, call[r].amount, now)
              /\ IsCopyOf(acc, acc.id) /\ IsCopyOf(new, acc.id)
              /\ new.row = acc.row /\ new.added = acc.added
              /\ DOMAIN new.miles = DOMAIN acc.miles
<1>1. call[r].op = "spend" /\ UNCHANGED now
  BY DEF RemoveMiles, Called
<1>2. PICK acc \in Found(call[r].client) :
        /\ CanTake(acc, call[r].amount, now)
        /\ \E list \in SortedLists(acc, call[r].strategy) :
             SaveAll(r, {WithoutMiles(acc, call[r].amount, list, now)})
  BY DEF RemoveMiles
<1>3. PICK list \in SortedLists(acc, call[r].strategy) :
        SaveAll(r, {WithoutMiles(acc, call[r].amount, list, now)})
  BY <1>2
<1>4. call[r].amount \in Nat
  BY <1>1 DEF Types, IsCall
<1>5. PICK new : new = WithoutMiles(acc, call[r].amount, list, now)
  OBVIOUS
<1>6. IsCopyOf(acc, acc.id) /\ IsCopy(acc)
  BY FoundFacts DEF Types, IsCopyOf
<1>7. list \in SetToSeqs(DOMAIN acc.miles)
  BY DEF SortedLists
<1>8. /\ IsCopy(new) /\ new.id = acc.id /\ new.row = acc.row /\ new.added = acc.added
      /\ DOMAIN new.miles = DOMAIN acc.miles
  BY <1>4, <1>5, <1>6, <1>7, WithoutFacts
<1>9. IsCopyOf(new, acc.id)
  BY <1>6, <1>8 DEF IsCopyOf
<1>. QED
  BY <1>1, <1>2, <1>3, <1>4, <1>5, <1>6, <1>8, <1>9

\* transferMiles: both accounts are saved, whether or not it moved anything.
TransferKeeps(from, to, newFrom, newTo) ==
  /\ newFrom.id = from.id /\ newTo.id = to.id
  /\ newFrom.row.active = from.row.active /\ newTo.row.active = to.row.active
  /\ DOMAIN newFrom.miles \subseteq DOMAIN from.miles
  /\ newTo.miles = to.miles
  /\ \A E : CopyHeld(newFrom, E) + CopyHeld(newTo, E)
              = CopyHeld(from, E) + CopyHeld(to, E)

\* What both copies hold is what both accounts held.
LEMMA TransferSaved ==
  ASSUME Types, NEW r \in Calls, TransferMiles(r)
  PROVE  /\ call[r].op = "transfer" /\ UNCHANGED now
         /\ \E to \in Found(call[r].to) : \E newFrom, newTo :
              /\ SaveAll(r, {newFrom, newTo})
              /\ IsCopyOf(loaded[r][1], loaded[r][1].id) /\ IsCopyOf(to, to.id)
              /\ IsCopyOf(newFrom, loaded[r][1].id) /\ IsCopyOf(newTo, to.id)
              /\ TransferKeeps(loaded[r][1], to, newFrom, newTo)
              /\ newFrom # loaded[r][1] => loaded[r][1].row.active
<1>1. /\ pc[r] = "loadTo" /\ UNCHANGED now
      /\ Holding(r) /\ IsCall(call[r]) /\ now \in 0 .. MaxTime
  BY DEF TransferMiles, Types, TypeOK
<1>2. PICK from : from = loaded[r][1]
  OBVIOUS
<1>3. call[r].op = "transfer" /\ IsCopyOf(from, from.id)
  BY <1>1, <1>2 DEF Holding
<1>4. PICK to \in Found(call[r].to), list \in SetToSeqs(DOMAIN from.miles) :
        LET moved == Moved(from, to, call[r].amount, list, now)
        IN  SaveAll(r, {moved.from, moved.to})
  BY <1>2 DEF TransferMiles
<1>5. PICK moved : moved = Moved(from, to, call[r].amount, list, now)
  OBVIOUS
<1>6. SaveAll(r, {moved.from, moved.to})
  BY <1>4, <1>5
<1>7. call[r].amount \in Nat
  BY <1>1, <1>3 DEF IsCall
<1>8. IsCopyOf(to, to.id) /\ IsCopy(to) /\ IsCopy(from)
  BY <1>3, FoundFacts DEF Types, IsCopyOf
<1>9. /\ IsCopy(moved.from) /\ IsCopy(moved.to)
      /\ TransferKeeps(from, to, moved.from, moved.to)
      /\ moved.from # from => from.row.active
  <2>1. CASE CanTake(from, call[r].amount, now)
    <3>1. PICK a \in Nat : a = call[r].amount
      BY <1>7
    <3>2. PICK t \in 0 .. MaxTime : t = now
      BY <1>1
    <3>3. CanTake(from, a, t) /\ moved = Moved(from, to, a, list, t)
      BY <1>5, <2>1, <3>1, <3>2
    <3>4. /\ IsCopy(moved.from) /\ IsCopy(moved.to)
          /\ moved.from.id = from.id /\ moved.to.id = to.id
          /\ moved.from.row.active = from.row.active
          /\ moved.to.row.active = to.row.active
          /\ moved.to.miles = to.miles
          /\ DOMAIN moved.from.miles \subseteq DOMAIN from.miles
          /\ \A E : CopyHeld(moved.from, E) + CopyHeld(moved.to, E)
                      = CopyHeld(from, E) + CopyHeld(to, E)
      BY <1>8, <3>3, MovedFacts
    <3>5. from.row.active
      BY <2>1 DEF CanTake
    <3>. QED
      BY <3>4, <3>5 DEF TransferKeeps
  <2>2. CASE ~CanTake(from, call[r].amount, now)
    <3>1. moved.from = from /\ moved.to = to
      BY <1>5, <2>2 DEF Moved
    <3>. QED
      BY <1>8, <3>1 DEF TransferKeeps
  <2>. QED
    BY <2>1, <2>2
<1>10. IsCopyOf(moved.from, from.id) /\ IsCopyOf(moved.to, to.id)
  BY <1>3, <1>8, <1>9 DEF IsCopyOf, TransferKeeps
<1>. QED
  BY <1>1, <1>2, <1>3, <1>6, <1>8, <1>9, <1>10

-----------------------------------------------------------------------------
(* Every step keeps the types                                               *)

\* A call starts with parameters of the right types.
LEMMA TypesBegin ==
  ASSUME Types, NEW r \in Calls, Begin(r)
  PROVE  Types' /\ OthersWait(r)
<1>1. /\ pc \in [Calls -> {"idle", "load", "loadTo", "saving", "answered"}]
      /\ DOMAIN call = Calls /\ DOMAIN loaded = Calls /\ DOMAIN saves = Calls
      /\ Saving(r) /\ now \in 0 .. MaxTime
  BY DEF Types, TypeOK
<1>2. /\ UNCHANGED <<now, accounts, miles, owner, loaded, saves, granted, spent>>
      /\ pc[r] = "idle" /\ pc' = [pc EXCEPT ![r] = "load"]
  BY DEF Begin, tables, history
<1>3. PICK o \in Operations : \E c \in Parameters(o) : call' = [call EXCEPT ![r] = c]
  BY DEF Begin
<1>4. PICK c \in Parameters(o) : call' = [call EXCEPT ![r] = c]
  BY <1>3
<1>5. o \in Methods /\ Amounts \subseteq Nat
  BY AwardsAssumption
<1>6. IsCall(c)
  <2>1. CASE o = "grant"
    BY <1>5, <2>1 DEF Parameters, IsCall, Methods
  <2>2. CASE o = "earn"
    BY <1>1, <1>5, <2>2 DEF Parameters, IsCall, Methods
  <2>3. CASE o = "spend"
    BY <1>5, <2>3 DEF Parameters, IsCall, Methods
  <2>4. CASE o = "transfer"
    BY <1>5, <2>4 DEF Parameters, IsCall, Methods
  <2>5. CASE o \in {"register", "activate", "deactivate"}
    BY <1>5, <2>5 DEF Parameters, IsCall, Methods
  <2>. QED
    BY <1>5, <2>1, <2>2, <2>3, <2>4, <2>5 DEF Methods
<1>7. OthersWait(r)
  BY <1>1, <1>2, <1>4 DEF OthersWait
<1>8. TypeOK'
  <2>1. pc' \in [Calls -> {"idle", "load", "loadTo", "saving", "answered"}]
    BY <1>1, <1>2
  <2>. QED
    BY <1>2, <2>1 DEF Types, TypeOK, Dates
<1>9. IsCall(call'[r]) /\ Holding(r)' /\ Saving(r)'
  BY <1>1, <1>2, <1>4, <1>6 DEF Holding, Saving
<1>. QED
  BY <1>7, <1>8, <1>9, TypesOfStep

\* A new account joins the table.
LEMMA TypesRegister ==
  ASSUME Types, NEW r \in Calls, RegisterToProgram(r)
  PROVE  Types' /\ OthersWait(r)
<1>1. TypeOK /\ IsCall(call[r]) /\ call[r].op = "register"
  BY DEF Types, RegisterToProgram, Called
<1>2. /\ UNCHANGED <<now, miles, owner, granted, spent>> /\ Finish(r)
      /\ accounts' = Append(accounts, NewAccount(call[r].client))
  BY DEF RegisterToProgram, history
<1>3. NewAccount(call[r].client) \in AccountRow
  BY <1>1 DEF IsCall, NewAccount, AccountRow
<1>4. /\ accounts \in Seq(AccountRow) /\ Len(accounts) \in Nat
      /\ DOMAIN accounts = 1 .. Len(accounts)
  BY <1>1, RowsOfTables
<1>5. /\ accounts' \in Seq(AccountRow) /\ Len(accounts') = Len(accounts) + 1
      /\ DOMAIN accounts \subseteq DOMAIN accounts'
  BY <1>2, <1>3, <1>4
<1>6. owner' \in Seq(0 .. Len(accounts'))
  <2>1. 0 .. Len(accounts) \subseteq 0 .. Len(accounts')
    BY <1>4, <1>5
  <2>2. owner \in Seq(0 .. Len(accounts))
    BY <1>1 DEF TypeOK
  <2>3. owner \in Seq(0 .. Len(accounts'))
    BY <2>1, <2>2, SeqMonotonic
  <2>. QED
    BY <1>2, <2>3
<1>7. pc' \in [Calls -> {"idle", "load", "loadTo", "saving", "answered"}]
  BY <1>1, <1>2 DEF TypeOK, Finish
<1>8. TypeOK'
  BY <1>1, <1>2, <1>5, <1>6, <1>7 DEF TypeOK, Dates, AccountRow
<1>. QED
  BY <1>2, <1>5, <1>8, TypesOfFinish

\* A call that is refused changes nothing.
LEMMA TypesRefuse ==
  ASSUME Types, NEW r \in Calls, Refuse(r), UNCHANGED now
  PROVE  Types' /\ OthersWait(r)
<1>1. TypeOK /\ UNCHANGED <<now, accounts, miles, owner, granted, spent>> /\ Finish(r)
  BY DEF Types, Refuse, tables, history
<1>2. pc' \in [Calls -> {"idle", "load", "loadTo", "saving", "answered"}]
  BY <1>1 DEF TypeOK, Finish
<1>3. TypeOK'
  BY <1>1, <1>2 DEF TypeOK, Dates
<1>. QED
  BY <1>1, <1>3, TypesOfFinish

\* A transfer keeps a copy of the account of its sender.
LEMMA TypesLoadSender ==
  ASSUME Types, NEW r \in Calls, LoadSender(r)
  PROVE  Types' /\ OthersWait(r)
<1>1. /\ pc \in [Calls -> {"idle", "load", "loadTo", "saving", "answered"}]
      /\ DOMAIN call = Calls /\ DOMAIN loaded = Calls /\ DOMAIN saves = Calls
      /\ Saving(r) /\ IsCall(call[r]) /\ TypeOK
  BY DEF Types, TypeOK
<1>2. /\ UNCHANGED <<now, accounts, miles, owner, call, saves, granted, spent>>
      /\ pc[r] = "load" /\ pc' = [pc EXCEPT ![r] = "loadTo"] /\ call[r].op = "transfer"
  BY DEF LoadSender, Called, tables, history
<1>3. PICK acc \in Found(call[r].client) : loaded' = [loaded EXCEPT ![r] = <<acc>>]
  BY DEF LoadSender
<1>4. IsCopyOf(acc, acc.id)
  BY <1>1, FoundFacts
<1>5. IsCopyOf(acc, acc.id)'
  BY <1>2, <1>4 DEF IsCopyOf
<1>6. loaded'[r] = <<acc>>
  BY <1>1, <1>3
<1>7. OthersWait(r)
  BY <1>1, <1>2, <1>3 DEF OthersWait
<1>8. TypeOK'
  <2>1. pc' \in [Calls -> {"idle", "load", "loadTo", "saving", "answered"}]
    BY <1>1, <1>2
  <2>. QED
    BY <1>1, <1>2, <2>1 DEF TypeOK, Dates
<1>9. Holding(r)'
  <2>1. loaded'[r][1] = acc
    BY <1>6
  <2>. QED
    BY <1>2, <1>5, <1>6, <2>1 DEF Holding
<1>10. Saving(r)'
  BY <1>1, <1>2 DEF Saving
<1>. QED
  BY <1>1, <1>2, <1>7, <1>8, <1>9, <1>10, TypesOfStep

\* What the SELECTs of a save have read.
LEMMA Compared ==
  ASSUME Types, NEW r \in Calls, Compare(r)
  PROVE  \E s \in saves[r] : \E t :
           /\ saves'[r] = (saves[r] \ {s}) \union {t}
           /\ t.copy = s.copy /\ t.seen = TRUE
           /\ t.row = accounts[s.copy.id]
           /\ t.miles = [i \in DOMAIN s.copy.miles |-> miles[i]]
           /\ t.mine = {i \in DOMAIN miles : owner[i] = s.copy.id}
<1>1. r \in DOMAIN saves
  BY DEF Types
<1>2. PICK s \in saves[r] :
        saves' = [saves EXCEPT ![r] = (@ \ {s}) \union
            {[ copy |-> s.copy, seen |-> TRUE, row |-> accounts[s.copy.id],
               miles |-> [i \in DOMAIN s.copy.miles |-> miles[i]],
               mine |-> {i \in DOMAIN miles : owner[i] = s.copy.id} ]}]
  BY DEF Compare
<1>. DEFINE M == [i \in DOMAIN s.copy.miles |-> miles[i]]
            R == {i \in DOMAIN miles : owner[i] = s.copy.id}
            t == [ copy |-> s.copy, seen |-> TRUE, row |-> accounts[s.copy.id],
                   miles |-> M, mine |-> R ]
<1>3. saves'[r] = (saves[r] \ {s}) \union {t}
  BY <1>1, <1>2
<1>4. t.copy = s.copy /\ t.seen = TRUE /\ t.row = accounts[s.copy.id] /\ t.miles = M /\ t.mine = R
  <2>. HIDE DEF M, R
  <2>. QED
    OBVIOUS
<1>. HIDE DEF t
<1>. QED
  BY <1>3, <1>4

\* What a save reads has the types of the tables.
LEMMA TypesCompare ==
  ASSUME Types, NEW r \in Calls, Compare(r)
  PROVE  Types' /\ OthersWait(r)
<1>1. /\ DOMAIN call = Calls /\ DOMAIN loaded = Calls /\ DOMAIN saves = Calls
      /\ Saving(r) /\ IsCall(call[r]) /\ TypeOK
  BY DEF Types
<1>2. /\ UNCHANGED <<now, accounts, miles, owner, pc, call, loaded, granted, spent>>
      /\ pc[r] = "saving"
  BY DEF Compare, tables, history
<1>3. PICK s, t :
           /\ s \in saves[r]
           /\ saves'[r] = (saves[r] \ {s}) \union {t}
           /\ t.copy = s.copy /\ t.seen = TRUE
           /\ t.row = accounts[s.copy.id]
           /\ t.miles = [i \in DOMAIN s.copy.miles |-> miles[i]]
           /\ t.mine = {i \in DOMAIN miles : owner[i] = s.copy.id}
  BY Compared
<1>4. OthersWait(r)
  <2>1. DOMAIN saves' = DOMAIN saves /\ \A q \in Calls \ {r} : saves'[q] = saves[q]
    BY <1>1 DEF Compare
  <2>. QED
    BY <1>1, <1>2, <2>1 DEF OthersWait
<1>5. TypeOK'
  BY <1>1, <1>2 DEF TypeOK, Dates
<1>6. ASSUME NEW u, IsSave(u) PROVE IsSave(u)'
  BY <1>2, <1>6 DEF IsSave, IsCopyOf
<1>7. IsSave(t)
  <2>1. IsCopyOf(s.copy, s.copy.id)
    BY <1>1, <1>3 DEF Saving, IsSave
  <2>2. t.row \in AccountRow
    BY <1>1, <1>3, <2>1, RowsOfTables DEF IsCopyOf
  <2>3. t.miles \in [DOMAIN s.copy.miles -> MileRow]
    BY <1>1, <1>3, <2>1, RowsOfTables DEF IsCopyOf
  <2>4. t.mine \subseteq DOMAIN miles
    BY <1>3
  <2>. QED
    BY <1>3, <2>1, <2>2, <2>3, <2>4 DEF IsSave
<1>8. Saving(r)'
  <2>1. ASSUME NEW u \in saves'[r]
        PROVE  IsSave(u)' /\ (Grants(r)' => u.copy.added # <<>>)
    <3>1. u \in saves[r] \/ u = t
      BY <1>3
    <3>2. IsSave(u)
      BY <1>1, <1>7, <3>1 DEF Saving
    <3>3. Grants(r) => u.copy.added # <<>>
      BY <1>1, <1>3, <3>1 DEF Saving
    <3>. QED
      BY <1>2, <1>6, <3>2, <3>3 DEF Grants
  <2>. QED
    BY <1>2, <2>1 DEF Saving
<1>9. Holding(r)'
  BY <1>2 DEF Holding
<1>. QED
  BY <1>1, <1>2, <1>4, <1>5, <1>8, <1>9, TypesOfStep

\* What one save writes.
Writes(s) ==
  /\ accounts' = [accounts EXCEPT ![s.copy.id] = Columns(@, s.row, s.copy.row)]
  /\ miles' = [i \in DOMAIN miles |->
                 IF i \in DOMAIN s.copy.miles
                 THEN Columns(miles[i], s.miles[i], s.copy.miles[i])
                 ELSE miles[i]] \o s.copy.added
  /\ owner' = [i \in DOMAIN owner |-> OwnerAfter(s, i)]
                \o [i \in DOMAIN s.copy.added |-> s.copy.id]

\* The tables after a save, row by row.
LEMMA WrittenTables ==
  ASSUME TypeOK, NEW s, IsSave(s), s.seen = TRUE, Writes(s)
  PROVE  /\ accounts' \in Seq(AccountRow) /\ Len(accounts') = Len(accounts)
         /\ DOMAIN accounts' = DOMAIN accounts
         /\ \A a \in DOMAIN accounts :
              accounts'[a] = IF a = s.copy.id
                             THEN Columns(accounts[a], s.row, s.copy.row)
                             ELSE accounts[a]
         /\ miles' \in Seq(MileRow)
         /\ s.copy.added \in Seq(MileRow) /\ Len(s.copy.added) \in Nat
         /\ DOMAIN s.copy.added = 1 .. Len(s.copy.added)
         /\ DOMAIN miles' = 1 .. Len(miles) + Len(s.copy.added)
         /\ owner' \in Seq(0 .. Len(accounts)) /\ Len(owner') = Len(miles')
         /\ \A i \in DOMAIN miles :
              /\ miles'[i] = IF i \in DOMAIN s.copy.miles
                             THEN Columns(miles[i], s.miles[i], s.copy.miles[i])
                             ELSE miles[i]
              /\ owner'[i] = OwnerAfter(s, i)
         /\ \A k \in DOMAIN s.copy.added :
              /\ miles'[Len(miles) + k] = s.copy.added[k]
              /\ owner'[Len(miles) + k] = s.copy.id
<1>. DEFINE f == [i \in DOMAIN miles |->
                    IF i \in DOMAIN s.copy.miles
                    THEN Columns(miles[i], s.miles[i], s.copy.miles[i])
                    ELSE miles[i]]
            g == [i \in DOMAIN owner |-> OwnerAfter(s, i)]
            h == [i \in DOMAIN s.copy.added |-> s.copy.id]
            n == Len(miles)
            N == 0 .. Len(accounts)
            added == s.copy.added
<1>1. /\ n \in Nat /\ DOMAIN miles = 1 .. n /\ DOMAIN owner = 1 .. n
      /\ Len(accounts) \in Nat /\ DOMAIN accounts = 1 .. Len(accounts)
      /\ accounts \in Seq(AccountRow)
      /\ \A i \in DOMAIN miles : miles[i] \in MileRow /\ owner[i] \in N
      /\ \A a \in DOMAIN accounts : accounts[a] \in AccountRow
  BY RowsOfTables
<1>2. /\ IsCopy(s.copy) /\ s.copy.id \in DOMAIN accounts
      /\ DOMAIN s.copy.miles \subseteq DOMAIN miles
  BY DEF IsSave, IsCopyOf
<1>3. /\ s.copy.row \in AccountRow
      /\ \A i \in DOMAIN s.copy.miles : s.copy.miles[i] \in MileRow
      /\ added \in Seq(MileRow)
  BY <1>2 DEF IsCopy
<1>4. Len(added) \in Nat /\ DOMAIN added = 1 .. Len(added)
  BY <1>3, LenProperties
<1>5. f \in Seq(MileRow) /\ Len(f) = n /\ \A i \in 1 .. n : f[i] = IF i \in DOMAIN s.copy.miles
                    THEN Columns(miles[i], s.miles[i], s.copy.miles[i])
                    ELSE miles[i]
  <2>1. \A i \in 1 .. n : f[i] \in MileRow
    BY <1>1, <1>3, ColumnsOfMiles
  <2>2. f \in [1 .. n -> MileRow] /\ DOMAIN f = 1 .. n
    <3>1. f = [i \in 1 .. n |-> f[i]]
      BY <1>1
    <3>. HIDE DEF f, n
    <3>. QED
      BY <2>1, <3>1
  <2>3. \A i \in 1 .. n : f[i] = IF i \in DOMAIN s.copy.miles
                    THEN Columns(miles[i], s.miles[i], s.copy.miles[i])
                    ELSE miles[i]
    BY <1>1
  <2>. HIDE DEF f, n
  <2>4. f \in Seq(MileRow)
    BY <1>1, <2>2, SeqDef
  <2>. QED
    BY <1>1, <2>2, <2>3, <2>4, LenProperties
<1>6. g \in Seq(N) /\ Len(g) = n /\ \A i \in 1 .. n : g[i] = OwnerAfter(s, i)
  <2>1. \A i \in 1 .. n : g[i] \in N
    <3>1. s.copy.id \in N /\ 0 \in N
      BY <1>1, <1>2
    <3>. HIDE DEF N
    <3>. QED
      BY <1>1, <3>1 DEF OwnerAfter
  <2>2. g \in [1 .. n -> N] /\ DOMAIN g = 1 .. n
    <3>1. g = [i \in 1 .. n |-> g[i]]
      BY <1>1
    <3>. HIDE DEF g, n, N
    <3>. QED
      BY <2>1, <3>1
  <2>3. \A i \in 1 .. n : g[i] = OwnerAfter(s, i)
    BY <1>1
  <2>. HIDE DEF g, n, N
  <2>4. g \in Seq(N)
    BY <1>1, <2>2, SeqDef
  <2>. QED
    BY <1>1, <2>2, <2>3, <2>4, LenProperties
<1>7. h \in Seq(N) /\ Len(h) = Len(added) /\ \A k \in 1 .. Len(added) : h[k] = s.copy.id
  <2>1. s.copy.id \in N
    BY <1>1, <1>2
  <2>2. h \in [1 .. Len(added) -> N] /\ DOMAIN h = 1 .. Len(added)
    <3>. HIDE DEF N
    <3>. QED
      BY <1>4, <2>1
  <2>3. \A k \in 1 .. Len(added) : h[k] = s.copy.id
    BY <1>4
  <2>. HIDE DEF h, added, N
  <2>4. h \in Seq(N)
    BY <1>4, <2>2, SeqDef
  <2>. QED
    BY <1>4, <2>2, <2>3, <2>4, LenProperties
<1>8. miles' = f \o added /\ owner' = g \o h
  BY DEF Writes
<1>9. /\ accounts' \in Seq(AccountRow) /\ Len(accounts') = Len(accounts)
      /\ DOMAIN accounts' = DOMAIN accounts
      /\ \A a \in DOMAIN accounts :
              accounts'[a] = IF a = s.copy.id
                             THEN Columns(accounts[a], s.row, s.copy.row)
                             ELSE accounts[a]
  <2>. DEFINE row == Columns(accounts[s.copy.id], s.row, s.copy.row)
  <2>1. row \in AccountRow
    BY <1>1, <1>2, <1>3, ColumnsOfAccount
  <2>2. accounts' = [accounts EXCEPT ![s.copy.id] = row]
    BY DEF Writes
  <2>3. s.copy.id \in 1 .. Len(accounts)
    BY <1>1, <1>2
  <2>. HIDE DEF row
  <2>4. accounts' \in Seq(AccountRow) /\ Len(accounts') = Len(accounts)
    BY <1>1, <2>1, <2>2, <2>3, ExceptSeq
  <2>5. DOMAIN accounts' = DOMAIN accounts
    BY <2>2
  <2>6. \A a \in DOMAIN accounts :
           accounts'[a] = IF a = s.copy.id THEN row ELSE accounts[a]
    BY <2>2
  <2>. QED
    BY <2>4, <2>5, <2>6 DEF row
<1>. HIDE DEF f, g, h, n, N, added
<1>10. /\ miles' \in Seq(MileRow) /\ Len(miles') = n + Len(added)
       /\ \A i \in 1 .. n + Len(added) :
            miles'[i] = IF i <= n THEN f[i] ELSE added[i - n]
  <2>1. f \in Seq(MileRow) /\ added \in Seq(MileRow) /\ Len(f) = n
    BY <1>3, <1>5
  <2>2. /\ f \o added \in Seq(MileRow) /\ Len(f \o added) = Len(f) + Len(added)
        /\ \A i \in 1 .. Len(f) + Len(added) :
             (f \o added)[i] = IF i <= Len(f) THEN f[i] ELSE added[i - Len(f)]
    BY <2>1, ConcatProperties
  <2>. QED
    BY <1>8, <2>1, <2>2, Zenon
<1>11. /\ owner' \in Seq(N) /\ Len(owner') = n + Len(added)
       /\ \A i \in 1 .. n + Len(added) :
            owner'[i] = IF i <= n THEN g[i] ELSE h[i - n]
  <2>1. g \in Seq(N) /\ h \in Seq(N) /\ Len(g) = n /\ Len(h) = Len(added)
    BY <1>6, <1>7
  <2>2. /\ g \o h \in Seq(N) /\ Len(g \o h) = Len(g) + Len(h)
        /\ \A i \in 1 .. Len(g) + Len(h) :
             (g \o h)[i] = IF i <= Len(g) THEN g[i] ELSE h[i - Len(g)]
    BY <2>1, ConcatProperties
  <2>. QED
    BY <1>8, <2>1, <2>2, Zenon
<1>12. DOMAIN miles' = 1 .. n + Len(added)
  BY <1>10, LenProperties
<1>13. ASSUME NEW i \in DOMAIN miles
       PROVE  miles'[i] = f[i] /\ owner'[i] = g[i]
  BY <1>1, <1>4, <1>10, <1>11
<1>14. ASSUME NEW k \in DOMAIN added
       PROVE  miles'[n + k] = added[k] /\ owner'[n + k] = h[k]
  <2>1. n + k \in 1 .. n + Len(added) /\ ~(n + k <= n) /\ (n + k) - n = k
    BY <1>1, <1>4
  <2>. QED
    BY <1>10, <1>11, <2>1
<1>15. \A i \in DOMAIN miles :
         /\ miles'[i] = IF i \in DOMAIN s.copy.miles
                        THEN Columns(miles[i], s.miles[i], s.copy.miles[i])
                        ELSE miles[i]
         /\ owner'[i] = OwnerAfter(s, i)
  BY <1>1, <1>5, <1>6, <1>13
<1>16. \A k \in DOMAIN added : miles'[n + k] = added[k] /\ owner'[n + k] = s.copy.id
  BY <1>4, <1>7, <1>14
<1>. QED
  BY <1>3, <1>4, <1>9, <1>10, <1>11, <1>12, <1>15, <1>16 DEF n, added, N

\* A save, whatever happened since its SELECTs, leaves tables of the right types.
LEMMA TypesUpdate ==
  ASSUME Types, NEW r \in Calls, Update(r)
  PROVE  Types' /\ OthersWait(r)
<1>1. /\ DOMAIN call = Calls /\ DOMAIN loaded = Calls /\ DOMAIN saves = Calls
      /\ Saving(r) /\ IsCall(call[r]) /\ TypeOK
  BY DEF Types
<1>2. PICK s \in saves[r] :
        /\ s.seen = TRUE /\ Writes(s) /\ Record(r, s)
        /\ IF saves[r] = {s}
           THEN Finish(r)
           ELSE /\ saves' = [saves EXCEPT ![r] = @ \ {s}]
                /\ UNCHANGED <<pc, call, loaded>>
  BY DEF Update, Writes
<1>3. IsSave(s) /\ (Grants(r) => s.copy.added # <<>>)
  BY <1>1 DEF Saving
<1>4. /\ accounts' \in Seq(AccountRow) /\ Len(accounts') = Len(accounts)
      /\ DOMAIN accounts' = DOMAIN accounts
      /\ miles' \in Seq(MileRow)
      /\ s.copy.added \in Seq(MileRow) /\ Len(s.copy.added) \in Nat
      /\ DOMAIN s.copy.added = 1 .. Len(s.copy.added)
      /\ DOMAIN miles' = 1 .. Len(miles) + Len(s.copy.added)
      /\ owner' \in Seq(0 .. Len(accounts)) /\ Len(owner') = Len(miles')
  BY <1>1, <1>2, <1>3, WrittenTables
<1>5. DOMAIN miles \subseteq DOMAIN miles'
  <2>1. Len(miles) \in Nat /\ DOMAIN miles = 1 .. Len(miles)
    BY <1>1, RowsOfTables
  <2>. QED
    BY <1>4, <2>1
<1>6. granted' \in [Dates -> Nat] /\ spent' \in Nat
  <2>1. granted \in [Dates -> Nat] /\ spent \in Nat
    BY <1>1 DEF TypeOK
  <2>2. granted' \in [Dates -> Nat]
    <3>1. CASE Grants(r)
      <4>1. call[r].amount \in Nat
        BY <1>1, <3>1 DEF IsCall, Grants
      <4>2. 1 \in DOMAIN s.copy.added
        <5>1. Len(s.copy.added) # 0
          BY <1>3, <1>4, <3>1, EmptySeq
        <5>. QED
          BY <1>4, <5>1
      <4>3. s.copy.added[1] \in MileRow
        BY <1>4, <4>2, ElementOfSeq
      <4>4. s.copy.added[1].expires \in Dates
        BY <4>3 DEF MileRow
      <4>. PICK e \in Dates : e = s.copy.added[1].expires
        BY <4>4
      <4>5. granted' = [granted EXCEPT ![e] = @ + call[r].amount]
        BY <1>2, <3>1 DEF Record, Grants
      <4>. QED
        BY <2>1, <4>1, <4>5
    <3>2. CASE ~Grants(r)
      BY <1>2, <2>1, <3>2 DEF Record, Grants
    <3>. QED
      BY <3>1, <3>2
  <2>3. spent' \in Nat
    <3>1. CASE call[r].op = "spend"
      <4>1. call[r].amount \in Nat
        BY <1>1, <3>1 DEF IsCall
      <4>. QED
        BY <1>2, <2>1, <3>1, <4>1 DEF Record
    <3>2. CASE call[r].op # "spend"
      BY <1>2, <2>1, <3>2 DEF Record
    <3>. QED
      BY <3>1, <3>2
  <2>. QED
    BY <2>2, <2>3
<1>7. now' = now
  BY DEF Update
<1>8. pc' \in [Calls -> {"idle", "load", "loadTo", "saving", "answered"}]
  BY <1>1, <1>2 DEF TypeOK, Finish
<1>9. TypeOK'
  BY <1>1, <1>4, <1>6, <1>7, <1>8 DEF TypeOK, Dates, AccountRow, MileRow
<1>10. CASE saves[r] = {s}
  BY <1>2, <1>4, <1>5, <1>9, <1>10, TypesOfFinish
<1>11. CASE saves[r] # {s}
  <2>1. saves' = [saves EXCEPT ![r] = @ \ {s}] /\ UNCHANGED <<pc, call, loaded>>
    BY <1>2, <1>11
  <2>2. OthersWait(r)
    BY <1>1, <1>4, <1>5, <2>1 DEF OthersWait
  <2>3. pc[r] = "saving" /\ saves'[r] = saves[r] \ {s}
    BY <1>1, <2>1 DEF Update
  <2>4. ASSUME NEW u \in saves'[r]
        PROVE  IsSave(u)' /\ (Grants(r)' => u.copy.added # <<>>)
    <3>1. IsSave(u) /\ (Grants(r) => u.copy.added # <<>>)
      BY <1>1, <2>3 DEF Saving
    <3>. QED
      BY <1>4, <1>5, <2>1, <3>1 DEF IsSave, IsCopyOf, Grants
  <2>5. IsCall(call'[r]) /\ Holding(r)' /\ Saving(r)'
    BY <1>1, <2>1, <2>3, <2>4 DEF Holding, Saving
  <2>. QED
    BY <1>9, <2>2, <2>5, TypesOfStep
<1>. QED
  BY <1>10, <1>11

\* The steps of one call together.
LEMMA TypesStep ==
  ASSUME Types, NEW r \in Calls, Begin(r) \/ Step(r)
  PROVE  Types' /\ OthersWait(r)
<1>1. CASE Begin(r)
  BY <1>1, TypesBegin
<1>2. CASE RegisterToProgram(r)
  BY <1>2, TypesRegister
<1>3. CASE Refuse(r) /\ UNCHANGED now
  BY <1>3, TypesRefuse
<1>4. CASE NoAccount(r)
  BY <1>3, <1>4 DEF NoAccount
<1>5. CASE ChangeStatus(r)
  <2>1. ~Grants(r) /\ UNCHANGED now
    BY <1>5, StatusSaved
  <2>2. PICK acc, new : SaveAll(r, {new}) /\ IsCopyOf(new, acc.id)
    BY <1>5, StatusSaved
  <2>3. IsCopyOf(new, new.id)
    BY <2>2 DEF IsCopyOf
  <2>. QED
    BY <2>1, <2>2, <2>3, TypesOfSaveAll
<1>6. CASE Earning(r) /\ ~Refuse(r)
  <2>1. UNCHANGED now
    BY <1>6, EarningSaved
  <2>2. PICK acc, expires, at, new :
          /\ acc \in Found(call[r].client) /\ expires \in Dates
          /\ at \in 0 .. MaxTime
          /\ SaveAll(r, {new})
          /\ new = WithMiles(acc, call[r].amount, expires, at)
          /\ call[r].amount \in Nat
          /\ IsCopyOf(acc, acc.id) /\ IsCopyOf(new, acc.id)
          /\ new.miles = acc.miles
          /\ new.added = <<Entry(call[r].amount, expires, at)>>
    BY <1>6, EarningSaved
  <2>3. IsCopyOf(new, new.id)
    BY <2>2 DEF IsCopyOf
  <2>4. new.added # <<>>
    BY <2>2
  <2>5. \A c \in {new} : IsCopyOf(c, c.id) /\ (Grants(r) => c.added # <<>>)
    BY <2>3, <2>4
  <2>. QED
    BY <2>1, <2>2, <2>5, TypesOfSaveAll
<1>7. CASE RemoveMiles(r) /\ ~Refuse(r)
  <2>1. UNCHANGED now /\ ~Grants(r)
    BY <1>7, RemovalSaved DEF Grants
  <2>2. PICK acc, new : SaveAll(r, {new}) /\ IsCopyOf(new, acc.id)
    BY <1>7, RemovalSaved
  <2>3. IsCopyOf(new, new.id)
    BY <2>2 DEF IsCopyOf
  <2>. QED
    BY <2>1, <2>2, <2>3, TypesOfSaveAll
<1>8. CASE LoadSender(r)
  BY <1>8, TypesLoadSender
<1>9. CASE TransferMiles(r)
  <2>1. UNCHANGED now /\ ~Grants(r)
    BY <1>9, TransferSaved DEF Grants
  <2>2. PICK from, to, newFrom, newTo :
          /\ SaveAll(r, {newFrom, newTo})
          /\ IsCopyOf(newFrom, from.id) /\ IsCopyOf(newTo, to.id)
    BY <1>9, TransferSaved
  <2>3. IsCopyOf(newFrom, newFrom.id) /\ IsCopyOf(newTo, newTo.id)
    BY <2>2 DEF IsCopyOf
  <2>. QED
    BY <2>1, <2>2, <2>3, TypesOfSaveAll
<1>10. CASE Compare(r)
  BY <1>10, TypesCompare
<1>11. CASE Update(r)
  BY <1>11, TypesUpdate
<1>12. Earning(r) \/ RemoveMiles(r) => UNCHANGED now
  BY DEF Earning, RegisterMiles, RegisterNonExpiringMiles, RemoveMiles
<1>. QED
  BY <1>1, <1>2, <1>3, <1>4, <1>5, <1>6, <1>7, <1>8, <1>9, <1>10, <1>11, <1>12
     DEF Step, Earning

\* And all steps.
LEMMA TypesNext == Types /\ [Next]_vars => Types'
<1>. SUFFICES ASSUME Types, [Next]_vars PROVE Types'
  OBVIOUS
<1>1. CASE \E r \in Calls : Begin(r) \/ Step(r)
  BY <1>1, TypesStep
<1>2. ASSUME UNCHANGED <<accounts, miles, owner, pc, call, loaded, saves, granted, spent>>,
             now' \in 0 .. MaxTime
      PROVE  Types'
  BY <1>2 DEF Types, TypeOK, Dates, Holding, Saving, IsCopyOf, IsSave, Grants
<1>3. CASE Tick
  <2>1. now \in Nat /\ now' = now + 1 /\ now < MaxTime /\ MaxTime \in Nat
    BY <1>3, AwardsAssumption DEF Types, TypeOK, Tick
  <2>. QED
    BY <1>2, <1>3, <2>1 DEF Tick, tables, locals, history
<1>4. CASE UNCHANGED vars
  BY <1>2, <1>4 DEF vars, tables, locals, history, Types, TypeOK
<1>. QED
  BY <1>1, <1>3, <1>4 DEF Next, AllAnswered

\* What the tables and the history hold has its shape, however the calls of
\* awards.service.ts interleave.
THEOREM TypesAreKept == Spec => []TypeOK
<1>1. Types => TypeOK
  BY DEF Types
<1>. QED
  BY TypesInit, TypesNext, <1>1, PTL DEF Spec

-----------------------------------------------------------------------------
(* Calls one at a time                                                      *)

RowsOf(id) == {i \in DOMAIN miles : owner[i] = id}

\* Only one call is between its start and its answer.
OneAtATime ==
  /\ \A q, r \in Calls : InProgress(q) /\ InProgress(r) => q = r
  /\ \A r \in Calls : ~InProgress(r) => call[r] = NoCall

\* The sender a transfer has loaded is what the tables hold.
SenderIsCurrent(r) ==
  pc[r] = "loadTo" => loaded[r][1] \in Found(call[r].client)

\* The copy of an inactive account has all its rows as they are.
LeavesInactive(c) ==
  \/ accounts[c.id].active
  \/ c.miles = [i \in RowsOf(c.id) |-> miles[i]]

\* A removal takes from live rows, in the order of its strategy.
TakesInOrder(r, c) ==
  call[r].op = "spend" =>
    /\ DOMAIN c.miles = RowsOf(c.id)
    /\ c.added = <<>>
    /\ \A i, j \in RowsOf(c.id) :
         c.miles[j].amount < miles[j].amount =>
           /\ Live(miles[j], now)
           /\ /\ Live(miles[i], now)
              /\ Precedes(call[r].strategy, miles[i], miles[j])
              => c.miles[i].amount = 0

IsCurrent(r, c) ==
  /\ DOMAIN c.miles \subseteq RowsOf(c.id)
  /\ LeavesInactive(c)
  /\ TakesInOrder(r, c)

\* What a save has read is what the tables hold.
SeesTheTables(s) ==
  s.seen = TRUE => /\ s.row = accounts[s.copy.id]
                   /\ s.miles = [i \in DOMAIN s.copy.miles |-> miles[i]]
                   /\ s.mine = RowsOf(s.copy.id)

Copies(r) ==
  /\ \A s \in saves[r] : IsCurrent(r, s.copy) /\ SeesTheTables(s)
  /\ \A s, t \in saves[r] : s.copy.id = t.copy.id => s = t

Serial ==
  /\ OneAtATime
  /\ \A r \in Calls : SenderIsCurrent(r) /\ Copies(r)

\* No call has anything at the start.
LEMMA SerialInit == Init => Serial
<1>. SUFFICES ASSUME Init PROVE Serial
  OBVIOUS
<1>1. \A r \in Calls : pc[r] = "idle" /\ call[r] = NoCall /\ saves[r] = {}
  BY DEF Init
<1>. QED
  BY <1>1 DEF Serial, OneAtATime, InProgress, SenderIsCurrent, Copies

\* A step of a call is taken while no other is in progress.
LEMMA OneStep ==
  ASSUME ~Overlapping, Types, OneAtATime, NEW r \in Calls, Begin(r) \/ Step(r)
  PROVE  /\ OneAtATime'
         /\ Step(r) => InProgress(r)
         /\ \A q \in Calls : q # r => ~InProgress(q) /\ ~InProgress(q)' /\ saves'[q] = {}
<1>1. OthersWait(r)
  BY TypesStep
<1>2. /\ pc \in [Calls -> {"idle", "load", "loadTo", "saving", "answered"}]
      /\ DOMAIN call = Calls /\ \A q \in Calls : Saving(q)
  BY DEF Types, TypeOK
<1>3. Step(r) => InProgress(r)
  BY DEF Step, RegisterToProgram, NoAccount, ChangeStatus, RegisterMiles,
     RegisterNonExpiringMiles, RemoveMiles, LoadSender, TransferMiles, Compare,
     Update, Called, InProgress
<1>4. ASSUME NEW q \in Calls, q # r PROVE ~InProgress(q)
  BY <1>3, <1>4 DEF OneAtATime, Begin, Quiet
<1>5. ASSUME NEW q \in Calls, q # r
      PROVE  ~InProgress(q)' /\ saves'[q] = {} /\ call'[q] = NoCall
  BY <1>1, <1>2, <1>4, <1>5 DEF OthersWait, InProgress, Saving, OneAtATime
<1>6. ~InProgress(r)' => call'[r] = NoCall
  <2>1. CASE Finish(r)
    BY <1>2, <2>1 DEF Finish
  <2>2. CASE ~Finish(r)
    <3>1. pc'[r] \in {"load", "loadTo", "saving"}
      <4>1. CASE Begin(r)
        BY <1>2, <4>1 DEF Begin
      <4>2. CASE Compare(r)
        BY <1>2, <4>2 DEF Compare
      <4>3. CASE Update(r)
        BY <1>2, <2>2, <4>3 DEF Update
      <4>4. CASE LoadSender(r)
        BY <1>2, <4>4 DEF LoadSender
      <4>5. CASE \E copies : SaveAll(r, copies)
        BY <1>2, <4>5 DEF SaveAll
      <4>6. CASE ChangeStatus(r) \/ Earning(r) \/ RemoveMiles(r) \/ TransferMiles(r)
        BY <2>2, <4>5, <4>6 DEF ChangeStatus, Earning, RegisterMiles,
           RegisterNonExpiringMiles, RemoveMiles, TransferMiles, Refuse
      <4>. QED
        BY <2>2, <4>1, <4>2, <4>3, <4>4, <4>6
           DEF Step, Earning, RegisterToProgram, NoAccount, Refuse
    <3>. QED
      BY <3>1 DEF InProgress
  <2>. QED
    BY <2>1, <2>2
<1>. QED
  BY <1>3, <1>4, <1>5, <1>6 DEF OneAtATime

\* The other calls keep nothing that the step could make stale.
LEMMA SerialStep ==
  ASSUME ~Overlapping, Types, OneAtATime, NEW r \in Calls, Begin(r) \/ Step(r),
         SenderIsCurrent(r)', Copies(r)'
  PROVE  Serial'
<1>1. /\ OneAtATime'
      /\ \A q \in Calls : q # r => ~InProgress(q)' /\ saves'[q] = {}
  BY OneStep
<1>2. ASSUME NEW q \in Calls, q # r PROVE SenderIsCurrent(q)' /\ Copies(q)'
  BY <1>1, <1>2 DEF SenderIsCurrent, Copies, InProgress
<1>. QED
  BY <1>1, <1>2 DEF Serial

\* A call that is about to save copies of what it has loaded.
LEMMA CopiesOfSaveAll ==
  ASSUME Types, NEW r \in Calls, NEW copies, SaveAll(r, copies), UNCHANGED now,
         \A c \in copies : IsCurrent(r, c),
         \A c, d \in copies : c.id = d.id => c = d
  PROVE  SenderIsCurrent(r)' /\ Copies(r)'
<1>1. /\ pc \in [Calls -> {"idle", "load", "loadTo", "saving", "answered"}]
      /\ DOMAIN saves = Calls
  BY DEF Types, TypeOK
<1>2. UNCHANGED <<now, accounts, miles, owner, call>>
  BY DEF SaveAll, tables
<1>3. /\ pc'[r] = "saving"
      /\ saves'[r] = {[copy |-> c, seen |-> FALSE] : c \in copies}
  BY <1>1 DEF SaveAll
<1>4. ASSUME NEW s \in saves'[r] PROVE IsCurrent(r, s.copy)' /\ SeesTheTables(s)'
  <2>1. PICK c \in copies : s = [copy |-> c, seen |-> FALSE]
    BY <1>3
  <2>2. s.copy = c /\ s.seen = FALSE
    BY <2>1
  <2>3. IsCurrent(r, c)
    OBVIOUS
  <2>4. IsCurrent(r, c)'
    BY <1>2, <2>3 DEF IsCurrent, LeavesInactive, TakesInOrder, RowsOf
  <2>5. SeesTheTables(s)'
    BY <2>2 DEF SeesTheTables
  <2>6. IsCurrent(r, s.copy)' = IsCurrent(r, c)'
    BY <2>2
  <2>. QED
    BY <2>4, <2>5, <2>6
<1>5. ASSUME NEW s \in saves'[r], NEW t \in saves'[r], s.copy.id = t.copy.id
      PROVE  s = t
  <2>1. PICK c \in copies : s = [copy |-> c, seen |-> FALSE]
    BY <1>3
  <2>2. PICK d \in copies : t = [copy |-> d, seen |-> FALSE]
    BY <1>3
  <2>3. c.id = d.id
    BY <1>5, <2>1, <2>2
  <2>4. c = d
    BY <2>3
  <2>. QED
    BY <2>1, <2>2, <2>4
<1>. QED
  BY <1>3, <1>4, <1>5 DEF SenderIsCurrent, Copies

\* What was just loaded has all the rows of its account.
LEMMA FoundIsWhole ==
  ASSUME Types, NEW client, NEW acc \in Found(client)
  PROVE  /\ acc.miles = [i \in RowsOf(acc.id) |-> miles[i]]
         /\ DOMAIN acc.miles = RowsOf(acc.id)
         /\ acc.row = accounts[acc.id] /\ accounts[acc.id].client = client
         /\ acc.added = <<>> /\ IsCopyOf(acc, acc.id)
BY FoundFacts DEF Types, RowsOf

\* Saving the status, or one more entry, keeps all rows as they are.
LEMMA CurrentStatus ==
  ASSUME Types, NEW r \in Calls, ChangeStatus(r) \/ (Earning(r) /\ ~Refuse(r))
  PROVE  SenderIsCurrent(r)' /\ Copies(r)'
<1>1. /\ call[r].op # "spend" /\ UNCHANGED now
      /\ \E acc \in Found(call[r].client) : \E new :
           SaveAll(r, {new}) /\ IsCopyOf(new, acc.id) /\ new.miles = acc.miles
  <2>1. CASE ChangeStatus(r)
    BY <2>1, StatusSaved
  <2>2. CASE Earning(r) /\ ~Refuse(r)
    <3>1. Grants(r) /\ UNCHANGED now
      BY <2>2, EarningSaved
    <3>2. PICK acc, expires, at, new :
            /\ acc \in Found(call[r].client) /\ expires \in Dates
            /\ at \in 0 .. MaxTime
            /\ SaveAll(r, {new})
            /\ new = WithMiles(acc, call[r].amount, expires, at)
            /\ call[r].amount \in Nat
            /\ IsCopyOf(acc, acc.id) /\ IsCopyOf(new, acc.id)
            /\ new.miles = acc.miles
            /\ new.added = <<Entry(call[r].amount, expires, at)>>
      BY <2>2, EarningSaved
    <3>. QED
      BY <3>1, <3>2 DEF Grants
  <2>. QED
    BY <2>1, <2>2
<1>2. PICK acc, new :
        /\ acc \in Found(call[r].client)
        /\ SaveAll(r, {new}) /\ IsCopyOf(new, acc.id) /\ new.miles = acc.miles
  BY <1>1
<1>3. new.id = acc.id
  BY <1>2 DEF IsCopyOf
<1>4. /\ new.miles = [i \in RowsOf(new.id) |-> miles[i]]
      /\ DOMAIN new.miles = RowsOf(new.id)
  BY <1>2, <1>3, FoundIsWhole
<1>5. IsCurrent(r, new)
  BY <1>1, <1>4 DEF IsCurrent, LeavesInactive, TakesInOrder
<1>6. \A c \in {new} : IsCurrent(r, c)
  BY <1>5
<1>. QED
  BY <1>1, <1>2, <1>6, CopiesOfSaveAll

\* A removal saves what removeMiles left of the account, in order.
LEMMA CurrentRemoval ==
  ASSUME Types, NEW r \in Calls, RemoveMiles(r), ~Refuse(r)
  PROVE  SenderIsCurrent(r)' /\ Copies(r)'
<1>1. /\ call[r].op = "spend" /\ UNCHANGED now
      /\ \E acc \in Found(call[r].client) : \E new :
           \E list \in SortedLists(acc, call[r].strategy) :
              /\ SaveAll(r, {new})
              /\ new = WithoutMiles(acc, call[r].amount, list, now)
              /\ call[r].amount \in Nat
              /\ CanTake(acc, call[r].amount, now)
              /\ IsCopyOf(acc, acc.id) /\ IsCopyOf(new, acc.id)
              /\ new.row = acc.row /\ new.added = acc.added
              /\ DOMAIN new.miles = DOMAIN acc.miles
  BY RemovalSaved
<1>2. PICK acc, new :
           /\ acc \in Found(call[r].client)
           /\ \E list \in SortedLists(acc, call[r].strategy) :
                 /\ SaveAll(r, {new})
                 /\ new = WithoutMiles(acc, call[r].amount, list, now)
                 /\ call[r].amount \in Nat
                 /\ CanTake(acc, call[r].amount, now)
                 /\ IsCopyOf(acc, acc.id) /\ IsCopyOf(new, acc.id)
                 /\ new.row = acc.row /\ new.added = acc.added
                 /\ DOMAIN new.miles = DOMAIN acc.miles
  BY <1>1
<1>3. PICK list \in SortedLists(acc, call[r].strategy) :
        new = WithoutMiles(acc, call[r].amount, list, now)
  BY <1>2
<1>4. /\ acc.miles = [i \in RowsOf(acc.id) |-> miles[i]]
      /\ DOMAIN acc.miles = RowsOf(acc.id)
      /\ acc.row = accounts[acc.id] /\ acc.added = <<>> /\ IsCopy(acc)
  BY <1>2, FoundIsWhole DEF IsCopyOf
<1>5. new.id = acc.id /\ new.added = <<>> /\ DOMAIN new.miles = RowsOf(new.id)
  BY <1>2, <1>4 DEF IsCopyOf
<1>6. accounts[new.id].active
  BY <1>2, <1>4, <1>5 DEF CanTake
<1>7. list \in SetToSeqs(DOMAIN acc.miles)
  BY DEF SortedLists
<1>8. \A i, j \in DOMAIN acc.miles :
        new.miles[j].amount < acc.miles[j].amount =>
          /\ Live(acc.miles[j], now)
          /\ /\ Live(acc.miles[i], now)
             /\ Precedes(call[r].strategy, acc.miles[i], acc.miles[j])
             => new.miles[i].amount = 0
  <2>1. \A strategy : list \in SortedLists(acc, strategy) =>
              \A i, j \in DOMAIN acc.miles :
                new.miles[j].amount < acc.miles[j].amount =>
                  /\ Live(acc.miles[j], now)
                  /\ /\ Live(acc.miles[i], now)
                     /\ Precedes(strategy, acc.miles[i], acc.miles[j])
                     => new.miles[i].amount = 0
    BY <1>2, <1>3, <1>4, <1>7, WithoutFacts
  <2>. QED
    BY <2>1, Zenon
<1>9. TakesInOrder(r, new)
  <2>1. \A i \in RowsOf(new.id) : acc.miles[i] = miles[i] /\ i \in DOMAIN acc.miles
    BY <1>4, <1>5
  <2>. QED
    BY <1>5, <1>8, <2>1 DEF TakesInOrder
<1>10. \A c \in {new} : IsCurrent(r, c)
  BY <1>5, <1>6, <1>9 DEF IsCurrent, LeavesInactive
<1>. QED
  BY <1>1, <1>2, <1>10, CopiesOfSaveAll

\* A transfer saves the copies of two different accounts.
LEMMA CurrentTransfer ==
  ASSUME ~SelfTransfer, Types, NEW r \in Calls, SenderIsCurrent(r), TransferMiles(r)
  PROVE  SenderIsCurrent(r)' /\ Copies(r)'
<1>1. call[r].op = "transfer" /\ UNCHANGED now /\ pc[r] = "loadTo" /\ IsCall(call[r])
  BY TransferSaved DEF TransferMiles, Types
<1>2. PICK to, newFrom, newTo :
              /\ to \in Found(call[r].to)
              /\ SaveAll(r, {newFrom, newTo})
              /\ IsCopyOf(newFrom, loaded[r][1].id) /\ IsCopyOf(newTo, to.id)
              /\ TransferKeeps(loaded[r][1], to, newFrom, newTo)
              /\ newFrom # loaded[r][1] => loaded[r][1].row.active
  BY TransferSaved
<1>3. PICK from \in Found(call[r].client) : from = loaded[r][1]
  BY <1>1 DEF SenderIsCurrent
<1>4. call[r].client # call[r].to
  BY <1>1 DEF IsCall
<1>5. /\ from.miles = [i \in RowsOf(from.id) |-> miles[i]]
      /\ DOMAIN from.miles = RowsOf(from.id)
      /\ from.row = accounts[from.id] /\ accounts[from.id].client = call[r].client
  BY FoundIsWhole
<1>6. /\ to.miles = [i \in RowsOf(to.id) |-> miles[i]]
      /\ DOMAIN to.miles = RowsOf(to.id)
      /\ accounts[to.id].client = call[r].to
  BY <1>2, FoundIsWhole
<1>7. /\ newFrom.id = from.id /\ newTo.id = to.id
      /\ newFrom.id # newTo.id
      /\ DOMAIN newFrom.miles \subseteq DOMAIN from.miles
      /\ newTo.miles = to.miles
      /\ newFrom # from => from.row.active
  <2>1. from.id # to.id
    BY <1>4, <1>5, <1>6
  <2>. QED
    BY <1>2, <1>3, <2>1 DEF TransferKeeps
<1>8. IsCurrent(r, newFrom) /\ IsCurrent(r, newTo)
  <2>1. LeavesInactive(newFrom)
    BY <1>5, <1>7 DEF LeavesInactive
  <2>2. LeavesInactive(newTo)
    BY <1>6, <1>7 DEF LeavesInactive
  <2>. QED
    BY <1>1, <1>5, <1>6, <1>7, <2>1, <2>2 DEF IsCurrent, TakesInOrder
<1>9. /\ \A c \in {newFrom, newTo} : IsCurrent(r, c)
      /\ \A c, d \in {newFrom, newTo} : c.id = d.id => c = d
  BY <1>7, <1>8
<1>. QED
  BY <1>1, <1>2, <1>9, CopiesOfSaveAll

\* A save sees what the tables hold now.
LEMMA CurrentCompare ==
  ASSUME Types, NEW r \in Calls, Copies(r), Compare(r)
  PROVE  SenderIsCurrent(r)' /\ Copies(r)'
<1>1. UNCHANGED <<now, accounts, miles, owner, pc, call>> /\ pc[r] = "saving"
  BY DEF Compare, tables
<1>2. PICK s, t :
           /\ s \in saves[r]
           /\ saves'[r] = (saves[r] \ {s}) \union {t}
           /\ t.copy = s.copy /\ t.seen = TRUE
           /\ t.row = accounts[s.copy.id]
           /\ t.miles = [i \in DOMAIN s.copy.miles |-> miles[i]]
           /\ t.mine = {i \in DOMAIN miles : owner[i] = s.copy.id}
  BY Compared
<1>3. ASSUME NEW u \in saves'[r] PROVE IsCurrent(r, u.copy)' /\ SeesTheTables(u)'
  <2>1. u \in saves[r] \/ u = t
    BY <1>2
  <2>2. IsCurrent(r, u.copy)
    BY <1>2, <2>1 DEF Copies
  <2>3. SeesTheTables(u)
    BY <1>2, <2>1 DEF Copies, SeesTheTables, RowsOf
  <2>. QED
    BY <1>1, <2>2, <2>3
       DEF IsCurrent, LeavesInactive, TakesInOrder, SeesTheTables, RowsOf
<1>4. \A u, v \in saves'[r] : u.copy.id = v.copy.id => u = v
  BY <1>2 DEF Copies
<1>. QED
  BY <1>1, <1>3, <1>4 DEF SenderIsCurrent, Copies

\* A save that sees the tables writes exactly its copy.
LEMMA WrittenAlone ==
  ASSUME Types, NEW s, IsSave(s), s.seen = TRUE, Writes(s), SeesTheTables(s),
         DOMAIN s.copy.miles \subseteq RowsOf(s.copy.id)
  PROVE  /\ \A a \in DOMAIN accounts :
              accounts'[a] = IF a = s.copy.id THEN s.copy.row ELSE accounts[a]
         /\ \A i \in DOMAIN miles :
              /\ miles'[i] = IF i \in DOMAIN s.copy.miles
                             THEN s.copy.miles[i] ELSE miles[i]
              /\ owner'[i] = IF owner[i] = s.copy.id /\ i \notin DOMAIN s.copy.miles
                             THEN 0 ELSE owner[i]
<1>1. IsCopy(s.copy) /\ s.copy.id \in DOMAIN accounts
  BY DEF IsSave, IsCopyOf
<1>2. /\ \A a \in DOMAIN accounts :
              accounts'[a] = IF a = s.copy.id
                             THEN Columns(accounts[a], s.row, s.copy.row)
                             ELSE accounts[a]
      /\ \A i \in DOMAIN miles :
              /\ miles'[i] = IF i \in DOMAIN s.copy.miles
                             THEN Columns(miles[i], s.miles[i], s.copy.miles[i])
                             ELSE miles[i]
              /\ owner'[i] = OwnerAfter(s, i)
  BY WrittenTables DEF Types
<1>3. /\ s.row = accounts[s.copy.id] /\ s.mine = RowsOf(s.copy.id)
      /\ \A i \in DOMAIN s.copy.miles : s.miles[i] = miles[i]
  BY DEF SeesTheTables
<1>4. /\ \A a \in DOMAIN accounts : accounts[a] \in AccountRow
      /\ \A i \in DOMAIN miles : miles[i] \in MileRow
  BY RowsOfTables DEF Types
<1>5. s.copy.row \in AccountRow /\ \A i \in DOMAIN s.copy.miles : s.copy.miles[i] \in MileRow
  BY <1>1 DEF IsCopy
<1>6. Columns(accounts[s.copy.id], s.row, s.copy.row) = s.copy.row
  BY <1>1, <1>3, <1>4, <1>5, ColumnsOfAccount
<1>7. ASSUME NEW i \in DOMAIN s.copy.miles, i \in DOMAIN miles
      PROVE  Columns(miles[i], s.miles[i], s.copy.miles[i]) = s.copy.miles[i]
  BY <1>3, <1>4, <1>5, <1>7, ColumnsOfMiles
<1>8. ASSUME NEW i \in DOMAIN miles
      PROVE  owner'[i] = IF owner[i] = s.copy.id /\ i \notin DOMAIN s.copy.miles
                         THEN 0 ELSE owner[i]
  <2>1. i \in s.mine <=> owner[i] = s.copy.id
    BY <1>3 DEF RowsOf
  <2>2. i \in DOMAIN s.copy.miles => i \in s.mine
    BY <1>3
  <2>. QED
    BY <1>2, <2>1, <2>2 DEF OwnerAfter
<1>. QED
  BY <1>2, <1>6, <1>7, <1>8

\* The rows of the other accounts stay what they are.
LEMMA OtherRows ==
  ASSUME Types, NEW s, IsSave(s), s.seen = TRUE, Writes(s), SeesTheTables(s),
         DOMAIN s.copy.miles \subseteq RowsOf(s.copy.id),
         NEW a \in DOMAIN accounts, a # s.copy.id
  PROVE  /\ RowsOf(a)' = RowsOf(a)
         /\ \A i \in RowsOf(a) : miles'[i] = miles[i]
<1>1. /\ \A i \in DOMAIN miles :
           /\ miles'[i] = IF i \in DOMAIN s.copy.miles
                          THEN s.copy.miles[i] ELSE miles[i]
           /\ owner'[i] = IF owner[i] = s.copy.id /\ i \notin DOMAIN s.copy.miles
                          THEN 0 ELSE owner[i]
  BY WrittenAlone
<1>2. /\ DOMAIN miles' = 1 .. Len(miles) + Len(s.copy.added)
      /\ Len(s.copy.added) \in Nat /\ DOMAIN s.copy.added = 1 .. Len(s.copy.added)
      /\ \A k \in DOMAIN s.copy.added : owner'[Len(miles) + k] = s.copy.id
  BY WrittenTables DEF Types
<1>3. /\ DOMAIN miles = 1 .. Len(miles) /\ Len(miles) \in Nat
      /\ Len(accounts) \in Nat /\ DOMAIN accounts = 1 .. Len(accounts)
  BY RowsOfTables DEF Types
<1>4. ASSUME NEW i \in DOMAIN miles', owner'[i] = a PROVE i \in DOMAIN miles
  <2>1. CASE i > Len(miles)
    <3>1. i - Len(miles) \in 1 .. Len(s.copy.added) /\ Len(miles) + (i - Len(miles)) = i
      BY <1>2, <1>3, <2>1
    <3>2. owner'[i] = s.copy.id
      BY <1>2, <3>1
    <3>. QED
      BY <1>4, <3>2
  <2>. QED
    BY <1>2, <1>3, <2>1
<1>5. DOMAIN miles \subseteq DOMAIN miles' /\ a # 0
  BY <1>2, <1>3
<1>6. \A i \in DOMAIN miles : owner'[i] = a <=> owner[i] = a
  BY <1>1, <1>5
<1>7. RowsOf(a)' = RowsOf(a)
  BY <1>4, <1>5, <1>6 DEF RowsOf
<1>8. ASSUME NEW i \in RowsOf(a) PROVE miles'[i] = miles[i]
  BY <1>1 DEF RowsOf
<1>. QED
  BY <1>7, <1>8

\* A save does not touch the account of the one that is left.
LEMMA CurrentUpdate ==
  ASSUME Types, NEW r \in Calls, Copies(r), Update(r)
  PROVE  SenderIsCurrent(r)' /\ Copies(r)'
<1>1. /\ pc[r] = "saving" /\ now' = now /\ \A s \in saves[r] : IsSave(s)
      /\ DOMAIN saves = Calls
      /\ pc \in [Calls -> {"idle", "load", "loadTo", "saving", "answered"}]
  BY DEF Update, Types, TypeOK, Saving
<1>2. PICK s \in saves[r] :
        /\ s.seen = TRUE /\ Writes(s)
        /\ IF saves[r] = {s}
           THEN Finish(r)
           ELSE /\ saves' = [saves EXCEPT ![r] = @ \ {s}]
                /\ UNCHANGED <<pc, call, loaded>>
  BY DEF Update, Writes
<1>3. CASE saves[r] = {s}
  <2>1. pc'[r] = "answered" /\ saves'[r] = {}
    BY <1>1, <1>2, <1>3 DEF Finish
  <2>. QED
    BY <2>1 DEF SenderIsCurrent, Copies
<1>4. CASE saves[r] # {s}
  <2>1. saves'[r] = saves[r] \ {s} /\ pc' = pc /\ call' = call
    BY <1>1, <1>2, <1>4
  <2>2. /\ IsSave(s) /\ SeesTheTables(s)
        /\ DOMAIN s.copy.miles \subseteq RowsOf(s.copy.id)
    BY <1>1 DEF Copies, IsCurrent
  <2>3. ASSUME NEW t \in saves'[r] PROVE IsCurrent(r, t.copy)' /\ SeesTheTables(t)'
    <3>1. t \in saves[r] /\ t.copy.id # s.copy.id
      BY <2>1 DEF Copies
    <3>2. t.copy.id \in DOMAIN accounts /\ IsCurrent(r, t.copy) /\ SeesTheTables(t)
      BY <1>1, <3>1 DEF IsSave, IsCopyOf, Copies
    <3>3. PICK a \in DOMAIN accounts : a = t.copy.id
      BY <3>2
    <3>4. /\ RowsOf(a)' = RowsOf(a)
          /\ \A i \in RowsOf(a) : miles'[i] = miles[i]
      BY <1>2, <2>2, <3>1, <3>3, OtherRows
    <3>5. accounts'[a] = accounts[a]
      BY <1>2, <2>2, <3>1, <3>3, WrittenAlone
    <3>6. DOMAIN t.copy.miles \subseteq RowsOf(a)
      BY <3>2, <3>3 DEF IsCurrent
    <3>7. [i \in RowsOf(a) |-> miles[i]]' = [i \in RowsOf(a) |-> miles[i]]
      BY <3>4
    <3>8. LeavesInactive(t.copy)'
      BY <3>2, <3>3, <3>4, <3>5, <3>7 DEF IsCurrent, LeavesInactive
    <3>9. TakesInOrder(r, t.copy)'
      BY <1>1, <2>1, <3>2, <3>3, <3>4 DEF IsCurrent, TakesInOrder
    <3>10. SeesTheTables(t)'
      <4>1. [i \in DOMAIN t.copy.miles |-> miles'[i]] = [i \in DOMAIN t.copy.miles |-> miles[i]]
        BY <3>4, <3>6
      <4>. QED
        BY <3>2, <3>3, <3>4, <3>5, <4>1 DEF SeesTheTables
    <3>. QED
      BY <3>3, <3>4, <3>6, <3>8, <3>9, <3>10 DEF IsCurrent
  <2>4. \A t, u \in saves'[r] : t.copy.id = u.copy.id => t = u
    BY <2>1 DEF Copies
  <2>. QED
    BY <1>1, <2>1, <2>3, <2>4 DEF SenderIsCurrent, Copies
<1>. QED
  BY <1>3, <1>4

\* The steps of one call together.
LEMMA SerialOfStep ==
  ASSUME ~Overlapping, ~SelfTransfer, Types, Serial, NEW r \in Calls, Begin(r) \/ Step(r)
  PROVE  Serial'
<1>1. OneAtATime /\ SenderIsCurrent(r) /\ Copies(r)
  BY DEF Serial
<1>2. /\ DOMAIN loaded = Calls /\ DOMAIN saves = Calls /\ Saving(r)
      /\ pc \in [Calls -> {"idle", "load", "loadTo", "saving", "answered"}]
  BY DEF Types, TypeOK
<1>3. SenderIsCurrent(r)' /\ Copies(r)'
  <2>1. CASE Begin(r)
    <3>1. pc'[r] = "load" /\ saves'[r] = {}
      BY <1>2, <2>1 DEF Begin, Saving
    <3>. QED
      BY <3>1 DEF SenderIsCurrent, Copies
  <2>2. CASE Finish(r)
    <3>1. pc'[r] = "answered" /\ saves'[r] = {}
      BY <1>2, <2>2 DEF Finish
    <3>. QED
      BY <3>1 DEF SenderIsCurrent, Copies
  <2>3. CASE LoadSender(r)
    <3>1. PICK acc \in Found(call[r].client) : loaded' = [loaded EXCEPT ![r] = <<acc>>]
      BY <2>3 DEF LoadSender
    <3>2. loaded'[r] = <<acc>> /\ loaded'[r][1] = acc
      BY <1>2, <3>1
    <3>3. /\ UNCHANGED <<accounts, miles, owner, call, saves>>
          /\ saves[r] = {}
      BY <1>2, <2>3 DEF LoadSender, tables, Called, Saving
    <3>4. Found(call[r].client)' = Found(call[r].client)
      BY <3>3 DEF Found
    <3>5. loaded'[r][1] \in Found(call[r].client)'
      BY <3>2, <3>4
    <3>. QED
      BY <3>3, <3>5 DEF SenderIsCurrent, Copies
  <2>4. CASE ChangeStatus(r) \/ (Earning(r) /\ ~Refuse(r))
    BY <2>4, CurrentStatus
  <2>5. CASE RemoveMiles(r) /\ ~Refuse(r)
    BY <2>5, CurrentRemoval
  <2>6. CASE TransferMiles(r)
    BY <1>1, <2>6, CurrentTransfer
  <2>7. CASE Compare(r)
    BY <1>1, <2>7, CurrentCompare
  <2>8. CASE Update(r)
    BY <1>1, <2>8, CurrentUpdate
  <2>. QED
    BY <2>1, <2>2, <2>3, <2>4, <2>5, <2>6, <2>7, <2>8
       DEF Step, Earning, RegisterToProgram, NoAccount, Refuse
<1>. QED
  BY <1>1, <1>3, SerialStep

\* And all steps.
LEMMA SerialNext ==
  ASSUME ~Overlapping, ~SelfTransfer
  PROVE  Types /\ Serial /\ [Next]_vars => Serial'
<1>. SUFFICES ASSUME Types, Serial, [Next]_vars PROVE Serial'
  OBVIOUS
<1>1. CASE \E r \in Calls : Begin(r) \/ Step(r)
  BY <1>1, SerialOfStep
<1>2. CASE Tick
  <2>1. /\ UNCHANGED <<accounts, miles, owner, pc, call, loaded, saves>>
        /\ \A r \in Calls : ~InProgress(r)
    BY <1>2 DEF Tick, tables, locals, Quiet
  <2>2. \A r \in Calls : saves[r] = {}
    BY <2>1 DEF Types, Saving, InProgress
  <2>3. OneAtATime'
    BY <2>1 DEF Serial, OneAtATime, InProgress
  <2>4. ASSUME NEW r \in Calls PROVE SenderIsCurrent(r)' /\ Copies(r)'
    <3>1. pc'[r] # "loadTo" /\ saves'[r] = {}
      BY <2>1, <2>2 DEF InProgress
    <3>. QED
      BY <3>1 DEF SenderIsCurrent, Copies
  <2>. QED
    BY <2>3, <2>4 DEF Serial
<1>3. CASE UNCHANGED vars
  <2>1. UNCHANGED <<now, accounts, miles, owner, pc, call, loaded, saves>>
    BY <1>3 DEF vars, tables, locals
  <2>2. OneAtATime'
    BY <2>1 DEF Serial, OneAtATime, InProgress
  <2>3. ASSUME NEW r \in Calls PROVE SenderIsCurrent(r)'
    <3>1. Found(call[r].client)' = Found(call[r].client)
      BY <2>1 DEF Found
    <3>2. SenderIsCurrent(r)
      BY DEF Serial
    <3>. QED
      BY <2>1, <3>1, <3>2 DEF SenderIsCurrent
  <2>4. ASSUME NEW r \in Calls PROVE Copies(r)'
    <3>1. Copies(r)
      BY DEF Serial
    <3>. QED
      BY <2>1, <3>1 DEF Copies, IsCurrent, LeavesInactive, TakesInOrder, SeesTheTables, RowsOf
  <2>. QED
    BY <2>2, <2>3, <2>4 DEF Serial
<1>. QED
  BY <1>1, <1>2, <1>3 DEF Next, AllAnswered

\* Only the second half of a save changes the rows of miles.
LEMMA OnlySavesWrite ==
  ASSUME Types, [Next]_vars
  PROVE  \/ UNCHANGED <<accounts, miles, owner>>
         \/ UNCHANGED <<miles, owner>> /\ \E r \in Calls : RegisterToProgram(r)
         \/ \E r \in Calls : \E s \in saves[r] :
              IsSave(s) /\ s.seen = TRUE /\ Writes(s) /\ Update(r)
<1>1. ASSUME NEW r \in Calls, Update(r)
      PROVE  \E s : s \in saves[r] /\ IsSave(s) /\ s.seen = TRUE /\ Writes(s)
  BY <1>1 DEF Update, Writes, Types, Saving
<1>2. ASSUME NEW r \in Calls, Begin(r) \/ Step(r), ~Update(r), ~RegisterToProgram(r)
      PROVE  UNCHANGED <<accounts, miles, owner>>
  BY <1>2 DEF Step, Begin, NoAccount, ChangeStatus, RegisterMiles,
     RegisterNonExpiringMiles, RemoveMiles, LoadSender, TransferMiles, Compare,
     Refuse, SaveAll, tables
<1>3. ASSUME NEW r \in Calls, RegisterToProgram(r)
      PROVE  UNCHANGED <<miles, owner>>
  BY <1>3 DEF RegisterToProgram
<1>. QED
  BY <1>1, <1>2, <1>3 DEF Next, Tick, AllAnswered, vars, tables

\* A step that writes miles of an inactive account writes what was there.
LEMMA FrozenStep ==
  Types /\ Serial /\ [Next]_vars =>
    [\A i \in DOMAIN miles :
       owner[i] # 0 /\ ~accounts[owner[i]].active =>
         miles'[i] = miles[i] /\ owner'[i] = owner[i]]_<<miles, owner>>
<1>. SUFFICES ASSUME Types, Serial, NEW r \in Calls, NEW s \in saves[r],
                     IsSave(s), s.seen = TRUE, Writes(s), Update(r),
                     NEW i \in DOMAIN miles, owner[i] # 0, ~accounts[owner[i]].active
              PROVE  miles'[i] = miles[i] /\ owner'[i] = owner[i]
  BY OnlySavesWrite
<1>1. IsCurrent(r, s.copy) /\ SeesTheTables(s)
  BY DEF Serial, Copies
<1>2. /\ miles'[i] = IF i \in DOMAIN s.copy.miles
                     THEN s.copy.miles[i] ELSE miles[i]
      /\ owner'[i] = IF owner[i] = s.copy.id /\ i \notin DOMAIN s.copy.miles
                     THEN 0 ELSE owner[i]
  BY <1>1, WrittenAlone DEF IsCurrent
<1>3. CASE owner[i] # s.copy.id
  <2>1. i \notin DOMAIN s.copy.miles
    BY <1>1, <1>3 DEF IsCurrent, RowsOf
  <2>. QED
    BY <1>2, <1>3, <2>1
<1>4. CASE owner[i] = s.copy.id
  <2>1. s.copy.miles = [j \in RowsOf(s.copy.id) |-> miles[j]]
    BY <1>1, <1>4 DEF IsCurrent, LeavesInactive
  <2>2. i \in RowsOf(s.copy.id)
    BY <1>4 DEF RowsOf
  <2>. QED
    BY <1>2, <2>1, <2>2
<1>. QED
  BY <1>3, <1>4

\* A step that spends takes what the copy of its removal lacks.
LEMMA OrderedStep ==
  Types /\ Serial /\ [Next]_vars =>
    [\A r \in Calls :
       spent' > spent /\ call[r].op = "spend" /\ call'[r] = NoCall =>
         LET touched == {j \in DOMAIN miles : miles'[j].amount < miles[j].amount}
         IN \A j \in touched :
              /\ Live(miles[j], now)
              /\ \A i \in DOMAIN miles :
                   /\ owner[i] = owner[j] /\ Live(miles[i], now)
                   /\ Precedes(call[r].strategy, miles[i], miles[j])
                   => miles'[i].amount = 0]_vars
<1>. SUFFICES ASSUME Types, Serial, [Next]_vars, NEW r \in Calls,
                     spent' > spent, call[r].op = "spend",
                     NEW j \in DOMAIN miles, miles'[j].amount < miles[j].amount
              PROVE  /\ Live(miles[j], now)
                     /\ \A i \in DOMAIN miles :
                          /\ owner[i] = owner[j] /\ Live(miles[i], now)
                          /\ Precedes(call[r].strategy, miles[i], miles[j])
                          => miles'[i].amount = 0
  OBVIOUS
<1>1. InProgress(r)
  BY DEF Serial, OneAtATime, NoCall
<1>2. \A i \in DOMAIN miles : miles[i].amount \in Nat
  BY RowsOfTables DEF Types, MileRow
<1>3. PICK q, s : /\ q \in Calls /\ s \in saves[q] /\ IsSave(s) /\ s.seen = TRUE
                  /\ Writes(s) /\ Update(q)
  <2>1. miles' # miles
    <3>1. ~(miles[j].amount < miles[j].amount)
      BY <1>2
    <3>. QED
      BY <3>1
  <2>. QED
    BY <2>1, OnlySavesWrite
<1>4. q = r
  BY <1>1, <1>3 DEF Update, InProgress, Serial, OneAtATime
<1>5. IsCurrent(r, s.copy) /\ SeesTheTables(s)
  BY <1>3, <1>4 DEF Serial, Copies
<1>6. \A i \in DOMAIN miles :
        miles'[i] = IF i \in DOMAIN s.copy.miles THEN s.copy.miles[i] ELSE miles[i]
  BY <1>3, <1>5, WrittenAlone DEF IsCurrent
<1>7. j \in DOMAIN s.copy.miles
  BY <1>2, <1>6
<1>8. /\ DOMAIN s.copy.miles = RowsOf(s.copy.id)
      /\ \A i, k \in RowsOf(s.copy.id) :
           s.copy.miles[k].amount < miles[k].amount =>
             /\ Live(miles[k], now)
             /\ /\ Live(miles[i], now)
                /\ Precedes(call[r].strategy, miles[i], miles[k])
                => s.copy.miles[i].amount = 0
  BY <1>5 DEF IsCurrent, TakesInOrder
<1>9. j \in RowsOf(s.copy.id) /\ s.copy.miles[j].amount < miles[j].amount
  BY <1>6, <1>7, <1>8
<1>10. Live(miles[j], now)
  BY <1>8, <1>9
<1>11. ASSUME NEW i \in DOMAIN miles,
              owner[i] = owner[j], Live(miles[i], now),
              Precedes(call[r].strategy, miles[i], miles[j])
       PROVE  miles'[i].amount = 0
  <2>1. i \in RowsOf(s.copy.id)
    BY <1>9, <1>11 DEF RowsOf
  <2>. QED
    BY <1>6, <1>8, <1>9, <1>11, <2>1
<1>. QED
  BY <1>10, <1>11

\* What calls one at a time rest on.
LEMMA SerialCalls ==
  ASSUME ~Overlapping, ~SelfTransfer
  PROVE  Spec => [](Types /\ Serial)
<1>1. Init => Types /\ Serial
  BY TypesInit, SerialInit
<1>2. Types /\ Serial /\ [Next]_vars => (Types /\ Serial)'
  BY TypesNext, SerialNext
<1>. QED
  BY <1>1, <1>2, PTL DEF Spec

\* Calls one at a time change no miles of an inactive account: it neither
\* loses nor moves them (awards-account.entity.ts).
THEOREM InactiveStayFrozen ==
  ASSUME ~Overlapping, ~SelfTransfer
  PROVE  Spec => InactiveAccountsAreFrozen
BY SerialCalls, FrozenStep, PTL DEF Spec, InactiveAccountsAreFrozen

\* A removal takes miles in the order of its strategy, and never expired ones
\* (removeMiles).
THEOREM SpendingIsOrdered ==
  ASSUME ~Overlapping, ~SelfTransfer
  PROVE  Spec => SpendsInOrder
BY SerialCalls, OrderedStep, PTL DEF Spec, SpendsInOrder

-----------------------------------------------------------------------------
(* The ledger                                                               *)

HeldBy(R, E) == Held(Only(miles, R), E)

\* What saving copy c adds to what the accounts hold.
Change(c, E) == CopyHeld(c, E) - HeldBy(RowsOf(c.id), E)

\* What it will have added to the history.
GrantedAfter(r, c) ==
  IF Grants(r)
  THEN [granted EXCEPT ![c.added[1].expires] = @ + call[r].amount]
  ELSE granted

SpentAfter(r) == IF call[r].op = "spend" THEN spent + call[r].amount ELSE spent

\* Miles are counted all together and by each date of expiration.
Periods == {Dates} \union {{e} : e \in Dates}

Balances(held, given, taken) ==
  /\ held[Dates] + taken = SumFunction(given)
  /\ \A e \in Dates : held[{e}] <= given[e]

HeldNow == [E \in Periods |-> HeldBy(Owned, E)]

\* The books balance while nothing is being saved,
Ledger ==
  (\A r \in Calls : pc[r] # "saving") => Balances(HeldNow, granted, spent)

\* will balance once the last save is done,
LastSave(r, s) ==
  saves[r] = {s} =>
    Balances([E \in Periods |-> HeldNow[E] + Change(s.copy, E)],
             GrantedAfter(r, s.copy), SpentAfter(r))

\* or the two saves of a transfer are.
TwoSaves(r, s, t) ==
  s # t =>
    /\ saves[r] = {s, t} /\ call[r].op = "transfer"
    /\ Balances([E \in Periods |-> HeldNow[E] + (Change(s.copy, E) + Change(t.copy, E))],
                granted, spent)

Books(r) ==
  \A s \in saves[r] : LastSave(r, s) /\ \A t \in saves[r] : TwoSaves(r, s, t)

Balanced == Ledger /\ \A r \in Calls : Books(r)

\* No rows hold nothing.
LEMMA HeldEmpty == ASSUME NEW m, DOMAIN m = {}, NEW E PROVE Held(m, E) = 0
BY SumOfEmpty DEF Held

\* Nor does an empty list.
LEMMA NothingAdded == ASSUME NEW E PROVE Held(<<>>, E) = 0
<1>1. DOMAIN <<>> = {}
  OBVIOUS
<1>. QED
  BY <1>1, HeldEmpty

\* Rows of a table, in two parts.
LEMMA HeldInParts ==
  ASSUME NEW m, IsRows(m), NEW A \in SUBSET DOMAIN m, NEW B \in SUBSET A
  PROVE  /\ IsRows(Only(m, A)) /\ IsRows(Only(m, B)) /\ IsRows(Only(m, A \ B))
         /\ \A E : Held(Only(m, A), E) = Held(Only(m, B), E) + Held(Only(m, A \ B), E)
<1>. PICK a : a = Only(m, A)
  OBVIOUS
<1>1. IsRows(a) /\ DOMAIN a = A
  BY HeldSplit DEF Only
<1>2. Only(a, B) = Only(m, B) /\ Only(a, A \ B) = Only(m, A \ B)
  BY DEF Only
<1>3. /\ IsRows(Only(a, B)) /\ IsRows(Only(a, A \ B))
      /\ \A E : Held(a, E) = Held(Only(a, B), E) + Held(Only(a, A \ B), E)
  BY <1>1, HeldSplit
<1>. QED
  BY <1>1, <1>2, <1>3

\* Types of what rows of the table hold.
LEMMA HeldByType ==
  ASSUME TypeOK, NEW R \in SUBSET DOMAIN miles, NEW E
  PROVE  HeldBy(R, E) \in Nat /\ IsRows(miles) /\ IsRows(Only(miles, R))
<1>1. IsRows(miles)
  BY RowsOfTables, SequenceIsRows
<1>2. IsRows(Only(miles, R))
  BY <1>1, HeldSplit
<1>. QED
  BY <1>1, <1>2, HeldType DEF HeldBy

\* What a save that sees the tables does to what the accounts hold.
LEMMA HeldAfterSave ==
  ASSUME Types, NEW s, IsSave(s), s.seen = TRUE, Writes(s), SeesTheTables(s),
         DOMAIN s.copy.miles \subseteq RowsOf(s.copy.id), NEW E
  PROVE  HeldBy(Owned, E)' = HeldBy(Owned, E) + Change(s.copy, E)
<1>. DEFINE id == s.copy.id
            D  == DOMAIN s.copy.miles
            R  == RowsOf(id)
            O  == Owned \ R
            n  == Len(miles)
            added == s.copy.added
            F  == Further(n, DOMAIN added)
<1>1. /\ \A i \in DOMAIN miles :
           /\ miles'[i] = IF i \in D THEN s.copy.miles[i] ELSE miles[i]
           /\ owner'[i] = IF owner[i] = id /\ i \notin D THEN 0 ELSE owner[i]
  BY WrittenAlone
<1>2. /\ DOMAIN miles' = 1 .. n + Len(added) /\ miles' \in Seq(MileRow)
      /\ Len(added) \in Nat /\ DOMAIN added = 1 .. Len(added) /\ added \in Seq(MileRow)
      /\ \A k \in DOMAIN added : miles'[n + k] = added[k] /\ owner'[n + k] = id
  BY WrittenTables DEF Types
<1>3. DOMAIN miles = 1 .. n /\ n \in Nat /\ TypeOK
  BY RowsOfTables DEF Types
<1>4. IsCopy(s.copy) /\ id \in Nat /\ id # 0
  <2>1. id \in DOMAIN accounts /\ IsCopy(s.copy)
    BY DEF IsSave, IsCopyOf
  <2>2. DOMAIN accounts = 1 .. Len(accounts) /\ Len(accounts) \in Nat
    BY <1>3, RowsOfTables
  <2>. QED
    BY <2>1, <2>2
<1>5. D \subseteq R /\ R \subseteq Owned /\ Owned \subseteq DOMAIN miles
  BY <1>4 DEF RowsOf, Owned
<1>6. /\ F \subseteq DOMAIN miles' /\ F \cap DOMAIN miles = {}
      /\ DOMAIN miles' = DOMAIN miles \union F
  <2>1. F = {n + k : k \in 1 .. Len(added)}
    BY <1>2 DEF Further
  <2>2. ASSUME NEW i \in 1 .. n + Len(added), i > n PROVE i \in F
    <3>1. i - n \in 1 .. Len(added) /\ i = n + (i - n)
      BY <1>2, <1>3, <2>2
    <3>. QED
      BY <2>1, <3>1
  <2>3. \A i \in F : i \in 1 .. n + Len(added) /\ i > n
    BY <1>2, <1>3, <2>1
  <2>. HIDE DEF F, n, added
  <2>. QED
    BY <1>2, <1>3, <2>2, <2>3
<1>7. Owned' = O \union (D \union F)
  <2>1. \A i \in F : owner'[i] # 0
    BY <1>2, <1>4 DEF Further
  <2>2. \A i \in DOMAIN miles : owner'[i] # 0 <=> i \in O \/ i \in D
    BY <1>1, <1>4, <1>5 DEF Owned, RowsOf
  <2>3. Owned' = {i \in DOMAIN miles' : owner'[i] # 0}
    BY DEF Owned
  <2>4. O \subseteq DOMAIN miles /\ D \subseteq DOMAIN miles
    BY <1>5
  <2>. HIDE DEF F, D, O
  <2>. QED
    BY <1>6, <2>1, <2>2, <2>3, <2>4
<1>8. /\ O \subseteq DOMAIN miles /\ O \cap D = {} /\ O \cap F = {} /\ D \cap F = {}
      /\ D \subseteq DOMAIN miles
  BY <1>5, <1>6
<1>9. IsRows(miles) /\ IsRows(miles')
  BY <1>2, <1>3, SequenceIsRows, HeldByType
<1>10. HeldBy(Owned, E) = HeldBy(R, E) + HeldBy(O, E)
  BY <1>5, <1>9, HeldInParts DEF HeldBy
<1>11. HeldBy(R, E) \in Nat /\ HeldBy(O, E) \in Nat
  BY <1>3, <1>5, <1>8, HeldByType
<1>. HIDE DEF F, O, R
<1>. DEFINE A == O \union (D \union F)
<1>12. A \subseteq DOMAIN miles' /\ O \subseteq A /\ A \ O = D \union F
  BY <1>6, <1>8
<1>13. Held(Only(miles', A), E) = Held(Only(miles', O), E) + Held(Only(miles', D \union F), E)
  BY <1>9, <1>12, HeldInParts
<1>14. Held(Only(miles', D \union F), E) = Held(Only(miles', D), E) + Held(Only(miles', F), E)
  <2>1. D \subseteq D \union F /\ (D \union F) \ D = F /\ D \union F \subseteq DOMAIN miles'
    BY <1>6, <1>8
  <2>. HIDE DEF D
  <2>. QED
    BY <1>9, <2>1, HeldInParts
<1>15. Only(miles', O) = Only(miles, O)
  BY <1>1, <1>8 DEF Only
<1>16. Only(miles', D) = s.copy.miles
  <2>1. s.copy.miles = [i \in D |-> s.copy.miles[i]]
    BY <1>4 DEF IsCopy
  <2>. QED
    BY <1>1, <1>8, <2>1 DEF Only
<1>17. Held(Only(miles', F), E) = Held(added, E)
  <2>. DEFINE m == Only(miles', F)
  <2>1. DOMAIN m = Further(n, DOMAIN added)
    BY DEF Only, F
  <2>2. \A k \in DOMAIN added : m[n + k] = added[k]
    BY <1>2 DEF Only, F, Further
  <2>3. added \in Seq(MileRow) /\ n \in Nat
    BY <1>2, <1>3
  <2>. HIDE DEF m, n, added
  <2>4. Held(m, E) = Held(added, E)
    BY <2>1, <2>2, <2>3, HeldShift
  <2>. QED
    BY <2>4 DEF m
<1>18. Held(s.copy.miles, E) \in Nat /\ Held(added, E) \in Nat
  BY <1>4, CopyFacts
<1>19. HeldBy(Owned, E)' = Held(Only(miles', A), E)
  BY <1>7 DEF HeldBy
<1>20. Change(s.copy, E) = (Held(s.copy.miles, E) + Held(added, E)) - HeldBy(R, E)
  BY DEF Change, CopyHeld, R
<1>. QED
  BY <1>10, <1>11, <1>13, <1>14, <1>15, <1>16, <1>17, <1>18, <1>19, <1>20 DEF HeldBy

\* A copy of all the rows of an account changes nothing.
LEMMA WholeChangesNothing ==
  ASSUME Types, NEW acc, IsCopyOf(acc, acc.id),
         acc.miles = [i \in RowsOf(acc.id) |-> miles[i]], acc.added = <<>>, NEW E
  PROVE  /\ CopyHeld(acc, E) = HeldBy(RowsOf(acc.id), E)
         /\ HeldBy(RowsOf(acc.id), E) \in Nat
<1>1. Held(acc.added, E) = 0
  BY NothingAdded
<1>2. RowsOf(acc.id) \in SUBSET DOMAIN miles
  BY DEF RowsOf
<1>3. HeldBy(RowsOf(acc.id), E) \in Nat
  BY <1>2, HeldByType DEF Types
<1>4. acc.miles = Only(miles, RowsOf(acc.id))
  BY DEF Only
<1>5. Held(acc.miles, E) = HeldBy(RowsOf(acc.id), E)
  BY <1>4 DEF HeldBy
<1>. QED
  BY <1>1, <1>3, <1>5 DEF CopyHeld

\* The dates on which miles expire are finitely many.
LEMMA DatesAreFinite == IsFiniteSet(Dates)
<1>. DEFINE P == (0 .. MaxTime) \X Lifetimes
            S == {t + days : t \in 0 .. MaxTime, days \in Lifetimes}
            f == [p \in P |-> p[1] + p[2]]
<1>1. IsFiniteSet(P)
  <2>1. IsFiniteSet(0 .. MaxTime) /\ IsFiniteSet(Lifetimes)
    BY AwardsAssumption, FS_Interval
  <2>. QED
    BY <2>1, FS_Product
<1>2. f \in Surjection(P, S)
  <2>1. f \in [P -> S]
    OBVIOUS
  <2>2. ASSUME NEW e \in S PROVE \E p \in P : f[p] = e
    <3>1. PICK t \in 0 .. MaxTime, days \in Lifetimes : e = t + days
      OBVIOUS
    <3>2. <<t, days>> \in P /\ f[<<t, days>>] = e
      BY <3>1
    <3>. QED
      BY <3>2
  <2>. HIDE DEF f, P, S
  <2>. QED
    BY <2>1, <2>2 DEF Surjection
<1>. HIDE DEF f, P, S
<1>3. IsFiniteSet(S)
  BY <1>1, <1>2, FS_Surjection
<1>4. IsFiniteSet(S \union {Never})
  BY <1>3, FS_AddElement
<1>. QED
  BY <1>4 DEF Dates, S

\* What is granted on one date adds to the whole.
LEMMA GrantAdds ==
  ASSUME NEW g \in [Dates -> Nat], NEW e \in Dates, NEW n \in Nat
  PROVE  /\ SumFunction(g) \in Nat
         /\ SumFunction([g EXCEPT ![e] = @ + n]) = SumFunction(g) + n
<1>. DEFINE h == [g EXCEPT ![e] = @ + n]
            T == Dates \ {e}
<1>1. /\ \A x \in Dates : g[x] \in Nat /\ g[x] \in Int /\ h[x] \in Int
      /\ h[e] = g[e] + n /\ \A x \in T : h[x] = g[x]
      /\ DOMAIN g = Dates /\ DOMAIN h = Dates
  OBVIOUS
<1>2. IsFiniteSet(Dates) /\ IsFiniteSet(T)
  BY DatesAreFinite, FS_RemoveElement
<1>. HIDE DEF h, T
<1>3. SumFunctionOnSet(g, Dates) \in Nat
  <2>. DEFINE N == Nat
  <2>1. \A x \in Dates : g[x] \in N
    BY <1>1
  <2>2. N \in {Nat, Int}
    OBVIOUS
  <2>. HIDE DEF N
  <2>3. SumFunctionOnSet(g, Dates) \in N
    BY <1>2, <2>1, <2>2, SumType
  <2>. QED
    BY <2>3 DEF N
<1>4. /\ SumFunctionOnSet(g, Dates) = g[e] + SumFunctionOnSet(g, T)
      /\ SumFunctionOnSet(h, Dates) = h[e] + SumFunctionOnSet(h, T)
  BY <1>1, <1>2, SumRemove DEF T
<1>5. SumFunctionOnSet(g, T) = SumFunctionOnSet(h, T)
  <2>1. \A x \in T : g[x] \in Int /\ g[x] = h[x]
    BY <1>1 DEF T
  <2>. QED
    BY <1>2, <2>1, SumSame
<1>6. SumFunctionOnSet(g, T) \in Int
  <2>. DEFINE N == Int
  <2>1. \A x \in T : g[x] \in N
    BY <1>1 DEF T
  <2>2. N \in {Nat, Int}
    OBVIOUS
  <2>. HIDE DEF N
  <2>3. SumFunctionOnSet(g, T) \in N
    BY <1>2, <2>1, <2>2, SumType
  <2>. QED
    BY <2>3 DEF N
<1>7. SumFunction(g) = SumFunctionOnSet(g, Dates) /\ SumFunction(h) = SumFunctionOnSet(h, Dates)
  BY <1>1 DEF SumFunction
<1>. QED
  BY <1>1, <1>3, <1>4, <1>5, <1>6, <1>7 DEF h

\* What rows hold on all dates is the sum of their amounts.
LEMMA HeldInAll ==
  ASSUME NEW m, IsRows(m)
  PROVE  Held(m, Dates) = SumFunctionOnSet(AmountOf(m), DOMAIN m)
<1>1. \A i \in DOMAIN m : /\ Part(m, Dates)[i] \in Int
                          /\ Part(m, Dates)[i] = AmountOf(m)[i]
  <2>1. \A i \in DOMAIN m : m[i].expires \in Dates /\ m[i].amount \in Nat
    BY DEF IsRows, MileRow
  <2>. QED
    BY <2>1 DEF Part, Counted, AmountOf
<1>2. IsFiniteSet(DOMAIN m)
  BY DEF IsRows
<1>. QED
  BY <1>1, <1>2, SumSame DEF Held

\* Rows that lose part of their amount hold no more on any dates.
LEMMA HeldLessens ==
  ASSUME NEW m, IsRows(m), NEW new, IsRows(new), DOMAIN new = DOMAIN m,
         \A i \in DOMAIN m : /\ new[i].expires = m[i].expires
                             /\ new[i].amount <= m[i].amount,
         NEW E
  PROVE  Held(new, E) <= Held(m, E)
<1>. DEFINE f == Part(m, E)
            g == Part(new, E)
            T == DOMAIN m
            d == [i \in T |-> f[i] - g[i]]
<1>1. \A i \in T : f[i] \in Nat /\ g[i] \in Nat /\ g[i] <= f[i]
  <2>1. \A i \in T : m[i].amount \in Nat /\ new[i].amount \in Nat
    BY DEF IsRows, MileRow
  <2>. QED
    BY <2>1 DEF Part, Counted
<1>2. \A i \in T : /\ f[i] \in Int /\ d[i] \in Int /\ g[i] = f[i] - d[i]
                   /\ d[i] \in Nat
  <2>. HIDE DEF f, g
  <2>. QED
    BY <1>1
<1>3. IsFiniteSet(T)
  BY DEF IsRows
<1>4. Held(m, E) = SumFunctionOnSet(f, T) /\ Held(new, E) = SumFunctionOnSet(g, T)
  BY DEF Held
<1>5. Held(m, E) \in Nat /\ Held(new, E) \in Nat
  BY HeldType
<1>. HIDE DEF f, g, d, T
<1>6. SumFunctionOnSet(g, T) = SumFunctionOnSet(f, T) - SumFunctionOnSet(d, T)
  BY <1>2, <1>3, SumOfDifferences
<1>7. SumFunctionOnSet(d, T) \in Nat
  <2>. DEFINE N == Nat
  <2>1. \A x \in T : d[x] \in N
    BY <1>2
  <2>2. N \in {Nat, Int}
    OBVIOUS
  <2>. HIDE DEF N
  <2>3. SumFunctionOnSet(d, T) \in N
    BY <1>3, <2>1, <2>2, SumType
  <2>. QED
    BY <2>3 DEF N
<1>. QED
  BY <1>4, <1>5, <1>6, <1>7

\* The books at the start.
LEMMA BalancedInit == Init => Balanced
<1>. SUFFICES ASSUME Init PROVE Balanced
  OBVIOUS
<1>1. \A r \in Calls : saves[r] = {}
  BY DEF Init
<1>2. \A E : HeldBy(Owned, E) = 0
  <2>1. miles = <<>> /\ DOMAIN <<>> = {}
    BY DEF Init
  <2>2. Owned = {}
    BY <2>1 DEF Owned
  <2>3. DOMAIN Only(miles, Owned) = {}
    BY <2>2 DEF Only
  <2>. QED
    BY <2>3, HeldEmpty DEF HeldBy
<1>3. granted = [e \in Dates |-> 0] /\ spent = 0
  BY DEF Init
<1>4. SumFunction(granted) = 0
  <2>1. \A x \in Dates \ {} : granted[x] = 0
    BY <1>3
  <2>2. IsFiniteSet(Dates) /\ {} \in SUBSET Dates /\ DOMAIN granted = Dates
    BY <1>3, DatesAreFinite
  <2>3. SumFunctionOnSet(granted, Dates) = SumFunctionOnSet(granted, {})
    BY <2>1, <2>2, SumOfPart
  <2>. QED
    BY <2>2, <2>3, SumOfEmpty DEF SumFunction
<1>5. \A E \in Periods : HeldNow[E] = 0
  BY <1>2 DEF HeldNow
<1>6. Balances(HeldNow, granted, spent)
  BY <1>3, <1>4, <1>5 DEF Balances, Periods
<1>. QED
  BY <1>1, <1>6 DEF Balanced, Ledger, Books

\* From the books to what the accounts hold.
LEMMA BooksConserve == Types /\ Balanced => MilesAreConserved
<1>. SUFFICES ASSUME Types, Balanced, Quiet
              PROVE  /\ Total(Owned) + spent = SumFunction(granted)
                     /\ \A e \in Dates :
                          Total({i \in Owned : miles[i].expires = e}) <= granted[e]
  BY DEF MilesAreConserved
<1>1. Balances(HeldNow, granted, spent)
  BY DEF Balanced, Ledger, Quiet, InProgress
<1>. DEFINE m == Only(miles, Owned)
            amounts == [i \in DOMAIN miles |-> miles[i].amount]
<1>2. /\ Owned \subseteq DOMAIN miles /\ IsRows(m) /\ DOMAIN m = Owned
      /\ IsFiniteSet(Owned) /\ \A i \in Owned : m[i] = miles[i]
  <2>1. Owned \in SUBSET DOMAIN miles
    BY DEF Owned
  <2>2. IsRows(m) /\ DOMAIN m = Owned
    BY <2>1, HeldByType DEF Types, Only
  <2>. QED
    BY <2>1, <2>2 DEF IsRows, Only
<1>3. \A E \in Periods : HeldNow[E] = Held(m, E)
  BY DEF HeldNow, HeldBy
<1>4. \A i \in Owned : amounts[i] = m[i].amount /\ m[i].amount \in Nat /\ m[i].expires \in Dates
  BY <1>2 DEF IsRows, MileRow
<1>5. Total(Owned) = Held(m, Dates)
  <2>1. Held(m, Dates) = SumFunctionOnSet(AmountOf(m), Owned)
    BY <1>2, HeldInAll
  <2>2. \A i \in Owned : AmountOf(m)[i] \in Int /\ AmountOf(m)[i] = amounts[i]
    BY <1>2, <1>4 DEF AmountOf
  <2>. HIDE DEF m, amounts
  <2>3. SumFunctionOnSet(AmountOf(m), Owned) = SumFunctionOnSet(amounts, Owned)
    BY <1>2, <2>2, SumSame
  <2>. QED
    BY <2>1, <2>3 DEF Total, amounts
<1>6. ASSUME NEW e \in Dates
      PROVE  Total({i \in Owned : miles[i].expires = e}) = Held(m, {e})
  <2>. DEFINE S == {i \in Owned : miles[i].expires = e}
              g == Part(m, {e})
  <2>1. S \in SUBSET Owned
    OBVIOUS
  <2>2. \A i \in S : amounts[i] \in Int /\ g[i] = amounts[i]
    BY <1>2, <1>4 DEF Part, Counted
  <2>3. \A i \in Owned \ S : g[i] = 0
    BY <1>2 DEF Part, Counted
  <2>4. Held(m, {e}) = SumFunctionOnSet(g, Owned)
    BY <1>2 DEF Held
  <2>5. Total(S) = SumFunctionOnSet(amounts, S)
    BY DEF Total
  <2>. HIDE DEF S, g, m, amounts
  <2>6. SumFunctionOnSet(g, Owned) = SumFunctionOnSet(amounts, S)
    BY <1>2, <2>1, <2>2, <2>3, SumOfPart
  <2>. QED
    BY <2>4, <2>5, <2>6 DEF S
<1>7. Dates \in Periods /\ \A e \in Dates : {e} \in Periods
  BY DEF Periods
<1>. HIDE DEF m
<1>. QED
  BY <1>1, <1>3, <1>5, <1>6, <1>7 DEF Balances

\* What a SaveAll leaves of the other calls and of the books.
LEMMA SavesOfSaveAll ==
  ASSUME Types, NEW r \in Calls, NEW copies, SaveAll(r, copies)
  PROVE  /\ UNCHANGED <<accounts, miles, owner, call, granted, spent>>
         /\ pc'[r] = "saving"
         /\ saves'[r] = {[copy |-> c, seen |-> FALSE] : c \in copies}
         /\ \A s \in saves'[r] : s.copy \in copies
         /\ HeldNow' = HeldNow
         /\ \A c, E : Change(c, E)' = Change(c, E)
<1>1. /\ pc \in [Calls -> {"idle", "load", "loadTo", "saving", "answered"}]
      /\ DOMAIN saves = Calls
  BY DEF Types, TypeOK
<1>2. UNCHANGED <<accounts, miles, owner, call, granted, spent>>
  BY DEF SaveAll, tables, history
<1>3. /\ pc'[r] = "saving"
      /\ saves'[r] = {[copy |-> c, seen |-> FALSE] : c \in copies}
  BY <1>1 DEF SaveAll
<1>4. \A s \in saves'[r] : s.copy \in copies
  BY <1>3
<1>5. HeldNow' = HeldNow
  BY <1>2 DEF HeldNow, Periods, Dates, HeldBy, Owned
<1>6. \A c, E : Change(c, E)' = Change(c, E)
  BY <1>2 DEF Change, HeldBy, RowsOf
<1>. QED
  BY <1>2, <1>3, <1>4, <1>5, <1>6

\* A call that saves one copy settles the books when its effect balances.
LEMMA BooksOfOne ==
  ASSUME Types, NEW r \in Calls, NEW c, SaveAll(r, {c}),
         Balances([E \in Periods |-> HeldNow[E] + Change(c, E)],
                  GrantedAfter(r, c), SpentAfter(r))
  PROVE  Books(r)'
<1>1. /\ UNCHANGED <<accounts, miles, owner, call, granted, spent>>
      /\ saves'[r] = {[copy |-> d, seen |-> FALSE] : d \in {c}}
      /\ \A s \in saves'[r] : s.copy \in {c}
      /\ HeldNow' = HeldNow
      /\ \A d, E : Change(d, E)' = Change(d, E)
  BY SavesOfSaveAll
<1>2. /\ GrantedAfter(r, c)' = GrantedAfter(r, c)
      /\ SpentAfter(r)' = SpentAfter(r)
  BY <1>1 DEF GrantedAfter, SpentAfter, Grants
<1>3. ASSUME NEW s \in saves'[r] PROVE LastSave(r, s)'
  <2>1. s.copy = c
    BY <1>1
  <2>2. Periods' = Periods /\ Dates' = Dates
    BY DEF Periods, Dates
  <2>3. [E \in Periods |-> HeldNow[E] + Change(c, E)]'
          = [E \in Periods |-> HeldNow[E] + Change(c, E)]
    BY <1>1, <2>2
  <2>. QED
    BY <1>2, <2>1, <2>2, <2>3 DEF LastSave, Balances
<1>4. \A s, t \in saves'[r] : s = t
  BY <1>1
<1>. QED
  BY <1>3, <1>4 DEF Books, TwoSaves

\* A change of status changes nothing that is held.
LEMMA BooksStatus ==
  ASSUME Types, NEW r \in Calls, Balances(HeldNow, granted, spent), ChangeStatus(r)
  PROVE  Books(r)'
<1>1. ~Grants(r) /\ call[r].op # "spend"
  BY StatusSaved
<1>2. PICK acc, new :
              /\ acc \in Found(call[r].client)
              /\ SaveAll(r, {new})
              /\ IsCopyOf(acc, acc.id) /\ IsCopyOf(new, acc.id)
              /\ new.miles = acc.miles /\ new.added = acc.added
  BY StatusSaved
<1>3. /\ acc.miles = [i \in RowsOf(acc.id) |-> miles[i]] /\ acc.added = <<>>
      /\ IsCopyOf(acc, acc.id)
  BY <1>2, FoundIsWhole
<1>4. new.id = acc.id
  BY <1>2 DEF IsCopyOf
<1>5. ASSUME NEW E PROVE Change(new, E) = 0
  <2>1. /\ CopyHeld(acc, E) = HeldBy(RowsOf(acc.id), E)
        /\ HeldBy(RowsOf(acc.id), E) \in Nat
    BY <1>3, WholeChangesNothing
  <2>2. CopyHeld(new, E) = CopyHeld(acc, E)
    BY <1>2 DEF CopyHeld
  <2>. QED
    BY <1>4, <2>1, <2>2 DEF Change
<1>6. \A E \in Periods : HeldNow[E] \in Int
  <2>1. Owned \in SUBSET DOMAIN miles /\ TypeOK
    BY DEF Owned, Types
  <2>. QED
    BY <2>1, HeldByType DEF HeldNow
<1>7. [E \in Periods |-> HeldNow[E] + Change(new, E)] = HeldNow
  <2>1. \A E \in Periods : HeldNow[E] + Change(new, E) = HeldNow[E]
    BY <1>5, <1>6
  <2>2. HeldNow = [E \in Periods |-> HeldNow[E]]
    BY DEF HeldNow
  <2>. QED
    BY <2>1, <2>2
<1>8. GrantedAfter(r, new) = granted /\ SpentAfter(r) = spent
  BY <1>1 DEF GrantedAfter, SpentAfter
<1>. QED
  BY <1>2, <1>7, <1>8, BooksOfOne

\* Types of what all accounts hold.
LEMMA HeldNowType ==
  ASSUME Types
  PROVE  /\ \A E \in Periods : HeldNow[E] \in Nat
         /\ Dates \in Periods /\ \A e \in Dates : {e} \in Periods
<1>1. Owned \in SUBSET DOMAIN miles /\ TypeOK
  BY DEF Owned, Types
<1>. QED
  BY <1>1, HeldByType DEF HeldNow, Periods

\* An entry adds its amount to its date, as the grant does to the history.
LEMMA BooksEarning ==
  ASSUME Types, NEW r \in Calls, Balances(HeldNow, granted, spent),
         Earning(r), ~Refuse(r)
  PROVE  Books(r)'
<1>1. Grants(r)
  BY EarningSaved
<1>2. PICK acc, expires, at, new :
        /\ acc \in Found(call[r].client) /\ expires \in Dates
        /\ at \in 0 .. MaxTime
        /\ SaveAll(r, {new})
        /\ new = WithMiles(acc, call[r].amount, expires, at)
        /\ call[r].amount \in Nat
        /\ IsCopyOf(acc, acc.id) /\ IsCopyOf(new, acc.id)
        /\ new.miles = acc.miles
        /\ new.added = <<Entry(call[r].amount, expires, at)>>
  BY EarningSaved
<1>. PICK n \in Nat : n = call[r].amount
  BY <1>2
<1>3. /\ acc.miles = [i \in RowsOf(acc.id) |-> miles[i]] /\ acc.added = <<>>
      /\ IsCopyOf(acc, acc.id) /\ IsCopy(acc)
  BY <1>2, FoundIsWhole DEF IsCopyOf
<1>4. new.id = acc.id /\ new.added[1].expires = expires
  BY <1>2 DEF IsCopyOf, Entry
<1>5. ASSUME NEW E
      PROVE  Change(new, E) = IF expires \in E THEN n ELSE 0
  <2>1. /\ CopyHeld(acc, E) = HeldBy(RowsOf(acc.id), E)
        /\ HeldBy(RowsOf(acc.id), E) \in Nat
    BY <1>3, WholeChangesNothing
  <2>2. CopyHeld(new, E) = CopyHeld(acc, E) + Counted(Entry(n, expires, at), E)
    <3>1. new = WithMiles(acc, n, expires, at)
      BY <1>2
    <3>. QED
      BY <1>2, <1>3, <3>1, WithMilesFacts
  <2>3. Counted(Entry(n, expires, at), E) = IF expires \in E THEN n ELSE 0
    BY DEF Counted, Entry
  <2>. QED
    BY <1>4, <2>1, <2>2, <2>3 DEF Change
<1>6. /\ \A E \in Periods : HeldNow[E] \in Nat
      /\ Dates \in Periods /\ \A e \in Dates : {e} \in Periods
  BY HeldNowType
<1>7. GrantedAfter(r, new) = [granted EXCEPT ![expires] = @ + n] /\ SpentAfter(r) = spent
  <2>1. call[r].op # "spend"
    BY <1>1 DEF Grants
  <2>. QED
    BY <1>1, <1>4, <2>1 DEF GrantedAfter, SpentAfter
<1>8. granted \in [Dates -> Nat] /\ spent \in Nat
  BY DEF Types, TypeOK
<1>9. /\ SumFunction(granted) \in Nat
      /\ SumFunction([granted EXCEPT ![expires] = @ + n]) = SumFunction(granted) + n
  BY <1>2, <1>8, GrantAdds
<1>. DEFINE after == [E \in Periods |-> HeldNow[E] + Change(new, E)]
            given == [granted EXCEPT ![expires] = @ + n]
<1>10. after[Dates] + spent = SumFunction(given)
  <2>1. after[Dates] = HeldNow[Dates] + n
    BY <1>2, <1>5, <1>6
  <2>2. HeldNow[Dates] + spent = SumFunction(granted)
    BY DEF Balances
  <2>. HIDE DEF after, given
  <2>3. HeldNow[Dates] \in Nat
    BY <1>6
  <2>. QED
    BY <1>8, <1>9, <2>1, <2>2, <2>3 DEF given
<1>11. ASSUME NEW e \in Dates PROVE after[{e}] <= given[e]
  <2>1. after[{e}] = HeldNow[{e}] + IF e = expires THEN n ELSE 0
    BY <1>2, <1>5, <1>6
  <2>2. given[e] = granted[e] + IF e = expires THEN n ELSE 0
    BY <1>2, <1>8
  <2>3. HeldNow[{e}] <= granted[e]
    BY DEF Balances
  <2>4. HeldNow[{e}] \in Nat /\ granted[e] \in Nat
    BY <1>6, <1>8
  <2>. HIDE DEF after, given
  <2>. QED
    BY <2>1, <2>2, <2>3, <2>4
<1>12. Balances(after, given, spent)
  BY <1>10, <1>11 DEF Balances
<1>. QED
  BY <1>2, <1>7, <1>12, BooksOfOne

\* A removal takes its amount from the whole and adds to no date.
LEMMA BooksRemoval ==
  ASSUME Types, NEW r \in Calls, Balances(HeldNow, granted, spent),
         RemoveMiles(r), ~Refuse(r)
  PROVE  Books(r)'
<1>1. call[r].op = "spend"
  BY RemovalSaved
<1>2. PICK acc, new :
           /\ acc \in Found(call[r].client)
           /\ \E list \in SortedLists(acc, call[r].strategy) :
                 /\ SaveAll(r, {new})
                 /\ new = WithoutMiles(acc, call[r].amount, list, now)
                 /\ call[r].amount \in Nat
                 /\ CanTake(acc, call[r].amount, now)
                 /\ IsCopyOf(acc, acc.id) /\ IsCopyOf(new, acc.id)
                 /\ new.row = acc.row /\ new.added = acc.added
                 /\ DOMAIN new.miles = DOMAIN acc.miles
  BY RemovalSaved
<1>3. PICK list \in SortedLists(acc, call[r].strategy) :
        new = WithoutMiles(acc, call[r].amount, list, now)
  BY <1>2
<1>. PICK n \in Nat : n = call[r].amount
  BY <1>2
<1>4. /\ acc.miles = [i \in RowsOf(acc.id) |-> miles[i]] /\ acc.added = <<>>
      /\ IsCopyOf(acc, acc.id) /\ IsCopy(acc) /\ IsCopy(new)
  BY <1>2, FoundIsWhole DEF IsCopyOf
<1>5. new.id = acc.id /\ new.added = <<>>
  BY <1>2, <1>4 DEF IsCopyOf
<1>6. /\ list \in SetToSeqs(DOMAIN acc.miles)
      /\ Balance(acc, now) >= n
  BY <1>2 DEF SortedLists, CanTake
<1>7. /\ \A i \in DOMAIN acc.miles :
           /\ new.miles[i].expires = acc.miles[i].expires
           /\ new.miles[i].amount <= acc.miles[i].amount
      /\ SumFunctionOnSet(AmountOf(new.miles), DOMAIN acc.miles)
           = SumFunctionOnSet(AmountOf(acc.miles), DOMAIN acc.miles) - n
  <2>1. new = WithoutMiles(acc, n, list, now)
    BY <1>3
  <2>. QED
    BY <1>4, <1>6, <2>1, WithoutFacts
<1>8. IsRows(acc.miles) /\ IsRows(new.miles) /\ DOMAIN new.miles = DOMAIN acc.miles
  BY <1>2, <1>4, CopyFacts
<1>9. ASSUME NEW E
      PROVE  /\ Change(new, E) = Held(new.miles, E) - Held(acc.miles, E)
             /\ Held(new.miles, E) \in Nat /\ Held(acc.miles, E) \in Nat
  <2>1. CopyHeld(acc, E) = HeldBy(RowsOf(acc.id), E)
    BY <1>4, WholeChangesNothing
  <2>2. Held(<<>>, E) = 0
    BY NothingAdded
  <2>3. Held(new.miles, E) \in Nat /\ Held(acc.miles, E) \in Nat
    BY <1>4, CopyFacts
  <2>. QED
    BY <1>4, <1>5, <2>1, <2>2, <2>3 DEF Change, CopyHeld
<1>10. Change(new, Dates) = -n
  <2>1. /\ Held(new.miles, Dates) = SumFunctionOnSet(AmountOf(new.miles), DOMAIN acc.miles)
        /\ Held(acc.miles, Dates) = SumFunctionOnSet(AmountOf(acc.miles), DOMAIN acc.miles)
    BY <1>8, HeldInAll
  <2>2. Held(new.miles, Dates) = Held(acc.miles, Dates) - n
    BY <1>7, <2>1
  <2>. QED
    BY <1>9, <2>2
<1>11. \A E : Change(new, E) \in Int /\ Change(new, E) <= 0
  <2>1. ASSUME NEW E PROVE Held(new.miles, E) <= Held(acc.miles, E)
    BY <1>7, <1>8, HeldLessens
  <2>2. ASSUME NEW E PROVE Change(new, E) \in Int /\ Change(new, E) <= 0
    BY <1>9, <2>1
  <2>. QED
    BY <2>2
<1>12. /\ \A E \in Periods : HeldNow[E] \in Nat
       /\ Dates \in Periods /\ \A e \in Dates : {e} \in Periods
  BY HeldNowType
<1>13. GrantedAfter(r, new) = granted /\ SpentAfter(r) = spent + n
  BY <1>1 DEF GrantedAfter, SpentAfter, Grants
<1>14. granted \in [Dates -> Nat] /\ spent \in Nat
  BY DEF Types, TypeOK
<1>. DEFINE after == [E \in Periods |-> HeldNow[E] + Change(new, E)]
<1>15. after[Dates] + (spent + n) = SumFunction(granted)
  <2>1. after[Dates] = HeldNow[Dates] + -n
    BY <1>10, <1>12
  <2>2. HeldNow[Dates] + spent = SumFunction(granted)
    BY DEF Balances
  <2>3. HeldNow[Dates] \in Nat
    BY <1>12
  <2>. HIDE DEF after
  <2>. QED
    BY <1>14, <2>1, <2>2, <2>3
<1>16. ASSUME NEW e \in Dates PROVE after[{e}] <= granted[e]
  <2>1. after[{e}] = HeldNow[{e}] + Change(new, {e})
    BY <1>12
  <2>2. HeldNow[{e}] <= granted[e]
    BY DEF Balances
  <2>3. HeldNow[{e}] \in Nat /\ granted[e] \in Nat
    BY <1>12, <1>14
  <2>. HIDE DEF after
  <2>. QED
    BY <1>11, <2>1, <2>2, <2>3
<1>17. Balances(after, granted, spent + n)
  BY <1>15, <1>16 DEF Balances
<1>. QED
  BY <1>2, <1>13, <1>17, BooksOfOne

\* What a transfer takes from one account on a date it gives to the other.
LEMMA BooksTransfer ==
  ASSUME ~SelfTransfer, Types, NEW r \in Calls, SenderIsCurrent(r),
         Balances(HeldNow, granted, spent), TransferMiles(r)
  PROVE  Books(r)'
<1>1. call[r].op = "transfer" /\ pc[r] = "loadTo" /\ IsCall(call[r])
  BY TransferSaved DEF TransferMiles, Types
<1>2. PICK to, newFrom, newTo :
              /\ to \in Found(call[r].to)
              /\ SaveAll(r, {newFrom, newTo})
              /\ IsCopyOf(newFrom, loaded[r][1].id) /\ IsCopyOf(newTo, to.id)
              /\ TransferKeeps(loaded[r][1], to, newFrom, newTo)
  BY TransferSaved
<1>3. PICK from \in Found(call[r].client) : from = loaded[r][1]
  BY <1>1 DEF SenderIsCurrent
<1>4. call[r].client # call[r].to
  BY <1>1 DEF IsCall
<1>5. /\ from.miles = [i \in RowsOf(from.id) |-> miles[i]] /\ from.added = <<>>
      /\ IsCopyOf(from, from.id) /\ accounts[from.id].client = call[r].client
  BY FoundIsWhole
<1>6. /\ to.miles = [i \in RowsOf(to.id) |-> miles[i]] /\ to.added = <<>>
      /\ IsCopyOf(to, to.id) /\ accounts[to.id].client = call[r].to
  BY <1>2, FoundIsWhole
<1>7. /\ newFrom.id = from.id /\ newTo.id = to.id /\ newFrom.id # newTo.id
      /\ IsCopy(newFrom) /\ IsCopy(newTo)
  <2>1. from.id # to.id
    BY <1>4, <1>5, <1>6
  <2>. QED
    BY <1>2, <1>3, <2>1 DEF TransferKeeps, IsCopyOf
<1>8. ASSUME NEW E PROVE Change(newFrom, E) + Change(newTo, E) = 0
  <2>1. /\ CopyHeld(from, E) = HeldBy(RowsOf(from.id), E)
        /\ HeldBy(RowsOf(from.id), E) \in Nat
    BY <1>5, WholeChangesNothing
  <2>2. /\ CopyHeld(to, E) = HeldBy(RowsOf(to.id), E)
        /\ HeldBy(RowsOf(to.id), E) \in Nat
    BY <1>6, WholeChangesNothing
  <2>3. CopyHeld(newFrom, E) \in Nat /\ CopyHeld(newTo, E) \in Nat
    BY <1>7, CopyFacts
  <2>4. CopyHeld(newFrom, E) + CopyHeld(newTo, E) = CopyHeld(from, E) + CopyHeld(to, E)
    BY <1>2, <1>3 DEF TransferKeeps
  <2>. QED
    BY <1>7, <2>1, <2>2, <2>3, <2>4 DEF Change
<1>9. ASSUME NEW E PROVE Change(newTo, E) + Change(newFrom, E) = 0
  <2>1. /\ HeldBy(RowsOf(from.id), E) \in Nat /\ HeldBy(RowsOf(to.id), E) \in Nat
    BY <1>5, <1>6, WholeChangesNothing
  <2>2. CopyHeld(newFrom, E) \in Nat /\ CopyHeld(newTo, E) \in Nat
    BY <1>7, CopyFacts
  <2>3. Change(newFrom, E) \in Int /\ Change(newTo, E) \in Int
    BY <1>7, <2>1, <2>2 DEF Change
  <2>4. Change(newFrom, E) + Change(newTo, E) = 0
    BY <1>8
  <2>. QED
    BY <2>3, <2>4
<1>10. /\ UNCHANGED <<accounts, miles, owner, call, granted, spent>>
       /\ saves'[r] = {[copy |-> d, seen |-> FALSE] : d \in {newFrom, newTo}}
       /\ \A s \in saves'[r] : s.copy \in {newFrom, newTo}
       /\ HeldNow' = HeldNow
       /\ \A d, E : Change(d, E)' = Change(d, E)
  BY <1>2, SavesOfSaveAll
<1>. DEFINE a == [copy |-> newFrom, seen |-> FALSE]
            b == [copy |-> newTo, seen |-> FALSE]
<1>11. saves'[r] = {a, b} /\ a.copy = newFrom /\ b.copy = newTo /\ a # b
  <2>1. a.copy = newFrom /\ b.copy = newTo
    OBVIOUS
  <2>2. a # b
    <3>. HIDE DEF a, b
    <3>. QED
      BY <1>7, <2>1
  <2>3. saves'[r] = {a, b}
    BY <1>10
  <2>. QED
    BY <2>1, <2>2, <2>3
<1>. HIDE DEF a, b
<1>12. Periods' = Periods /\ Dates' = Dates
  BY DEF Periods, Dates
<1>13. ASSUME NEW s \in saves'[r], NEW t \in saves'[r], s # t
       PROVE  [E \in Periods |-> HeldNow[E] + (Change(s.copy, E) + Change(t.copy, E))]'
                = HeldNow
  <2>1. \A E : Change(s.copy, E) + Change(t.copy, E) = 0
    BY <1>8, <1>9, <1>11, <1>13
  <2>2. [E \in Periods |-> HeldNow[E] + (Change(s.copy, E) + Change(t.copy, E))]'
          = [E \in Periods |-> HeldNow[E] + 0]
    BY <1>10, <1>12, <2>1
  <2>3. \A E \in Periods : HeldNow[E] + 0 = HeldNow[E]
    BY HeldNowType
  <2>4. HeldNow = [E \in Periods |-> HeldNow[E]]
    BY DEF HeldNow
  <2>. QED
    BY <2>2, <2>3, <2>4
<1>14. ASSUME NEW s \in saves'[r], NEW t \in saves'[r] PROVE TwoSaves(r, s, t)'
  <2>. SUFFICES ASSUME s # t PROVE TwoSaves(r, s, t)'
    BY DEF TwoSaves
  <2>1. saves'[r] = {s, t} /\ call'[r].op = "transfer"
    BY <1>1, <1>10, <1>11
  <2>2. [E \in Periods |-> HeldNow[E] + (Change(s.copy, E) + Change(t.copy, E))]' = HeldNow
    BY <1>13
  <2>3. Balances([E \in Periods |-> HeldNow[E] + (Change(s.copy, E) + Change(t.copy, E))]',
                 granted', spent')
    BY <1>10, <2>2
  <2>. QED
    BY <1>12, <2>1, <2>3 DEF TwoSaves, Balances
<1>15. ASSUME NEW s \in saves'[r] PROVE LastSave(r, s)'
  <2>1. saves'[r] # {s}
    BY <1>11
  <2>. QED
    BY <2>1 DEF LastSave
<1>. QED
  BY <1>14, <1>15 DEF Books

\* The SELECTs of a save change nothing.
LEMMA BooksCompare ==
  ASSUME Types, NEW r \in Calls, Books(r), Copies(r), Compare(r)
  PROVE  Books(r)'
<1>1. UNCHANGED <<accounts, miles, owner, call, granted, spent>>
  BY DEF Compare, tables, history
<1>2. PICK s, t :
           /\ s \in saves[r]
           /\ saves'[r] = (saves[r] \ {s}) \union {t}
           /\ t.copy = s.copy /\ t.seen = TRUE
           /\ t.row = accounts[s.copy.id]
           /\ t.miles = [i \in DOMAIN s.copy.miles |-> miles[i]]
           /\ t.mine = {i \in DOMAIN miles : owner[i] = s.copy.id}
  BY Compared
<1>. DEFINE old(u) == IF u = t THEN s ELSE u
<1>3. ASSUME NEW u \in saves'[r] PROVE old(u) \in saves[r] /\ old(u).copy = u.copy
  BY <1>2
<1>4. ASSUME NEW u \in saves'[r], NEW v \in saves'[r], old(u) = old(v) PROVE u = v
  BY <1>2, <1>4
<1>5. ASSUME NEW u \in saves'[r], saves'[r] = {u} PROVE saves[r] = {old(u)}
  <2>1. t \in saves[r] => t = s
    BY <1>2 DEF Copies
  <2>. QED
    BY <1>2, <1>5, <2>1
<1>6. ASSUME NEW u \in saves'[r], NEW v \in saves'[r], saves[r] = {old(u), old(v)}
      PROVE  saves'[r] = {u, v}
  <2>1. ASSUME NEW w \in saves'[r] PROVE w \in {u, v}
    <3>1. old(w) \in {old(u), old(v)}
      BY <1>3, <1>6
    <3>. HIDE DEF old
    <3>. QED
      BY <1>4, <3>1
  <2>. QED
    BY <2>1
<1>. HIDE DEF old
<1>7. /\ Periods' = Periods /\ Dates' = Dates /\ HeldNow' = HeldNow
      /\ \A c, E : Change(c, E)' = Change(c, E)
      /\ \A c : GrantedAfter(r, c)' = GrantedAfter(r, c)
      /\ SpentAfter(r)' = SpentAfter(r)
  BY <1>1 DEF Periods, Dates, HeldNow, HeldBy, Owned, Change, RowsOf, GrantedAfter,
     SpentAfter, Grants
<1>8. ASSUME NEW u \in saves'[r] PROVE LastSave(r, u)'
  <2>. SUFFICES ASSUME saves'[r] = {u} PROVE LastSave(r, u)'
    BY DEF LastSave
  <2>1. LastSave(r, old(u)) /\ saves[r] = {old(u)} /\ old(u).copy = u.copy
    BY <1>3, <1>5 DEF Books
  <2>2. Balances([E \in Periods |-> HeldNow[E] + Change(u.copy, E)],
                 GrantedAfter(r, u.copy), SpentAfter(r))
    BY <2>1 DEF LastSave
  <2>3. [E \in Periods |-> HeldNow[E] + Change(u.copy, E)]'
          = [E \in Periods |-> HeldNow[E] + Change(u.copy, E)]
    BY <1>7
  <2>. QED
    BY <1>7, <2>2, <2>3 DEF LastSave, Balances
<1>9. ASSUME NEW u \in saves'[r], NEW v \in saves'[r] PROVE TwoSaves(r, u, v)'
  <2>. SUFFICES ASSUME u # v PROVE TwoSaves(r, u, v)'
    BY DEF TwoSaves
  <2>1. /\ TwoSaves(r, old(u), old(v)) /\ old(u) # old(v)
        /\ old(u).copy = u.copy /\ old(v).copy = v.copy
    BY <1>3, <1>4 DEF Books
  <2>2. /\ saves[r] = {old(u), old(v)} /\ call[r].op = "transfer"
        /\ Balances([E \in Periods |-> HeldNow[E] + (Change(u.copy, E) + Change(v.copy, E))],
                    granted, spent)
    BY <2>1 DEF TwoSaves
  <2>3. [E \in Periods |-> HeldNow[E] + (Change(u.copy, E) + Change(v.copy, E))]'
          = [E \in Periods |-> HeldNow[E] + (Change(u.copy, E) + Change(v.copy, E))]
    BY <1>7
  <2>4. saves'[r] = {u, v}
    BY <1>6, <2>2
  <2>. QED
    BY <1>1, <1>7, <2>2, <2>3, <2>4 DEF TwoSaves, Balances
<1>. QED
  BY <1>8, <1>9 DEF Books

\* A save that is not the last of its call leaves one to do; the last settles.
LEMMA BooksUpdate ==
  ASSUME Types, NEW r \in Calls, Books(r), Copies(r), Update(r)
  PROVE  /\ Books(r)'
         /\ pc'[r] # "saving" => Balances(HeldNow, granted, spent)'
<1>1. /\ DOMAIN saves = Calls /\ pc[r] = "saving"
      /\ pc \in [Calls -> {"idle", "load", "loadTo", "saving", "answered"}]
      /\ \A s \in saves[r] : IsSave(s)
  BY DEF Types, TypeOK, Saving, Update
<1>2. PICK s \in saves[r] :
        /\ s.seen = TRUE /\ Writes(s) /\ Record(r, s)
        /\ IF saves[r] = {s}
           THEN Finish(r)
           ELSE /\ saves' = [saves EXCEPT ![r] = @ \ {s}]
                /\ UNCHANGED <<pc, call, loaded>>
  BY DEF Update, Writes
<1>3. /\ IsSave(s) /\ SeesTheTables(s)
      /\ DOMAIN s.copy.miles \subseteq RowsOf(s.copy.id)
  BY <1>1 DEF Copies, IsCurrent
<1>4. granted' = GrantedAfter(r, s.copy) /\ spent' = SpentAfter(r)
  BY <1>2 DEF Record, GrantedAfter, SpentAfter, Grants
<1>5. Periods' = Periods /\ Dates' = Dates
  BY DEF Periods, Dates
<1>6. \A E : HeldBy(Owned, E)' = HeldBy(Owned, E) + Change(s.copy, E)
  BY <1>2, <1>3, HeldAfterSave
<1>7. HeldNow' = [E \in Periods |-> HeldNow[E] + Change(s.copy, E)]
  BY <1>5, <1>6 DEF HeldNow
<1>8. CASE saves[r] = {s}
  <2>1. saves'[r] = {}
    BY <1>1, <1>2, <1>8 DEF Finish
  <2>2. Balances(HeldNow', granted', spent')
    BY <1>4, <1>7, <1>8 DEF Books, LastSave
  <2>. QED
    BY <1>5, <2>1, <2>2 DEF Books, Balances
<1>9. CASE saves[r] # {s}
  <2>1. saves'[r] = saves[r] \ {s} /\ pc' = pc /\ call' = call
    BY <1>1, <1>2, <1>9
  <2>2. ASSUME NEW t \in saves'[r] PROVE LastSave(r, t)'
    <3>1. t \in saves[r] /\ t # s /\ TwoSaves(r, s, t)
      BY <2>1 DEF Books
    <3>2. /\ saves[r] = {s, t} /\ call[r].op = "transfer"
          /\ Balances([E \in Periods |-> HeldNow[E] + (Change(s.copy, E) + Change(t.copy, E))],
                      granted, spent)
      BY <3>1 DEF TwoSaves
    <3>3. granted' = granted /\ spent' = spent
      BY <1>4, <3>2 DEF GrantedAfter, SpentAfter, Grants
    <3>4. GrantedAfter(r, t.copy)' = granted /\ SpentAfter(r)' = spent
      BY <2>1, <3>2, <3>3 DEF GrantedAfter, SpentAfter, Grants
    <3>5. \A E : Change(t.copy, E)' = Change(t.copy, E)
      <4>1. t.copy.id # s.copy.id
        BY <3>1 DEF Copies
      <4>2. PICK a \in DOMAIN accounts : a = t.copy.id
        BY <1>1, <3>1 DEF IsSave, IsCopyOf
      <4>3. RowsOf(a)' = RowsOf(a) /\ \A i \in RowsOf(a) : miles'[i] = miles[i]
        BY <1>2, <1>3, <4>1, <4>2, OtherRows
      <4>4. Only(miles, RowsOf(a))' = Only(miles, RowsOf(a))
        BY <4>3 DEF Only
      <4>. QED
        BY <4>2, <4>4 DEF Change, HeldBy
    <3>6. \A E \in Periods : (HeldNow[E] + Change(s.copy, E)) + Change(t.copy, E)
                             = HeldNow[E] + (Change(s.copy, E) + Change(t.copy, E))
      <4>1. ASSUME NEW u \in saves[r], NEW E PROVE Change(u.copy, E) \in Int
        <5>1. IsCopy(u.copy) /\ RowsOf(u.copy.id) \in SUBSET DOMAIN miles
          BY <1>1 DEF IsSave, IsCopyOf, RowsOf
        <5>2. CopyHeld(u.copy, E) \in Nat
          BY <5>1, CopyFacts
        <5>3. HeldBy(RowsOf(u.copy.id), E) \in Nat
          BY <5>1, HeldByType DEF Types
        <5>. QED
          BY <5>2, <5>3 DEF Change
      <4>2. ASSUME NEW E \in Periods
            PROVE  (HeldNow[E] + Change(s.copy, E)) + Change(t.copy, E)
                     = HeldNow[E] + (Change(s.copy, E) + Change(t.copy, E))
        <5>1. HeldNow[E] \in Nat
          BY HeldNowType
        <5>2. Change(s.copy, E) \in Int /\ Change(t.copy, E) \in Int
          BY <3>1, <4>1
        <5>. QED
          BY <5>1, <5>2
      <4>. QED
        BY <4>2
    <3>7. [E \in Periods |-> HeldNow[E] + Change(t.copy, E)]'
            = [E \in Periods |-> HeldNow[E] + (Change(s.copy, E) + Change(t.copy, E))]
      <4>1. [E \in Periods |-> HeldNow[E] + Change(t.copy, E)]'
              = [E \in Periods |-> HeldNow'[E] + Change(t.copy, E)]
        BY <1>5, <3>5
      <4>2. \A E \in Periods : HeldNow'[E] = HeldNow[E] + Change(s.copy, E)
        BY <1>7
      <4>. QED
        BY <3>6, <4>1, <4>2
    <3>8. Balances([E \in Periods |-> HeldNow[E] + Change(t.copy, E)]',
                   GrantedAfter(r, t.copy)', SpentAfter(r)')
      BY <3>2, <3>4, <3>7
    <3>. QED
      BY <1>5, <3>8 DEF LastSave, Balances
  <2>3. ASSUME NEW t \in saves'[r], NEW u \in saves'[r] PROVE t = u
    <3>1. TwoSaves(r, s, t) /\ s # t /\ u # s /\ u \in saves[r]
      BY <2>1 DEF Books
    <3>. QED
      BY <3>1 DEF TwoSaves
  <2>4. Books(r)'
    BY <2>2, <2>3 DEF Books, TwoSaves
  <2>. QED
    BY <1>1, <2>1, <2>4
<1>. QED
  BY <1>8, <1>9

\* Nothing is being saved when a call starts, or is about to save.
LEMMA BalancedStep ==
  ASSUME ~Overlapping, ~SelfTransfer, Types, Serial, Balanced, NEW r \in Calls,
         Begin(r) \/ Step(r)
  PROVE  Balanced'
<1>1. /\ OneAtATime /\ SenderIsCurrent(r) /\ Copies(r) /\ Books(r)
      /\ \A q \in Calls : q # r => ~InProgress(q) /\ ~InProgress(q)' /\ saves'[q] = {}
  BY OneStep DEF Serial, Balanced
<1>2. /\ DOMAIN saves = Calls /\ \A q \in Calls : Saving(q)
      /\ pc \in [Calls -> {"idle", "load", "loadTo", "saving", "answered"}]
  BY DEF Types, TypeOK
<1>3. ASSUME NEW q \in Calls, q # r PROVE Books(q)'
  BY <1>1, <1>3 DEF Books
<1>4. \A q \in Calls : q # r => pc[q] # "saving" /\ pc'[q] # "saving"
  BY <1>1 DEF InProgress
<1>5. pc[r] # "saving" => Balances(HeldNow, granted, spent)
  BY <1>4 DEF Balanced, Ledger
<1>6. ASSUME Books(r)', pc'[r] # "saving" => Balances(HeldNow, granted, spent)'
      PROVE  Balanced'
  BY <1>3, <1>6 DEF Balanced, Ledger
<1>7. ASSUME UNCHANGED <<miles, owner, granted, spent>>, saves'[r] = {}, pc[r] # "saving"
      PROVE  Balanced'
  <2>1. HeldNow' = HeldNow
    BY <1>7 DEF HeldNow, Periods, Dates, HeldBy, Owned
  <2>2. Balances(HeldNow, granted, spent)'
    BY <1>5, <1>7, <2>1 DEF Balances, Dates
  <2>. QED
    BY <1>6, <1>7, <2>2 DEF Books
<1>8. CASE Begin(r)
  <2>1. /\ UNCHANGED <<miles, owner, saves, granted, spent>> /\ pc[r] = "idle"
    BY <1>8 DEF Begin, tables, history
  <2>. QED
    BY <1>2, <1>7, <2>1 DEF Saving
<1>9. CASE RegisterToProgram(r)
  <2>1. /\ UNCHANGED <<miles, owner, granted, spent>> /\ pc[r] = "load" /\ saves'[r] = {}
    BY <1>2, <1>9 DEF RegisterToProgram, Called, Finish, history
  <2>. QED
    BY <1>7, <2>1
<1>10. CASE Refuse(r) /\ pc[r] # "saving"
  <2>1. UNCHANGED <<miles, owner, granted, spent>> /\ saves'[r] = {}
    BY <1>2, <1>10 DEF Refuse, Finish, tables, history
  <2>. QED
    BY <1>7, <1>10, <2>1
<1>11. CASE LoadSender(r)
  <2>1. /\ UNCHANGED <<miles, owner, saves, granted, spent>> /\ pc[r] = "load"
    BY <1>11 DEF LoadSender, Called, tables, history
  <2>. QED
    BY <1>2, <1>7, <2>1 DEF Saving
<1>12. ASSUME Books(r)', pc[r] # "saving", \E copies : SaveAll(r, copies)
       PROVE  Balanced'
  <2>1. pc'[r] = "saving"
    BY <1>2, <1>12 DEF SaveAll
  <2>. QED
    BY <1>6, <1>12, <2>1
<1>13. CASE ChangeStatus(r)
  <2>1. pc[r] = "load" /\ \E copies : SaveAll(r, copies)
    BY <1>13 DEF ChangeStatus, Called
  <2>. QED
    BY <1>5, <1>12, <1>13, <2>1, BooksStatus
<1>14. CASE Earning(r) /\ ~Refuse(r)
  <2>1. pc[r] = "load" /\ \E copies : SaveAll(r, copies)
    BY <1>14 DEF Earning, RegisterMiles, RegisterNonExpiringMiles, Called
  <2>. QED
    BY <1>5, <1>12, <1>14, <2>1, BooksEarning
<1>15. CASE RemoveMiles(r) /\ ~Refuse(r)
  <2>1. pc[r] = "load" /\ \E copies : SaveAll(r, copies)
    BY <1>15 DEF RemoveMiles, Called
  <2>. QED
    BY <1>5, <1>12, <1>15, <2>1, BooksRemoval
<1>16. CASE TransferMiles(r)
  <2>1. pc[r] = "loadTo" /\ \E copies : SaveAll(r, copies)
    BY <1>16 DEF TransferMiles
  <2>. QED
    BY <1>1, <1>5, <1>12, <1>16, <2>1, BooksTransfer
<1>17. CASE Compare(r)
  <2>1. pc'[r] = "saving"
    BY <1>17 DEF Compare
  <2>. QED
    BY <1>1, <1>6, <1>17, <2>1, BooksCompare
<1>18. CASE Update(r)
  BY <1>1, <1>6, <1>18, BooksUpdate
<1>19. NoAccount(r) => Refuse(r) /\ pc[r] # "saving"
  BY DEF NoAccount
<1>20. Earning(r) \/ RemoveMiles(r) => pc[r] # "saving"
  BY DEF Earning, RegisterMiles, RegisterNonExpiringMiles, RemoveMiles, Called
<1>. QED
  BY <1>8, <1>9, <1>10, <1>11, <1>13, <1>14, <1>15, <1>16, <1>17, <1>18, <1>19, <1>20
     DEF Step, Earning

\* All steps keep the books.
LEMMA BalancedNext ==
  ASSUME ~Overlapping, ~SelfTransfer
  PROVE  Types /\ Serial /\ Balanced /\ [Next]_vars => Balanced'
<1>. SUFFICES ASSUME Types, Serial, Balanced, [Next]_vars PROVE Balanced'
  OBVIOUS
<1>1. CASE \E r \in Calls : Begin(r) \/ Step(r)
  BY <1>1, BalancedStep
<1>2. CASE Tick \/ UNCHANGED vars
  <2>1. UNCHANGED <<miles, owner, pc, call, saves, granted, spent>>
    BY <1>2 DEF Tick, vars, tables, locals, history
  <2>2. /\ Periods' = Periods /\ Dates' = Dates /\ HeldNow' = HeldNow
        /\ \A c, E : Change(c, E)' = Change(c, E)
        /\ \A r, c : GrantedAfter(r, c)' = GrantedAfter(r, c)
        /\ \A r : SpentAfter(r)' = SpentAfter(r)
    BY <2>1 DEF Periods, Dates, HeldNow, HeldBy, Owned, Change, RowsOf, GrantedAfter,
       SpentAfter, Grants
  <2>3. Ledger'
    BY <2>1, <2>2 DEF Balanced, Ledger, Balances
  <2>4. ASSUME NEW r \in Calls, NEW s \in saves[r] PROVE LastSave(r, s)'
    <3>1. LastSave(r, s)
      BY DEF Balanced, Books
    <3>2. [E \in Periods |-> HeldNow[E] + Change(s.copy, E)]'
            = [E \in Periods |-> HeldNow[E] + Change(s.copy, E)]
      BY <2>2
    <3>. QED
      BY <2>1, <2>2, <3>1, <3>2 DEF LastSave, Balances
  <2>5. ASSUME NEW r \in Calls, NEW s \in saves[r], NEW t \in saves[r]
        PROVE  TwoSaves(r, s, t)'
    <3>1. TwoSaves(r, s, t)
      BY DEF Balanced, Books
    <3>2. [E \in Periods |-> HeldNow[E] + (Change(s.copy, E) + Change(t.copy, E))]'
            = [E \in Periods |-> HeldNow[E] + (Change(s.copy, E) + Change(t.copy, E))]
      BY <2>2
    <3>. QED
      BY <2>1, <2>2, <3>1, <3>2 DEF TwoSaves, Balances
  <2>. QED
    BY <2>1, <2>3, <2>4, <2>5 DEF Balanced, Books
<1>. QED
  BY <1>1, <1>2 DEF Next, AllAnswered

\* Calls one at a time neither make nor lose miles: between them the accounts
\* hold what was granted less what was spent, and on no date of expiration more
\* than was granted for it (moveMilesTo, transferTo and the saves).
THEOREM MilesStayConserved ==
  ASSUME ~Overlapping, ~SelfTransfer
  PROVE  Spec => []MilesAreConserved
<1>1. Init => Types /\ Serial /\ Balanced
  BY TypesInit, SerialInit, BalancedInit
<1>2. Types /\ Serial /\ Balanced /\ [Next]_vars => (Types /\ Serial /\ Balanced)'
  BY TypesNext, SerialNext, BalancedNext
<1>3. Types /\ Serial /\ Balanced => MilesAreConserved
  BY BooksConserve
<1>. QED
  BY <1>1, <1>2, <1>3, PTL DEF Spec
=============================================================================
