----------------------- MODULE DriverTracking_proofs -----------------------
(***************************************************************************)
(* What holds of drivers and of the distances they travel, for any number  *)
(* of calls, drivers, positions and windows.                               *)
(*                                                                         *)
(* Licences, however calls overlap: the licence of a driver never changes. *)
(* Only that of an active driver may be changed, to a valid one, and an    *)
(* active driver has one already.  So the licence of a copy is that of the *)
(* row, however old the copy is, and neither an update of all columns nor  *)
(* a save of some can part the status from it (CallOK).                    *)
(*                                                                         *)
(* Types, however calls overlap: a call that is about to save a slot holds *)
(* one that exists, and slots begin where windows do (TrackTypes).         *)
(*                                                                         *)
(* Distances, while positions come at once and one by one: between calls,  *)
(* the slots tell what the positions say (Tracks).  The slot of a driver's *)
(* last window moreover ends where the driver is, which is what the next   *)
(* position goes on from.  During the only call, the slots are those of    *)
(* the positions before its own, and the call holds what it still owes to  *)
(* them (Owes): the slot of the window extended by the last step, or that  *)
(* of the window before, or none yet.                                      *)
(***************************************************************************)
EXTENDS DriverTracking, SequenceTheorems, FiniteSetTheorems, TLAPS

-----------------------------------------------------------------------------
(* Induction over the subsets of a finite set                               *)

\* What holds of a subset when it holds of its strict subsets holds of all.
LEMMA SubsetInduction ==
  ASSUME NEW S, IsFiniteSet(S), NEW A,
         \A T \in SUBSET S : (\A U \in SUBSET T : U # T => U \in A) => T \in A
  PROVE  SUBSET S \subseteq A
<1>. DEFINE R == StrictSubsetOrdering(S)
            F == FiniteSubsetsOf(S)
            B == (SUBSET S) \ A
<1>. SUFFICES ASSUME B # {} PROVE FALSE
  OBVIOUS
<1>1. IsWellFoundedOn(R, F)
  BY FS_StrictSubsetOrderingWellFounded
<1>2. B \subseteq F
  BY FS_FiniteSubsetsOfFinite
<1>3. PICK T \in B : \A U \in B : ~(<<U, T>> \in R)
  <2>. HIDE DEF R, F, B
  <2>. QED
    BY <1>1, <1>2, WFMin
<1>4. ASSUME NEW U \in SUBSET T, U # T PROVE U \in A
  <2>1. U \in SUBSET S /\ T \in SUBSET S
    OBVIOUS
  <2>2. <<U, T>> \in R
    BY <1>4, <2>1 DEF StrictSubsetOrdering
  <2>. QED
    BY <1>3, <2>1, <2>2
<1>. QED
  BY <1>4

\* What holds of 0, and of the successor of what it holds of, holds up to n.
LEMMA StepInduction ==
  ASSUME NEW n \in Nat, NEW A, 0 \in A,
         \A m \in Nat : m < n /\ m \in A => m + 1 \in A
  PROVE  0 .. n \subseteq A
<1>. DEFINE S == 1 .. n
            B == {T \in SUBSET S : Cardinality(T) \in A}
<1>1. IsFiniteSet(S) /\ Cardinality(S) = n
  BY FS_Interval
<1>2. ASSUME NEW T \in SUBSET S, \A U \in SUBSET T : U # T => U \in B
      PROVE  T \in B
  <2>1. IsFiniteSet(T) /\ Cardinality(T) \in Nat /\ Cardinality(T) <= n
    <3>. HIDE DEF S
    <3>. QED
      BY <1>1, FS_Subset, FS_CardinalityType
  <2>2. CASE T = {}
    BY <2>2, FS_EmptySet
  <2>3. CASE T # {}
    <3>1. PICK x \in T : TRUE
      BY <2>3
    <3>2. /\ T \ {x} \in B
          /\ Cardinality(T \ {x}) = Cardinality(T) - 1
          /\ Cardinality(T \ {x}) \in Nat
      BY <1>2, <2>1, <3>1, FS_RemoveElement, FS_CardinalityType
    <3>3. Cardinality(T \ {x}) \in A /\ Cardinality(T \ {x}) < n
      BY <2>1, <3>2
    <3>4. Cardinality(T \ {x}) + 1 \in A
      BY <3>2, <3>3
    <3>. QED
      BY <2>1, <3>2, <3>4
  <2>. QED
    BY <2>2, <2>3
<1>3. SUBSET S \subseteq B
  <2>. HIDE DEF S, B
  <2>. QED
    BY <1>1, <1>2, SubsetInduction
<1>4. ASSUME NEW m \in 0 .. n PROVE m \in A
  <2>1. 1 .. m \in SUBSET S
    OBVIOUS
  <2>2. Cardinality(1 .. m) = m
    BY FS_Interval
  <2>. QED
    BY <1>3, <2>1, <2>2
<1>. QED
  BY <1>4

-----------------------------------------------------------------------------
(* Sums over finite sets                                                    *)

\* The recursion behind SumFunctionOnSet: h sums f over each subset of S.
Sums(f, S, h) ==
  h = [s \in SUBSET S |->
         IF s = {} THEN 0
         ELSE f[CHOOSE x \in s : TRUE] + h[s \ {CHOOSE x \in s : TRUE}]]

\* The fold is the last value of such a table, when there is one.
LEMMA SumIsSums ==
  ASSUME NEW f, NEW S, \E h : Sums(f, S, h)
  PROVE  \E h : Sums(f, S, h) /\ SumFunctionOnSet(f, S) = h[S]
<1>. DEFINE g == CHOOSE h : Sums(f, S, h)
<1>1. Sums(f, S, g)
  OBVIOUS
<1>2. SumFunctionOnSet(f, S) = g[S]
  BY DEF SumFunctionOnSet, FoldFunctionOnSet, MapThenFoldSet, Sums
<1>. QED
  BY <1>1, <1>2

\* There is one for every finite set.
LEMMA SumsExist ==
  ASSUME NEW f, NEW S, IsFiniteSet(S)
  PROVE  \E h : Sums(f, S, h)
<1>. DEFINE c(s) == CHOOSE x \in s : TRUE
            Next1(h, s) == IF s = {} THEN 0 ELSE f[c(s)] + h[s \ {c(s)}]
            Up(n, h) == \A s \in SUBSET S : Cardinality(s) <= n => h[s] = Next1(h, s)
            A == {n \in Nat : \E h : Up(n, h)}
<1>1. Cardinality(S) \in Nat
  BY FS_CardinalityType
<1>2. \A s \in SUBSET S : IsFiniteSet(s) /\ Cardinality(s) \in Nat
                            /\ Cardinality(s) <= Cardinality(S)
  BY FS_Subset, FS_CardinalityType
<1>3. \A s \in SUBSET S : s # {} => /\ c(s) \in s /\ s \ {c(s)} \in SUBSET S
                                    /\ Cardinality(s \ {c(s)}) = Cardinality(s) - 1
  BY <1>2, FS_RemoveElement
<1>4. 0 \in A
  <2>. DEFINE h == [s \in SUBSET S |-> 0]
  <2>1. ASSUME NEW s \in SUBSET S, Cardinality(s) <= 0 PROVE s = {}
    BY <1>2, <2>1, FS_EmptySet
  <2>2. Up(0, h)
    BY <2>1
  <2>. QED
    BY <2>2
<1>5. ASSUME NEW n \in Nat, n \in A PROVE n + 1 \in A
  <2>1. PICK h : Up(n, h)
    BY <1>5
  <2>. DEFINE g == [s \in SUBSET S |-> Next1(h, s)]
  <2>2. ASSUME NEW s \in SUBSET S, Cardinality(s) <= n + 1 PROVE g[s] = Next1(g, s)
    <3>1. CASE s = {}
      BY <3>1
    <3>2. CASE s # {}
      <4>. DEFINE t == s \ {c(s)}
      <4>1. t \in SUBSET S /\ Cardinality(t) <= n
        BY <1>2, <1>3, <2>2, <3>2
      <4>2. g[t] = h[t]
        BY <2>1, <4>1
      <4>. HIDE DEF t
      <4>3. g[s] = f[c(s)] + h[t]
        BY <3>2 DEF t
      <4>. QED
        BY <3>2, <4>2, <4>3 DEF t
    <3>. QED
      BY <3>1, <3>2
  <2>3. Up(n + 1, g)
    BY <2>2
  <2>. HIDE DEF g, Up
  <2>. QED
    BY <2>3
<1>6. Cardinality(S) \in A
  <2>. HIDE DEF A
  <2>1. 0 .. Cardinality(S) \subseteq A
    BY <1>1, <1>4, <1>5, StepInduction
  <2>. QED
    BY <1>1, <2>1
<1>7. PICK h : Up(Cardinality(S), h)
  BY <1>6
<1>. DEFINE g == [s \in SUBSET S |-> h[s]]
<1>8. \A s \in SUBSET S : h[s] = Next1(h, s)
  BY <1>2, <1>7
<1>9. \A s \in SUBSET S : g[s] = Next1(g, s)
  BY <1>3, <1>8
<1>10. g = [s \in SUBSET S |-> Next1(g, s)]
  BY <1>9
<1>. QED
  BY <1>10 DEF Sums

\* All its values are sums.
LEMMA SumsAgree ==
  ASSUME NEW f, NEW S, IsFiniteSet(S), NEW h, Sums(f, S, h), NEW T \in SUBSET S
  PROVE  SumFunctionOnSet(f, T) = h[T]
<1>. DEFINE c(s) == CHOOSE x \in s : TRUE
<1>1. IsFiniteSet(T)
  BY FS_Subset
<1>2. PICK g : Sums(f, T, g) /\ SumFunctionOnSet(f, T) = g[T]
  BY <1>1, SumsExist, SumIsSums
<1>. DEFINE A == {U \in SUBSET T : g[U] = h[U]}
<1>3. ASSUME NEW U \in SUBSET T, \A V \in SUBSET U : V # U => V \in A
      PROVE  U \in A
  <2>1. U \in SUBSET S
    OBVIOUS
  <2>2. CASE U = {}
    BY <1>2, <2>1, <2>2 DEF Sums
  <2>3. CASE U # {}
    <3>1. c(U) \in U /\ U \ {c(U)} \in SUBSET U /\ U \ {c(U)} # U
      BY <2>3
    <3>2. g[U \ {c(U)}] = h[U \ {c(U)}]
      BY <1>3, <3>1
    <3>3. g[U] = f[c(U)] + g[U \ {c(U)}]
      BY <1>2, <2>3 DEF Sums
    <3>4. h[U] = f[c(U)] + h[U \ {c(U)}]
      BY <2>1, <2>3 DEF Sums
    <3>. QED
      BY <3>2, <3>3, <3>4
  <2>. QED
    BY <2>2, <2>3
<1>4. SUBSET T \subseteq A
  <2>. HIDE DEF A
  <2>. QED
    BY <1>1, <1>3, SubsetInduction
<1>. QED
  BY <1>2, <1>4

\* A sum takes any element first.
LEMMA SumRecursion ==
  ASSUME NEW f, NEW T, IsFiniteSet(T)
  PROVE  /\ SumFunctionOnSet(f, {}) = 0
         /\ T # {} => \E x \in T :
              SumFunctionOnSet(f, T) = f[x] + SumFunctionOnSet(f, T \ {x})
<1>. DEFINE c(s) == CHOOSE x \in s : TRUE
<1>1. PICK h : Sums(f, T, h)
  BY SumsExist
<1>2. \A U \in SUBSET T : SumFunctionOnSet(f, U) = h[U]
  BY <1>1, SumsAgree
<1>3. h[{}] = 0
  BY <1>1 DEF Sums
<1>4. ASSUME T # {} PROVE c(T) \in T /\ h[T] = f[c(T)] + h[T \ {c(T)}]
  BY <1>1, <1>4 DEF Sums
<1>. QED
  BY <1>2, <1>3, <1>4

\* The sum of nothing.
LEMMA SumOfEmpty == ASSUME NEW f PROVE SumFunctionOnSet(f, {}) = 0
BY SumRecursion, FS_EmptySet

\* A sum of naturals is a natural, and a sum of integers an integer.
LEMMA SumType ==
  ASSUME NEW f, NEW T, IsFiniteSet(T), NEW N \in {Nat, Int}, \A x \in T : f[x] \in N
  PROVE  SumFunctionOnSet(f, T) \in N
<1>. DEFINE A == {U \in SUBSET T : SumFunctionOnSet(f, U) \in N}
<1>1. ASSUME NEW U \in SUBSET T, \A V \in SUBSET U : V # U => V \in A
      PROVE  U \in A
  <2>1. IsFiniteSet(U)
    BY FS_Subset
  <2>2. CASE U = {}
    BY <2>2, SumOfEmpty
  <2>3. CASE U # {}
    <3>1. PICK x \in U :
            SumFunctionOnSet(f, U) = f[x] + SumFunctionOnSet(f, U \ {x})
      BY <2>1, <2>3, SumRecursion
    <3>2. U \ {x} \in A
      BY <1>1
    <3>3. f[x] \in N /\ SumFunctionOnSet(f, U \ {x}) \in N
      BY <3>2
    <3>. QED
      BY <3>1, <3>3
  <2>. QED
    BY <2>2, <2>3
<1>2. SUBSET T \subseteq A
  <2>. HIDE DEF A
  <2>. QED
    BY <1>1, SubsetInduction
<1>. QED
  BY <1>2

\* Any term can be taken out of a sum first.
LEMMA SumRemove ==
  ASSUME NEW f, NEW T, IsFiniteSet(T), \A x \in T : f[x] \in Int, NEW y \in T
  PROVE  SumFunctionOnSet(f, T) = f[y] + SumFunctionOnSet(f, T \ {y})
<1>. DEFINE V(U) == SumFunctionOnSet(f, U)
            A == {U \in SUBSET T : \A x \in U : V(U) = f[x] + V(U \ {x})}
<1>1. \A U \in SUBSET T : IsFiniteSet(U) /\ V(U) \in Int
  BY SumType, FS_Subset
<1>2. ASSUME NEW U \in SUBSET T, \A W \in SUBSET U : W # U => W \in A
      PROVE  U \in A
  <2>. SUFFICES ASSUME NEW x \in U PROVE V(U) = f[x] + V(U \ {x})
    OBVIOUS
  <2>1. PICK z \in U : V(U) = f[z] + V(U \ {z})
    BY <1>1, SumRecursion
  <2>2. CASE z = x
    BY <2>1, <2>2
  <2>3. CASE z # x
    <3>. DEFINE W == U \ {x, z}
    <3>1. U \ {x} \in A /\ U \ {z} \in A
      BY <1>2
    <3>2. (U \ {z}) \ {x} = W /\ (U \ {x}) \ {z} = W
      OBVIOUS
    <3>3. V(U \ {z}) = f[x] + V(W) /\ V(U \ {x}) = f[z] + V(W)
      BY <2>3, <3>1, <3>2
    <3>4. f[x] \in Int /\ f[z] \in Int /\ V(W) \in Int
      BY <1>1
    <3>. QED
      BY <2>1, <3>3, <3>4
  <2>. QED
    BY <2>2, <2>3
<1>3. SUBSET T \subseteq A
  <2>. HIDE DEF A
  <2>. QED
    BY <1>2, SubsetInduction
<1>. QED
  BY <1>3

\* The same, with a term that joins.
LEMMA SumAdd ==
  ASSUME NEW f, NEW T, IsFiniteSet(T), \A x \in T : f[x] \in Int,
         NEW y, y \notin T, f[y] \in Int
  PROVE  SumFunctionOnSet(f, T \union {y}) = f[y] + SumFunctionOnSet(f, T)
<1>1. IsFiniteSet(T \union {y})
  BY FS_AddElement
<1>2. (T \union {y}) \ {y} = T
  OBVIOUS
<1>3. SumFunctionOnSet(f, T \union {y})
        = f[y] + SumFunctionOnSet(f, (T \union {y}) \ {y})
  BY <1>1, SumRemove
<1>. QED
  BY <1>2, <1>3

\* Functions that agree on a set have the same sum over it.
LEMMA SumSame ==
  ASSUME NEW f, NEW g, NEW T, IsFiniteSet(T),
         \A x \in T : f[x] \in Int /\ f[x] = g[x]
  PROVE  SumFunctionOnSet(f, T) = SumFunctionOnSet(g, T)
<1>. DEFINE A == {U \in SUBSET T :
                    SumFunctionOnSet(f, U) = SumFunctionOnSet(g, U)}
<1>1. ASSUME NEW U \in SUBSET T, \A W \in SUBSET U : W # U => W \in A
      PROVE  U \in A
  <2>1. IsFiniteSet(U)
    BY FS_Subset
  <2>2. CASE U = {}
    BY <2>2, SumOfEmpty
  <2>3. CASE U # {}
    <3>1. PICK x \in U : TRUE
      BY <2>3
    <3>2. SumFunctionOnSet(f, U \ {x}) = SumFunctionOnSet(g, U \ {x})
      BY <1>1
    <3>3. SumFunctionOnSet(f, U) = f[x] + SumFunctionOnSet(f, U \ {x})
      BY <2>1, SumRemove
    <3>4. SumFunctionOnSet(g, U) = g[x] + SumFunctionOnSet(g, U \ {x})
      <4>1. \A y \in U : g[y] \in Int
        OBVIOUS
      <4>. QED
        BY <2>1, <4>1, SumRemove
    <3>. QED
      BY <3>2, <3>3, <3>4
  <2>. QED
    BY <2>2, <2>3
<1>2. SUBSET T \subseteq A
  <2>. HIDE DEF A
  <2>. QED
    BY <1>1, SubsetInduction
<1>. QED
  BY <1>2

\* The last of some numbers up to n.
LEMMA MaxOf ==
  ASSUME NEW n \in Nat, NEW S \in SUBSET (1 .. n), S # {}
  PROVE  Max(S) \in S /\ \A x \in S : x <= Max(S)
<1>. DEFINE A == {T \in SUBSET S : T # {} => \E m \in T : \A x \in T : m >= x}
<1>1. IsFiniteSet(S)
  <2>1. IsFiniteSet(1 .. n)
    BY FS_Interval
  <2>. QED
    BY <2>1, FS_Subset
<1>2. ASSUME NEW T \in SUBSET S, \A U \in SUBSET T : U # T => U \in A
      PROVE  T \in A
  <2>. SUFFICES ASSUME T # {} PROVE \E m \in T : \A x \in T : m >= x
    OBVIOUS
  <2>1. PICK y \in T : TRUE
    OBVIOUS
  <2>2. CASE T = {y}
    BY <2>2
  <2>3. CASE T # {y}
    <3>1. PICK m \in T \ {y} : \A x \in T \ {y} : m >= x
      <4>1. T \ {y} \in A /\ T \ {y} # {}
        BY <1>2, <2>1, <2>3
      <4>. QED
        BY <4>1
    <3>2. m \in Nat /\ y \in Nat /\ \A x \in T : x \in Nat
      OBVIOUS
    <3>3. CASE m >= y
      BY <3>1, <3>3
    <3>4. CASE y > m
      <4>1. \A x \in T : y >= x
        BY <3>1, <3>2, <3>4
      <4>. QED
        BY <4>1
    <3>. QED
      BY <3>2, <3>3, <3>4
  <2>. QED
    BY <2>2, <2>3
<1>3. SUBSET S \subseteq A
  <2>. HIDE DEF A
  <2>. QED
    BY <1>1, <1>2, SubsetInduction
<1>4. \E m \in S : \A x \in S : m >= x
  BY <1>3
<1>. QED
  BY <1>4 DEF Max

\* And the first.
LEMMA MinOf ==
  ASSUME NEW n \in Nat, NEW S \in SUBSET (1 .. n), S # {}
  PROVE  Min(S) \in S /\ \A x \in S : Min(S) <= x
<1>. DEFINE T == {y \in 1 .. n : n + 1 - y \in S}
<1>1. PICK x \in S : TRUE
  OBVIOUS
<1>2. n + 1 - x \in T
  BY <1>1
<1>. DEFINE m == Max(T)
<1>3. m \in T /\ \A y \in T : y <= m
  <2>1. T \in SUBSET (1 .. n) /\ T # {}
    BY <1>2
  <2>. HIDE DEF T
  <2>. QED
    BY <2>1, MaxOf
<1>4. n + 1 - m \in S /\ m \in 1 .. n
  BY <1>3
<1>. HIDE DEF m
<1>5. ASSUME NEW y \in S PROVE n + 1 - m <= y
  <2>1. n + 1 - y \in T
    OBVIOUS
  <2>2. n + 1 - y <= m
    BY <1>3, <2>1
  <2>. QED
    BY <1>4, <2>2
<1>6. \E z \in S : \A y \in S : z =< y
  BY <1>4, <1>5
<1>. QED
  BY <1>6 DEF Min

-----------------------------------------------------------------------------
(* The inductive invariant                                                  *)

Licensed(row) == row.status = "active" => row.license = "valid"

LoadedLabels == {"overwrite", "compare", "update"}

\* What a call at this label may hold.
CallOK(label, x) ==
  /\ label \in LoadedLabels \union {"load"} =>
       x.driver \in DOMAIN drivers /\ x.op \in Operations
  /\ label \in LoadedLabels =>
       /\ x.row.license = drivers[x.driver].license
       /\ Licensed(x.row)
  /\ label = "update" => x.seen.license = drivers[x.driver].license

DriversTypeOK ==
  /\ drivers \in Seq(Driver)
  /\ pc \in [Calls -> DriverLabels \union TrackLabels]
  /\ held \in [Calls -> HeldDriver]

IInv ==
  /\ DriversTypeOK
  /\ ActiveDriversAreLicensed
  /\ \A r \in Calls : CallOK(pc[r], held[r])

-----------------------------------------------------------------------------
(* Rows and copies                                                          *)

LEMMA BlankIsHeld == Blank \in HeldDriver
BY DEF Blank, HeldDriver, NewDriver, Driver, DriverStatus, Licenses

LEMMA CallFacts ==
  ASSUME IInv, NEW r \in Calls
  PROVE  /\ held[r] \in HeldDriver /\ CallOK(pc[r], held[r])
         /\ drivers \in [DOMAIN drivers -> Driver]
         /\ \A d \in DOMAIN drivers : Licensed(drivers[d])
BY LenProperties DEF IInv, DriversTypeOK, ActiveDriversAreLicensed, Licensed

\* A call changes its copy to one that still has the licence of the row.
LEMMA ChangedFacts ==
  ASSUME NEW o \in Operations, NEW row \in Driver, Licensed(row), Allowed(o, row)
  PROVE  /\ Changed(o, row) \in Driver
         /\ Changed(o, row).license = row.license
         /\ Licensed(Changed(o, row))
<1>1. CASE o = "activate"
  BY <1>1 DEF Changed, Allowed, Licensed, Driver, DriverStatus
<1>2. CASE o = "deactivate"
  BY <1>2 DEF Changed, Licensed, Driver, DriverStatus
<1>3. CASE o = "changeLicense"
  BY <1>3 DEF Changed, Allowed, Licensed, Driver, Licenses
<1>4. CASE o = "markOccupied"
  BY <1>4 DEF Changed, Licensed, Driver
<1>5. CASE o = "markNotOccupied"
  BY <1>5 DEF Changed, Licensed, Driver
<1>. QED
  BY <1>1, <1>2, <1>3, <1>4, <1>5 DEF Operations

\* A save leaves the licence as it is, whichever other columns it writes.
LEMMA SavedFacts ==
  ASSUME NEW new \in Driver, NEW seen \in Driver, NEW current \in Driver,
         new.license = current.license, seen.license = current.license,
         Licensed(new), Licensed(current)
  PROVE  /\ SavedDriver(new, seen, current) \in Driver
         /\ SavedDriver(new, seen, current).license = current.license
         /\ Licensed(SavedDriver(new, seen, current))
BY DEF SavedDriver, Written, Licensed, Driver

-----------------------------------------------------------------------------
(* The steps                                                                *)

\* Drivers keep their licences, the other calls wait: what call r has to show.
LEMMA StepOf ==
  ASSUME IInv, NEW r \in Calls,
         NEW label \in DriverLabels \union TrackLabels, NEW x \in HeldDriver,
         pc' = [pc EXCEPT ![r] = label], held' = [held EXCEPT ![r] = x],
         drivers' \in Seq(Driver), DOMAIN drivers \subseteq DOMAIN drivers',
         \A d \in DOMAIN drivers : drivers'[d].license = drivers[d].license,
         \A d \in DOMAIN drivers' : Licensed(drivers'[d]),
         CallOK(label, x)
  PROVE  IInv'
<1>1. /\ pc'[r] = label /\ held'[r] = x
      /\ \A q \in Calls \ {r} : pc'[q] = pc[q] /\ held'[q] = held[q]
  BY DEF IInv, DriversTypeOK
<1>2. \A y \in HeldDriver : y \in HeldDriver'
  BY DEF HeldDriver
<1>3. DriversTypeOK'
  <2>1. held' \in [Calls -> HeldDriver]
    BY DEF IInv, DriversTypeOK
  <2>2. held' \in [Calls -> HeldDriver']
    BY <1>2, <2>1
  <2>. QED
    BY <2>2 DEF IInv, DriversTypeOK
<1>4. ActiveDriversAreLicensed'
  BY DEF ActiveDriversAreLicensed, Licensed
<1>5. ASSUME NEW q \in Calls PROVE CallOK(pc[q], held[q])'
  <2>1. CallOK(pc[q], held[q])
    BY DEF IInv
  <2>. QED
    BY <1>1, <2>1 DEF CallOK, LoadedLabels
<1>. QED
  BY <1>3, <1>4, <1>5 DEF IInv

\* Steps that change no driver.
LEMMA LocalStep ==
  ASSUME IInv, NEW r \in Calls,
         NEW label \in DriverLabels \union TrackLabels, NEW x \in HeldDriver,
         pc' = [pc EXCEPT ![r] = label], held' = [held EXCEPT ![r] = x],
         drivers' = drivers,
         CallOK(label, x)
  PROVE  IInv'
<1>1. /\ drivers' \in Seq(Driver)
      /\ \A d \in DOMAIN drivers' : Licensed(drivers'[d])
  BY CallFacts DEF IInv, DriversTypeOK
<1>. QED
  BY <1>1, StepOf

LEMMA CreateStep ==
  ASSUME IInv, NEW r \in Calls, CreateDriver(r)
  PROVE  IInv'
<1>1. PICK status \in DriverStatus, license \in Licenses :
        /\ MayCreate(status, license)
        /\ drivers' = Append(drivers, NewDriver(status, license))
  BY DEF CreateDriver
<1>. DEFINE e == NewDriver(status, license)
<1>2. e \in Driver /\ Licensed(e)
  BY <1>1 DEF NewDriver, Driver, Licensed, MayCreate, DriverStatus, Licenses
<1>. HIDE DEF e
<1>3. /\ drivers' \in Seq(Driver)
      /\ DOMAIN drivers = 1 .. Len(drivers) /\ Len(drivers) \in Nat
      /\ DOMAIN drivers' = 1 .. Len(drivers) + 1
      /\ \A d \in DOMAIN drivers : drivers'[d] = drivers[d]
      /\ drivers'[Len(drivers) + 1] = e
  BY <1>1, <1>2, AppendProperties, LenProperties DEF IInv, DriversTypeOK, e
<1>4. \A d \in DOMAIN drivers' : Licensed(drivers'[d])
  BY <1>2, <1>3, CallFacts
<1>5. /\ pc' = [pc EXCEPT ![r] = "answered"] /\ held' = [held EXCEPT ![r] = held[r]]
      /\ "answered" \in DriverLabels /\ held[r] \in HeldDriver
  BY CallFacts DEF CreateDriver, Goto, IInv, DriversTypeOK, DriverLabels
<1>6. CallOK("answered", held[r])
  BY DEF CallOK, LoadedLabels
<1>7. DOMAIN drivers \subseteq DOMAIN drivers'
  BY <1>3
<1>. QED
  BY <1>3, <1>4, <1>5, <1>6, <1>7, StepOf

LEMMA BeginStep ==
  ASSUME IInv, NEW r \in Calls, BeginOnDriver(r)
  PROVE  IInv'
<1>1. PICK o \in Operations, d \in DOMAIN drivers :
        Hold(r, [Blank EXCEPT !.op = o, !.driver = d])
  BY DEF BeginOnDriver
<1>. DEFINE x == [Blank EXCEPT !.op = o, !.driver = d]
<1>2. x \in HeldDriver /\ x.driver = d /\ x.op = o
  BY BlankIsHeld DEF HeldDriver
<1>3. /\ pc' = [pc EXCEPT ![r] = "load"] /\ held' = [held EXCEPT ![r] = x]
      /\ drivers' = drivers /\ "load" \in DriverLabels
  BY <1>1 DEF BeginOnDriver, Goto, Hold, DriverLabels
<1>. HIDE DEF x
<1>4. CallOK("load", x)
  BY <1>2 DEF CallOK, LoadedLabels
<1>. QED
  BY <1>2, <1>3, <1>4, LocalStep

\* A call that ends.
LEMMA FinishStep ==
  ASSUME IInv, NEW r \in Calls, drivers' = drivers,
         Hold(r, Blank), Goto(r, "answered")
  PROVE  IInv'
<1>1. CallOK("answered", Blank)
  BY DEF CallOK, LoadedLabels
<1>. QED
  BY <1>1, BlankIsHeld, LocalStep DEF Hold, Goto, DriverLabels

LEMMA LoadStep ==
  ASSUME IInv, NEW r \in Calls, LoadDriver(r)
  PROVE  IInv'
<1>. DEFINE o   == held[r].op
            d   == held[r].driver
            new == Changed(o, drivers[d])
            x   == [held[r] EXCEPT !.row = new]
<1>1. /\ drivers' = drivers /\ held[r] \in HeldDriver
      /\ d \in DOMAIN drivers /\ drivers[d] \in Driver /\ Licensed(drivers[d])
      /\ o \in Operations
  BY CallFacts DEF LoadDriver, CallOK, LoadedLabels
<1>2. CASE Allowed(o, drivers[d]) /\ Hold(r, x) /\ Goto(r, SaveOf(o))
  <2>1. new \in Driver /\ new.license = drivers[d].license /\ Licensed(new)
    BY <1>1, <1>2, ChangedFacts
  <2>2. SaveOf(o) \in {"overwrite", "compare"}
    BY DEF SaveOf
  <2>. HIDE DEF new
  <2>3. x \in HeldDriver /\ x.row = new /\ x.driver = d /\ x.op = o
    BY <1>1, <2>1 DEF HeldDriver
  <2>4. /\ SaveOf(o) \in DriverLabels \union TrackLabels
        /\ pc' = [pc EXCEPT ![r] = SaveOf(o)] /\ held' = [held EXCEPT ![r] = x]
    BY <1>2, <2>2 DEF Hold, Goto, DriverLabels
  <2>. HIDE DEF x, o, d
  <2>5. CallOK(SaveOf(o), x)
    BY <1>1, <2>1, <2>2, <2>3 DEF CallOK, LoadedLabels
  <2>. QED
    BY <1>1, <2>3, <2>4, <2>5, LocalStep
<1>3. CASE Hold(r, Blank) /\ Goto(r, "answered")
  BY <1>1, <1>3, FinishStep
<1>. QED
  BY <1>2, <1>3 DEF LoadDriver

\* A call that replaces a row by one with the same licence, and ends.
LEMMA WriteStep ==
  ASSUME IInv, NEW r \in Calls, NEW d \in DOMAIN drivers, NEW row \in Driver,
         row.license = drivers[d].license, Licensed(row),
         drivers' = [drivers EXCEPT ![d] = row],
         Hold(r, Blank), Goto(r, "answered")
  PROVE  IInv'
<1>1. drivers' \in Seq(Driver) /\ DOMAIN drivers' = DOMAIN drivers
  BY ExceptSeq DEF IInv, DriversTypeOK
<1>2. drivers'[d] = row /\ \A e \in DOMAIN drivers \ {d} : drivers'[e] = drivers[e]
  BY CallFacts
<1>3. /\ \A e \in DOMAIN drivers : drivers'[e].license = drivers[e].license
      /\ \A e \in DOMAIN drivers' : Licensed(drivers'[e])
  BY <1>1, <1>2, CallFacts
<1>4. CallOK("answered", Blank)
  BY DEF CallOK, LoadedLabels
<1>5. /\ pc' = [pc EXCEPT ![r] = "answered"] /\ held' = [held EXCEPT ![r] = Blank]
      /\ "answered" \in DriverLabels \union TrackLabels
      /\ DOMAIN drivers \subseteq DOMAIN drivers'
  BY <1>1 DEF Hold, Goto, DriverLabels
<1>. QED
  BY <1>1, <1>3, <1>4, <1>5, BlankIsHeld, StepOf

LEMMA OverwriteStep ==
  ASSUME IInv, NEW r \in Calls, OverwriteDriver(r)
  PROVE  IInv'
<1>1. /\ held[r].driver \in DOMAIN drivers /\ held[r].row \in Driver
      /\ held[r].row.license = drivers[held[r].driver].license
      /\ Licensed(held[r].row)
  BY CallFacts DEF OverwriteDriver, CallOK, LoadedLabels, HeldDriver
<1>. QED
  BY <1>1, WriteStep DEF OverwriteDriver

LEMMA CompareStep ==
  ASSUME IInv, NEW r \in Calls, CompareDriver(r)
  PROVE  IInv'
<1>. DEFINE d == held[r].driver
            x == [held[r] EXCEPT !.seen = drivers[d]]
<1>1. /\ held[r] \in HeldDriver /\ CallOK("compare", held[r])
      /\ d \in DOMAIN drivers /\ drivers[d] \in Driver
  BY CallFacts DEF CompareDriver, CallOK, LoadedLabels
<1>2. /\ x \in HeldDriver /\ x.seen = drivers[d]
      /\ x.driver = d /\ x.row = held[r].row /\ x.op = held[r].op
  BY <1>1 DEF HeldDriver
<1>3. /\ pc' = [pc EXCEPT ![r] = "update"] /\ held' = [held EXCEPT ![r] = x]
      /\ drivers' = drivers /\ "update" \in DriverLabels \union TrackLabels
  BY DEF CompareDriver, Hold, Goto, DriverLabels
<1>. HIDE DEF x
<1>4. CallOK("update", x)
  BY <1>1, <1>2 DEF CallOK, LoadedLabels
<1>. QED
  BY <1>2, <1>3, <1>4, LocalStep

LEMMA UpdateStep ==
  ASSUME IInv, NEW r \in Calls, UpdateDriver(r)
  PROVE  IInv'
<1>. DEFINE d   == held[r].driver
            row == SavedDriver(held[r].row, held[r].seen, drivers[d])
<1>1. /\ d \in DOMAIN drivers /\ drivers[d] \in Driver /\ Licensed(drivers[d])
      /\ held[r].row \in Driver /\ held[r].seen \in Driver
      /\ held[r].row.license = drivers[d].license /\ Licensed(held[r].row)
      /\ held[r].seen.license = drivers[d].license
  BY CallFacts DEF UpdateDriver, CallOK, LoadedLabels, HeldDriver
<1>2. row \in Driver /\ row.license = drivers[d].license /\ Licensed(row)
  BY <1>1, SavedFacts
<1>3. /\ drivers' = [drivers EXCEPT ![d] = row]
      /\ Hold(r, Blank) /\ Goto(r, "answered")
  BY DEF UpdateDriver
<1>. HIDE DEF row
<1>. QED
  BY <1>1, <1>2, <1>3, WriteStep

\* Registering a position reads the drivers and writes none.
LEMMA TracksStep ==
  ASSUME IInv, NEW r \in Calls, TrackStep(r)
  PROVE  IInv'
<1>1. /\ drivers' = drivers /\ held' = held
      /\ \E label \in TrackLabels \union {"answered"} : Goto(r, label)
  BY DEF TrackStep, BeginPosition, CheckDriver, InsertPosition, MatchSlot,
         Recalculate, PrecedingSlot, CompareSlot, UpdateSlot, InsertSlot,
         Leave, TrackLabels, driverVars
<1>2. PICK label \in TrackLabels \union {"answered"} : Goto(r, label)
  BY <1>1
<1>3. CallOK(label, held[r])
  BY DEF CallOK, LoadedLabels, TrackLabels
<1>4. /\ held' = [held EXCEPT ![r] = held[r]] /\ held[r] \in HeldDriver
      /\ pc' = [pc EXCEPT ![r] = label]
      /\ label \in DriverLabels \union TrackLabels
  BY <1>1, <1>2, CallFacts DEF Goto, DriverLabels, IInv, DriversTypeOK
<1>. QED
  BY <1>1, <1>3, <1>4, LocalStep

-----------------------------------------------------------------------------
(* Windows                                                                  *)

\* A window holds its times.
LEMMA BeginningFacts ==
  ASSUME NEW t \in Nat
  PROVE  /\ Beginning(t) \in Nat
         /\ Beginning(t) <= t /\ t < Beginning(t) + Window
BY TrackingAssumption DEF Beginning

\* Windows do not overlap.
LEMMA BeginningOrder ==
  ASSUME NEW t \in Nat, NEW u \in Nat
  PROVE  /\ t <= u => Beginning(t) <= Beginning(u)
         /\ Beginning(t) < Beginning(u) => Beginning(t) + Window <= Beginning(u)
<1>. DEFINE q == t \div Window
            p == u \div Window
<1>1. q \in Nat /\ p \in Nat /\ Window \in Nat
  BY TrackingAssumption
<1>2. t <= u => q <= p
  BY TrackingAssumption
<1>3. Beginning(t) = q * Window /\ Beginning(u) = p * Window
  BY DEF Beginning
<1>. HIDE DEF q, p
<1>4. q <= p => q * Window <= p * Window
  BY <1>1
<1>5. q < p => (q + 1) * Window <= p * Window
  BY <1>1
<1>6. (q + 1) * Window = q * Window + Window
  BY <1>1
<1>7. p <= q => p * Window <= q * Window
  BY <1>1
<1>8. q * Window \in Nat /\ p * Window \in Nat
  BY <1>1
<1>. QED
  BY <1>1, <1>2, <1>3, <1>4, <1>5, <1>6, <1>7, <1>8

\* A slot that contains a time is that of the window of the time.
LEMMA ContainsIsWindow ==
  ASSUME NEW t \in Nat, NEW s, NEW u \in Nat, s.beginning = Beginning(u)
  PROVE  Contains(s, t) <=> s.beginning = Beginning(t)
<1>1. /\ Beginning(t) \in Nat /\ Beginning(u) \in Nat /\ Window \in Nat
      /\ Beginning(t) <= t /\ t < Beginning(t) + Window
  BY TrackingAssumption, BeginningFacts
<1>2. /\ Beginning(t) < Beginning(u) => Beginning(t) + Window <= Beginning(u)
      /\ Beginning(u) < Beginning(t) => Beginning(u) + Window <= Beginning(t)
  BY BeginningOrder
<1>. QED
  BY <1>1, <1>2 DEF Contains, End

\* What a step of a driver adds is a natural number.
LEMMA DistanceType ==
  ASSUME NEW p \in Places, NEW q \in Places
  PROVE  DistanceTo(p, q) \in Nat
BY TrackingAssumption DEF DistanceTo

-----------------------------------------------------------------------------
(* What slots tell of a list of positions                                   *)

\* SeenIn, Travelled and Leaving, of any list of positions.
Seen(ps, d, b) ==
  {i \in DOMAIN ps : ps[i].driver = d /\ Beginning(ps[i].seenAt) = b}

Until(S, i) == {j \in S : j < i}

Way(ps, i, j) == DistanceTo(ps[i].place, ps[j].place)

Ways(ps, S) == [i \in S |-> Way(ps, Max(Until(S, i)), i)]

Within(ps, S) == SumFunctionOnSet(Ways(ps, S), {i \in S : Until(S, i) # {}})

Out(ps, d, b) ==
  LET seen == Seen(ps, d, b)
      next == Seen(ps, d, b + Window)
  IN  IF seen # {} /\ next # {} /\ ps[Min(next)].seenAt = b + Window
      THEN Way(ps, Max(seen), Min(next))
      ELSE 0

Mine(ss, d, b) == {i \in DOMAIN ss : ss[i].driver = d /\ ss[i].beginning = b}

\* The driver was seen in no later window.
IsLatest(ps, d, b) == \A c \in Nat : c > b => Seen(ps, d, c) = {}

\* The slot of a window, when a driver was seen in it: it adds up, and it
\* ends where the driver is as long as there is no later one.
Tells(ps, s, d, b) ==
  LET seen == Seen(ps, d, b) IN
  /\ s.distance \in {Within(ps, seen), Within(ps, seen) + Out(ps, d, b)}
  /\ IsLatest(ps, d, b) => s.last = ps[Max(seen)].place

SlotIsRight(ps, ss, d, b) ==
  IF Seen(ps, d, b) = {}
  THEN Mine(ss, d, b) = {}
  ELSE \E i \in DOMAIN ss : Mine(ss, d, b) = {i} /\ Tells(ps, ss[i], d, b)

Tracks(ps, ss) == \A d \in Nat, b \in Nat : SlotIsRight(ps, ss, d, b)

\* The slot of this window is still to be inserted.
TracksBut(ps, ss, d, b) ==
  /\ Mine(ss, d, b) = {}
  /\ \A e \in Nat, c \in Nat : ~(e = d /\ c = b) => SlotIsRight(ps, ss, e, c)

\* The slots tell of the positions of any list of them.
PositionList == Seq(Position)

-----------------------------------------------------------------------------
(* One position more                                                        *)

\* The last position of a window, as Max finds it.
LEMMA SeenFacts ==
  ASSUME NEW ps \in PositionList, NEW d, NEW b
  PROVE  /\ Len(ps) \in Nat /\ DOMAIN ps = 1 .. Len(ps)
         /\ \A i \in 1 .. Len(ps) : ps[i] \in Position
         /\ Seen(ps, d, b) \in SUBSET (1 .. Len(ps))
         /\ IsFiniteSet(Seen(ps, d, b))
<1>1. /\ Len(ps) \in Nat /\ DOMAIN ps = 1 .. Len(ps)
      /\ \A i \in 1 .. Len(ps) : ps[i] \in Position
  BY LenProperties, ElementOfSeq DEF PositionList
<1>2. Seen(ps, d, b) \in SUBSET (1 .. Len(ps))
  BY <1>1 DEF Seen
<1>3. IsFiniteSet(1 .. Len(ps))
  BY <1>1, FS_Interval
<1>. QED
  BY <1>1, <1>2, <1>3, FS_Subset

\* The list with a position more, in the window it was seen in and the others.
LEMMA SeenAfter ==
  ASSUME NEW ps \in PositionList, NEW p \in Position, NEW d, NEW b
  PROVE  /\ Append(ps, p) \in PositionList
         /\ Len(Append(ps, p)) = Len(ps) + 1
         /\ \A i \in 1 .. Len(ps) : Append(ps, p)[i] = ps[i]
         /\ Append(ps, p)[Len(ps) + 1] = p
         /\ IF d = p.driver /\ b = Beginning(p.seenAt)
            THEN Seen(Append(ps, p), d, b) = Seen(ps, d, b) \union {Len(ps) + 1}
            ELSE Seen(Append(ps, p), d, b) = Seen(ps, d, b)
<1>. DEFINE qs == Append(ps, p)
<1>1. /\ qs \in PositionList /\ Len(qs) = Len(ps) + 1
      /\ Len(ps) \in Nat /\ DOMAIN ps = 1 .. Len(ps)
      /\ DOMAIN qs = 1 .. Len(ps) + 1
      /\ \A i \in 1 .. Len(ps) : qs[i] = ps[i]
      /\ qs[Len(ps) + 1] = p
  BY AppendProperties, LenProperties DEF PositionList
<1>. HIDE DEF qs
<1>2. DOMAIN qs = (1 .. Len(ps)) \union {Len(ps) + 1}
  BY <1>1
<1>3. IF d = p.driver /\ b = Beginning(p.seenAt)
      THEN Seen(qs, d, b) = Seen(ps, d, b) \union {Len(ps) + 1}
      ELSE Seen(qs, d, b) = Seen(ps, d, b)
  BY <1>1, <1>2 DEF Seen
<1>. QED
  BY <1>1, <1>3 DEF qs

\* Places on the way of a window.
HasPlaces(ps, S) == \A i \in S : ps[i].place \in Places

\* Every step but the first has one before it.
LEMMA WaysFacts ==
  ASSUME NEW ps, NEW n \in Nat, NEW S \in SUBSET (1 .. n), HasPlaces(ps, S),
         NEW i \in S, Until(S, i) # {}
  PROVE  /\ Max(Until(S, i)) \in S
         /\ Ways(ps, S)[i] = Way(ps, Max(Until(S, i)), i)
         /\ Ways(ps, S)[i] \in Nat
<1>1. Until(S, i) \in SUBSET (1 .. n)
  BY DEF Until
<1>2. Max(Until(S, i)) \in Until(S, i)
  BY <1>1, MaxOf
<1>3. Max(Until(S, i)) \in S
  BY <1>2 DEF Until
<1>. QED
  BY <1>3, DistanceType DEF Ways, Way, HasPlaces

\* The steps that are counted.
Later(S) == {i \in S : Until(S, i) # {}}

LEMMA LaterFacts ==
  ASSUME NEW n \in Nat, NEW S \in SUBSET (1 .. n)
  PROVE  Later(S) \in SUBSET S /\ IsFiniteSet(Later(S))
<1>1. Later(S) \in SUBSET S
  BY DEF Later
<1>2. IsFiniteSet(1 .. n)
  BY FS_Interval
<1>3. IsFiniteSet(S)
  BY <1>2, FS_Subset
<1>. QED
  BY <1>1, <1>3, FS_Subset

\* The way within a window is a number, and depends on its positions only.
LEMMA WithinSame ==
  ASSUME NEW ps, NEW qs, NEW n \in Nat, NEW S \in SUBSET (1 .. n),
         HasPlaces(ps, S), \A i \in S : qs[i] = ps[i]
  PROVE  Within(ps, S) \in Nat /\ Within(qs, S) = Within(ps, S)
<1>1. HasPlaces(qs, S)
  BY DEF HasPlaces
<1>2. ASSUME NEW i \in Later(S)
      PROVE  Ways(ps, S)[i] \in Nat /\ Ways(ps, S)[i] = Ways(qs, S)[i]
  <2>1. i \in S /\ Until(S, i) # {}
    BY DEF Later
  <2>2. /\ Max(Until(S, i)) \in S
        /\ Ways(ps, S)[i] = Way(ps, Max(Until(S, i)), i) /\ Ways(ps, S)[i] \in Nat
        /\ Ways(qs, S)[i] = Way(qs, Max(Until(S, i)), i)
    BY <1>1, <2>1, WaysFacts
  <2>. QED
    BY <2>1, <2>2 DEF Way
<1>3. IsFiniteSet(Later(S))
  BY LaterFacts
<1>. DEFINE f == Ways(ps, S)
            g == Ways(qs, S)
<1>4. /\ \A i \in Later(S) : f[i] \in Nat
      /\ \A i \in Later(S) : f[i] \in Int /\ f[i] = g[i]
  BY <1>2
<1>5. Within(ps, S) = SumFunctionOnSet(f, Later(S)) /\ Within(qs, S) = SumFunctionOnSet(g, Later(S))
  BY DEF Within, Later
<1>. HIDE DEF f, g
<1>6. SumFunctionOnSet(f, Later(S)) \in Nat
  BY <1>3, <1>4, SumType
<1>7. SumFunctionOnSet(f, Later(S)) = SumFunctionOnSet(g, Later(S))
  BY <1>3, <1>4, SumSame
<1>. QED
  BY <1>5, <1>6, <1>7

\* A position more is a step more, unless it is the first.
LEMMA WithinNext ==
  ASSUME NEW ps, NEW qs, NEW n \in Nat, NEW S \in SUBSET (1 .. n),
         HasPlaces(ps, S), \A i \in S : qs[i] = ps[i],
         NEW x \in Places, qs[n + 1].place = x
  PROVE  /\ S = {} => Within(qs, S \union {n + 1}) = 0
         /\ S # {} => Within(qs, S \union {n + 1})
                        = Within(ps, S) + DistanceTo(ps[Max(S)].place, x)
<1>. DEFINE R == S \union {n + 1}
            f == Ways(qs, R)
            g == Ways(ps, S)
<1>1. PICK m \in Nat : m = n + 1
  OBVIOUS
<1>2. /\ R \in SUBSET (1 .. m) /\ m \notin S
      /\ \A i \in S : i < m /\ ~(m < i)
      /\ \A i \in R : i \in S \/ i = m
      /\ m \in R /\ \A i \in S : i \in R
      /\ qs[m].place = x
  BY <1>1
<1>0. S \union {n + 1} = R
  OBVIOUS
<1>. HIDE DEF R
<1>3. /\ \A i \in S : Until(R, i) = Until(S, i)
      /\ Until(R, m) = S
  <2>1. ~(m < m)
    OBVIOUS
  <2>. QED
    BY <1>2, <2>1 DEF Until
<1>4. HasPlaces(qs, R)
  BY <1>2 DEF HasPlaces
<1>5. Within(qs, R) = SumFunctionOnSet(f, Later(R)) /\ Within(ps, S) = SumFunctionOnSet(g, Later(S))
  BY DEF Within, Later
<1>6. CASE S = {}
  <2>1. Later(R) = {}
    BY <1>2, <1>3, <1>6 DEF Later
  <2>2. Within(qs, R) = 0
    BY <1>5, <2>1, SumOfEmpty
  <2>. QED
    BY <1>0, <1>6, <2>2
<1>7. CASE S # {}
  <2>1. Later(R) = Later(S) \union {m} /\ m \notin Later(S)
    BY <1>2, <1>3, <1>7 DEF Later
  <2>2. f[m] = DistanceTo(ps[Max(S)].place, x) /\ f[m] \in Nat
    <3>1. m \in R /\ Until(R, m) # {}
      BY <1>2, <1>3, <1>7
    <3>2. f[m] = Way(qs, Max(Until(R, m)), m) /\ f[m] \in Nat
      BY <1>1, <1>2, <1>4, <3>1, WaysFacts
    <3>3. Max(S) \in S
      BY <1>7, MaxOf
    <3>. QED
      BY <1>2, <1>3, <3>2, <3>3 DEF Way
  <2>3. ASSUME NEW i \in Later(S) PROVE f[i] \in Nat /\ f[i] = g[i]
    <3>1. i \in S /\ Until(S, i) # {} /\ i \in R
      BY <1>2 DEF Later
    <3>2. Until(R, i) = Until(S, i)
      BY <1>3, <3>1
    <3>3. /\ Max(Until(S, i)) \in S
          /\ g[i] = Way(ps, Max(Until(S, i)), i)
      BY <3>1, WaysFacts
    <3>4. f[i] = Way(qs, Max(Until(R, i)), i) /\ f[i] \in Nat
      BY <1>2, <1>4, <3>1, <3>2, WaysFacts
    <3>. QED
      BY <3>1, <3>2, <3>3, <3>4 DEF Way
  <2>4. IsFiniteSet(Later(S))
    BY LaterFacts
  <2>. HIDE DEF f, g
  <2>5. SumFunctionOnSet(f, Later(S) \union {m})
          = f[m] + SumFunctionOnSet(f, Later(S))
    <3>1. \A i \in Later(S) : f[i] \in Int
      BY <2>3
    <3>2. f[m] \in Int
      BY <2>2
    <3>. QED
      BY <2>1, <2>4, <3>1, <3>2, SumAdd
  <2>6. SumFunctionOnSet(f, Later(S)) = SumFunctionOnSet(g, Later(S))
    BY <2>3, <2>4, SumSame
  <2>7. SumFunctionOnSet(f, Later(S)) \in Nat
    BY <2>3, <2>4, SumType
  <2>8. Within(qs, R) = Within(ps, S) + DistanceTo(ps[Max(S)].place, x)
    BY <1>5, <2>1, <2>2, <2>5, <2>6, <2>7
  <2>. QED
    BY <1>0, <1>7, <2>8
<1>. QED
  BY <1>6, <1>7

LEMMA SeenHasPlaces ==
  ASSUME NEW ps \in PositionList, NEW d, NEW b
  PROVE  HasPlaces(ps, Seen(ps, d, b))
<1>1. \A i \in Seen(ps, d, b) : ps[i] \in Position
  BY SeenFacts
<1>. QED
  BY <1>1 DEF HasPlaces, Position

\* The step out of a window, before anything was seen in the next one.
LEMMA NoWayOut ==
  ASSUME NEW ps, NEW d, NEW b, Seen(ps, d, b + Window) = {}
  PROVE  Out(ps, d, b) = 0
BY DEF Out

\* A position that is not the first of the next window is on no way out.
LEMMA OutSame ==
  ASSUME NEW ps \in PositionList, NEW p \in Position, NEW d \in Nat, NEW b \in Nat,
         ~(d = p.driver /\ b = Beginning(p.seenAt)),
         ~(d = p.driver /\ b + Window = Beginning(p.seenAt)
             /\ Seen(ps, d, b + Window) = {})
  PROVE  Out(Append(ps, p), d, b) = Out(ps, d, b)
<1>. DEFINE qs == Append(ps, p)
            n == Len(ps)
            S == Seen(ps, d, b)
            N == Seen(ps, d, b + Window)
            M == Seen(qs, d, b + Window)
<1>1. /\ n \in Nat /\ S \in SUBSET (1 .. n) /\ N \in SUBSET (1 .. n)
      /\ \A i \in 1 .. n : qs[i] = ps[i]
      /\ Seen(qs, d, b) = S
      /\ M = N \/ (M = N \union {n + 1} /\ N # {})
  BY SeenFacts, SeenAfter
<1>. HIDE DEF qs, n, S, N, M
<1>2. CASE S = {} \/ N = {}
  BY <1>1, <1>2 DEF Out, S, N, M, qs
<1>3. CASE S # {} /\ N # {}
  <2>1. Min(N) \in N /\ (\A x \in N : Min(N) <= x) /\ Max(S) \in S
    BY <1>1, <1>3, MaxOf, MinOf
  <2>2. Min(M) = Min(N)
    <3>1. CASE M = N
      BY <3>1
    <3>2. CASE M = N \union {n + 1}
      <4>. PICK m \in Nat : m = n + 1
        BY <1>1
      <4>1. M \in SUBSET (1 .. m) /\ M # {}
        BY <1>1, <3>2
      <4>2. Min(M) \in M /\ \A x \in M : Min(M) <= x
        BY <4>1, MinOf
      <4>3. Min(N) <= n /\ Min(N) \in Nat /\ Min(M) \in Nat
        <5>1. Min(N) \in 1 .. n /\ Min(M) \in 1 .. m
          BY <1>1, <2>1, <4>1, <4>2
        <5>. QED
          BY <1>1, <5>1
      <4>4. Min(M) <= Min(N) /\ (Min(M) \in N \/ Min(M) = n + 1)
        BY <2>1, <3>2, <4>2
      <4>5. Min(M) \in N => Min(N) <= Min(M)
        BY <2>1
      <4>. QED
        BY <1>1, <4>3, <4>4, <4>5
    <3>. QED
      BY <1>1, <3>1, <3>2
  <2>3. qs[Min(N)] = ps[Min(N)] /\ qs[Max(S)] = ps[Max(S)]
    BY <1>1, <2>1
  <2>. QED
    BY <1>1, <1>3, <2>2, <2>3 DEF Out, Way, S, N, M, qs
<1>. QED
  BY <1>2, <1>3 DEF qs

\* The first position of the next window, at the border.
LEMMA WayOut ==
  ASSUME NEW ps \in PositionList, NEW p \in Position, NEW b \in Nat,
         p.seenAt = b + Window, Beginning(p.seenAt) = b + Window, Window \in Nat \ {0},
         Seen(ps, p.driver, b) # {}, Seen(ps, p.driver, b + Window) = {}
  PROVE  Out(Append(ps, p), p.driver, b)
           = DistanceTo(ps[Max(Seen(ps, p.driver, b))].place, p.place)
<1>. DEFINE qs == Append(ps, p)
            n == Len(ps)
            d == p.driver
            S == Seen(ps, d, b)
            M == Seen(qs, d, b + Window)
<1>0. b # b + Window
  OBVIOUS
<1>1. /\ n \in Nat /\ S \in SUBSET (1 .. n)
      /\ \A i \in 1 .. n : qs[i] = ps[i]
      /\ qs[n + 1] = p
      /\ Seen(qs, d, b) = S
      /\ M = {n + 1}
  BY <1>0, SeenFacts, SeenAfter
<1>2. Max(S) \in S
  <2>. HIDE DEF S, n
  <2>. QED
    BY <1>1, MaxOf DEF S
<1>3. Min(M) = n + 1
  BY <1>1 DEF Min
<1>4. qs[Max(S)] = ps[Max(S)]
  BY <1>1, <1>2
<1>. HIDE DEF qs, n, M
<1>. QED
  BY <1>1, <1>2, <1>3, <1>4 DEF Out, Way, M, qs

-----------------------------------------------------------------------------
(* One slot more, or one that is extended                                   *)

SlotList == Seq(Slot)

\* The slots of another window do not matter.
LEMMA SlotsElsewhere ==
  ASSUME NEW ps, NEW ss, NEW tt, NEW d, NEW b,
         SlotIsRight(ps, ss, d, b), Mine(tt, d, b) = Mine(ss, d, b),
         \A i \in Mine(ss, d, b) : tt[i] = ss[i]
  PROVE  SlotIsRight(ps, tt, d, b)
<1>1. CASE Seen(ps, d, b) = {}
  BY <1>1 DEF SlotIsRight
<1>2. CASE Seen(ps, d, b) # {}
  <2>1. PICK i \in DOMAIN ss : Mine(ss, d, b) = {i} /\ Tells(ps, ss[i], d, b)
    BY <1>2 DEF SlotIsRight
  <2>2. Mine(tt, d, b) = {i} /\ tt[i] = ss[i]
    BY <2>1
  <2>3. i \in DOMAIN tt
    BY <2>2 DEF Mine
  <2>. QED
    BY <1>2, <2>1, <2>2, <2>3 DEF SlotIsRight
<1>. QED
  BY <1>1, <1>2

\* A position does not disturb the slots of other windows.
LEMMA PositionElsewhere ==
  ASSUME NEW ps \in PositionList, NEW p \in Position, NEW ss,
         NEW d \in Nat, NEW b \in Nat, SlotIsRight(ps, ss, d, b),
         ~(d = p.driver /\ b = Beginning(p.seenAt))
  PROVE  SlotIsRight(Append(ps, p), ss, d, b)
<1>. DEFINE qs == Append(ps, p)
            n == Len(ps)
            S == Seen(ps, d, b)
<1>1. /\ n \in Nat /\ S \in SUBSET (1 .. n)
      /\ \A i \in 1 .. n : qs[i] = ps[i]
      /\ Seen(qs, d, b) = S
  BY SeenFacts, SeenAfter
<1>2. HasPlaces(ps, S)
  BY SeenHasPlaces
<1>3. \A c : Seen(ps, d, c) = {} \/ Seen(qs, d, c) # {}
  BY SeenAfter
<1>4. IsLatest(qs, d, b) => IsLatest(ps, d, b)
  BY <1>3 DEF IsLatest
<1>. HIDE DEF qs, n
<1>5. CASE S = {}
  BY <1>1, <1>5 DEF SlotIsRight, qs
<1>6. CASE S # {}
  <2>1. PICK i \in DOMAIN ss : Mine(ss, d, b) = {i} /\ Tells(ps, ss[i], d, b)
    BY <1>6 DEF SlotIsRight
  <2>2. Within(ps, S) \in Nat /\ Within(qs, S) = Within(ps, S)
    <3>1. \A j \in S : qs[j] = ps[j]
      BY <1>1
    <3>. HIDE DEF S
    <3>. QED
      BY <1>1, <1>2, <3>1, WithinSame
  <2>3. ps[Max(S)].place = qs[Max(S)].place
    <3>1. Max(S) \in S
      <4>. HIDE DEF S
      <4>. QED
        BY <1>1, <1>6, MaxOf
    <3>. QED
      BY <1>1, <3>1
  <2>4. ss[i].distance \in {Within(qs, S), Within(qs, S) + Out(qs, d, b)}
    <3>1. CASE d = p.driver /\ b + Window = Beginning(p.seenAt)
               /\ Seen(ps, d, b + Window) = {}
      <4>1. Out(ps, d, b) = 0
        BY <3>1, NoWayOut
      <4>2. ss[i].distance \in {Within(ps, S), Within(ps, S) + Out(ps, d, b)}
        BY <2>1 DEF Tells
      <4>. QED
        BY <2>2, <4>1, <4>2
    <3>2. CASE ~(d = p.driver /\ b + Window = Beginning(p.seenAt)
                 /\ Seen(ps, d, b + Window) = {})
      <4>1. Out(qs, d, b) = Out(ps, d, b)
        BY <3>2, OutSame DEF qs
      <4>2. ss[i].distance \in {Within(ps, S), Within(ps, S) + Out(ps, d, b)}
        BY <2>1 DEF Tells
      <4>. QED
        BY <2>2, <4>1, <4>2
    <3>. QED
      BY <3>1, <3>2
  <2>5. Tells(qs, ss[i], d, b)
    BY <1>1, <1>4, <2>1, <2>3, <2>4 DEF Tells
  <2>. QED
    BY <1>1, <1>6, <2>1, <2>5 DEF SlotIsRight, qs
<1>. QED
  BY <1>5, <1>6

\* A new position in a new window: its slot is still to come.
LEMMA PositionOfNewWindow ==
  ASSUME NEW ps \in PositionList, NEW p \in Position, NEW ss, Tracks(ps, ss),
         Mine(ss, p.driver, Beginning(p.seenAt)) = {}
  PROVE  /\ TracksBut(Append(ps, p), ss, p.driver, Beginning(p.seenAt))
         /\ Seen(ps, p.driver, Beginning(p.seenAt)) = {}
<1>. DEFINE d == p.driver
            b == Beginning(p.seenAt)
<1>1. d \in Nat /\ b \in Nat
  BY BeginningFacts DEF Position, Times
<1>2. ASSUME NEW e \in Nat, NEW c \in Nat, ~(e = d /\ c = b)
      PROVE  SlotIsRight(Append(ps, p), ss, e, c)
  BY <1>2, PositionElsewhere DEF Tracks
<1>3. Seen(ps, d, b) = {}
  <2>1. SlotIsRight(ps, ss, d, b)
    BY <1>1 DEF Tracks
  <2>. QED
    BY <2>1 DEF SlotIsRight
<1>. QED
  BY <1>2, <1>3 DEF TracksBut

\* The slot of a new window has its first position and no way.
LEMMA SlotOfNewWindow ==
  ASSUME NEW qs \in PositionList, NEW ss \in SlotList, NEW d \in Nat, NEW b \in Nat,
         TracksBut(qs, ss, d, b), Seen(qs, d, b) = {Len(qs)}
  PROVE  Tracks(qs, Append(ss, NewSlot(d, b, qs[Len(qs)].place)))
<1>. DEFINE n == Len(qs)
            s == NewSlot(d, b, qs[n].place)
            k == Len(ss) + 1
            tt == Append(ss, s)
<1>1. n \in 1 .. n /\ n \in Nat /\ qs[n] \in Position /\ qs[n].place \in Places
  BY SeenFacts DEF Position
<1>2. s \in Slot /\ s.driver = d /\ s.beginning = b /\ s.distance = 0
      /\ s.last = qs[n].place
  BY <1>1 DEF NewSlot, Slot
<1>. HIDE DEF s
<1>3. /\ DOMAIN ss = 1 .. Len(ss) /\ Len(ss) \in Nat /\ DOMAIN tt = 1 .. k
      /\ \A i \in DOMAIN ss : tt[i] = ss[i]
      /\ tt[k] = s
  BY <1>2, AppendProperties, LenProperties DEF SlotList
<1>4. DOMAIN tt = DOMAIN ss \union {k} /\ k \notin DOMAIN ss
  BY <1>3
<1>. HIDE DEF tt, k, n
<1>5. ASSUME NEW e \in Nat, NEW c \in Nat, ~(e = d /\ c = b)
      PROVE  SlotIsRight(qs, tt, e, c)
  <2>1. Mine(tt, e, c) = Mine(ss, e, c)
    BY <1>2, <1>3, <1>4, <1>5 DEF Mine
  <2>2. \A i \in Mine(ss, e, c) : tt[i] = ss[i]
    BY <1>3 DEF Mine
  <2>3. SlotIsRight(qs, ss, e, c)
    BY <1>5 DEF TracksBut
  <2>. QED
    BY <2>1, <2>2, <2>3, SlotsElsewhere
<1>6. SlotIsRight(qs, tt, d, b)
  <2>1. Mine(tt, d, b) = {k} /\ k \in DOMAIN tt
    BY <1>2, <1>3, <1>4 DEF Mine, TracksBut
  <2>2. Seen(qs, d, b) = {n}
    BY DEF n
  <2>3. Later({n}) = {}
    BY <1>1 DEF Later, Until
  <2>4. Within(qs, {n}) = 0
    BY <2>3, SumOfEmpty DEF Within, Later
  <2>5. Max({n}) = n
    BY <1>1 DEF Max
  <2>6. Tells(qs, s, d, b)
    BY <1>2, <2>2, <2>4, <2>5 DEF Tells
  <2>. QED
    BY <1>3, <2>1, <2>2, <2>6 DEF SlotIsRight
<1>7. Tracks(qs, tt)
  <2>1. ASSUME NEW e \in Nat, NEW c \in Nat PROVE SlotIsRight(qs, tt, e, c)
    BY <1>5, <1>6
  <2>. QED
    BY <2>1 DEF Tracks
<1>. QED
  BY <1>7 DEF tt, s, n

\* One slot goes on to a place, and every slot stays with its window.
GoesOn(ss, tt, i, x) ==
  /\ DOMAIN tt = DOMAIN ss /\ \A j \in DOMAIN ss \ {i} : tt[j] = ss[j]
  /\ tt[i] \in Slot
  /\ tt[i].driver = ss[i].driver /\ tt[i].beginning = ss[i].beginning
  /\ tt[i].last = x
  /\ tt[i].distance = ss[i].distance + DistanceTo(ss[i].last, x)
  /\ \A d, b : Mine(tt, d, b) = Mine(ss, d, b)

LEMMA ExtendedFacts ==
  ASSUME NEW ss, NEW i \in DOMAIN ss, ss[i] \in Slot, NEW x \in Places
  PROVE  GoesOn(ss, [ss EXCEPT ![i] = ExtendedTo(ss[i], x)], i, x)
<1>. DEFINE tt == [ss EXCEPT ![i] = ExtendedTo(ss[i], x)]
<1>1. /\ DOMAIN tt = DOMAIN ss /\ \A j \in DOMAIN ss \ {i} : tt[j] = ss[j]
      /\ tt[i] = ExtendedTo(ss[i], x)
  OBVIOUS
<1>2. DistanceTo(ss[i].last, x) \in Nat
  BY DistanceType DEF Slot
<1>. HIDE DEF tt
<1>. DEFINE more == DistanceTo(ss[i].last, x)
<1>3. /\ tt[i] \in Slot
      /\ tt[i].driver = ss[i].driver /\ tt[i].beginning = ss[i].beginning
      /\ tt[i].last = x
      /\ tt[i].distance = ss[i].distance + more
  <2>. HIDE DEF more
  <2>1. ss[i].distance + more \in Nat
    BY <1>2 DEF Slot, more
  <2>2. tt[i] = [driver |-> ss[i].driver, beginning |-> ss[i].beginning,
                 last |-> x, distance |-> ss[i].distance + more]
    BY <1>1 DEF ExtendedTo, Slot, more
  <2>. QED
    BY <2>1, <2>2 DEF Slot
<1>4. ASSUME NEW d, NEW b PROVE Mine(tt, d, b) = Mine(ss, d, b)
  <2>1. \A j \in DOMAIN ss : tt[j].driver = ss[j].driver
                             /\ tt[j].beginning = ss[j].beginning
    BY <1>1, <1>3
  <2>. QED
    BY <1>1, <2>1 DEF Mine
<1>5. GoesOn(ss, tt, i, x)
  BY <1>1, <1>3, <1>4 DEF GoesOn
<1>. QED
  BY <1>5 DEF tt

\* A position in a window that has a slot extends it.
LEMMA PositionOfSameWindow ==
  ASSUME NEW ps \in PositionList, NEW p \in Position, NEW ss, Tracks(ps, ss),
         NEW i \in DOMAIN ss, ss[i] \in Slot,
         ss[i].driver = p.driver, ss[i].beginning = Beginning(p.seenAt),
         IsLatest(ps, p.driver, Beginning(p.seenAt)),
         NEW tt, tt = [ss EXCEPT ![i] = ExtendedTo(ss[i], p.place)]
  PROVE  Tracks(Append(ps, p), tt)
<1>. DEFINE d == p.driver
            b == Beginning(p.seenAt)
            qs == Append(ps, p)
            n == Len(ps)
            S == Seen(ps, d, b)
<1>1. d \in Nat /\ b \in Nat /\ p.place \in Places
  BY BeginningFacts DEF Position, Times
<1>2. /\ DOMAIN tt = DOMAIN ss /\ \A j \in DOMAIN ss \ {i} : tt[j] = ss[j]
      /\ tt[i].last = p.place
      /\ tt[i].distance = ss[i].distance + DistanceTo(ss[i].last, p.place)
      /\ \A e, c : Mine(tt, e, c) = Mine(ss, e, c)
  <2>1. GoesOn(ss, tt, i, p.place)
    BY <1>1, ExtendedFacts
  <2>. QED
    BY <2>1 DEF GoesOn
<1>3. ASSUME NEW e \in Nat, NEW c \in Nat, ~(e = d /\ c = b)
      PROVE  SlotIsRight(qs, tt, e, c)
  <2>1. SlotIsRight(ps, ss, e, c)
    BY DEF Tracks
  <2>2. SlotIsRight(qs, ss, e, c)
    BY <1>3, <2>1, PositionElsewhere
  <2>3. \A j \in Mine(ss, e, c) : tt[j] = ss[j]
    BY <1>2, <1>3 DEF Mine
  <2>4. Mine(tt, e, c) = Mine(ss, e, c)
    BY <1>2
  <2>. HIDE DEF qs
  <2>. QED
    BY <2>2, <2>3, <2>4, SlotsElsewhere
<1>4. /\ n \in Nat /\ S \in SUBSET (1 .. n)
      /\ \A j \in 1 .. n : qs[j] = ps[j]
      /\ qs[n + 1] = p
      /\ Seen(qs, d, b) = S \union {n + 1}
      /\ HasPlaces(ps, S)
  BY SeenFacts, SeenAfter, SeenHasPlaces
<1>5. S # {} /\ Mine(ss, d, b) = {i} /\ Tells(ps, ss[i], d, b)
  <2>1. SlotIsRight(ps, ss, d, b)
    BY <1>1 DEF Tracks
  <2>2. i \in Mine(ss, d, b)
    BY DEF Mine
  <2>. QED
    BY <2>1, <2>2 DEF SlotIsRight
<1>6. Out(ps, d, b) = 0
  <2>1. Window \in Nat /\ b + Window \in Nat /\ b + Window > b
    BY <1>1, TrackingAssumption
  <2>2. Seen(ps, d, b + Window) = {}
    BY <2>1 DEF IsLatest
  <2>. QED
    BY <2>2, NoWayOut
<1>7. ss[i].distance = Within(ps, S) /\ ss[i].last = ps[Max(S)].place
  <2>1. Within(ps, S) \in Nat
    <3>. HIDE DEF S
    <3>. QED
      BY <1>4, WithinSame
  <2>2. Within(ps, S) + 0 = Within(ps, S)
    BY <2>1
  <2>. QED
    BY <1>5, <1>6, <2>2 DEF Tells
<1>8. Within(qs, S \union {n + 1}) = tt[i].distance
  <2>1. Within(qs, S \union {n + 1}) = Within(ps, S) + DistanceTo(ps[Max(S)].place, p.place)
    <3>1. \A j \in S : qs[j] = ps[j]
      BY <1>4
    <3>. HIDE DEF S, n, qs
    <3>. QED
      BY <1>1, <1>4, <1>5, <3>1, WithinNext
  <2>. QED
    BY <1>2, <1>7, <2>1
<1>9. Max(S \union {n + 1}) = n + 1
  <2>. HIDE DEF S, n
  <2>1. \A j \in S \union {n + 1} : n + 1 >= j
    BY <1>4
  <2>2. \A m \in S \union {n + 1} : m >= n + 1 => m = n + 1
    BY <1>4
  <2>. QED
    BY <2>1, <2>2 DEF Max
<1>10. SlotIsRight(qs, tt, d, b)
  <2>1. Tells(qs, tt[i], d, b)
    BY <1>2, <1>4, <1>8, <1>9 DEF Tells
  <2>2. Mine(tt, d, b) = {i} /\ i \in DOMAIN tt /\ Seen(qs, d, b) # {}
    BY <1>2, <1>4, <1>5
  <2>. HIDE DEF qs, d, b
  <2>. QED
    BY <2>1, <2>2 DEF SlotIsRight
<1>11. ASSUME NEW e \in Nat, NEW c \in Nat PROVE SlotIsRight(qs, tt, e, c)
  BY <1>3, <1>10
<1>. QED
  BY <1>11 DEF Tracks

\* A position at the border extends the slot of the window that ends there.
LEMMA PositionAtBorder ==
  ASSUME NEW ps \in PositionList, NEW p \in Position, NEW ss, Tracks(ps, ss),
         NEW i \in DOMAIN ss, ss[i] \in Slot,
         ss[i].driver = p.driver, ss[i].beginning + Window = Beginning(p.seenAt),
         p.seenAt = Beginning(p.seenAt),
         Mine(ss, p.driver, Beginning(p.seenAt)) = {},
         IsLatest(ps, p.driver, ss[i].beginning),
         NEW tt, tt = [ss EXCEPT ![i] = ExtendedTo(ss[i], p.place)]
  PROVE  TracksBut(Append(ps, p), tt, p.driver, Beginning(p.seenAt))
<1>. DEFINE d == p.driver
            b == Beginning(p.seenAt)
            a == ss[i].beginning
            qs == Append(ps, p)
            n == Len(ps)
            S == Seen(ps, d, a)
<1>1. /\ d \in Nat /\ b \in Nat /\ p.place \in Places /\ a \in Nat
      /\ Window \in Nat \ {0} /\ a # b /\ b > a
  BY BeginningFacts, TrackingAssumption DEF Position, Times, Slot
<1>2. /\ DOMAIN tt = DOMAIN ss /\ \A j \in DOMAIN ss \ {i} : tt[j] = ss[j]
      /\ tt[i].last = p.place
      /\ tt[i].distance = ss[i].distance + DistanceTo(ss[i].last, p.place)
      /\ \A e, c : Mine(tt, e, c) = Mine(ss, e, c)
  <2>1. GoesOn(ss, tt, i, p.place)
    BY <1>1, ExtendedFacts
  <2>. QED
    BY <2>1 DEF GoesOn
<1>3. ASSUME NEW e \in Nat, NEW c \in Nat, ~(e = d /\ c = b), ~(e = d /\ c = a)
      PROVE  SlotIsRight(qs, tt, e, c)
  <2>1. SlotIsRight(ps, ss, e, c)
    BY DEF Tracks
  <2>2. SlotIsRight(qs, ss, e, c)
    BY <1>3, <2>1, PositionElsewhere
  <2>3. \A j \in Mine(ss, e, c) : tt[j] = ss[j]
    BY <1>2, <1>3 DEF Mine
  <2>4. Mine(tt, e, c) = Mine(ss, e, c)
    BY <1>2
  <2>. HIDE DEF qs
  <2>. QED
    BY <2>2, <2>3, <2>4, SlotsElsewhere
<1>4. /\ n \in Nat /\ S \in SUBSET (1 .. n)
      /\ \A j \in 1 .. n : qs[j] = ps[j]
      /\ Seen(qs, d, a) = S
      /\ n + 1 \in Seen(qs, d, b)
      /\ HasPlaces(ps, S)
  BY <1>1, SeenFacts, SeenAfter, SeenHasPlaces
<1>5. S # {} /\ Mine(ss, d, a) = {i} /\ Tells(ps, ss[i], d, a)
  <2>1. SlotIsRight(ps, ss, d, a)
    BY <1>1 DEF Tracks
  <2>2. i \in Mine(ss, d, a)
    BY DEF Mine
  <2>. QED
    BY <2>1, <2>2 DEF SlotIsRight
<1>6. Seen(ps, d, b) = {} /\ Out(ps, d, a) = 0
  <2>1. Seen(ps, d, b) = {}
    BY <1>1 DEF IsLatest
  <2>. QED
    BY <2>1, NoWayOut
<1>7. /\ Within(ps, S) \in Nat /\ Within(qs, S) = Within(ps, S)
      /\ ss[i].distance = Within(ps, S) /\ ss[i].last = ps[Max(S)].place
  <2>1. Within(ps, S) \in Nat /\ Within(qs, S) = Within(ps, S)
    <3>1. \A j \in S : qs[j] = ps[j]
      BY <1>4
    <3>. HIDE DEF S, qs
    <3>. QED
      BY <1>4, <3>1, WithinSame
  <2>2. Within(ps, S) + 0 = Within(ps, S)
    BY <2>1
  <2>. QED
    BY <1>5, <1>6, <2>1, <2>2 DEF Tells
<1>8. Out(qs, d, a) = DistanceTo(ps[Max(S)].place, p.place)
  <2>1. p.seenAt = a + Window /\ Beginning(p.seenAt) = a + Window
    OBVIOUS
  <2>2. Seen(ps, p.driver, a) # {} /\ Seen(ps, p.driver, a + Window) = {}
    BY <1>5, <1>6
  <2>. HIDE DEF a
  <2>. QED
    BY <1>1, <2>1, <2>2, WayOut
<1>9. SlotIsRight(qs, tt, d, a)
  <2>1. ~IsLatest(qs, d, a)
    BY <1>1, <1>4 DEF IsLatest
  <2>2. tt[i].distance = Within(qs, S) + Out(qs, d, a)
    BY <1>2, <1>7, <1>8
  <2>. HIDE DEF qs, d, a
  <2>3. Tells(qs, tt[i], d, a)
    BY <1>4, <2>1, <2>2 DEF Tells
  <2>4. Mine(tt, d, a) = {i} /\ i \in DOMAIN tt /\ Seen(qs, d, a) # {}
    BY <1>2, <1>4, <1>5
  <2>. QED
    BY <2>3, <2>4 DEF SlotIsRight
<1>10. ASSUME NEW e \in Nat, NEW c \in Nat, ~(e = d /\ c = b)
       PROVE  SlotIsRight(qs, tt, e, c)
  BY <1>3, <1>9, <1>10
<1>11. Mine(tt, d, b) = {}
  BY <1>2
<1>. QED
  BY <1>10, <1>11 DEF TracksBut

-----------------------------------------------------------------------------
(* The types of positions, slots and what calls hold                        *)

HoldsSlot == {"recalculate", "compareSlot", "updateSlot"}

IsBeginning(b) == \E t \in Nat : b = Beginning(t)

\* A call holds the slot it is about to save, and the beginning of a window.
TrackOK(label, x) ==
  /\ label \in HoldsSlot => x.slot \in DOMAIN slots
  /\ IsBeginning(x.beginning)

TrackTypes ==
  /\ orderly \in BOOLEAN
  /\ now \in Times
  /\ positions \in PositionList
  /\ slots \in SlotList
  /\ track \in [Calls -> HeldTrack]
  /\ \A r \in Calls : TrackOK(pc[r], track[r])
  /\ \A i \in DOMAIN slots : IsBeginning(slots[i].beginning)

LEMMA SlotFacts ==
  ASSUME TrackTypes
  PROVE  /\ DOMAIN slots = 1 .. Len(slots) /\ Len(slots) \in Nat
         /\ \A i \in DOMAIN slots : slots[i] \in Slot
<1>1. DOMAIN slots = 1 .. Len(slots) /\ Len(slots) \in Nat
  BY LenProperties DEF TrackTypes, SlotList
<1>2. \A i \in DOMAIN slots : slots[i] \in Slot
  BY <1>1, ElementOfSeq DEF TrackTypes, SlotList
<1>. QED
  BY <1>1, <1>2

LEMMA TrackFacts ==
  ASSUME IInv, TrackTypes, NEW r \in Calls
  PROVE  /\ track[r] \in HeldTrack /\ TrackOK(pc[r], track[r])
         /\ track[r].driver \in Nat /\ track[r].place \in Places
         /\ track[r].copy \in Slot /\ track[r].seen \in Slot
         /\ track[r].beginning \in Nat /\ track[r].creates \in BOOLEAN
         /\ track[r].seenAt \in Times /\ track[r].seenAt \in Nat
<1>1. track[r] \in HeldTrack /\ TrackOK(pc[r], track[r])
  BY DEF TrackTypes
<1>2. DOMAIN drivers = 1 .. Len(drivers)
  BY LenProperties DEF IInv, DriversTypeOK
<1>. QED
  BY <1>1, <1>2 DEF HeldTrack, Times

LEMMA NoTrackFacts ==
  ASSUME IInv, TrackTypes
  PROVE  /\ NoTrack \in HeldTrack /\ ~NoTrack.creates
         /\ \A label : label \notin HoldsSlot => TrackOK(label, NoTrack)
<1>1. SomePlace \in Places
  BY TrackingAssumption DEF SomePlace
<1>2. NoSlot \in Slot
  BY <1>1 DEF NoSlot, NewSlot, Slot
<1>3. now \in Times /\ 0 \in Times
  BY TrackingAssumption DEF Times, TrackTypes
<1>4. NoTrack \in HeldTrack
  BY <1>1, <1>2, <1>3 DEF NoTrack, HeldTrack
<1>5. Beginning(0) = 0
  <2>1. Beginning(0) \in Nat /\ Beginning(0) <= 0
    BY BeginningFacts
  <2>. QED
    BY <2>1
<1>6. IsBeginning(NoTrack.beginning)
  BY <1>5 DEF NoTrack, IsBeginning
<1>. QED
  BY <1>4, <1>6 DEF TrackOK, NoTrack

\* What call r has to show of a step: the other calls wait.
LEMMA TrackStepOf ==
  ASSUME IInv, TrackTypes, NEW r \in Calls, NEW label, NEW x,
         pc' = [pc EXCEPT ![r] = label], track' = [track EXCEPT ![r] = x],
         DOMAIN drivers \subseteq DOMAIN drivers', DOMAIN slots \subseteq DOMAIN slots',
         now' = now, orderly' \in BOOLEAN,
         (positions \in PositionList)', (slots \in SlotList)',
         (x \in HeldTrack)', TrackOK(label, x)',
         \A i \in DOMAIN slots' : IsBeginning(slots'[i].beginning)
  PROVE  TrackTypes'
<1>1. ASSUME NEW y, y \in HeldTrack PROVE (y \in HeldTrack)'
  BY <1>1 DEF HeldTrack
<1>2. track' \in [Calls -> HeldTrack']
  BY <1>1 DEF TrackTypes
<1>3. ASSUME NEW q \in Calls PROVE TrackOK(pc[q], track[q])'
  <2>1. CASE q = r
    <3>1. pc'[q] = label /\ track'[q] = x
      BY <2>1 DEF TrackTypes, IInv, DriversTypeOK
    <3>. QED
      BY <3>1 DEF TrackOK
  <2>2. CASE q # r
    <3>1. pc'[q] = pc[q] /\ track'[q] = track[q] /\ TrackOK(pc[q], track[q])
      BY <2>2 DEF TrackTypes, IInv, DriversTypeOK
    <3>. QED
      BY <3>1 DEF TrackOK
  <2>. QED
    BY <2>1, <2>2
<1>4. (now \in Times)'
  BY DEF TrackTypes, Times
<1>. QED
  BY <1>2, <1>3, <1>4 DEF TrackTypes

\* Steps that leave drivers, positions and slots alone.
LEMMA TrackLocalStep ==
  ASSUME IInv, TrackTypes, NEW r \in Calls, NEW label, NEW x,
         pc' = [pc EXCEPT ![r] = label], track' = [track EXCEPT ![r] = x],
         UNCHANGED <<drivers, positions, slots, now>>, orderly' \in BOOLEAN,
         x \in HeldTrack, TrackOK(label, x)
  PROVE  TrackTypes'
<1>1. (positions \in PositionList)' /\ (slots \in SlotList)'
  BY DEF TrackTypes
<1>2. (x \in HeldTrack)'
  BY DEF HeldTrack
<1>3. TrackOK(label, x)'
  BY DEF TrackOK
<1>4. \A i \in DOMAIN slots' : IsBeginning(slots'[i].beginning)
  BY DEF TrackTypes
<1>5. DOMAIN drivers \subseteq DOMAIN drivers' /\ DOMAIN slots \subseteq DOMAIN slots'
  OBVIOUS
<1>. QED
  BY <1>1, <1>2, <1>3, <1>4, <1>5, TrackStepOf

\* A call of the driver service.
LEMMA DriverStepFacts ==
  ASSUME IInv, NEW r \in Calls, DriverStep(r)
  PROVE  /\ \E label \in DriverLabels \ {"idle"} : Goto(r, label)
         /\ DOMAIN drivers \subseteq DOMAIN drivers'
         /\ \/ pc[r] = "idle" /\ orderly' = (orderly /\ Quiet)
            \/ /\ pc[r] \in DriverLabels \ {"idle", "answered"}
               /\ orderly' = orderly
<1>1. CASE CreateDriver(r)
  <2>1. PICK e : drivers' = Append(drivers, e)
    BY <1>1 DEF CreateDriver
  <2>2. DOMAIN drivers = 1 .. Len(drivers) /\ Len(drivers) \in Nat
        /\ DOMAIN drivers' = 1 .. Len(drivers) + 1
    BY <2>1, LenProperties DEF IInv, DriversTypeOK
  <2>3. DOMAIN drivers \subseteq DOMAIN drivers'
    BY <2>2
  <2>. QED
    BY <1>1, <2>3 DEF CreateDriver, CanBegin, DriverLabels
<1>2. CASE BeginOnDriver(r)
  BY <1>2 DEF BeginOnDriver, CanBegin, DriverLabels
<1>3. CASE LoadDriver(r)
  BY <1>3 DEF LoadDriver, SaveOf, DriverLabels
<1>4. CASE OverwriteDriver(r)
  BY <1>4 DEF OverwriteDriver, DriverLabels
<1>5. CASE CompareDriver(r)
  BY <1>5 DEF CompareDriver, DriverLabels
<1>6. CASE UpdateDriver(r)
  BY <1>6 DEF UpdateDriver, DriverLabels
<1>. QED
  BY <1>1, <1>2, <1>3, <1>4, <1>5, <1>6 DEF DriverStep

LEMMA TypesDriverStep ==
  ASSUME IInv, TrackTypes, NEW r \in Calls, DriverStep(r), UNCHANGED <<now, trackingVars>>
  PROVE  TrackTypes'
<1>1. PICK label \in DriverLabels \ {"idle"} : Goto(r, label)
  BY DriverStepFacts
<1>2. track[r] \in HeldTrack /\ TrackOK(pc[r], track[r])
  BY TrackFacts
<1>3. TrackOK(label, track[r])
  BY <1>2 DEF TrackOK, HoldsSlot, DriverLabels
<1>4. DOMAIN drivers \subseteq DOMAIN drivers' /\ DOMAIN slots \subseteq DOMAIN slots'
  BY DriverStepFacts DEF trackingVars
<1>5. orderly' \in BOOLEAN
  <2>1. (orderly /\ Quiet) \in BOOLEAN
    BY Zenon
  <2>2. orderly' = (orderly /\ Quiet) \/ orderly' = orderly
    BY DriverStepFacts, Zenon
  <2>3. orderly \in BOOLEAN
    BY DEF TrackTypes
  <2>. QED
    BY <2>1, <2>2, <2>3, Zenon
<1>6. pc' = [pc EXCEPT ![r] = label] /\ track' = [track EXCEPT ![r] = track[r]]
  BY <1>1 DEF Goto, trackingVars, TrackTypes
<1>7. (positions \in PositionList)' /\ (slots \in SlotList)' /\ now' = now
  BY DEF TrackTypes, trackingVars
<1>8. (track[r] \in HeldTrack)' /\ TrackOK(label, track[r])' /\ track'[r] = track[r]
  BY <1>2, <1>3, <1>4 DEF HeldTrack, TrackOK, trackingVars
<1>9. \A i \in DOMAIN slots' : IsBeginning(slots'[i].beginning)
  BY DEF TrackTypes, trackingVars
<1>. DEFINE x == track[r]
<1>10. (x \in HeldTrack)' /\ TrackOK(label, x)'
  BY <1>8
<1>. QED
  BY <1>2, <1>3, <1>4, <1>5, <1>6, <1>7, <1>8, <1>9, TrackStepOf

\* What the slots of a window amount to.
LEMMA RecalculatedType ==
  ASSUME TrackTypes, NEW s
  PROVE  Recalculated(s) \in Nat
<1>. DEFINE f == [i \in DOMAIN slots |-> slots[i].distance]
            T == {i \in DOMAIN slots : slots[i].driver = s.driver /\
                                       slots[i].beginning = s.beginning}
<1>1. IsFiniteSet(T)
  <2>1. IsFiniteSet(1 .. Len(slots))
    BY SlotFacts, FS_Interval
  <2>2. T \in SUBSET (1 .. Len(slots))
    BY SlotFacts
  <2>. HIDE DEF T
  <2>. QED
    BY <2>1, <2>2, FS_Subset
<1>2. \A i \in T : f[i] \in Nat
  BY SlotFacts DEF Slot
<1>3. Recalculated(s) = SumFunctionOnSet(f, T)
  BY DEF Recalculated
<1>. HIDE DEF f, T
<1>. QED
  BY <1>1, <1>2, <1>3, SumType

LEMMA ExtendedType ==
  ASSUME NEW s \in Slot, NEW x \in Places
  PROVE  ExtendedTo(s, x) \in Slot /\ ExtendedTo(s, x).beginning = s.beginning
<1>. DEFINE more == DistanceTo(s.last, x)
<1>1. s.distance + more \in Nat
  BY DistanceType DEF Slot
<1>2. ExtendedTo(s, x) = [s EXCEPT !.distance = s.distance + more, !.last = x]
  BY DEF ExtendedTo, Slot
<1>. HIDE DEF more
<1>3. ExtendedTo(s, x) = [driver |-> s.driver, beginning |-> s.beginning, last |-> x,
                          distance |-> s.distance + more]
  BY <1>2 DEF Slot
<1>. QED
  BY <1>1, <1>3 DEF Slot

LEMMA TypesBeginPosition ==
  ASSUME IInv, TrackTypes, NEW r \in Calls, BeginPosition(r), now' = now
  PROVE  TrackTypes'
<1>1. PICK d \in DOMAIN drivers, p \in Places, t \in Times :
        /\ Track(r, [NoTrack EXCEPT !.driver = d, !.place = p, !.seenAt = t])
        /\ orderly' = (orderly /\ Quiet /\ t = now)
  BY DEF BeginPosition
<1>. DEFINE x == [NoTrack EXCEPT !.driver = d, !.place = p, !.seenAt = t]
<1>2. x \in HeldTrack /\ TrackOK("check", x)
  BY NoTrackFacts DEF HeldTrack, TrackOK, HoldsSlot
<1>3. orderly' \in BOOLEAN
  <2>1. (orderly /\ Quiet /\ t = now) \in BOOLEAN
    BY Zenon
  <2>. QED
    BY <1>1, <2>1, Zenon
<1>4. /\ pc' = [pc EXCEPT ![r] = "check"] /\ track' = [track EXCEPT ![r] = x]
      /\ UNCHANGED <<drivers, positions, slots, now>>
  BY <1>1 DEF BeginPosition, Goto, Track, driverVars
<1>. HIDE DEF x
<1>. QED
  BY <1>2, <1>3, <1>4, TrackLocalStep

\* A call that ends, or goes on with what it has, with no row written.
LEMMA TypesPass ==
  ASSUME IInv, TrackTypes, NEW r \in Calls, NEW label,
         label \notin HoldsSlot,
         Goto(r, label), UNCHANGED track \/ Track(r, NoTrack),
         UNCHANGED <<drivers, positions, slots, now, orderly>>
  PROVE  TrackTypes'
<1>1. orderly' \in BOOLEAN
  BY DEF TrackTypes
<1>2. CASE UNCHANGED track
  <2>1. track[r] \in HeldTrack /\ TrackOK(label, track[r])
    BY TrackFacts DEF TrackOK
  <2>2. pc' = [pc EXCEPT ![r] = label] /\ track' = [track EXCEPT ![r] = track[r]]
    BY <1>2 DEF Goto, TrackTypes
  <2>. QED
    BY <1>1, <2>1, <2>2, TrackLocalStep
<1>3. CASE Track(r, NoTrack)
  <2>1. NoTrack \in HeldTrack /\ TrackOK(label, NoTrack)
    BY NoTrackFacts
  <2>2. pc' = [pc EXCEPT ![r] = label] /\ track' = [track EXCEPT ![r] = NoTrack]
    BY <1>3 DEF Goto, Track
  <2>. QED
    BY <1>1, <2>1, <2>2, TrackLocalStep
<1>. QED
  BY <1>2, <1>3

LEMMA TypesCheckDriver ==
  ASSUME IInv, TrackTypes, NEW r \in Calls, CheckDriver(r), now' = now
  PROVE  TrackTypes'
<1>1. /\ "answered" \notin HoldsSlot /\ "insertPosition" \notin HoldsSlot
      /\ UNCHANGED <<drivers, positions, slots, now, orderly>>
  BY DEF CheckDriver, HoldsSlot, driverVars
<1>2. CASE Goto(r, "insertPosition") /\ UNCHANGED track
  BY <1>1, <1>2, TypesPass
<1>3. CASE Leave(r)
  BY <1>1, <1>3, TypesPass DEF Leave
<1>. QED
  BY <1>2, <1>3 DEF CheckDriver

\* The row of a position.
Registered(x) == [driver |-> x.driver, place |-> x.place, seenAt |-> x.seenAt]

LEMMA RegisteredType ==
  ASSUME IInv, TrackTypes, NEW r \in Calls
  PROVE  Registered(track[r]) \in Position
BY TrackFacts DEF Registered, Position

LEMMA TypesInsertPosition ==
  ASSUME IInv, TrackTypes, NEW r \in Calls, InsertPosition(r), now' = now
  PROVE  TrackTypes'
<1>. PICK x : x = track[r]
  OBVIOUS
<1>1. positions' = Append(positions, Registered(x))
  BY DEF InsertPosition, Registered
<1>2. (positions \in PositionList)'
  BY <1>1, RegisteredType, AppendProperties DEF TrackTypes, PositionList
<1>3. x \in HeldTrack /\ TrackOK("match", x)
  BY TrackFacts DEF TrackOK, HoldsSlot
<1>4. /\ pc' = [pc EXCEPT ![r] = "match"] /\ track' = [track EXCEPT ![r] = x]
      /\ UNCHANGED <<drivers, slots, now, orderly>>
  BY DEF InsertPosition, Goto, driverVars, TrackTypes
<1>5. /\ (x \in HeldTrack)' /\ TrackOK("match", x)' /\ (slots \in SlotList)'
      /\ orderly' \in BOOLEAN
      /\ \A i \in DOMAIN slots' : IsBeginning(slots'[i].beginning)
  BY <1>3, <1>4 DEF HeldTrack, TrackOK, TrackTypes
<1>. QED
  BY <1>2, <1>4, <1>5, TrackStepOf

\* A call that goes on with another copy.
LEMMA TypesHold ==
  ASSUME IInv, TrackTypes, NEW r \in Calls, NEW label, NEW x,
         Goto(r, label), Track(r, x), x \in HeldTrack, TrackOK(label, x),
         UNCHANGED <<drivers, positions, slots, now, orderly>>
  PROVE  TrackTypes'
BY TrackLocalStep DEF Goto, Track, TrackTypes

LEMMA TypesMatchSlot ==
  ASSUME IInv, TrackTypes, NEW r \in Calls, MatchSlot(r), now' = now
  PROVE  TrackTypes'
<1>. PICK x : x = track[r]
  OBVIOUS
<1>. DEFINE found == Matching(x.driver, x.seenAt)
<1>1. x \in HeldTrack /\ IsBeginning(x.beginning) /\ x.place \in Places
  BY TrackFacts DEF TrackOK
<1>2. UNCHANGED <<drivers, positions, slots, now, orderly>>
  BY DEF MatchSlot, driverVars
<1>3. ASSUME NEW i \in found
      PROVE  i \in DOMAIN slots /\ slots[i] \in Slot /\ ExtendedTo(slots[i], x.place) \in Slot
  BY <1>1, SlotFacts, ExtendedType DEF Matching
<1>4. CASE \E i \in found :
             /\ Track(r, [x EXCEPT !.slot = i, !.copy = ExtendedTo(slots[i], x.place)])
             /\ Goto(r, "compareSlot")
  <2>1. PICK i \in found :
             /\ Track(r, [x EXCEPT !.slot = i, !.copy = ExtendedTo(slots[i], x.place)])
             /\ Goto(r, "compareSlot")
    BY <1>4
  <2>. PICK c : c = ExtendedTo(slots[i], x.place)
    OBVIOUS
  <2>. DEFINE y == [x EXCEPT !.slot = i, !.copy = c]
  <2>2. i \in DOMAIN slots /\ c \in Slot
    BY <1>3
  <2>3. y \in HeldTrack /\ TrackOK("compareSlot", y)
    BY <1>1, <2>2 DEF HeldTrack, TrackOK
  <2>4. Track(r, y) /\ Goto(r, "compareSlot")
    BY <2>1
  <2>. HIDE DEF y
  <2>. QED
    BY <1>2, <2>3, <2>4, TypesHold
<1>5. CASE \E i \in found :
             /\ Track(r, [x EXCEPT !.slot = i, !.copy = slots[i]])
             /\ Goto(r, "recalculate")
  <2>1. PICK i \in found :
             /\ Track(r, [x EXCEPT !.slot = i, !.copy = slots[i]])
             /\ Goto(r, "recalculate")
    BY <1>5
  <2>. DEFINE y == [x EXCEPT !.slot = i, !.copy = slots[i]]
  <2>2. i \in DOMAIN slots /\ slots[i] \in Slot
    BY <1>3
  <2>3. y \in HeldTrack /\ TrackOK("recalculate", y)
    BY <1>1, <2>2 DEF HeldTrack, TrackOK
  <2>4. Track(r, y) /\ Goto(r, "recalculate")
    BY <2>1
  <2>. HIDE DEF y
  <2>. QED
    BY <1>2, <2>3, <2>4, TypesHold
<1>6. CASE Leave(r)
  BY <1>2, <1>6, TypesPass DEF Leave, HoldsSlot
<1>7. CASE /\ Track(r, [x EXCEPT !.beginning = Beginning(now), !.creates = TRUE])
           /\ Goto(r, "precede")
  <2>. DEFINE y == [x EXCEPT !.beginning = Beginning(now), !.creates = TRUE]
  <2>1. now \in Nat /\ Beginning(now) \in Nat
    BY BeginningFacts DEF TrackTypes, Times
  <2>2. y \in HeldTrack /\ y.beginning = Beginning(now)
    BY <1>1, <2>1 DEF HeldTrack
  <2>3. TrackOK("precede", y)
    BY <2>1, <2>2 DEF TrackOK, HoldsSlot, IsBeginning
  <2>. HIDE DEF y
  <2>. QED
    BY <1>2, <1>7, <2>2, <2>3, TypesHold DEF y
<1>. QED
  BY <1>4, <1>5, <1>6, <1>7 DEF MatchSlot

LEMMA TypesRecalculate ==
  ASSUME IInv, TrackTypes, NEW r \in Calls, Recalculate(r), now' = now
  PROVE  TrackTypes'
<1>. PICK x : x = track[r]
  OBVIOUS
<1>. PICK n : n = x.copy.distance + Recalculated(x.copy)
  OBVIOUS
<1>. DEFINE y == [x EXCEPT !.copy.distance = n, !.copy.last = x.place]
<1>1. x \in HeldTrack /\ TrackOK("recalculate", x)
  BY TrackFacts DEF Recalculate
<1>2. n \in Nat
  BY <1>1, RecalculatedType DEF HeldTrack, Slot
<1>3. y \in HeldTrack /\ TrackOK("compareSlot", y)
  BY <1>1, <1>2 DEF HeldTrack, Slot, TrackOK, HoldsSlot
<1>4. /\ Track(r, y) /\ Goto(r, "compareSlot")
      /\ UNCHANGED <<drivers, positions, slots, now, orderly>>
  BY DEF Recalculate, driverVars
<1>. HIDE DEF y
<1>. QED
  BY <1>3, <1>4, TypesHold

LEMMA TypesPrecedingSlot ==
  ASSUME IInv, TrackTypes, NEW r \in Calls, PrecedingSlot(r), now' = now
  PROVE  TrackTypes'
<1>. PICK x : x = track[r]
  OBVIOUS
<1>. DEFINE found == Preceding(x.driver, x.beginning)
<1>1. x \in HeldTrack /\ IsBeginning(x.beginning) /\ x.place \in Places
  BY TrackFacts DEF TrackOK
<1>2. UNCHANGED <<drivers, positions, slots, now, orderly>>
  BY DEF PrecedingSlot, driverVars
<1>3. CASE /\ \E i \in found :
                Track(r, [x EXCEPT !.slot = i, !.copy = ExtendedTo(slots[i], x.place)])
           /\ Goto(r, "compareSlot")
  <2>1. PICK i \in found :
          Track(r, [x EXCEPT !.slot = i, !.copy = ExtendedTo(slots[i], x.place)])
    BY <1>3
  <2>. PICK c : c = ExtendedTo(slots[i], x.place)
    OBVIOUS
  <2>. DEFINE y == [x EXCEPT !.slot = i, !.copy = c]
  <2>2. i \in DOMAIN slots /\ c \in Slot
    BY <1>1, SlotFacts, ExtendedType DEF Preceding
  <2>3. y \in HeldTrack /\ TrackOK("compareSlot", y)
    BY <1>1, <2>2 DEF HeldTrack, TrackOK
  <2>4. Track(r, y) /\ Goto(r, "compareSlot")
    BY <1>3, <2>1
  <2>. HIDE DEF y
  <2>. QED
    BY <1>2, <2>3, <2>4, TypesHold
<1>4. CASE Goto(r, "insertSlot") /\ UNCHANGED track
  BY <1>2, <1>4, TypesPass DEF HoldsSlot
<1>. QED
  BY <1>3, <1>4 DEF PrecedingSlot

LEMMA TypesCompareSlot ==
  ASSUME IInv, TrackTypes, NEW r \in Calls, CompareSlot(r), now' = now
  PROVE  TrackTypes'
<1>. PICK x : x = track[r]
  OBVIOUS
<1>. DEFINE y == [x EXCEPT !.seen = slots[x.slot]]
<1>1. x \in HeldTrack /\ TrackOK("compareSlot", x) /\ slots[x.slot] \in Slot
  BY TrackFacts, SlotFacts DEF CompareSlot, TrackOK, HoldsSlot
<1>2. y \in HeldTrack /\ TrackOK("updateSlot", y)
  BY <1>1 DEF HeldTrack, TrackOK, HoldsSlot
<1>3. /\ Track(r, y) /\ Goto(r, "updateSlot")
      /\ UNCHANGED <<drivers, positions, slots, now, orderly>>
  BY DEF CompareSlot, driverVars
<1>. HIDE DEF y
<1>. QED
  BY <1>2, <1>3, TypesHold

LEMMA SavedSlotType ==
  ASSUME NEW new \in Slot, NEW seen \in Slot, NEW current \in Slot
  PROVE  /\ SavedSlot(new, seen, current) \in Slot
         /\ SavedSlot(new, seen, current).beginning = current.beginning
BY DEF SavedSlot, Written, Slot

\* The slots after a save, and what calls then hold.
LEMMA TypesUpdateSlot ==
  ASSUME IInv, TrackTypes, NEW r \in Calls, UpdateSlot(r), now' = now
  PROVE  TrackTypes'
<1>. PICK x : x = track[r]
  OBVIOUS
<1>1. x \in HeldTrack /\ x.slot \in DOMAIN slots /\ IsBeginning(x.beginning)
  BY TrackFacts DEF UpdateSlot, TrackOK, HoldsSlot
<1>. PICK row : row = SavedSlot(x.copy, x.seen, slots[x.slot])
  OBVIOUS
<1>2. row \in Slot /\ row.beginning = slots[x.slot].beginning
  BY <1>1, SlotFacts, SavedSlotType DEF HeldTrack
<1>3. /\ slots' = [slots EXCEPT ![x.slot] = row]
      /\ UNCHANGED <<drivers, positions, now, orderly>>
  BY DEF UpdateSlot, driverVars
<1>4. slots' \in SlotList /\ DOMAIN slots' = DOMAIN slots
  BY <1>1, <1>2, <1>3, ExceptSeq DEF SlotList, TrackTypes
<1>5. \A i \in DOMAIN slots' : IsBeginning(slots'[i].beginning)
  BY <1>1, <1>2, <1>3, <1>4 DEF TrackTypes
<1>6. /\ DOMAIN drivers \subseteq DOMAIN drivers'
      /\ DOMAIN slots \subseteq DOMAIN slots'
      /\ orderly' \in BOOLEAN /\ positions' \in PositionList
  BY <1>3, <1>4 DEF TrackTypes
<1>7. ASSUME NEW label, NEW y \in HeldTrack, IsBeginning(y.beginning),
             label \notin HoldsSlot, Goto(r, label), track' = [track EXCEPT ![r] = y]
      PROVE  TrackTypes'
  <2>1. (y \in HeldTrack)' /\ TrackOK(label, y)'
    BY <1>3, <1>4, <1>7 DEF HeldTrack, TrackOK
  <2>. QED
    BY <1>3, <1>4, <1>5, <1>6, <1>7, <2>1, TrackStepOf DEF Goto
<1>8. CASE Goto(r, "insertSlot") /\ UNCHANGED track
  <2>1. track' = [track EXCEPT ![r] = x] /\ "insertSlot" \notin HoldsSlot
    BY <1>8 DEF TrackTypes, HoldsSlot
  <2>. QED
    BY <1>1, <1>7, <1>8, <2>1
<1>9. CASE Leave(r)
  <2>1. /\ NoTrack \in HeldTrack /\ IsBeginning(NoTrack.beginning)
        /\ "answered" \notin HoldsSlot
    BY NoTrackFacts DEF TrackOK, HoldsSlot
  <2>. QED
    BY <1>7, <1>9, <2>1 DEF Leave, Track
<1>. QED
  BY <1>8, <1>9 DEF UpdateSlot

LEMMA TypesInsertSlot ==
  ASSUME IInv, TrackTypes, NEW r \in Calls, InsertSlot(r), now' = now
  PROVE  TrackTypes'
<1>. PICK x : x = track[r]
  OBVIOUS
<1>. PICK s : s = NewSlot(x.driver, x.beginning, x.place)
  OBVIOUS
<1>1. /\ s \in Slot /\ IsBeginning(s.beginning)
      /\ UNCHANGED <<drivers, positions, now, orderly>>
      /\ slots' = Append(slots, s) /\ Leave(r)
  BY TrackFacts DEF InsertSlot, driverVars, NewSlot, Slot, TrackOK
<1>2. /\ slots' \in SlotList
      /\ Len(slots) \in Nat
      /\ DOMAIN slots = 1 .. Len(slots) /\ DOMAIN slots' = 1 .. Len(slots) + 1
      /\ \A i \in DOMAIN slots : slots'[i] = slots[i]
      /\ slots'[Len(slots) + 1] = s
  BY <1>1, AppendProperties, LenProperties DEF TrackTypes, SlotList
<1>3. DOMAIN slots \subseteq DOMAIN slots'
  BY <1>2
<1>4. ASSUME NEW i \in DOMAIN slots' PROVE IsBeginning(slots'[i].beginning)
  <2>1. i \in DOMAIN slots \/ i = Len(slots) + 1
    BY <1>2
  <2>. QED
    BY <1>1, <1>2, <2>1 DEF TrackTypes
<1>5. /\ (NoTrack \in HeldTrack)' /\ TrackOK("answered", NoTrack)'
  <2>1. NoTrack \in HeldTrack /\ TrackOK("answered", NoTrack)
    BY NoTrackFacts DEF HoldsSlot
  <2>. QED
    BY <1>1, <1>3, <2>1 DEF HeldTrack, TrackOK, HoldsSlot
<1>6. /\ DOMAIN drivers \subseteq DOMAIN drivers'
      /\ orderly' \in BOOLEAN /\ positions' \in PositionList
  BY <1>1 DEF TrackTypes
<1>. QED
  BY <1>1, <1>2, <1>3, <1>4, <1>5, <1>6, TrackStepOf DEF Leave, Goto, Track

LEMMA TypesInit == Init => TrackTypes
<1>. SUFFICES ASSUME Init PROVE TrackTypes
  OBVIOUS
<1>1. /\ orderly = TRUE /\ now = 0 /\ positions = <<>> /\ slots = <<>>
      /\ track = [r \in Calls |-> NoTrack] /\ pc = [r \in Calls |-> "idle"]
  BY DEF Init, DriverInit
<1>2. now \in Times /\ 0 \in Times
  BY <1>1, TrackingAssumption DEF Times
<1>3. SomePlace \in Places
  BY TrackingAssumption DEF SomePlace
<1>4. NoTrack \in HeldTrack /\ NoTrack.beginning = 0
  BY <1>2, <1>3 DEF NoTrack, NoSlot, NewSlot, Slot, HeldTrack
<1>5. IsBeginning(0)
  <2>1. Beginning(0) \in Nat /\ Beginning(0) <= 0
    BY BeginningFacts
  <2>. QED
    BY <2>1 DEF IsBeginning
<1>6. \A r \in Calls : TrackOK(pc[r], track[r])
  BY <1>1, <1>4, <1>5 DEF TrackOK, HoldsSlot
<1>. QED
  BY <1>1, <1>2, <1>4, <1>6 DEF TrackTypes, PositionList, SlotList

LEMMA TypesTick ==
  ASSUME TrackTypes, Tick
  PROVE  TrackTypes'
<1>1. /\ now' \in Times
      /\ UNCHANGED <<drivers, pc, positions, slots, track>>
      /\ orderly' = (orderly /\ Quiet)
  BY TrackingAssumption DEF Tick, TrackTypes, Times, driverVars, trackingVars
<1>2. orderly' \in BOOLEAN
  <2>1. (orderly /\ Quiet) \in BOOLEAN
    BY Zenon
  <2>. QED
    BY <1>1, <2>1, Zenon
<1>. QED
  BY <1>1, <1>2 DEF TrackTypes, TrackOK, HeldTrack, Times

LEMMA TypesKept == IInv /\ TrackTypes /\ [Next]_vars => TrackTypes'
<1>. SUFFICES ASSUME IInv, TrackTypes, [Next]_vars PROVE TrackTypes'
  OBVIOUS
<1>1. ASSUME NEW r \in Calls, DriverStep(r), UNCHANGED <<now, trackingVars>>
      PROVE  TrackTypes'
  BY <1>1, TypesDriverStep
<1>2. ASSUME NEW r \in Calls, TrackStep(r), UNCHANGED now PROVE TrackTypes'
  BY <1>2, TypesBeginPosition, TypesCheckDriver, TypesInsertPosition,
     TypesMatchSlot, TypesRecalculate, TypesPrecedingSlot, TypesCompareSlot,
     TypesUpdateSlot, TypesInsertSlot DEF TrackStep
<1>3. CASE UNCHANGED vars
  BY <1>3 DEF vars, driverVars, trackingVars, TrackTypes, TrackOK, HeldTrack, Times
<1>. QED
  BY <1>1, <1>2, <1>3, TypesTick DEF Next

-----------------------------------------------------------------------------
(* One call at a time, and at once                                          *)

\* The calls that insert positions and slots, from the insertion on.
AfterInsert ==
  {"match", "recalculate", "precede", "compareSlot", "updateSlot", "insertSlot"}

\* The slot x is about to save is that of the window, or of the one before.
Extends(x) ==
  /\ x.copy = ExtendedTo(slots[x.slot], x.place)
  /\ slots[x.slot].driver = x.driver
  /\ IF x.creates
     THEN /\ x.beginning = Beginning(now) /\ now = x.beginning
          /\ slots[x.slot].beginning + Window = x.beginning
          /\ Mine(slots, x.driver, x.beginning) = {}
     ELSE slots[x.slot].beginning = Beginning(now)

\* What a call that has added its position to ps still owes to the slots.
Owes(label, x, ps) ==
  /\ label = "insertSlot" =>
       /\ x.beginning = Beginning(now)
       /\ Seen(ps, x.driver, x.beginning) = {}
       /\ TracksBut(positions, slots, x.driver, x.beginning)
  /\ label # "insertSlot" => Tracks(ps, slots)
  /\ label # "recalculate"
  /\ label = "match" => ~x.creates
  /\ label = "precede" =>
       /\ x.beginning = Beginning(now) /\ x.creates
       /\ Mine(slots, x.driver, x.beginning) = {}
  /\ label \in {"compareSlot", "updateSlot"} => Extends(x)
  /\ label = "updateSlot" => x.seen = slots[x.slot]

\* What the only call in progress leaves to the slots.
Leaves(label, x) ==
  /\ label \notin AfterInsert => Tracks(positions, slots)
  /\ label \in TrackLabels => x.seenAt = now
  /\ label \in {"check", "insertPosition"} => ~x.creates
  /\ label \in AfterInsert =>
       \E ps \in PositionList :
         positions = Append(ps, Registered(x)) /\ Owes(label, x, ps)

Alone(r) == \A q \in Calls \ {r} : pc[q] \in {"idle", "answered"}

PositionsArePast == \A i \in DOMAIN positions : positions[i].seenAt <= now

OneByOne ==
  /\ PositionsArePast
  /\ Quiet => Tracks(positions, slots)
  /\ \A r \in Calls : InProgress(r) => Alone(r) /\ Leaves(pc[r], track[r])

Orderly == orderly => OneByOne

\* What the only call in progress has to show of a step.
LEMMA OrderlyStepOf ==
  ASSUME IInv, TrackTypes, NEW r \in Calls, Alone(r), NEW label, NEW x,
         pc' = [pc EXCEPT ![r] = label], track' = [track EXCEPT ![r] = x],
         PositionsArePast', Leaves(label, x)'
  PROVE  OneByOne'
<1>1. /\ pc'[r] = label /\ track'[r] = x
      /\ \A q \in Calls \ {r} : pc'[q] \in {"idle", "answered"}
  BY DEF IInv, DriversTypeOK, TrackTypes, Alone
<1>2. ASSUME Quiet' PROVE Tracks(positions, slots)'
  <2>1. label \in {"idle", "answered"}
    BY <1>1, <1>2 DEF Quiet, InProgress
  <2>. QED
    BY <2>1 DEF Leaves, AfterInsert
<1>3. ASSUME NEW q \in Calls, InProgress(q)' PROVE Alone(q)' /\ Leaves(pc[q], track[q])'
  <2>1. q = r
    BY <1>1, <1>3 DEF InProgress
  <2>2. Alone(r)'
    BY <1>1 DEF Alone
  <2>3. Leaves(pc[r], track[r])'
    BY <1>1 DEF Leaves, Owes, Extends
  <2>. QED
    BY <2>1, <2>2, <2>3
<1>. QED
  BY <1>2, <1>3 DEF OneByOne

\* A call that begins has the slots to itself, and so has one in progress.
LEMMA AloneFacts ==
  ASSUME IInv, TrackTypes, OneByOne, NEW r \in Calls,
         (pc[r] = "idle" /\ Quiet) \/ InProgress(r)
  PROVE  /\ Alone(r) /\ PositionsArePast
         /\ InProgress(r) => Leaves(pc[r], track[r])
         /\ pc[r] \notin AfterInsert => Tracks(positions, slots)
<1>1. Quiet => Alone(r)
  <2>1. \A q \in Calls : InProgress(q) \/ pc[q] \in {"idle", "answered"}
    BY DEF InProgress
  <2>. QED
    BY <2>1 DEF Quiet, Alone
<1>. QED
  BY <1>1 DEF OneByOne, Leaves

\* Times of positions are times, and none is later than the clock.
LEMMA LatestIsNow ==
  ASSUME TrackTypes, PositionsArePast, NEW ps \in PositionList, NEW p \in Position,
         positions = Append(ps, p), NEW d, NEW c, Seen(ps, d, c) # {}
  PROVE  \E t \in Nat : c = Beginning(t) /\ c <= Beginning(now)
<1>1. PICK i \in 1 .. Len(ps) : c = Beginning(ps[i].seenAt) /\ ps[i] \in Position
  BY SeenFacts DEF Seen
<1>2. positions[i] = ps[i] /\ i \in DOMAIN positions
  <2>1. Len(positions) = Len(ps) + 1 /\ positions[i] = ps[i]
    BY <1>1, SeenAfter
  <2>2. DOMAIN positions = 1 .. Len(positions) /\ Len(ps) \in Nat
    BY LenProperties, SeenFacts DEF TrackTypes, PositionList
  <2>. QED
    BY <2>1, <2>2
<1>3. ps[i].seenAt <= now /\ ps[i].seenAt \in Nat /\ now \in Nat
  BY <1>1, <1>2 DEF PositionsArePast, TrackTypes, Position, Times
<1>4. Beginning(ps[i].seenAt) <= Beginning(now)
  BY <1>3, BeginningOrder
<1>. QED
  BY <1>1, <1>3, <1>4

\* A slot contains the clock when it is that of the window.
LEMMA ContainsNow ==
  ASSUME TrackTypes, NEW i \in DOMAIN slots
  PROVE  /\ Contains(slots[i], now) <=> slots[i].beginning = Beginning(now)
         /\ ~(Contains(slots[i], now) /\ IsBefore(slots[i], now))
<1>1. PICK t \in Nat : slots[i].beginning = Beginning(t)
  BY DEF TrackTypes, IsBeginning
<1>2. now \in Nat /\ slots[i].beginning \in Nat /\ Window \in Nat
  BY SlotFacts, TrackingAssumption DEF TrackTypes, Times, Slot
<1>3. Contains(slots[i], now) <=> slots[i].beginning = Beginning(now)
  BY <1>1, <1>2, ContainsIsWindow
<1>4. ~(Contains(slots[i], now) /\ IsBefore(slots[i], now))
  BY <1>2 DEF Contains, IsBefore, End
<1>. QED
  BY <1>3, <1>4

\* What a call in progress after the insertion of its position knows.
LEMMA OwesFacts ==
  ASSUME IInv, TrackTypes, OneByOne, NEW r \in Calls, pc[r] \in AfterInsert
  PROVE  /\ Alone(r) /\ PositionsArePast /\ track[r].seenAt = now
         /\ \E ps \in PositionList :
              positions = Append(ps, Registered(track[r])) /\ Owes(pc[r], track[r], ps)
<1>1. InProgress(r)
  BY DEF InProgress, AfterInsert
<1>2. Leaves(pc[r], track[r]) /\ Alone(r) /\ PositionsArePast
  BY <1>1 DEF OneByOne
<1>3. pc[r] \in TrackLabels
  BY DEF AfterInsert, TrackLabels
<1>. QED
  BY <1>2, <1>3 DEF Leaves

\* Such a call that goes on, with no row written.
LEMMA OrderlyHold ==
  ASSUME IInv, TrackTypes, NEW r \in Calls, Alone(r), PositionsArePast,
         NEW label \in AfterInsert, NEW x, Goto(r, label), Track(r, x),
         UNCHANGED <<positions, slots, now>>, x.seenAt = now,
         NEW ps \in PositionList, positions = Append(ps, Registered(x)),
         Owes(label, x, ps)
  PROVE  OneByOne'
<1>1. PositionsArePast'
  BY DEF PositionsArePast
<1>2. Leaves(label, x)'
  <2>1. Owes(label, x, ps)'
    BY DEF Owes, Extends, TracksBut, Tracks, SlotIsRight, Mine
  <2>. QED
    BY <2>1 DEF Leaves, AfterInsert
<1>. QED
  BY <1>1, <1>2, OrderlyStepOf DEF Goto, Track

LEMMA OrderlyDriverStep ==
  ASSUME IInv, TrackTypes, Orderly, NEW r \in Calls, DriverStep(r),
         UNCHANGED <<now, trackingVars>>, orderly'
  PROVE  OneByOne'
<1>1. PICK label \in DriverLabels \ {"idle"} : Goto(r, label)
  BY DriverStepFacts
<1>2. /\ OneByOne /\ pc[r] \notin AfterInsert
      /\ (pc[r] = "idle" /\ Quiet) \/ InProgress(r)
  BY DriverStepFacts DEF Orderly, AfterInsert, DriverLabels, InProgress
<1>3. Alone(r) /\ PositionsArePast /\ Tracks(positions, slots)
  BY <1>2, AloneFacts
<1>4. UNCHANGED <<positions, slots, now, track>>
  BY DEF trackingVars
<1>5. PositionsArePast'
  BY <1>3, <1>4 DEF PositionsArePast
<1>. PICK x : x = track[r]
  OBVIOUS
<1>6. Leaves(label, x)'
  <2>1. label \notin AfterInsert \union TrackLabels
    BY DEF AfterInsert, DriverLabels, TrackLabels
  <2>2. Tracks(positions, slots)'
    BY <1>3, <1>4 DEF Tracks, SlotIsRight
  <2>. QED
    BY <2>1, <2>2 DEF Leaves, TrackLabels
<1>7. pc' = [pc EXCEPT ![r] = label] /\ track' = [track EXCEPT ![r] = x]
  BY <1>1, <1>4 DEF Goto, TrackTypes
<1>. QED
  BY <1>3, <1>5, <1>6, <1>7, OrderlyStepOf

LEMMA OrderlyBeginPosition ==
  ASSUME IInv, TrackTypes, Orderly, NEW r \in Calls, BeginPosition(r),
         now' = now, orderly'
  PROVE  OneByOne'
<1>1. PICK d \in DOMAIN drivers, p \in Places, t \in Times :
        /\ Track(r, [NoTrack EXCEPT !.driver = d, !.place = p, !.seenAt = t])
        /\ orderly' = (orderly /\ Quiet /\ t = now)
  BY DEF BeginPosition
<1>. DEFINE x == [NoTrack EXCEPT !.driver = d, !.place = p, !.seenAt = t]
<1>2. x.seenAt = now /\ ~x.creates
  BY <1>1, NoTrackFacts DEF NoTrack
<1>3. /\ pc' = [pc EXCEPT ![r] = "check"] /\ track' = [track EXCEPT ![r] = x]
      /\ UNCHANGED <<positions, slots, now>>
      /\ pc[r] = "idle" /\ Quiet /\ OneByOne
  BY <1>1 DEF BeginPosition, CanBegin, Goto, Track, Orderly
<1>4. Alone(r) /\ PositionsArePast /\ Tracks(positions, slots)
  BY <1>3, AloneFacts DEF AfterInsert
<1>5. PositionsArePast'
  BY <1>3, <1>4 DEF PositionsArePast
<1>. HIDE DEF x
<1>6. Leaves("check", x)'
  BY <1>2, <1>3, <1>4 DEF Leaves, AfterInsert, Tracks, SlotIsRight
<1>. QED
  BY <1>3, <1>4, <1>5, <1>6, OrderlyStepOf

LEMMA OrderlyCheckDriver ==
  ASSUME IInv, TrackTypes, OneByOne, NEW r \in Calls, CheckDriver(r), now' = now
  PROVE  OneByOne'
<1>. PICK x : x = track[r]
  OBVIOUS
<1>1. /\ UNCHANGED <<positions, slots, now>>
      /\ InProgress(r) /\ pc[r] \notin AfterInsert
  BY DEF CheckDriver, InProgress, AfterInsert
<1>2. /\ Alone(r) /\ PositionsArePast /\ Tracks(positions, slots)
      /\ x.seenAt = now /\ ~x.creates
  BY <1>1, AloneFacts DEF Leaves, CheckDriver, TrackLabels
<1>3. PositionsArePast' /\ Tracks(positions, slots)'
  BY <1>1, <1>2 DEF PositionsArePast, Tracks, SlotIsRight
<1>4. CASE Goto(r, "insertPosition") /\ UNCHANGED track
  <2>1. Leaves("insertPosition", x)'
    BY <1>1, <1>2, <1>3 DEF Leaves, AfterInsert
  <2>2. /\ pc' = [pc EXCEPT ![r] = "insertPosition"]
        /\ track' = [track EXCEPT ![r] = x]
    BY <1>4 DEF Goto, TrackTypes
  <2>. QED
    BY <1>2, <1>3, <2>1, <2>2, OrderlyStepOf
<1>5. CASE Leave(r)
  <2>1. Leaves("answered", NoTrack)'
    BY <1>3 DEF Leaves, AfterInsert, TrackLabels
  <2>. QED
    BY <1>2, <1>3, <1>5, <2>1, OrderlyStepOf DEF Leave, Goto, Track
<1>. QED
  BY <1>4, <1>5 DEF CheckDriver

LEMMA OrderlyInsertPosition ==
  ASSUME IInv, TrackTypes, OneByOne, NEW r \in Calls, InsertPosition(r), now' = now
  PROVE  OneByOne'
<1>. PICK x : x = track[r]
  OBVIOUS
<1>. PICK ps : ps = positions
  OBVIOUS
<1>1. /\ positions' = Append(ps, Registered(x)) /\ UNCHANGED <<slots, now>>
      /\ InProgress(r) /\ pc[r] \notin AfterInsert
      /\ ps \in PositionList
  BY DEF InsertPosition, Registered, InProgress, AfterInsert, TrackTypes
<1>2. /\ Alone(r) /\ PositionsArePast /\ Tracks(ps, slots)
      /\ x.seenAt = now /\ ~x.creates
  BY <1>1, AloneFacts DEF Leaves, InsertPosition, TrackLabels
<1>3. PositionsArePast'
  <2>1. /\ DOMAIN ps = 1 .. Len(ps) /\ Len(ps) \in Nat
        /\ DOMAIN positions' = 1 .. Len(ps) + 1
        /\ \A i \in 1 .. Len(ps) : positions'[i] = ps[i]
        /\ positions'[Len(ps) + 1] = Registered(x)
    BY <1>1, RegisteredType, AppendProperties, LenProperties DEF PositionList
  <2>2. now \in Nat
    BY DEF TrackTypes, Times
  <2>3. ASSUME NEW i \in DOMAIN positions' PROVE positions'[i].seenAt <= now
    <3>1. i \in 1 .. Len(ps) \/ i = Len(ps) + 1
      BY <2>1
    <3>2. CASE i \in 1 .. Len(ps)
      BY <1>2, <2>1, <3>2 DEF PositionsArePast
    <3>3. CASE i = Len(ps) + 1
      BY <1>2, <2>1, <2>2, <3>3 DEF Registered
    <3>. QED
      BY <3>1, <3>2, <3>3
  <2>. QED
    BY <1>1, <2>3 DEF PositionsArePast
<1>4. Leaves("match", x)'
  <2>1. Tracks(ps, slots')
    BY <1>1, <1>2
  <2>2. Owes("match", x, ps)'
    BY <1>2, <2>1 DEF Owes
  <2>. QED
    BY <1>1, <1>2, <2>2 DEF Leaves, AfterInsert
<1>5. pc' = [pc EXCEPT ![r] = "match"] /\ track' = [track EXCEPT ![r] = x]
  BY DEF InsertPosition, Goto, TrackTypes
<1>. QED
  BY <1>2, <1>3, <1>4, <1>5, OrderlyStepOf

LEMMA OrderlyMatchSlot ==
  ASSUME IInv, TrackTypes, OneByOne, NEW r \in Calls, MatchSlot(r), now' = now
  PROVE  OneByOne'
<1>. PICK x : x = track[r]
  OBVIOUS
<1>. DEFINE found == Matching(x.driver, x.seenAt)
<1>1. /\ UNCHANGED <<positions, slots, now>>
      /\ pc[r] = "match" /\ pc[r] \in AfterInsert
  BY DEF MatchSlot, AfterInsert
<1>2. /\ Alone(r) /\ PositionsArePast /\ x.seenAt = now
      /\ \E ps \in PositionList :
           positions = Append(ps, Registered(x)) /\ Owes("match", x, ps)
  BY <1>1, OwesFacts
<1>3. PICK ps \in PositionList :
        positions = Append(ps, Registered(x)) /\ Owes("match", x, ps)
  BY <1>2
<1>4. Tracks(ps, slots) /\ ~x.creates /\ x \in HeldTrack
  BY <1>3, TrackFacts DEF Owes
<1>5. ASSUME NEW i \in found
      PROVE  /\ i \in DOMAIN slots /\ slots[i].driver = x.driver
             /\ Contains(slots[i], now) /\ slots[i].beginning = Beginning(now)
             /\ ~IsBefore(slots[i], now)
  <2>1. i \in DOMAIN slots /\ slots[i].driver = x.driver /\ Contains(slots[i], now)
    BY <1>2 DEF Matching
  <2>. QED
    BY <2>1, ContainsNow
<1>6. CASE \E i \in found :
             /\ Track(r, [x EXCEPT !.slot = i, !.copy = ExtendedTo(slots[i], x.place)])
             /\ Goto(r, "compareSlot")
  <2>1. PICK i \in found :
             /\ Track(r, [x EXCEPT !.slot = i, !.copy = ExtendedTo(slots[i], x.place)])
             /\ Goto(r, "compareSlot")
    BY <1>6
  <2>. PICK c : c = ExtendedTo(slots[i], x.place)
    OBVIOUS
  <2>. PICK y : y = [x EXCEPT !.slot = i, !.copy = c]
    OBVIOUS
  <2>2. /\ y.slot = i /\ y.copy = c /\ y.place = x.place /\ y.driver = x.driver
        /\ y.creates = x.creates /\ y.seenAt = x.seenAt
    BY <1>4 DEF HeldTrack
  <2>3. Registered(y) = Registered(x)
    BY <2>2 DEF Registered
  <2>4. Extends(y)
    BY <1>4, <1>5, <2>2 DEF Extends
  <2>5. Owes("compareSlot", y, ps)
    BY <1>4, <2>4 DEF Owes
  <2>6. Track(r, y) /\ Goto(r, "compareSlot") /\ "compareSlot" \in AfterInsert
    BY <2>1 DEF AfterInsert
  <2>7. positions = Append(ps, Registered(y)) /\ y.seenAt = now
    BY <1>2, <1>3, <2>2, <2>3
  <2>. QED
    BY <1>1, <1>2, <2>5, <2>6, <2>7, OrderlyHold
<1>7. ~\E i \in found : IsBefore(slots[i], now) \/ ~Contains(slots[i], now)
  BY <1>5
<1>8. CASE /\ found = {}
           /\ Track(r, [x EXCEPT !.beginning = Beginning(now), !.creates = TRUE])
           /\ Goto(r, "precede")
  <2>. PICK y : y = [x EXCEPT !.beginning = Beginning(now), !.creates = TRUE]
    OBVIOUS
  <2>1. /\ y.beginning = Beginning(now) /\ y.creates /\ y.driver = x.driver
        /\ y.place = x.place /\ y.seenAt = x.seenAt
    BY <1>4 DEF HeldTrack
  <2>2. Registered(y) = Registered(x)
    BY <2>1 DEF Registered
  <2>3. Mine(slots, x.driver, Beginning(now)) = {}
    <3>1. ASSUME NEW i \in Mine(slots, x.driver, Beginning(now)) PROVE i \in found
      <4>1. i \in DOMAIN slots /\ slots[i].driver = x.driver
            /\ slots[i].beginning = Beginning(now)
        BY DEF Mine
      <4>2. Contains(slots[i], x.seenAt)
        BY <1>2, <4>1, ContainsNow
      <4>. QED
        BY <4>1, <4>2 DEF Matching
    <3>. QED
      BY <1>8, <3>1
  <2>4. Owes("precede", y, ps)
    BY <1>4, <2>1, <2>3 DEF Owes
  <2>5. Track(r, y) /\ Goto(r, "precede") /\ "precede" \in AfterInsert
    BY <1>8 DEF AfterInsert
  <2>6. positions = Append(ps, Registered(y)) /\ y.seenAt = now
    BY <1>2, <1>3, <2>1, <2>2
  <2>. QED
    BY <1>1, <1>2, <2>4, <2>5, <2>6, OrderlyHold
<1>9. MatchSlot(r)
  OBVIOUS
<1>. QED
  BY <1>6, <1>7, <1>8, <1>9 DEF MatchSlot

\* A window after which a driver was not seen.
LEMMA LatestFacts ==
  ASSUME TrackTypes, PositionsArePast, NEW ps \in PositionList, NEW p \in Position,
         positions = Append(ps, p), NEW d
  PROVE  /\ IsLatest(ps, d, Beginning(now))
         /\ \A a \in Nat : /\ IsBeginning(a) /\ a + Window = Beginning(now)
                           /\ Seen(ps, d, Beginning(now)) = {}
                           => IsLatest(ps, d, a)
<1>1. now \in Nat /\ Beginning(now) \in Nat /\ Window \in Nat
  <2>1. now \in Nat
    BY DEF TrackTypes, Times
  <2>. QED
    BY <2>1, BeginningFacts, TrackingAssumption
<1>2. \A c : Seen(ps, d, c) # {} =>
        \E t \in Nat : c = Beginning(t) /\ c <= Beginning(now)
  BY LatestIsNow
<1>3. IsLatest(ps, d, Beginning(now))
  <2>1. ASSUME NEW c \in Nat, c > Beginning(now) PROVE Seen(ps, d, c) = {}
    <3>1. ~(c <= Beginning(now))
      BY <1>1, <2>1
    <3>. QED
      BY <1>2, <3>1
  <2>. QED
    BY <2>1 DEF IsLatest
<1>4. ASSUME NEW a \in Nat, IsBeginning(a), a + Window = Beginning(now),
             Seen(ps, d, Beginning(now)) = {}
      PROVE  IsLatest(ps, d, a)
  <2>1. ASSUME NEW c \in Nat, c > a, Seen(ps, d, c) # {} PROVE FALSE
    <3>1. PICK t \in Nat : c = Beginning(t) /\ c <= Beginning(now)
      BY <1>2, <2>1
    <3>2. PICK u \in Nat : a = Beginning(u)
      BY <1>4 DEF IsBeginning
    <3>3. Beginning(u) < Beginning(t) => Beginning(u) + Window <= Beginning(t)
      BY BeginningOrder
    <3>4. a + Window <= c
      BY <2>1, <3>1, <3>2, <3>3
    <3>5. c = Beginning(now)
      BY <1>1, <1>4, <3>1, <3>4
    <3>. QED
      BY <1>4, <2>1, <3>5
  <2>. QED
    BY <2>1 DEF IsLatest
<1>. QED
  BY <1>3, <1>4

\* Nothing was seen in a window without a slot.
LEMMA NothingSeen ==
  ASSUME NEW ps, NEW ss, Tracks(ps, ss), NEW d \in Nat, NEW b \in Nat,
         Mine(ss, d, b) = {}
  PROVE  Seen(ps, d, b) = {}
<1>1. SlotIsRight(ps, ss, d, b)
  BY DEF Tracks
<1>. QED
  BY <1>1 DEF SlotIsRight

\* A call that ends, when its position is in the slots.
LEMMA OrderlyLeave ==
  ASSUME IInv, TrackTypes, NEW r \in Calls, Alone(r), PositionsArePast, Leave(r),
         UNCHANGED <<positions, now>>, Tracks(positions, slots')
  PROVE  OneByOne'
<1>1. PositionsArePast'
  BY DEF PositionsArePast
<1>2. Tracks(positions, slots)'
  OBVIOUS
<1>3. Leaves("answered", NoTrack)'
  BY <1>2 DEF Leaves, AfterInsert, TrackLabels
<1>. QED
  BY <1>1, <1>3, OrderlyStepOf DEF Leave, Goto, Track

\* At once, no position comes after its window.
LEMMA OrderlyRecalculate ==
  ASSUME IInv, TrackTypes, OneByOne, NEW r \in Calls, Recalculate(r), now' = now
  PROVE  OneByOne'
<1>1. pc[r] = "recalculate" /\ pc[r] \in AfterInsert
  BY DEF Recalculate, AfterInsert
<1>2. \E ps : Owes(pc[r], track[r], ps)
  BY <1>1, OwesFacts
<1>. QED
  BY <1>1, <1>2 DEF Owes

LEMMA OrderlyPrecedingSlot ==
  ASSUME IInv, TrackTypes, OneByOne, NEW r \in Calls, PrecedingSlot(r), now' = now
  PROVE  OneByOne'
<1>. PICK x : x = track[r]
  OBVIOUS
<1>. DEFINE found == Preceding(x.driver, x.beginning)
<1>1. /\ UNCHANGED <<positions, slots, now>>
      /\ pc[r] = "precede" /\ pc[r] \in AfterInsert
  BY DEF PrecedingSlot, AfterInsert
<1>2. /\ Alone(r) /\ PositionsArePast /\ x.seenAt = now
      /\ \E ps \in PositionList :
           positions = Append(ps, Registered(x)) /\ Owes("precede", x, ps)
  BY <1>1, OwesFacts
<1>3. PICK ps \in PositionList :
        positions = Append(ps, Registered(x)) /\ Owes("precede", x, ps)
  BY <1>2
<1>4. /\ Tracks(ps, slots) /\ x.creates /\ x.beginning = Beginning(now)
      /\ Mine(slots, x.driver, x.beginning) = {}
      /\ x \in HeldTrack /\ x.driver \in Nat /\ x.beginning \in Nat
  BY <1>3, TrackFacts DEF Owes
<1>5. CASE /\ \E i \in found :
                /\ EndsAt(slots[i], x.seenAt)
                /\ Track(r, [x EXCEPT !.slot = i, !.copy = ExtendedTo(slots[i], x.place)])
           /\ Goto(r, "compareSlot")
  <2>1. PICK i \in found :
             /\ EndsAt(slots[i], x.seenAt)
             /\ Track(r, [x EXCEPT !.slot = i, !.copy = ExtendedTo(slots[i], x.place)])
    BY <1>5
  <2>. PICK c : c = ExtendedTo(slots[i], x.place)
    OBVIOUS
  <2>. PICK y : y = [x EXCEPT !.slot = i, !.copy = c]
    OBVIOUS
  <2>2. /\ y.slot = i /\ y.copy = c /\ y.place = x.place /\ y.driver = x.driver
        /\ y.creates = x.creates /\ y.seenAt = x.seenAt /\ y.beginning = x.beginning
    BY <1>4 DEF HeldTrack
  <2>3. Registered(y) = Registered(x)
    BY <2>2 DEF Registered
  <2>4. /\ slots[i].driver = x.driver
        /\ slots[i].beginning + Window = x.beginning /\ now = x.beginning
    BY <1>2, <2>1 DEF Preceding, EndsAt, End
  <2>5. Extends(y)
    BY <1>4, <2>2, <2>4 DEF Extends
  <2>6. Owes("compareSlot", y, ps)
    BY <1>4, <2>5 DEF Owes
  <2>7. Track(r, y) /\ Goto(r, "compareSlot") /\ "compareSlot" \in AfterInsert
    BY <1>5, <2>1 DEF AfterInsert
  <2>8. positions = Append(ps, Registered(y)) /\ y.seenAt = now
    BY <1>2, <1>3, <2>2, <2>3
  <2>. QED
    BY <1>1, <1>2, <2>6, <2>7, <2>8, OrderlyHold
<1>6. CASE Goto(r, "insertSlot") /\ UNCHANGED track
  <2>. PICK p : p = Registered(x)
    OBVIOUS
  <2>1. /\ p \in Position /\ p.driver = x.driver /\ p.seenAt = now
        /\ Beginning(p.seenAt) = x.beginning
    BY <1>2, <1>4, RegisteredType DEF Registered
  <2>2. /\ TracksBut(positions, slots, x.driver, x.beginning)
        /\ Seen(ps, x.driver, x.beginning) = {}
    BY <1>3, <1>4, <2>1, PositionOfNewWindow
  <2>3. Owes("insertSlot", x, ps)
    BY <1>4, <2>2 DEF Owes
  <2>4. Track(r, x) /\ "insertSlot" \in AfterInsert
    BY <1>6 DEF Track, TrackTypes, AfterInsert
  <2>. QED
    BY <1>1, <1>2, <1>3, <1>6, <2>3, <2>4, OrderlyHold
<1>7. PrecedingSlot(r)
  OBVIOUS
<1>. QED
  BY <1>5, <1>6, <1>7 DEF PrecedingSlot

LEMMA OrderlyCompareSlot ==
  ASSUME IInv, TrackTypes, OneByOne, NEW r \in Calls, CompareSlot(r), now' = now
  PROVE  OneByOne'
<1>. PICK x : x = track[r]
  OBVIOUS
<1>. PICK s : s = slots[x.slot]
  OBVIOUS
<1>. PICK y : y = [x EXCEPT !.seen = s]
  OBVIOUS
<1>1. /\ UNCHANGED <<positions, slots, now>>
      /\ pc[r] = "compareSlot" /\ pc[r] \in AfterInsert
      /\ Track(r, y) /\ Goto(r, "updateSlot") /\ "updateSlot" \in AfterInsert
  BY DEF CompareSlot, AfterInsert
<1>2. /\ Alone(r) /\ PositionsArePast /\ x.seenAt = now
      /\ \E ps \in PositionList :
           positions = Append(ps, Registered(x)) /\ Owes("compareSlot", x, ps)
  BY <1>1, OwesFacts
<1>3. PICK ps \in PositionList :
        positions = Append(ps, Registered(x)) /\ Owes("compareSlot", x, ps)
  BY <1>2
<1>4. x \in HeldTrack
  BY TrackFacts
<1>5. /\ y.slot = x.slot /\ y.copy = x.copy /\ y.place = x.place
      /\ y.driver = x.driver /\ y.creates = x.creates /\ y.seenAt = x.seenAt
      /\ y.beginning = x.beginning /\ y.seen = s
  BY <1>4 DEF HeldTrack
<1>6. Registered(y) = Registered(x)
  BY <1>5 DEF Registered
<1>7. Tracks(ps, slots) /\ Extends(y)
  BY <1>3, <1>5 DEF Owes, Extends
<1>8. Owes("updateSlot", y, ps)
  BY <1>5, <1>7 DEF Owes
<1>9. positions = Append(ps, Registered(y)) /\ y.seenAt = now
  BY <1>2, <1>3, <1>5, <1>6
<1>. QED
  BY <1>1, <1>2, <1>8, <1>9, OrderlyHold

\* Alone, a save writes what was changed in the copy.
LEMMA SavedIsCopy ==
  ASSUME NEW s \in Slot, NEW x \in Places
  PROVE  SavedSlot(ExtendedTo(s, x), s, s) = ExtendedTo(s, x)
BY DEF SavedSlot, Written, ExtendedTo, Slot

LEMMA OrderlyUpdateSlot ==
  ASSUME IInv, TrackTypes, OneByOne, NEW r \in Calls, UpdateSlot(r), now' = now
  PROVE  OneByOne'
<1>. PICK x : x = track[r]
  OBVIOUS
<1>. PICK i : i = x.slot
  OBVIOUS
<1>. PICK p : p = Registered(x)
  OBVIOUS
<1>1. /\ UNCHANGED <<positions, now>>
      /\ pc[r] = "updateSlot" /\ pc[r] \in AfterInsert
      /\ slots' = [slots EXCEPT ![i] = SavedSlot(x.copy, x.seen, slots[i])]
  BY DEF UpdateSlot, AfterInsert
<1>2. /\ Alone(r) /\ PositionsArePast /\ x.seenAt = now
      /\ \E ps \in PositionList : positions = Append(ps, p) /\ Owes("updateSlot", x, ps)
  BY <1>1, OwesFacts
<1>3. PICK ps \in PositionList : positions = Append(ps, p) /\ Owes("updateSlot", x, ps)
  BY <1>2
<1>4. /\ x.place \in Places /\ x.driver \in Nat /\ x.beginning \in Nat
      /\ i \in DOMAIN slots /\ slots[i] \in Slot /\ IsBeginning(slots[i].beginning)
      /\ slots[i].beginning \in Nat
  <2>1. TrackOK("updateSlot", x)
    BY <1>1, TrackFacts
  <2>2. i \in DOMAIN slots
    BY <2>1 DEF TrackOK, HoldsSlot
  <2>. QED
    BY <2>2, TrackFacts, SlotFacts DEF TrackTypes, Slot
<1>5. Tracks(ps, slots) /\ Extends(x) /\ x.seen = slots[i]
  BY <1>3 DEF Owes
<1>6. slots' = [slots EXCEPT ![i] = ExtendedTo(slots[i], p.place)]
  <2>1. x.copy = ExtendedTo(slots[i], x.place) /\ p.place = x.place
    BY <1>5 DEF Extends, Registered
  <2>2. SavedSlot(x.copy, x.seen, slots[i]) = ExtendedTo(slots[i], x.place)
    BY <1>4, <1>5, <2>1, SavedIsCopy
  <2>. QED
    BY <1>1, <2>1, <2>2
<1>7. /\ p \in Position /\ p.driver = x.driver /\ p.seenAt = now
      /\ slots[i].driver = p.driver
  BY <1>2, <1>5, RegisteredType DEF Registered, Extends
<1>8. /\ IsLatest(ps, p.driver, Beginning(now))
      /\ \A a \in Nat : /\ IsBeginning(a) /\ a + Window = Beginning(now)
                        /\ Seen(ps, p.driver, Beginning(now)) = {}
                        => IsLatest(ps, p.driver, a)
  BY <1>2, <1>3, <1>7, LatestFacts
<1>. PICK tt : tt = slots'
  OBVIOUS
<1>9. CASE x.creates /\ Goto(r, "insertSlot") /\ UNCHANGED track
  <2>1. /\ x.beginning = Beginning(now) /\ now = x.beginning
        /\ slots[i].beginning + Window = x.beginning
        /\ Mine(slots, x.driver, x.beginning) = {}
    BY <1>5, <1>9 DEF Extends
  <2>2. Seen(ps, p.driver, Beginning(now)) = {}
    BY <1>4, <1>5, <1>7, <2>1, NothingSeen
  <2>3. IsLatest(ps, p.driver, slots[i].beginning)
    BY <1>4, <1>8, <2>1, <2>2
  <2>4. TracksBut(positions, tt, x.driver, x.beginning)
    <3>1. /\ slots[i].beginning + Window = Beginning(p.seenAt)
          /\ p.seenAt = Beginning(p.seenAt)
          /\ Mine(slots, p.driver, Beginning(p.seenAt)) = {}
      BY <1>7, <2>1
    <3>2. TracksBut(Append(ps, p), tt, p.driver, Beginning(p.seenAt))
      BY <1>4, <1>5, <1>6, <1>7, <2>3, <3>1, PositionAtBorder
    <3>. QED
      BY <1>3, <1>7, <2>1, <3>2
  <2>5. Owes("insertSlot", x, ps)'
    BY <1>1, <1>7, <2>1, <2>2, <2>4 DEF Owes
  <2>6. Leaves("insertSlot", x)'
    BY <1>1, <1>2, <1>3, <2>5 DEF Leaves, AfterInsert
  <2>7. PositionsArePast'
    BY <1>1, <1>2 DEF PositionsArePast
  <2>8. /\ pc' = [pc EXCEPT ![r] = "insertSlot"]
        /\ track' = [track EXCEPT ![r] = x]
    BY <1>9 DEF Goto, TrackTypes
  <2>. QED
    BY <1>2, <2>6, <2>7, <2>8, OrderlyStepOf
<1>10. CASE ~x.creates /\ Leave(r)
  <2>1. slots[i].beginning = Beginning(p.seenAt)
    BY <1>5, <1>7, <1>10 DEF Extends
  <2>2. IsLatest(ps, p.driver, Beginning(p.seenAt))
    BY <1>7, <1>8
  <2>3. Tracks(Append(ps, p), tt)
    BY <1>4, <1>5, <1>6, <1>7, <2>1, <2>2, PositionOfSameWindow
  <2>. QED
    BY <1>1, <1>2, <1>3, <1>10, <2>3, OrderlyLeave
<1>. QED
  BY <1>9, <1>10 DEF UpdateSlot

LEMMA OrderlyInsertSlot ==
  ASSUME IInv, TrackTypes, OneByOne, NEW r \in Calls, InsertSlot(r), now' = now
  PROVE  OneByOne'
<1>. PICK x : x = track[r]
  OBVIOUS
<1>. PICK p : p = Registered(x)
  OBVIOUS
<1>1. /\ UNCHANGED <<positions, now>> /\ Leave(r)
      /\ pc[r] = "insertSlot" /\ pc[r] \in AfterInsert
      /\ slots' = Append(slots, NewSlot(x.driver, x.beginning, x.place))
  BY DEF InsertSlot, AfterInsert
<1>2. /\ Alone(r) /\ PositionsArePast /\ x.seenAt = now
      /\ \E ps \in PositionList : positions = Append(ps, p) /\ Owes("insertSlot", x, ps)
  BY <1>1, OwesFacts
<1>3. PICK ps \in PositionList : positions = Append(ps, p) /\ Owes("insertSlot", x, ps)
  BY <1>2
<1>4. /\ x.driver \in Nat /\ x.beginning \in Nat
      /\ positions \in PositionList /\ slots \in SlotList
  BY TrackFacts DEF TrackTypes
<1>5. /\ x.beginning = Beginning(now)
      /\ Seen(ps, x.driver, x.beginning) = {}
      /\ TracksBut(positions, slots, x.driver, x.beginning)
  BY <1>3 DEF Owes
<1>6. /\ p \in Position /\ p.driver = x.driver /\ p.place = x.place
      /\ x.beginning = Beginning(p.seenAt)
  BY <1>2, <1>5, RegisteredType DEF Registered
<1>7. /\ Seen(positions, x.driver, x.beginning) = {Len(positions)}
      /\ positions[Len(positions)].place = x.place
  <2>1. /\ Len(positions) = Len(ps) + 1 /\ positions[Len(ps) + 1] = p
        /\ Seen(positions, x.driver, x.beginning)
             = Seen(ps, x.driver, x.beginning) \union {Len(ps) + 1}
    BY <1>3, <1>6, SeenAfter
  <2>. QED
    BY <1>5, <1>6, <2>1
<1>8. Tracks(positions,
             Append(slots, NewSlot(x.driver, x.beginning, positions[Len(positions)].place)))
  BY <1>4, <1>5, <1>7, SlotOfNewWindow
<1>9. Tracks(positions, slots')
  BY <1>1, <1>7, <1>8
<1>. QED
  BY <1>1, <1>2, <1>9, OrderlyLeave

\* Time passes between two calls.
LEMMA OrderlyTick ==
  ASSUME TrackTypes, Orderly, Tick, orderly'
  PROVE  OneByOne'
<1>1. /\ OneByOne /\ Quiet /\ now' = now + 1 /\ now \in Nat
      /\ UNCHANGED <<pc, positions, slots, track>>
  <2>1. orderly /\ Quiet
    BY Zenon DEF Tick
  <2>. QED
    BY <2>1 DEF Tick, Orderly, trackingVars, TrackTypes, Times
<1>2. PositionsArePast'
  <2>1. ASSUME NEW i \in DOMAIN positions PROVE positions[i].seenAt <= now + 1
    <3>1. positions[i].seenAt <= now
      BY <1>1 DEF OneByOne, PositionsArePast
    <3>2. positions[i].seenAt \in Nat
      BY SeenFacts DEF TrackTypes, Position, Times
    <3>. QED
      BY <1>1, <3>1, <3>2
  <2>. QED
    BY <1>1, <2>1 DEF PositionsArePast
<1>3. Tracks(positions, slots)'
  BY <1>1 DEF OneByOne, Tracks, SlotIsRight
<1>4. \A r \in Calls : ~InProgress(r)'
  BY <1>1 DEF Quiet, InProgress
<1>. QED
  BY <1>2, <1>3, <1>4 DEF OneByOne

LEMMA OrderlyInit == Init => Orderly
<1>. SUFFICES ASSUME Init PROVE OneByOne
  BY DEF Orderly
<1>1. positions = <<>> /\ slots = <<>> /\ pc = [r \in Calls |-> "idle"]
  BY DEF Init, DriverInit
<1>2. PositionsArePast
  BY <1>1 DEF PositionsArePast
<1>3. Tracks(positions, slots)
  <2>1. ASSUME NEW d \in Nat, NEW b \in Nat PROVE SlotIsRight(positions, slots, d, b)
    BY <1>1 DEF SlotIsRight, Seen, Mine
  <2>. QED
    BY <2>1 DEF Tracks
<1>4. \A r \in Calls : ~InProgress(r)
  BY <1>1 DEF InProgress
<1>. QED
  BY <1>2, <1>3, <1>4 DEF OneByOne

LEMMA OrderlyKept == IInv /\ TrackTypes /\ Orderly /\ [Next]_vars => Orderly'
<1>. SUFFICES ASSUME IInv, TrackTypes, Orderly, [Next]_vars, orderly'
              PROVE  OneByOne'
  BY DEF Orderly
<1>1. ASSUME NEW r \in Calls, DriverStep(r), UNCHANGED <<now, trackingVars>>
      PROVE  OneByOne'
  BY <1>1, OrderlyDriverStep
<1>2. ASSUME NEW r \in Calls, TrackStep(r), now' = now PROVE OneByOne'
  <2>1. CASE BeginPosition(r)
    BY <1>2, <2>1, OrderlyBeginPosition
  <2>2. CASE ~BeginPosition(r)
    <3>1. orderly' = orderly
      BY <1>2, <2>2 DEF TrackStep, CheckDriver, InsertPosition, MatchSlot,
         Recalculate, PrecedingSlot, CompareSlot, UpdateSlot, InsertSlot
    <3>2. OneByOne
      BY <3>1 DEF Orderly
    <3>. QED
      BY <1>2, <2>2, <3>2, OrderlyCheckDriver, OrderlyInsertPosition,
         OrderlyMatchSlot, OrderlyRecalculate, OrderlyPrecedingSlot,
         OrderlyCompareSlot, OrderlyUpdateSlot, OrderlyInsertSlot DEF TrackStep
  <2>. QED
    BY <2>1, <2>2
<1>3. CASE UNCHANGED vars
  <2>1. UNCHANGED <<pc, orderly, now, positions, slots, track>> /\ OneByOne
    BY <1>3 DEF vars, driverVars, trackingVars, Orderly
  <2>2. PositionsArePast' /\ (Quiet' => Quiet) /\ Tracks(positions, slots)' = Tracks(positions, slots)
    BY <2>1 DEF OneByOne, PositionsArePast, Quiet, InProgress, Tracks, SlotIsRight
  <2>3. ASSUME NEW r \in Calls, InProgress(r)'
        PROVE  Alone(r)' /\ Leaves(pc[r], track[r])'
    <3>. PICK label : label = pc[r]
      OBVIOUS
    <3>. PICK x : x = track[r]
      OBVIOUS
    <3>1. Alone(r) /\ Leaves(label, x)
      BY <2>1, <2>3 DEF OneByOne, InProgress
    <3>2. ASSUME NEW ps \in PositionList, Owes(label, x, ps) PROVE Owes(label, x, ps)'
      BY <2>1, <3>2 DEF Owes, Extends, Tracks, TracksBut, SlotIsRight
    <3>3. Leaves(label, x)'
      BY <2>1, <2>2, <3>1, <3>2 DEF Leaves
    <3>. QED
      BY <2>1, <3>1, <3>3 DEF Alone
  <2>. QED
    BY <2>1, <2>2, <2>3 DEF OneByOne
<1>. QED
  BY <1>1, <1>2, <1>3, OrderlyTick DEF Next

LEMMA InitHolds == Init => IInv
<1>. SUFFICES ASSUME Init PROVE IInv
  OBVIOUS
<1>. DEFINE e == NewDriver("active", "valid")
<1>1. e \in Driver /\ Licensed(e)
  BY DEF NewDriver, Driver, Licensed, DriverStatus, Licenses
<1>2. drivers = <<e>> /\ pc = [r \in Calls |-> "idle"] /\ held = [r \in Calls |-> Blank]
  BY DEF Init, DriverInit
<1>. HIDE DEF e
<1>3. drivers \in Seq(Driver) /\ \A d \in DOMAIN drivers : Licensed(drivers[d])
  BY <1>1, <1>2
<1>4. DriversTypeOK
  BY <1>2, <1>3, BlankIsHeld DEF DriversTypeOK, DriverLabels
<1>. QED
  BY <1>2, <1>3, <1>4
  DEF IInv, ActiveDriversAreLicensed, Licensed, CallOK, LoadedLabels

LEMMA StepKeeps == IInv /\ [Next]_vars => IInv'
<1>. SUFFICES ASSUME IInv, [Next]_vars PROVE IInv'
  OBVIOUS
<1>1. ASSUME NEW r \in Calls, DriverStep(r) PROVE IInv'
  BY <1>1, CreateStep, BeginStep, LoadStep, OverwriteStep, CompareStep, UpdateStep
  DEF DriverStep
<1>2. ASSUME NEW r \in Calls, TrackStep(r) PROVE IInv'
  BY <1>2, TracksStep
<1>3. CASE UNCHANGED <<drivers, pc, held>>
  BY <1>3 DEF IInv, DriversTypeOK, ActiveDriversAreLicensed, CallOK, HeldDriver
<1>4. ASSUME Tick \/ UNCHANGED vars PROVE UNCHANGED <<drivers, pc, held>>
  BY <1>4 DEF Tick, vars, driverVars
<1>. QED
  BY <1>1, <1>2, <1>3, <1>4 DEF Next

\* "Can't activate driver with invalid license": however calls overlap and
\* whatever copies they save, an active driver has a valid licence
\* (createDriver, changeDriverStatus, changeLicenseNumber).
THEOREM ActiveDriversLicensed == Spec => []ActiveDriversAreLicensed
<1>1. Spec => []IInv
  BY InitHolds, StepKeeps, PTL DEF Spec
<1>2. IInv => ActiveDriversAreLicensed
  BY DEF IInv
<1>. QED
  BY <1>1, <1>2, PTL

-----------------------------------------------------------------------------
(* Types, and distances that add up                                         *)

LEMMA TrackingHolds == Spec => [](IInv /\ TrackTypes /\ Orderly)
<1>1. Init => IInv /\ TrackTypes /\ Orderly
  BY InitHolds, TypesInit, OrderlyInit
<1>2. IInv /\ TrackTypes /\ Orderly /\ [Next]_vars => (IInv /\ TrackTypes /\ Orderly)'
  BY StepKeeps, TypesKept, OrderlyKept
<1>. QED
  BY <1>1, <1>2, PTL DEF Spec

\* However calls overlap, in whatever order positions come and whichever slots
\* the queries find, a call holds a slot that exists, and distances never go
\* below nothing (calculateDistance, addDistanceToSlot).
THEOREM PositionsKeepTypes == Spec => []TypeOK
<1>1. IInv /\ TrackTypes => TypeOK
  BY DEF IInv, DriversTypeOK, TrackTypes, TypeOK, PositionList, SlotList
<1>. QED
  BY <1>1, TrackingHolds, PTL

\* "Can calculate travelled distance ...": for any number of drivers, positions
\* and windows, while positions are registered at once and one by one, a
\* driver has one slot for each window with a position, and it adds up to the
\* steps the positions make in it, with the step out of it when the next
\* position is at the border (addPosition).
THEOREM PositionsStayAdded == Spec => []PositionsAddUp
<1>1. ASSUME IInv, TrackTypes, Orderly PROVE PositionsAddUp
  <2>. SUFFICES ASSUME orderly, Quiet, NEW d \in DOMAIN drivers, NEW t \in Times,
                       NEW b, b = Beginning(t)
                PROVE  IF SeenIn(d, b) = {}
                       THEN Mine(slots, d, b) = {}
                       ELSE \E i \in Mine(slots, d, b) :
                              /\ Mine(slots, d, b) = {i}
                              /\ slots[i].distance \in
                                   {Travelled(d, b), Travelled(d, b) + Leaving(d, b)}
    BY DEF PositionsAddUp, Mine
  <2>1. d \in Nat /\ b \in Nat
    <3>1. DOMAIN drivers = 1 .. Len(drivers)
      BY <1>1, LenProperties DEF IInv, DriversTypeOK
    <3>. QED
      BY <3>1, BeginningFacts DEF Times
  <2>2. SlotIsRight(positions, slots, d, b)
    <3>1. OneByOne
      BY <1>1, Zenon DEF Orderly
    <3>2. Tracks(positions, slots)
      BY <3>1 DEF OneByOne
    <3>. QED
      BY <2>1, <3>2 DEF Tracks
  <2>3. \A c : SeenIn(d, c) = Seen(positions, d, c)
    BY DEF SeenIn, Seen
  <2>4. Travelled(d, b) = Within(positions, Seen(positions, d, b))
    <3>. PICK S : S = Seen(positions, d, b)
      OBVIOUS
    <3>1. SeenIn(d, b) = S
      BY <2>3
    <3>2. [i \in S |-> Step(Max({j \in S : j < i}), i)] = Ways(positions, S)
      BY DEF Ways, Way, Until, Step
    <3>3. Travelled(d, b)
            = SumFunctionOnSet([i \in S |-> Step(Max({j \in S : j < i}), i)],
                               {i \in S : {j \in S : j < i} # {}})
      BY <3>1 DEF Travelled
    <3>. QED
      BY <3>2, <3>3 DEF Within, Until
  <2>5. Leaving(d, b) = Out(positions, d, b)
    BY <2>3 DEF Leaving, Out, Way, Step
  <2>. QED
    BY <2>2, <2>3, <2>4, <2>5 DEF SlotIsRight, Tells
<1>. QED
  BY <1>1, TrackingHolds, PTL
=============================================================================
