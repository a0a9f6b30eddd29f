--------------------------- MODULE StartupProofs ---------------------------
(***************************************************************************)
(* The database file through starts, migrations, kills and retention, for  *)
(* every shape and content of the old database, every number of kills,     *)
(* requests and ticks, every length of a day, window and rounding unit.    *)
(*                                                                         *)
(* First sums: SumFunctionOnSet counts the cells under a graph, so that it *)
(* may be split, grouped and compared like a cardinality.  From that, what *)
(* a retention pass does to the totals of each day and to their cost.      *)
(* Then an inductive invariant for the file at each step, and from it the  *)
(* properties of Startup.tla.                                              *)
(*                                                                         *)
(* Served tables are current only because a kill leaves nothing but "down" *)
(* behind, and each step knows what the ones before it left.  The lifetime *)
(* totals are right because, of each day, the rollup has exactly what the  *)
(* retention took of it: the rows that are in neither log (Gone).          *)
(***************************************************************************)
EXTENDS Startup, FiniteSetTheorems, WellFoundedInduction, TLAPS

-----------------------------------------------------------------------------
(* Sums over finite sets.                                                  *)

\* What holds of a set if it does of all smaller ones holds of the whole; P is a
\* set of subsets, since the theorems of the library take it as an operator.
LEMMA StrongInduction ==
  ASSUME NEW S, IsFiniteSet(S), NEW P,
         \A s \in SUBSET S : (\A t \in SUBSET s : t # s => t \in P) => s \in P
  PROVE  S \in P
<1> SUFFICES ASSUME S \notin P PROVE FALSE
  OBVIOUS
<1> DEFINE T == (SUBSET S) \ P
<1>1. IsWellFoundedOn(StrictSubsetOrdering(S), SUBSET S)
  <2>1. FiniteSubsetsOf(S) = SUBSET S
    BY FS_FiniteSubsetsOfFinite
  <2>2. IsWellFoundedOn(StrictSubsetOrdering(S), FiniteSubsetsOf(S))
    BY FS_StrictSubsetOrderingWellFounded
  <2> QED
    BY <2>1, <2>2
<1>2. PICK s \in T : \A t \in T : <<t, s>> \notin StrictSubsetOrdering(S)
  <2>1. T \subseteq SUBSET S /\ T # {}
    OBVIOUS
  <2> HIDE DEF T
  <2> QED
    BY <1>1, <2>1, WFMin
<1>3. \A t \in SUBSET s : t # s => t \in P
  BY <1>2 DEF StrictSubsetOrdering
<1> QED
  BY <1>2, <1>3

\* The same, adding one element at a time.
LEMMA SubsetInduction ==
  ASSUME NEW S, IsFiniteSet(S), NEW P, {} \in P,
         \A s \in SUBSET S : \A x \in S \ s : s \in P => s \cup {x} \in P
  PROVE  S \in P
<1>1. ASSUME NEW s \in SUBSET S, \A t \in SUBSET s : t # s => t \in P
      PROVE  s \in P
  <2>1. CASE s = {}
    BY <2>1
  <2>2. CASE s # {}
    <3>1. PICK x \in s : TRUE
      BY <2>2
    <3>2. s \ {x} \in P
      BY <1>1
    <3>3. (s \ {x}) \cup {x} = s
      OBVIOUS
    <3>4. (s \ {x}) \cup {x} \in P
      BY <3>1, <3>2
    <3> QED
      BY <3>3, <3>4
  <2> QED
    BY <2>1, <2>2
<1> HIDE DEF Cardinality
<1> QED
  BY <1>1, StrongInduction

LEMMA CountOfBoth ==
  ASSUME NEW S, IsFiniteSet(S), NEW T, IsFiniteSet(T), S \cap T = {}
  PROVE  Cardinality(S \cup T) = Cardinality(S) + Cardinality(T)
<1> DEFINE both == S \cup T
           shared == S \cap T
<1>1. Cardinality(S) \in Nat /\ Cardinality(T) \in Nat
  BY FS_CardinalityType
<1>2. Cardinality(shared) = 0
  BY FS_EmptySet
<1>3. Cardinality(both) = Cardinality(S) + Cardinality(T) - Cardinality(shared)
  BY FS_Union
<1> HIDE DEF both, shared
<1>4. Cardinality(both) = Cardinality(S) + Cardinality(T)
  BY <1>1, <1>2, <1>3
<1> QED
  BY <1>4 DEF both

\* The cells under the graph of f: as many as the sum.
Cells(f, S) == UNION {{i} \X (1 .. f[i]) : i \in S}

LEMMA CellsAdd ==
  ASSUME NEW S, NEW f, NEW x, x \notin S, f[x] \in Nat, IsFiniteSet(Cells(f, S))
  PROVE  /\ IsFiniteSet(Cells(f, S \cup {x}))
         /\ Cardinality(Cells(f, S \cup {x})) = f[x] + Cardinality(Cells(f, S))
<1> DEFINE column == {x} \X (1 .. f[x])
<1>1. Cells(f, S \cup {x}) = Cells(f, S) \cup column
  BY DEF Cells
<1>2. Cells(f, S) \cap column = {}
  BY DEF Cells
<1>3. IsFiniteSet({x}) /\ Cardinality({x}) = 1
  BY FS_Singleton
<1>4. IsFiniteSet(1 .. f[x]) /\ Cardinality(1 .. f[x]) = f[x]
  BY FS_Interval
<1>5. IsFiniteSet(column) /\ Cardinality(column) = f[x]
  <2>1. /\ IsFiniteSet(column)
        /\ Cardinality(column) = Cardinality({x}) * Cardinality(1 .. f[x])
    BY <1>3, <1>4, FS_Product
  <2> QED
    BY <1>3, <1>4, <2>1
<1>6. Cardinality(Cells(f, S)) \in Nat
  BY FS_CardinalityType
<1> HIDE DEF column
<1>7. Cardinality(Cells(f, S) \cup column) = Cardinality(Cells(f, S)) + Cardinality(column)
  BY <1>2, <1>5, CountOfBoth
<1>8. IsFiniteSet(Cells(f, S) \cup column)
  BY <1>5, FS_Union
<1>9. Cardinality(Cells(f, S) \cup column) = f[x] + Cardinality(Cells(f, S))
  BY <1>5, <1>6, <1>7
<1> QED
  BY <1>1, <1>8, <1>9

LEMMA CellsFinite ==
  ASSUME NEW S, IsFiniteSet(S), NEW f, \A x \in S : f[x] \in Nat
  PROVE  /\ IsFiniteSet(Cells(f, S))
         /\ Cells(f, {}) = {}
<1> DEFINE P == {s \in SUBSET S : IsFiniteSet(Cells(f, s))}
<1>1. Cells(f, {}) = {}
  BY DEF Cells
<1>2. {} \in P
  BY <1>1, FS_EmptySet
<1>3. ASSUME NEW s \in SUBSET S, NEW x \in S \ s, s \in P
      PROVE  s \cup {x} \in P
  BY <1>3, CellsAdd
<1>4. S \in P
  <2> HIDE DEF P
  <2> QED
    BY <1>2, <1>3, SubsetInduction
<1> QED
  BY <1>1, <1>4

\* The recursion of the fold has a solution, the count of the cells, and only one.
LEMMA SumIsCells ==
  ASSUME NEW S, IsFiniteSet(S), NEW f, \A x \in S : f[x] \in Nat
  PROVE  SumFunctionOnSet(f, S) = Cardinality(Cells(f, S))
<1> DEFINE c(s) == CHOOSE x \in s : TRUE
           Rec(g) == g = [s \in SUBSET S |->
                            IF s = {} THEN 0 ELSE f[c(s)] + g[s \ {c(s)}]]
           count == [s \in SUBSET S |-> Cardinality(Cells(f, s))]
           sum == CHOOSE g : Rec(g)
<1>1. SumFunctionOnSet(f, S) = sum[S]
  BY DEF SumFunctionOnSet, FoldFunctionOnSet, MapThenFoldSet
<1>2. ASSUME NEW s \in SUBSET S, s # {}
      PROVE  /\ c(s) \in s /\ s \ {c(s)} \in SUBSET S
             /\ count[s] = f[c(s)] + count[s \ {c(s)}]
  <2>1. c(s) \in s
    BY <1>2
  <2> HIDE DEF c
  <2>2. s \ {c(s)} \in SUBSET S /\ s = (s \ {c(s)}) \cup {c(s)}
    BY <2>1
  <2>3. f[c(s)] \in Nat
    BY <2>1
  <2>4. IsFiniteSet(Cells(f, s \ {c(s)}))
    <3>1. IsFiniteSet(s \ {c(s)})
      BY <2>2, FS_Subset
    <3> QED
      BY <3>1, CellsFinite
  <2>5. Cardinality(Cells(f, (s \ {c(s)}) \cup {c(s)})) =
          f[c(s)] + Cardinality(Cells(f, s \ {c(s)}))
    BY <2>3, <2>4, CellsAdd
  <2> QED
    BY <2>1, <2>2, <2>5
<1>3. count[{}] = 0
  BY CellsFinite, FS_EmptySet
<1>4. Rec(count)
  <2>1. \A s \in SUBSET S : count[s] = IF s = {} THEN 0
                                       ELSE f[c(s)] + count[s \ {c(s)}]
    BY <1>2, <1>3
  <2>2. count = [s \in SUBSET S |-> count[s]]
    OBVIOUS
  <2> HIDE DEF c, count
  <2> QED
    BY <2>1, <2>2
<1>5. Rec(sum)
  <2> HIDE DEF Rec, count
  <2> QED
    BY <1>4
<1> HIDE DEF sum, count
<1>6. sum[{}] = 0
  BY <1>5
<1>7. ASSUME NEW s \in SUBSET S, s # {}
      PROVE  sum[s] = f[c(s)] + sum[s \ {c(s)}]
  <2> HIDE DEF c
  <2> QED
    BY <1>5, <1>7
<1> DEFINE P == {s \in SUBSET S : sum[s] = count[s]}
<1>8. ASSUME NEW s \in SUBSET S, \A t \in SUBSET s : t # s => t \in P
      PROVE  s \in P
  <2>1. CASE s = {}
    BY <2>1, <1>3, <1>6
  <2>2. CASE s # {}
    <3> HIDE DEF c
    <3>1. c(s) \in s /\ count[s] = f[c(s)] + count[s \ {c(s)}]
      BY <2>2, <1>2
    <3>2. sum[s \ {c(s)}] = count[s \ {c(s)}]
      BY <3>1, <1>8
    <3> QED
      BY <3>1, <3>2, <2>2, <1>7
  <2> QED
    BY <2>1, <2>2
<1>9. S \in P
  <2> HIDE DEF P
  <2> QED
    BY <1>8, StrongInduction
<1> QED
  BY <1>1, <1>9 DEF count

\* From here on only these facts about sums are used, and not the fold.
LEMMA SumIsNat ==
  ASSUME NEW S, IsFiniteSet(S), NEW f, \A x \in S : f[x] \in Nat
  PROVE  SumFunctionOnSet(f, S) \in Nat
BY SumIsCells, CellsFinite, FS_CardinalityType

LEMMA SumEmpty ==
  ASSUME NEW f
  PROVE  SumFunctionOnSet(f, {}) = 0
<1>1. IsFiniteSet({}) /\ Cardinality({}) = 0
  BY FS_EmptySet
<1>2. Cells(f, {}) = {}
  BY DEF Cells
<1>3. SumFunctionOnSet(f, {}) = Cardinality(Cells(f, {}))
  BY <1>1, SumIsCells
<1> QED
  BY <1>1, <1>2, <1>3

LEMMA SumAdd ==
  ASSUME NEW S, IsFiniteSet(S), NEW x, x \notin S, NEW f,
         \A y \in S \cup {x} : f[y] \in Nat
  PROVE  SumFunctionOnSet(f, S \cup {x}) = f[x] + SumFunctionOnSet(f, S)
<1>1. IsFiniteSet(S \cup {x})
  BY FS_AddElement
<1>2. IsFiniteSet(Cells(f, S))
  BY CellsFinite
<1>3. SumFunctionOnSet(f, S \cup {x}) = Cardinality(Cells(f, S \cup {x}))
  BY <1>1, SumIsCells
<1>4. SumFunctionOnSet(f, S) = Cardinality(Cells(f, S))
  BY SumIsCells
<1> QED
  BY <1>2, <1>3, <1>4, CellsAdd

LEMMA SumSame ==
  ASSUME NEW S, IsFiniteSet(S), NEW f, NEW g,
         \A x \in S : f[x] \in Nat /\ f[x] = g[x]
  PROVE  SumFunctionOnSet(f, S) = SumFunctionOnSet(g, S)
<1>1. Cells(f, S) = Cells(g, S)
  BY DEF Cells
<1> QED
  BY <1>1, SumIsCells

LEMMA SumUnion ==
  ASSUME NEW S, IsFiniteSet(S), NEW T, IsFiniteSet(T), S \cap T = {}, NEW f,
         \A x \in S \cup T : f[x] \in Nat
  PROVE  SumFunctionOnSet(f, S \cup T) = SumFunctionOnSet(f, S) + SumFunctionOnSet(f, T)
<1>1. IsFiniteSet(S \cup T)
  BY FS_Union
<1>2. Cells(f, S \cup T) = Cells(f, S) \cup Cells(f, T)
  BY DEF Cells
<1>3. Cells(f, S) \cap Cells(f, T) = {}
  BY DEF Cells
<1>4. IsFiniteSet(Cells(f, S)) /\ IsFiniteSet(Cells(f, T))
  BY CellsFinite
<1>5. Cardinality(Cells(f, S) \cup Cells(f, T)) =
        Cardinality(Cells(f, S)) + Cardinality(Cells(f, T))
  BY <1>3, <1>4, CountOfBoth
<1>6. /\ SumFunctionOnSet(f, S \cup T) = Cardinality(Cells(f, S \cup T))
      /\ SumFunctionOnSet(f, S) = Cardinality(Cells(f, S))
      /\ SumFunctionOnSet(f, T) = Cardinality(Cells(f, T))
  BY <1>1, SumIsCells
<1> QED
  BY <1>2, <1>5, <1>6

LEMMA SumPlus ==
  ASSUME NEW S, IsFiniteSet(S), NEW f, NEW g, NEW h,
         \A x \in S : f[x] \in Nat /\ g[x] \in Nat /\ h[x] = f[x] + g[x]
  PROVE  SumFunctionOnSet(h, S) = SumFunctionOnSet(f, S) + SumFunctionOnSet(g, S)
<1> DEFINE P == {s \in SUBSET S : SumFunctionOnSet(h, s) =
                   SumFunctionOnSet(f, s) + SumFunctionOnSet(g, s)}
<1>1. {} \in P
  BY SumEmpty
<1>2. ASSUME NEW s \in SUBSET S, NEW x \in S \ s, s \in P
      PROVE  s \cup {x} \in P
  <2>1. IsFiniteSet(s)
    BY FS_Subset
  <2>2. \A y \in s \cup {x} : f[y] \in Nat /\ g[y] \in Nat /\ h[y] \in Nat
    OBVIOUS
  <2>3. /\ SumFunctionOnSet(h, s \cup {x}) = h[x] + SumFunctionOnSet(h, s)
        /\ SumFunctionOnSet(f, s \cup {x}) = f[x] + SumFunctionOnSet(f, s)
        /\ SumFunctionOnSet(g, s \cup {x}) = g[x] + SumFunctionOnSet(g, s)
    BY <2>1, <2>2, SumAdd
  <2>4. /\ SumFunctionOnSet(f, s) \in Nat
        /\ SumFunctionOnSet(g, s) \in Nat
    BY <2>1, <2>2, SumIsNat
  <2> QED
    BY <1>2, <2>3, <2>4
<1>3. S \in P
  <2> HIDE DEF P
  <2> QED
    BY <1>1, <1>2, SubsetInduction
<1> QED
  BY <1>3

LEMMA SumOnes ==
  ASSUME NEW S, IsFiniteSet(S), NEW f, \A x \in S : f[x] = 1
  PROVE  SumFunctionOnSet(f, S) = Cardinality(S)
<1> DEFINE P == {s \in SUBSET S : SumFunctionOnSet(f, s) = Cardinality(s)}
<1>1. {} \in P
  BY SumEmpty, FS_EmptySet
<1>2. ASSUME NEW s \in SUBSET S, NEW x \in S \ s, s \in P
      PROVE  s \cup {x} \in P
  <2>1. IsFiniteSet(s)
    BY FS_Subset
  <2>2. SumFunctionOnSet(f, s \cup {x}) = 1 + SumFunctionOnSet(f, s)
    BY <2>1, SumAdd
  <2>3. Cardinality(s \cup {x}) = Cardinality(s) + 1 /\ Cardinality(s) \in Nat
    BY <2>1, FS_AddElement, FS_CardinalityType
  <2> QED
    BY <1>2, <2>2, <2>3
<1>3. S \in P
  <2> HIDE DEF P
  <2> QED
    BY <1>1, <1>2, SubsetInduction
<1> QED
  BY <1>3

LEMMA SumZeros ==
  ASSUME NEW S, IsFiniteSet(S), NEW f, \A x \in S : f[x] = 0
  PROVE  SumFunctionOnSet(f, S) = 0
<1>1. Cells(f, S) = {}
  BY DEF Cells
<1> QED
  BY <1>1, SumIsCells, FS_EmptySet

LEMMA OneMore ==
  ASSUME NEW n \in Nat, NEW c \in Nat
  PROVE  (n + 1) * c = n * c + c /\ n * c \in Nat
OBVIOUS

\* Sums of terms that are each within c / 2 of one another.
LEMMA SumClose ==
  ASSUME NEW S, IsFiniteSet(S), NEW f, NEW g, NEW c \in Nat,
         \A x \in S : /\ f[x] \in Nat /\ g[x] \in Nat
                      /\ 2 * f[x] <= 2 * g[x] + c
                      /\ 2 * g[x] <= 2 * f[x] + c
  PROVE  /\ 2 * SumFunctionOnSet(f, S) <= 2 * SumFunctionOnSet(g, S) + Cardinality(S) * c
         /\ 2 * SumFunctionOnSet(g, S) <= 2 * SumFunctionOnSet(f, S) + Cardinality(S) * c
<1> DEFINE Close(s) ==
             /\ 2 * SumFunctionOnSet(f, s) <= 2 * SumFunctionOnSet(g, s) + Cardinality(s) * c
             /\ 2 * SumFunctionOnSet(g, s) <= 2 * SumFunctionOnSet(f, s) + Cardinality(s) * c
           P == {s \in SUBSET S : Close(s)}
<1>1. {} \in P
  BY SumEmpty, FS_EmptySet
<1>2. ASSUME NEW s \in SUBSET S, NEW x \in S \ s, s \in P
      PROVE  s \cup {x} \in P
  <2>1. IsFiniteSet(s)
    BY FS_Subset
  <2>2. /\ SumFunctionOnSet(f, s \cup {x}) = f[x] + SumFunctionOnSet(f, s)
        /\ SumFunctionOnSet(g, s \cup {x}) = g[x] + SumFunctionOnSet(g, s)
    BY <2>1, SumAdd
  <2>3. SumFunctionOnSet(f, s) \in Nat /\ SumFunctionOnSet(g, s) \in Nat
    BY <2>1, SumIsNat
  <2>4. Cardinality(s \cup {x}) = Cardinality(s) + 1 /\ Cardinality(s) \in Nat
    BY <2>1, FS_AddElement, FS_CardinalityType
  <2> DEFINE n == Cardinality(s)
             m == n * c
  <2>5. (n + 1) * c = m + c /\ m \in Nat
    <3>1. n \in Nat
      BY <2>4
    <3> HIDE DEF n
    <3> QED
      BY <3>1, OneMore
  <2>6. Close(s)
    BY <1>2
  <2> HIDE DEF m
  <2>7. Cardinality(s \cup {x}) * c = m + c
    BY <2>4, <2>5
  <2>8. /\ 2 * SumFunctionOnSet(f, s) <= 2 * SumFunctionOnSet(g, s) + m
        /\ 2 * SumFunctionOnSet(g, s) <= 2 * SumFunctionOnSet(f, s) + m
    BY <2>6 DEF m
  <2>9. Close(s \cup {x})
    BY <2>2, <2>3, <2>5, <2>7, <2>8
  <2> QED
    BY <2>9
<1>3. S \in P
  <2> HIDE DEF P
  <2> QED
    BY <1>1, <1>2, SubsetInduction
<1> QED
  BY <1>3

-----------------------------------------------------------------------------
(* The highest number of a set.                                            *)

LEMMA MaxIsHighest ==
  ASSUME NEW S \in SUBSET Nat, IsFiniteSet(S), S # {}
  PROVE  Max(S) \in S /\ \A y \in S : y <= Max(S)
<1> DEFINE P == {s \in SUBSET S : s # {} => \E x \in s : \A y \in s : x >= y}
<1>1. {} \in P
  OBVIOUS
<1>2. ASSUME NEW s \in SUBSET S, NEW x \in S \ s, s \in P
      PROVE  s \cup {x} \in P
  <2>1. CASE s = {}
    BY <2>1
  <2>2. CASE s # {}
    <3>1. PICK z \in s : \A y \in s : z >= y
      BY <1>2, <2>2
    <3>2. CASE x >= z
      <4>1. \A y \in s \cup {x} : x >= y
        BY <3>1, <3>2
      <4> QED
        BY <4>1
    <3>3. CASE ~(x >= z)
      <4>1. \A y \in s \cup {x} : z >= y
        BY <3>1, <3>3
      <4> QED
        BY <4>1
    <3> QED
      BY <3>2, <3>3
  <2> QED
    BY <2>1, <2>2
<1>3. S \in P
  <2> HIDE DEF P
  <2> QED
    BY <1>1, <1>2, SubsetInduction
<1>4. \E x \in S : \A y \in S : x >= y
  BY <1>3
<1> QED
  BY <1>4 DEF Max

\* The number before the next serial, entry or id.
LEMMA MaxOfNone ==
  ASSUME NEW S \in SUBSET Nat, IsFiniteSet(S)
  PROVE  Max(S \cup {0}) \in Nat /\ \A y \in S : y <= Max(S \cup {0})
<1>1. IsFiniteSet(S \cup {0}) /\ S \cup {0} \in SUBSET Nat
  BY FS_AddElement
<1>2. Max(S \cup {0}) \in S \cup {0} /\ \A y \in S \cup {0} : y <= Max(S \cup {0})
  BY <1>1, MaxIsHighest
<1>3. Max(S \cup {0}) \in Nat
  BY <1>1, <1>2
<1>4. \A y \in S : y <= Max(S \cup {0})
  BY <1>2
<1> QED
  BY <1>3, <1>4

-----------------------------------------------------------------------------
(* Rows by day.                                                            *)

LEMMA DaysAreFinite ==
  ASSUME NEW R, IsFiniteSet(R)
  PROVE  IsFiniteSet(Days(R))
<1> DEFINE day == [r \in R |-> Day(r)]
<1>1. day \in Surjection(R, Days(R))
  BY DEF Surjection, Days
<1> QED
  BY <1>1, FS_Surjection

\* GROUP BY date: the sums of the days add up to the sum of the rows.
LEMMA GroupByDay ==
  ASSUME NEW R, IsFiniteSet(R), NEW D, IsFiniteSet(D), Days(R) \subseteq D,
         NEW w, \A r \in R : w[r] \in Nat,
         NEW f, \A d \in D : f[d] = SumFunctionOnSet(w, OnDay(R, d))
  PROVE  SumFunctionOnSet(f, D) = SumFunctionOnSet(w, R)
<1> DEFINE In(E) == {r \in R : Day(r) \in E}
           P == {E \in SUBSET D : SumFunctionOnSet(f, E) = SumFunctionOnSet(w, In(E))}
<1>1. {} \in P
  <2>1. In({}) = {}
    OBVIOUS
  <2> QED
    BY <2>1, SumEmpty
<1>2. ASSUME NEW E \in SUBSET D, NEW d \in D \ E, E \in P
      PROVE  E \cup {d} \in P
  <2>1. In(E \cup {d}) = In(E) \cup OnDay(R, d)
    BY DEF OnDay
  <2>2. In(E) \cap OnDay(R, d) = {}
    BY DEF OnDay
  <2>3. IsFiniteSet(E) /\ IsFiniteSet(In(E)) /\ IsFiniteSet(OnDay(R, d))
    BY FS_Subset DEF OnDay
  <2>4. \A r \in In(E) \cup OnDay(R, d) : w[r] \in Nat
    BY DEF OnDay
  <2>5. SumFunctionOnSet(w, In(E) \cup OnDay(R, d)) =
          SumFunctionOnSet(w, In(E)) + SumFunctionOnSet(w, OnDay(R, d))
    <3> HIDE DEF In
    <3> QED
      BY <2>2, <2>3, <2>4, SumUnion
  <2>6. \A e \in D : f[e] \in Nat
    <3> SUFFICES ASSUME NEW e \in D
                 PROVE  SumFunctionOnSet(w, OnDay(R, e)) \in Nat
      OBVIOUS
    <3>1. IsFiniteSet(OnDay(R, e)) /\ \A r \in OnDay(R, e) : w[r] \in Nat
      BY FS_Subset DEF OnDay
    <3> QED
      BY <3>1, SumIsNat
  <2>7. SumFunctionOnSet(f, E \cup {d}) = f[d] + SumFunctionOnSet(f, E)
    BY <2>3, <2>6, SumAdd
  <2>8. SumFunctionOnSet(w, In(E)) \in Nat /\ f[d] \in Nat
    BY <2>3, <2>4, <2>6, SumIsNat
  <2>9. f[d] = SumFunctionOnSet(w, OnDay(R, d))
    OBVIOUS
  <2>10. SumFunctionOnSet(f, E) = SumFunctionOnSet(w, In(E))
    BY <1>2
  <2>11. SumFunctionOnSet(f, E \cup {d}) = SumFunctionOnSet(w, In(E \cup {d}))
    <3>1. SumFunctionOnSet(w, In(E \cup {d})) =
            SumFunctionOnSet(w, In(E)) + SumFunctionOnSet(w, OnDay(R, d))
      <4> HIDE DEF In
      <4> QED
        BY <2>1, <2>5
    <3> HIDE DEF In
    <3> QED
      BY <3>1, <2>7, <2>8, <2>9, <2>10
  <2> QED
    BY <2>11
<1>3. D \in P
  <2> HIDE DEF P
  <2> QED
    BY <1>1, <1>2, SubsetInduction
<1>4. In(D) = R
  BY DEF Days
<1> QED
  BY <1>3, <1>4
-----------------------------------------------------------------------------
(* What hits save.                                                         *)

LEMMA HitsOfRows ==
  ASSUME NEW rows \in SUBSET Row, IsFiniteSet(rows)
  PROVE  /\ Hits(rows) \subseteq rows /\ IsFiniteSet(Hits(rows))
         /\ \A r \in rows : r.kind.tokens \in Nat /\ r.kind.cost \in Nat /\ r.at \in Nat
<1>1. Hits(rows) \in SUBSET rows
  BY DEF Hits
<1>2. IsFiniteSet(Hits(rows))
  BY <1>1, FS_Subset
<1>3. ASSUME NEW r \in rows
      PROVE  r.kind.tokens \in Nat /\ r.kind.cost \in Nat /\ r.at \in Nat
  <2>1. r \in Row
    OBVIOUS
  <2>2. r.kind \in [hit : BOOLEAN, tokens : Nat, cost : Nat] /\ r.at \in Nat
    BY <2>1, RetentionAssumption DEF Row
  <2> QED
    BY <2>2
<1> QED
  BY <1>1, <1>2, <1>3

\* The savings as sums of one function over the rows of any larger set.
LEMMA SavedAsSums ==
  ASSUME NEW rows \in SUBSET Row, IsFiniteSet(rows),
         NEW U, rows \subseteq U
  PROVE  /\ TokensSaved(rows) = SumFunctionOnSet([r \in U |-> r.kind.tokens], Hits(rows))
         /\ CostSaved(rows) = SumFunctionOnSet([r \in U |-> r.kind.cost], Hits(rows))
         /\ TokensSaved(rows) \in Nat
         /\ CostSaved(rows) \in Nat
<1> DEFINE H == Hits(rows)
           t == [r \in H |-> r.kind.tokens]
           c == [r \in H |-> r.kind.cost]
           tU == [r \in U |-> r.kind.tokens]
           cU == [r \in U |-> r.kind.cost]
<1>1. IsFiniteSet(H) /\ H \subseteq rows
  BY HitsOfRows
<1>2. \A r \in H : t[r] \in Nat /\ t[r] = tU[r] /\ c[r] \in Nat /\ c[r] = cU[r]
  BY <1>1, HitsOfRows
<1>3. TokensSaved(rows) = SumFunctionOnSet(t, H) /\ CostSaved(rows) = SumFunctionOnSet(c, H)
  BY DEF TokensSaved, CostSaved, SumFunction
<1> HIDE DEF H, t, c, tU, cU
<1>4. /\ SumFunctionOnSet(t, H) = SumFunctionOnSet(tU, H)
      /\ SumFunctionOnSet(c, H) = SumFunctionOnSet(cU, H)
  BY <1>1, <1>2, SumSame
<1>5. SumFunctionOnSet(t, H) \in Nat /\ SumFunctionOnSet(c, H) \in Nat
  BY <1>1, <1>2, SumIsNat
<1> QED
  BY <1>3, <1>4, <1>5 DEF H, tU, cU

LEMMA SavedOfBoth ==
  ASSUME NEW A \in SUBSET Row, IsFiniteSet(A), NEW B \in SUBSET Row, IsFiniteSet(B),
         A \cap B = {}
  PROVE  /\ Cardinality(A \cup B) = Cardinality(A) + Cardinality(B)
         /\ Cardinality(Hits(A \cup B)) = Cardinality(Hits(A)) + Cardinality(Hits(B))
         /\ TokensSaved(A \cup B) = TokensSaved(A) + TokensSaved(B)
         /\ CostSaved(A \cup B) = CostSaved(A) + CostSaved(B)
<1> DEFINE U == A \cup B
           t == [r \in U |-> r.kind.tokens]
           c == [r \in U |-> r.kind.cost]
<1>1. Hits(U) = Hits(A) \cup Hits(B) /\ Hits(A) \cap Hits(B) = {}
  BY DEF Hits
<1>2. /\ IsFiniteSet(Hits(A)) /\ IsFiniteSet(Hits(B))
      /\ Hits(A) \subseteq A /\ Hits(B) \subseteq B
  BY HitsOfRows
<1>3. U \in SUBSET Row /\ IsFiniteSet(U) /\ A \subseteq U /\ B \subseteq U
  BY FS_Union
<1>4. \A r \in Hits(A) \cup Hits(B) : t[r] \in Nat /\ c[r] \in Nat
  BY <1>2, <1>3, HitsOfRows
<1>5. /\ TokensSaved(U) = SumFunctionOnSet(t, Hits(U))
      /\ CostSaved(U) = SumFunctionOnSet(c, Hits(U))
      /\ TokensSaved(A) = SumFunctionOnSet(t, Hits(A))
      /\ CostSaved(A) = SumFunctionOnSet(c, Hits(A))
      /\ TokensSaved(B) = SumFunctionOnSet(t, Hits(B))
      /\ CostSaved(B) = SumFunctionOnSet(c, Hits(B))
  BY <1>3, SavedAsSums
<1> HIDE DEF t, c
<1>6. /\ SumFunctionOnSet(t, Hits(A) \cup Hits(B)) =
           SumFunctionOnSet(t, Hits(A)) + SumFunctionOnSet(t, Hits(B))
      /\ SumFunctionOnSet(c, Hits(A) \cup Hits(B)) =
           SumFunctionOnSet(c, Hits(A)) + SumFunctionOnSet(c, Hits(B))
  BY <1>1, <1>2, <1>4, SumUnion
<1>7. Cardinality(A \cup B) = Cardinality(A) + Cardinality(B)
  BY CountOfBoth
<1>8. Cardinality(Hits(A) \cup Hits(B)) = Cardinality(Hits(A)) + Cardinality(Hits(B))
  BY <1>1, <1>2, CountOfBoth
<1>9. TokensSaved(U) = TokensSaved(A) + TokensSaved(B)
  BY <1>1, <1>5, <1>6
<1>10. CostSaved(U) = CostSaved(A) + CostSaved(B)
  BY <1>1, <1>5, <1>6
<1> QED
  BY <1>1, <1>7, <1>8, <1>9, <1>10

\* ROUND moves a cost by half a unit at most.
LEMMA CostOfMillionths ==
  ASSUME NEW n \in Nat
  PROVE  /\ Rounded(n) \in Nat
         /\ 2 * Rounded(n) <= 2 * n + CostUnit
         /\ 2 * n <= 2 * Rounded(n) + CostUnit
<1>1. CostUnit \in Nat /\ CostUnit > 0
  BY RetentionAssumption
<1> DEFINE m == 2 * n + CostUnit
           u == 2 * CostUnit
           q == m \div u
<1>2. m \in Nat /\ u \in Nat /\ u > 0
  BY <1>1
<1>3. q \in Nat /\ u * q <= m /\ m < u * q + u
  <2> HIDE DEF m, u
  <2>1. q \in Int /\ m % u \in 0 .. u - 1 /\ m = u * q + (m % u)
    BY <1>2
  <2>2. q \in Nat
    BY <1>2
  <2> QED
    BY <1>2, <2>1, <2>2
<1> HIDE DEF q
<1> DEFINE p == CostUnit * q
<1>4. p \in Nat /\ u * q = 2 * p
  BY <1>1, <1>3
<1>5. Rounded(n) = p
  BY DEF Rounded, q, m, u
<1> HIDE DEF p
<1>6. 2 * p <= m /\ m < 2 * p + u
  <2> HIDE DEF m, u
  <2> QED
    BY <1>3, <1>4
<1> QED
  BY <1>1, <1>4, <1>5, <1>6

-----------------------------------------------------------------------------
(* The totals of a day.                                                    *)

\* The totals of a day are those of these rows of it.
Counted(t, rows) ==
  /\ t.requests = Cardinality(rows)
  /\ t.hits = Cardinality(Hits(rows))
  /\ t.tokens = TokensSaved(rows)

LEMMA AggregateCounts ==
  ASSUME NEW rows \in SUBSET Row, IsFiniteSet(rows)
  PROVE  /\ Aggregate(rows) \in Totals
         /\ Counted(Aggregate(rows), rows)
         /\ Aggregate(rows).cost = Rounded(CostSaved(rows))
<1>1. Cardinality(rows) \in Nat
  BY FS_CardinalityType
<1>2. Cardinality(Hits(rows)) \in Nat
  BY HitsOfRows, FS_CardinalityType
<1>3. TokensSaved(rows) \in Nat /\ CostSaved(rows) \in Nat
  BY SavedAsSums
<1>4. Rounded(CostSaved(rows)) \in Nat
  BY <1>3, CostOfMillionths
<1> QED
  BY <1>1, <1>2, <1>3, <1>4 DEF Aggregate, Totals, Counted

\* ON CONFLICT DO UPDATE adds the counts of two disjoint sets of rows.
LEMMA PlusCounts ==
  ASSUME NEW A \in SUBSET Row, IsFiniteSet(A), NEW B \in SUBSET Row, IsFiniteSet(B),
         A \cap B = {}, NEW t \in Totals, NEW u \in Totals,
         Counted(t, A), Counted(u, B)
  PROVE  /\ Plus(t, u) \in Totals
         /\ Counted(Plus(t, u), A \cup B)
         /\ Plus(t, u).cost = t.cost + u.cost
<1>1. Plus(t, u) = [requests |-> t.requests + u.requests, hits |-> t.hits + u.hits,
                    tokens |-> t.tokens + u.tokens, cost |-> t.cost + u.cost]
  BY DEF Plus, Totals
<1>2. /\ t.requests \in Nat /\ t.hits \in Nat /\ t.tokens \in Nat /\ t.cost \in Nat
      /\ u.requests \in Nat /\ u.hits \in Nat /\ u.tokens \in Nat /\ u.cost \in Nat
  BY DEF Totals
<1>3. Plus(t, u) \in Totals
  BY <1>1, <1>2 DEF Totals
<1>4. /\ Plus(t, u).requests = t.requests + u.requests
      /\ Plus(t, u).hits = t.hits + u.hits
      /\ Plus(t, u).tokens = t.tokens + u.tokens
      /\ Plus(t, u).cost = t.cost + u.cost
  BY <1>1
<1>5. Counted(Plus(t, u), A \cup B)
  BY <1>4, SavedOfBoth DEF Counted
<1> QED
  BY <1>3, <1>4, <1>5
-----------------------------------------------------------------------------
(* The retention.                                                          *)

RowsOK ==
  /\ log \subseteq ever
  /\ copiedLog \subseteq ever
  /\ ever \subseteq Row
  /\ IsFiniteSet(ever)
  /\ now \in Nat
  /\ roundings \in Nat

\* The rows that the retention has taken.
Gone == ever \ (log \cup copiedLog)

\* The rollup has a row for each day that rows were taken of, and it counts those.
DailyOK ==
  /\ daily \in [DOMAIN daily -> Totals]
  /\ DOMAIN daily = Days(Gone)
  /\ \A d \in DOMAIN daily : Counted(daily[d], OnDay(Gone, d))

\* What the rollup says was saved, and how far that may be from the rows it was
\* made of.
DailyCost == SumFunction([d \in DOMAIN daily |-> daily[d].cost])

CostOK ==
  /\ 2 * DailyCost <= 2 * CostSaved(Gone) + roundings * CostUnit
  /\ 2 * CostSaved(Gone) <= 2 * DailyCost + roundings * CostUnit

LEMMA RowSets ==
  ASSUME RowsOK
  PROVE  /\ Gone \in SUBSET Row /\ IsFiniteSet(Gone)
         /\ log \in SUBSET Row /\ IsFiniteSet(log)
         /\ copiedLog \in SUBSET Row /\ IsFiniteSet(copiedLog)
         /\ Old \in SUBSET Row /\ IsFiniteSet(Old)
         /\ Old \subseteq log /\ Gone \cap Old = {}
<1>1. Gone \in SUBSET ever /\ Old \in SUBSET log /\ Old \in SUBSET ever
  BY DEF Gone, Old, RowsOK
<1>2. IsFiniteSet(Gone) /\ IsFiniteSet(log) /\ IsFiniteSet(copiedLog) /\ IsFiniteSet(Old)
  BY <1>1, FS_Subset DEF RowsOK
<1> QED
  BY <1>1, <1>2 DEF RowsOK, Gone

LEMMA DaysAreNat ==
  ASSUME NEW rows \in SUBSET Row
  PROVE  Days(rows) \subseteq Nat
<1>1. ASSUME NEW r \in rows PROVE r.at \div PerDay \in Nat
  <2>1. r.at \in Nat
    BY DEF Row
  <2>2. PerDay \in Nat /\ PerDay > 0
    BY RetentionAssumption
  <2> QED
    BY <2>1, <2>2
<1> QED
  BY <1>1 DEF Days, Day

LEMMA RowsOfDay ==
  ASSUME NEW rows \in SUBSET Row, IsFiniteSet(rows), NEW d
  PROVE  /\ OnDay(rows, d) \in SUBSET Row /\ IsFiniteSet(OnDay(rows, d))
         /\ d \notin Days(rows) => OnDay(rows, d) = {}
<1>1. OnDay(rows, d) \in SUBSET rows
  BY DEF OnDay
<1> QED
  BY <1>1, FS_Subset DEF OnDay, Days

\* What a retention pass makes of each day of the rollup.
LEMMA PruneRolls ==
  ASSUME RowsOK, DailyOK, log \cap copiedLog = {}, Prune, copiedLog' = copiedLog
  PROVE  /\ Gone' = Gone \cup Old
         /\ DOMAIN daily' = DOMAIN daily \cup Days(Old)
         /\ \A d \in DOMAIN daily' :
              /\ daily'[d] \in Totals
              /\ Counted(daily'[d], OnDay(Gone \cup Old, d))
              /\ daily'[d].cost = (IF d \in DOMAIN daily THEN daily[d].cost ELSE 0)
                                  + (IF d \in Days(Old)
                                       THEN Rounded(CostSaved(OnDay(Old, d))) ELSE 0)
<1>1. Gone' = Gone \cup Old
  BY DEF Prune, Gone, Old, RowsOK
<1>2. /\ DOMAIN daily' = DOMAIN daily \cup Days(Old)
      /\ \A d \in DOMAIN daily' : daily'[d] =
           IF d \notin Days(Old) THEN daily[d]
           ELSE IF d \in DOMAIN daily THEN Plus(daily[d], Aggregate(OnDay(Old, d)))
           ELSE Aggregate(OnDay(Old, d))
  BY DEF Prune, Rolled
<1>3. ASSUME NEW d \in DOMAIN daily'
      PROVE  /\ daily'[d] \in Totals
             /\ Counted(daily'[d], OnDay(Gone \cup Old, d))
             /\ daily'[d].cost = (IF d \in DOMAIN daily THEN daily[d].cost ELSE 0)
                                 + (IF d \in Days(Old)
                                      THEN Rounded(CostSaved(OnDay(Old, d))) ELSE 0)
  <2> DEFINE before == OnDay(Gone, d)
             taken == OnDay(Old, d)
             u == Aggregate(taken)
  <2>1. /\ before \in SUBSET Row /\ IsFiniteSet(before)
        /\ taken \in SUBSET Row /\ IsFiniteSet(taken)
        /\ d \notin Days(Gone) => before = {}
        /\ d \notin Days(Old) => taken = {}
    BY RowSets, RowsOfDay
  <2>2. before \cap taken = {}
    BY RowSets DEF OnDay
  <2>3. OnDay(Gone \cup Old, d) = before \cup taken
    BY DEF OnDay
  <2>4. u \in Totals /\ Counted(u, taken) /\ u.cost = Rounded(CostSaved(taken))
    BY <2>1, AggregateCounts
  <2>5. d \in DOMAIN daily => /\ daily[d] \in Totals /\ daily[d].cost \in Nat
                              /\ Counted(daily[d], before)
    BY DEF DailyOK, Totals
  <2>6. u.cost \in Nat
    BY <2>4 DEF Totals
  <2> HIDE DEF before, taken, u
  <2>7. CASE d \notin Days(Old)
    <3>1. d \in DOMAIN daily /\ daily'[d] = daily[d]
      BY <1>2, <2>7
    <3>2. before \cup taken = before
      BY <2>1, <2>7
    <3>3. OnDay(Gone \cup Old, d) = before
      BY <3>2, <2>3
    <3>4. Counted(daily'[d], OnDay(Gone \cup Old, d))
      BY <3>1, <3>3, <2>5
    <3>5. daily'[d] \in Totals /\ daily'[d].cost = daily[d].cost + 0
      BY <3>1, <2>5
    <3> QED
      BY <3>1, <3>4, <3>5, <2>7
  <2>8. CASE d \in Days(Old) /\ d \in DOMAIN daily
    <3>1. daily'[d] = Plus(daily[d], u)
      BY <1>2, <2>8 DEF u, taken
    <3>2. /\ Plus(daily[d], u) \in Totals
          /\ Counted(Plus(daily[d], u), before \cup taken)
          /\ Plus(daily[d], u).cost = daily[d].cost + u.cost
      <4> DEFINE t == daily[d]
      <4>1. t \in Totals /\ Counted(t, before)
        BY <2>5, <2>8
      <4>2. u \in Totals /\ Counted(u, taken)
        BY <2>4
      <4>3. before \in SUBSET Row /\ IsFiniteSet(before)
        BY <2>1
      <4>4. taken \in SUBSET Row /\ IsFiniteSet(taken)
        BY <2>1
      <4> HIDE DEF t
      <4>5. Plus(t, u) \in Totals /\ Counted(Plus(t, u), before \cup taken)
        BY <4>1, <4>2, <4>3, <4>4, <2>2, PlusCounts
      <4>6. Plus(t, u).cost = t.cost + u.cost
        BY <4>1, <4>2, <4>3, <4>4, <2>2, PlusCounts
      <4> QED
        BY <4>5, <4>6 DEF t
    <3>3. daily'[d].cost = daily[d].cost + Rounded(CostSaved(OnDay(Old, d)))
      BY <3>1, <3>2, <2>4 DEF taken
    <3> QED
      BY <3>1, <3>2, <3>3, <2>3, <2>8
  <2>9. CASE d \in Days(Old) /\ d \notin DOMAIN daily
    <3>1. daily'[d] = u
      BY <1>2, <2>9 DEF u, taken
    <3>2. before = {}
      BY <2>1, <2>9 DEF DailyOK
    <3>3. before \cup taken = taken
      BY <3>2
    <3>4. daily'[d].cost = Rounded(CostSaved(OnDay(Old, d)))
      BY <3>1, <2>4 DEF taken
    <3>5. Rounded(CostSaved(OnDay(Old, d))) \in Nat
      BY <3>1, <3>4, <2>6
    <3>6. OnDay(Gone \cup Old, d) = taken
      BY <3>3, <2>3
    <3>7. daily'[d] \in Totals /\ Counted(daily'[d], OnDay(Gone \cup Old, d))
      BY <3>1, <3>6, <2>4
    <3>8. daily'[d].cost = 0 + Rounded(CostSaved(OnDay(Old, d)))
      BY <3>4, <3>5
    <3> QED
      BY <3>7, <3>8, <2>9
  <2> QED
    BY <2>7, <2>8, <2>9
<1> QED
  BY <1>1, <1>2, <1>3

\* The sum over the days of both, where a day that is in one only has what that
\* one gives.
LEMMA CostRolledUp ==
  ASSUME NEW D, IsFiniteSet(D), NEW N, IsFiniteSet(N), NEW a, NEW b, NEW c,
         \A d \in D : a[d] \in Nat,
         \A d \in N : b[d] \in Nat,
         \A d \in D \cup N : c[d] = (IF d \in D THEN a[d] ELSE 0)
                                    + (IF d \in N THEN b[d] ELSE 0)
  PROVE  SumFunctionOnSet(c, D \cup N) = SumFunctionOnSet(a, D) + SumFunctionOnSet(b, N)
<1> DEFINE U == D \cup N
           aU == [d \in U |-> IF d \in D THEN a[d] ELSE 0]
           bU == [d \in U |-> IF d \in N THEN b[d] ELSE 0]
<1>1. IsFiniteSet(U)
  BY FS_Union
<1>2. \A d \in U : aU[d] \in Nat /\ bU[d] \in Nat /\ c[d] = aU[d] + bU[d]
  OBVIOUS
<1>3. /\ \A d \in D : a[d] \in Nat /\ a[d] = aU[d]
      /\ \A d \in N : b[d] \in Nat /\ b[d] = bU[d]
      /\ \A d \in U \ D : aU[d] = 0
      /\ \A d \in U \ N : bU[d] = 0
  OBVIOUS
<1>4. U = D \cup (U \ D) /\ U = N \cup (U \ N)
  OBVIOUS
<1>5. IsFiniteSet(U \ D) /\ IsFiniteSet(U \ N)
  BY <1>1, FS_Difference
<1> HIDE DEF aU, bU, U
<1>6. SumFunctionOnSet(c, U) = SumFunctionOnSet(aU, U) + SumFunctionOnSet(bU, U)
  BY <1>1, <1>2, SumPlus
<1>7. SumFunctionOnSet(aU, U) = SumFunctionOnSet(a, D)
  <2>1. SumFunctionOnSet(aU, D \cup (U \ D)) =
          SumFunctionOnSet(aU, D) + SumFunctionOnSet(aU, U \ D)
    BY <1>2, <1>4, <1>5, SumUnion
  <2>2. SumFunctionOnSet(aU, U \ D) = 0
    BY <1>3, <1>5, SumZeros
  <2>3. SumFunctionOnSet(a, D) = SumFunctionOnSet(aU, D) /\ SumFunctionOnSet(a, D) \in Nat
    BY <1>3, SumSame, SumIsNat
  <2>4. SumFunctionOnSet(aU, U) = SumFunctionOnSet(aU, D \cup (U \ D))
    BY <1>4
  <2> QED
    BY <2>1, <2>2, <2>3, <2>4
<1>8. SumFunctionOnSet(bU, U) = SumFunctionOnSet(b, N)
  <2>1. SumFunctionOnSet(bU, N \cup (U \ N)) =
          SumFunctionOnSet(bU, N) + SumFunctionOnSet(bU, U \ N)
    BY <1>2, <1>4, <1>5, SumUnion
  <2>2. SumFunctionOnSet(bU, U \ N) = 0
    BY <1>3, <1>5, SumZeros
  <2>3. SumFunctionOnSet(b, N) = SumFunctionOnSet(bU, N) /\ SumFunctionOnSet(b, N) \in Nat
    BY <1>3, SumSame, SumIsNat
  <2>4. SumFunctionOnSet(bU, U) = SumFunctionOnSet(bU, N \cup (U \ N))
    BY <1>4
  <2> QED
    BY <2>1, <2>2, <2>3, <2>4
<1> QED
  BY <1>6, <1>7, <1>8 DEF U
\* The counts and savings of the days add up to those of the rows.
LEMMA DaysAddUp ==
  ASSUME NEW rows \in SUBSET Row, IsFiniteSet(rows),
         NEW D, IsFiniteSet(D), Days(rows) \subseteq D
  PROVE  /\ SumFunctionOnSet([d \in D |-> Cardinality(OnDay(rows, d))], D) =
              Cardinality(rows)
         /\ SumFunctionOnSet([d \in D |-> Cardinality(Hits(OnDay(rows, d)))], D) =
              Cardinality(Hits(rows))
         /\ SumFunctionOnSet([d \in D |-> TokensSaved(OnDay(rows, d))], D) =
              TokensSaved(rows)
         /\ SumFunctionOnSet([d \in D |-> CostSaved(OnDay(rows, d))], D) =
              CostSaved(rows)
<1> DEFINE H == Hits(rows)
           one == [r \in rows |-> 1]
           t == [r \in rows |-> r.kind.tokens]
           c == [r \in rows |-> r.kind.cost]
           fr == [d \in D |-> Cardinality(OnDay(rows, d))]
           fh == [d \in D |-> Cardinality(Hits(OnDay(rows, d)))]
           ft == [d \in D |-> TokensSaved(OnDay(rows, d))]
           fc == [d \in D |-> CostSaved(OnDay(rows, d))]
<1>1. H \subseteq rows /\ IsFiniteSet(H) /\ Days(H) \subseteq D
  <2>1. H \subseteq rows /\ IsFiniteSet(H)
    BY HitsOfRows
  <2> QED
    BY <2>1 DEF Days
<1>2. \A r \in rows : one[r] = 1 /\ one[r] \in Nat /\ t[r] \in Nat /\ c[r] \in Nat
  BY HitsOfRows
<1>3. ASSUME NEW d \in D
      PROVE  /\ fr[d] = SumFunctionOnSet(one, OnDay(rows, d))
             /\ fh[d] = SumFunctionOnSet(one, OnDay(H, d))
             /\ ft[d] = SumFunctionOnSet(t, OnDay(H, d))
             /\ fc[d] = SumFunctionOnSet(c, OnDay(H, d))
  <2> DEFINE today == OnDay(rows, d)
  <2>1. today \in SUBSET Row /\ today \subseteq rows /\ IsFiniteSet(today)
    BY RowsOfDay DEF OnDay
  <2>2. OnDay(H, d) = Hits(today)
    BY DEF OnDay, Hits
  <2>3. Hits(today) \subseteq today /\ IsFiniteSet(Hits(today))
    BY <2>1, HitsOfRows
  <2>4. /\ fr[d] = Cardinality(today) /\ fh[d] = Cardinality(Hits(today))
        /\ ft[d] = TokensSaved(today) /\ fc[d] = CostSaved(today)
    OBVIOUS
  <2> HIDE DEF today, fr, fh, ft, fc, H
  <2>5. /\ SumFunctionOnSet(one, today) = Cardinality(today)
        /\ SumFunctionOnSet(one, Hits(today)) = Cardinality(Hits(today))
    <3>1. \A r \in today : one[r] = 1
      BY <1>2, <2>1
    <3>2. \A r \in Hits(today) : one[r] = 1
      BY <3>1, <2>3
    <3> HIDE DEF one
    <3> QED
      BY <3>1, <3>2, <2>1, <2>3, SumOnes
  <2>6. /\ TokensSaved(today) = SumFunctionOnSet(t, Hits(today))
        /\ CostSaved(today) = SumFunctionOnSet(c, Hits(today))
    BY <2>1, SavedAsSums
  <2> HIDE DEF one, t, c
  <2> QED
    BY <2>2, <2>4, <2>5, <2>6 DEF today
<1>4. /\ TokensSaved(rows) = SumFunctionOnSet(t, H)
      /\ CostSaved(rows) = SumFunctionOnSet(c, H)
  BY SavedAsSums
<1> HIDE DEF H, one, t, c, fr, fh, ft, fc
<1>5. SumFunctionOnSet(one, rows) = Cardinality(rows)
  BY <1>2, SumOnes
<1>6. SumFunctionOnSet(one, H) = Cardinality(H)
  BY <1>1, <1>2, SumOnes
<1>7. \A r \in H : one[r] \in Nat /\ t[r] \in Nat /\ c[r] \in Nat
  BY <1>1, <1>2
<1>8. SumFunctionOnSet(fr, D) = SumFunctionOnSet(one, rows)
  BY <1>2, <1>3, GroupByDay
<1>9. /\ SumFunctionOnSet(fh, D) = SumFunctionOnSet(one, H)
      /\ SumFunctionOnSet(ft, D) = SumFunctionOnSet(t, H)
      /\ SumFunctionOnSet(fc, D) = SumFunctionOnSet(c, H)
  BY <1>1, <1>3, <1>7, GroupByDay
<1> QED
  BY <1>4, <1>5, <1>6, <1>8, <1>9 DEF H, fr, fh, ft, fc

LEMMA Distributed ==
  ASSUME NEW m \in Nat, NEW n \in Nat, NEW c \in Nat
  PROVE  (m + n) * c = m * c + n * c /\ m * c \in Nat /\ n * c \in Nat
OBVIOUS

\* A retention pass preserves what is invariant of the log and the rollup.
LEMMA PruneRows ==
  ASSUME RowsOK, Prune, copiedLog' = copiedLog
  PROVE  RowsOK'
<1>1. log' = log \ Old /\ ever' = ever /\ now' = now
      /\ roundings' = roundings + Cardinality(Days(Old))
  BY DEF Prune
<1>2. Cardinality(Days(Old)) \in Nat
  BY RowSets, DaysAreFinite, FS_CardinalityType
<1> QED
  BY <1>1, <1>2 DEF RowsOK

LEMMA PruneDaily ==
  ASSUME RowsOK, DailyOK, log \cap copiedLog = {}, Prune, copiedLog' = copiedLog
  PROVE  DailyOK'
<1>1. daily' = [d \in DOMAIN daily' |-> daily'[d]]
  BY DEF Prune, Rolled
<1>2. \A d \in DOMAIN daily' :
        daily'[d] \in Totals /\ Counted(daily'[d], OnDay(Gone \cup Old, d))
  BY PruneRolls
<1>3. daily' \in [DOMAIN daily' -> Totals]
  BY <1>1, <1>2
<1>4. Gone' = Gone \cup Old /\ DOMAIN daily' = DOMAIN daily \cup Days(Old)
  BY PruneRolls
<1>5. Days(Gone \cup Old) = Days(Gone) \cup Days(Old)
  BY DEF Days
<1>6. DOMAIN daily' = Days(Gone')
  BY <1>4, <1>5 DEF DailyOK
<1>7. \A d \in DOMAIN daily' : Counted(daily'[d], OnDay(Gone', d))
  BY <1>2, <1>4
<1> QED
  BY <1>3, <1>6, <1>7 DEF DailyOK, Counted

LEMMA DailyCosts ==
  ASSUME RowsOK, DailyOK
  PROVE  /\ IsFiniteSet(DOMAIN daily)
         /\ \A d \in DOMAIN daily : daily[d] \in Totals /\ daily[d].cost \in Nat
         /\ DailyCost \in Nat
<1> DEFINE a == [d \in DOMAIN daily |-> daily[d].cost]
<1>1. IsFiniteSet(DOMAIN daily)
  BY RowSets, DaysAreFinite DEF DailyOK
<1>2. \A d \in DOMAIN daily : daily[d] \in Totals /\ daily[d].cost \in Nat
  BY DEF DailyOK, Totals
<1>3. DailyCost = SumFunctionOnSet(a, DOMAIN daily)
  BY DEF DailyCost, SumFunction
<1>4. SumFunctionOnSet(a, DOMAIN daily) \in Nat
  BY <1>1, <1>2, SumIsNat
<1> QED
  BY <1>1, <1>2, <1>3, <1>4

\* Each day that is rolled up adds an error of half a unit at most.
LEMMA PruneCost ==
  ASSUME RowsOK, DailyOK, CostOK, log \cap copiedLog = {}, Prune, copiedLog' = copiedLog
  PROVE  CostOK'
<1> DEFINE D == DOMAIN daily
           N == Days(Old)
           a == [d \in D |-> daily[d].cost]
           b == [d \in N |-> Rounded(CostSaved(OnDay(Old, d)))]
           g == [d \in N |-> CostSaved(OnDay(Old, d))]
           c == [d \in D \cup N |-> daily'[d].cost]
<1>1. IsFiniteSet(D) /\ IsFiniteSet(N) /\ Cardinality(N) \in Nat
  BY RowSets, DaysAreFinite, DailyCosts, FS_CardinalityType
<1>2. DOMAIN daily' = D \cup N /\ Gone' = Gone \cup Old
  BY PruneRolls
<1>3. \A d \in D : a[d] \in Nat
  BY DailyCosts
<1>4. \A d \in N : /\ g[d] \in Nat /\ b[d] \in Nat
                   /\ 2 * b[d] <= 2 * g[d] + CostUnit
                   /\ 2 * g[d] <= 2 * b[d] + CostUnit
  <2> SUFFICES ASSUME NEW d \in N
               PROVE  LET n == CostSaved(OnDay(Old, d))
                      IN  /\ n \in Nat /\ Rounded(n) \in Nat
                          /\ 2 * Rounded(n) <= 2 * n + CostUnit
                          /\ 2 * n <= 2 * Rounded(n) + CostUnit
    OBVIOUS
  <2>1. OnDay(Old, d) \in SUBSET Row /\ IsFiniteSet(OnDay(Old, d))
    BY RowSets, RowsOfDay
  <2>2. CostSaved(OnDay(Old, d)) \in Nat
    BY <2>1, SavedAsSums
  <2> QED
    BY <2>2, CostOfMillionths
<1>5. \A d \in D \cup N : c[d] = (IF d \in D THEN a[d] ELSE 0)
                                 + (IF d \in N THEN b[d] ELSE 0)
  <2> SUFFICES ASSUME NEW d \in D \cup N
               PROVE  daily'[d].cost = (IF d \in D THEN a[d] ELSE 0)
                                       + (IF d \in N THEN b[d] ELSE 0)
    OBVIOUS
  <2>1. daily'[d].cost = (IF d \in DOMAIN daily THEN daily[d].cost ELSE 0)
                         + (IF d \in Days(Old)
                              THEN Rounded(CostSaved(OnDay(Old, d))) ELSE 0)
    BY <1>2, PruneRolls
  <2> QED
    BY <2>1
<1>6. SumFunctionOnSet(g, N) = CostSaved(Old)
  BY <1>1, RowSets, DaysAddUp
<1>7. DailyCost = SumFunctionOnSet(a, D)
  BY DEF DailyCost, SumFunction
<1>8. DailyCost' = SumFunctionOnSet(c, D \cup N)
  BY <1>2 DEF DailyCost, SumFunction
<1>9. CostSaved(Gone') = CostSaved(Gone) + CostSaved(Old)
  BY <1>2, RowSets, SavedOfBoth
<1>10. roundings \in Nat /\ roundings' = roundings + Cardinality(N)
  BY DEF RowsOK, Prune
<1>11. CostUnit \in Nat
  BY RetentionAssumption
<1>12. /\ CostSaved(Gone) \in Nat /\ CostSaved(Old) \in Nat
  BY RowSets, SavedAsSums
<1> HIDE DEF D, N, a, b, g, c
<1>13. SumFunctionOnSet(c, D \cup N) = SumFunctionOnSet(a, D) + SumFunctionOnSet(b, N)
  BY <1>1, <1>3, <1>4, <1>5, CostRolledUp
<1>14. /\ 2 * SumFunctionOnSet(b, N) <= 2 * SumFunctionOnSet(g, N) + Cardinality(N) * CostUnit
       /\ 2 * SumFunctionOnSet(g, N) <= 2 * SumFunctionOnSet(b, N) + Cardinality(N) * CostUnit
  BY <1>1, <1>4, <1>11, SumClose
<1>15. SumFunctionOnSet(a, D) \in Nat /\ SumFunctionOnSet(b, N) \in Nat
  BY <1>1, <1>3, <1>4, SumIsNat
<1> DEFINE p == roundings * CostUnit
           q == Cardinality(N) * CostUnit
<1>16. /\ (roundings + Cardinality(N)) * CostUnit = p + q /\ p \in Nat /\ q \in Nat
  BY <1>1, <1>10, <1>11, Distributed
<1>17. /\ 2 * SumFunctionOnSet(a, D) <= 2 * CostSaved(Gone) + p
       /\ 2 * CostSaved(Gone) <= 2 * SumFunctionOnSet(a, D) + p
  BY <1>7 DEF CostOK
<1>18. roundings' * CostUnit = p + q
  BY <1>10, <1>16
<1>19. /\ 2 * SumFunctionOnSet(b, N) <= 2 * CostSaved(Old) + q
       /\ 2 * CostSaved(Old) <= 2 * SumFunctionOnSet(b, N) + q
  BY <1>6, <1>14
<1> HIDE DEF p, q
<1>20. /\ 2 * DailyCost' <= 2 * CostSaved(Gone') + (p + q)
       /\ 2 * CostSaved(Gone') <= 2 * DailyCost' + (p + q)
  BY <1>8, <1>9, <1>12, <1>13, <1>15, <1>16, <1>17, <1>19
<1>21. /\ 2 * DailyCost' <= 2 * CostSaved(Gone') + roundings' * CostUnit
       /\ 2 * CostSaved(Gone') <= 2 * DailyCost' + roundings' * CostUnit
  BY <1>18, <1>20
<1> QED
  BY <1>21 DEF CostOK
-----------------------------------------------------------------------------
(* The rows of a table in the order of their ids.                          *)

\* Nth enumerates a set: ranks are numbers up to its size, and no two elements
\* have the same.
LEMMA NthOfSet ==
  ASSUME NEW S \in SUBSET Nat, IsFiniteSet(S)
  PROVE  /\ \A k \in 1 .. Cardinality(S) : Nth(S, k) \in S
         /\ \A i \in S : \E k \in 1 .. Cardinality(S) : Nth(S, k) = i
         /\ \A n \in Nat : S = 1 .. n => \A k \in S : Nth(S, k) = k
<1> DEFINE n == Cardinality(S)
           below(i) == {j \in S : j <= i}
           rank == [i \in S |-> Cardinality(below(i))]
<1>1. n \in Nat
  BY FS_CardinalityType
<1>2. ASSUME NEW i \in S
      PROVE  /\ IsFiniteSet(below(i)) /\ Cardinality(below(i)) \in 1 .. n
  <2>1. below(i) \in SUBSET S /\ i \in below(i)
    OBVIOUS
  <2> HIDE DEF below
  <2>2. IsFiniteSet(below(i)) /\ Cardinality(below(i)) <= n
    BY <2>1, FS_Subset
  <2>3. Cardinality(below(i)) \in Nat /\ Cardinality(below(i)) # 0
    BY <2>1, <2>2, FS_CardinalityType, FS_EmptySet
  <2> QED
    BY <2>2, <2>3, <1>1
<1>3. ASSUME NEW i \in S, NEW j \in S, i < j
      PROVE  Cardinality(below(i)) < Cardinality(below(j))
  <2>1. below(i) \in SUBSET below(j) /\ below(i) # below(j)
    <3>1. i \in Nat /\ j \in Nat
      OBVIOUS
    <3>2. j <= j /\ ~(j <= i)
      BY <3>1, <1>3
    <3>3. j \in below(j) /\ j \notin below(i)
      BY <3>2
    <3>4. \A h \in Nat : h <= i => h <= j
      BY <3>1, <1>3
    <3>5. below(i) \subseteq below(j)
      BY <3>4
    <3> QED
      BY <3>3, <3>5
  <2>2. IsFiniteSet(below(j))
    BY <1>2
  <2>3. Cardinality(below(i)) \in Nat /\ Cardinality(below(j)) \in Nat
    BY <1>2
  <2> HIDE DEF below
  <2>4. /\ Cardinality(below(i)) <= Cardinality(below(j))
        /\ Cardinality(below(i)) # Cardinality(below(j))
    BY <2>1, <2>2, FS_Subset
  <2> QED
    BY <2>3, <2>4
<1>4. ASSUME NEW i \in S, NEW j \in S, Cardinality(below(i)) = Cardinality(below(j))
      PROVE  i = j
  <2>1. ~(i < j) /\ ~(j < i)
    <3>1. Cardinality(below(i)) \in Nat
      BY <1>2
    <3> HIDE DEF below
    <3> QED
      BY <3>1, <1>3, <1>4
  <2> QED
    BY <2>1
<1> HIDE DEF below
<1>5. rank \in Injection(S, 1 .. n)
  <2>1. rank \in [S -> 1 .. n]
    BY <1>2
  <2>2. \A i, j \in S : rank[i] = rank[j] => i = j
    BY <1>4
  <2> HIDE DEF rank
  <2> QED
    BY <2>1, <2>2 DEF Injection, IsInjective
<1>6. IsFiniteSet(1 .. n) /\ Cardinality(1 .. n) = n
  BY <1>1, FS_Interval
<1>7. rank \in Surjection(S, 1 .. n)
  <2> HIDE DEF rank
  <2> QED
    BY <1>5, <1>6, FS_Injection
<1>8. \A k : Nth(S, k) = CHOOSE i \in S : Cardinality(below(i)) = k
  BY DEF Nth, below
<1>9. ASSUME NEW k \in 1 .. n
      PROVE  Nth(S, k) \in S /\ Cardinality(below(Nth(S, k))) = k
  <2>1. \E i \in S : Cardinality(below(i)) = k
    BY <1>7 DEF Surjection
  <2> QED
    BY <2>1, <1>8
<1>10. ASSUME NEW i \in S PROVE \E k \in 1 .. n : Nth(S, k) = i
  <2> DEFINE k == Cardinality(below(i))
  <2>1. k \in 1 .. n
    BY <1>2
  <2>2. Nth(S, k) \in S /\ Cardinality(below(Nth(S, k))) = k
    BY <2>1, <1>9
  <2>3. Nth(S, k) = i
    BY <2>2, <1>4
  <2> QED
    BY <2>1, <2>3
<1>11. ASSUME NEW m \in Nat, S = 1 .. m, NEW k \in S
       PROVE  Nth(S, k) = k
  <2>1. below(k) = 1 .. k
    BY <1>11 DEF below
  <2>2. Cardinality(below(k)) = k
    BY <2>1, <1>11, FS_Interval
  <2>3. k \in 1 .. n
    BY <2>2, <1>2
  <2>4. Nth(S, k) \in S /\ Cardinality(below(Nth(S, k))) = Cardinality(below(k))
    BY <2>2, <2>3, <1>9
  <2> QED
    BY <2>4, <1>4
<1> QED
  BY <1>9, <1>10, <1>11

-----------------------------------------------------------------------------
(* The invariant.                                                          *)

\* The steps that find the old cache_entries, and those after which the tables
\* have the shape of _SCHEMA_V2.
Rebuilding == {"copy entries", "fill entries", "drop entries"}

EntriesDone == {"scope log", "copy log", "fill log", "drop log", "rename log",
                "seed", "prune", "serving"}

LogDone == {"seed", "prune", "serving"}

\* What each step knows of the shape of cache_entries and its copy.
EntriesShape ==
  /\ schema["cache_entries"] # "scoped"
  /\ schema["cache_entries_v2"] \in {"none", "current"}
  /\ step = "create log" => schema["cache_entries"] # "none"
  /\ step \in Rebuilding => schema["cache_entries"] = "v1"
  /\ step \in {"fill entries", "drop entries", "rename entries"} =>
       schema["cache_entries_v2"] = "current"
  /\ step = "rename entries" => schema["cache_entries"] = "none"
  /\ step \in EntriesDone => schema["cache_entries"] = "current"

\* ... and of request_log and its copy.
LogShape ==
  /\ schema["request_log_v2"] \in {"none", "current"}
  /\ step \in Rebuilding \cup {"rename entries", "scope log"} =>
       schema["request_log"] # "none"
  /\ step \in {"copy log", "fill log", "drop log"} =>
       schema["request_log"] = "scoped"
  /\ step \in {"fill log", "drop log", "rename log"} =>
       schema["request_log_v2"] = "current"
  /\ step = "rename log" => schema["request_log"] = "none"
  /\ step \in LogDone => schema["request_log"] = "current"

ShapeOK ==
  /\ schema \in [Names -> Shape]
  /\ step \in Steps
  /\ kills \in 0 .. MaxKills
  /\ EntriesShape
  /\ LogShape
  /\ pairs \in {0, 1} /\ (step \in {"prune", "serving"} => pairs = 1)

\* The entries a table holds.
Held(table) == {table[i] : i \in DOMAIN table}

EntriesTyped ==
  /\ stored \subseteq Nat
  /\ IsFiniteSet(stored)
  /\ entries \in [DOMAIN entries -> stored]
  /\ lastId \in Nat
  /\ DOMAIN entries \subseteq 1 .. lastId
  /\ copied \in Seq(stored)
  /\ renumbered \in BOOLEAN

\* Where the entries are: the copy is empty until it is filled, and when
\* cache_entries is dropped it has them all.
EntriesCopied ==
  /\ schema["cache_entries"] = "none" => entries = <<>>
  /\ schema["cache_entries_v2"] = "none" => copied = <<>>
  /\ step = "fill entries" => copied = <<>>
  /\ step = "drop entries" => /\ Held(copied) = Held(entries)
                              /\ ~renumbered => copied = entries
  /\ stored \subseteq Held(entries) \cup Held(copied)

EntriesOK == EntriesTyped /\ EntriesCopied

\* What a row refers to is in this table under the id it names.
Meant(table) == \A r \in ever : r.ref # NoRef =>
                  r.ref.id \in DOMAIN table /\ table[r.ref.id] = r.ref.entry

\* Until ids change or a kill strands the copy.
RefsOK ==
  ~renumbered =>
    /\ schema["cache_entries_v2"] = "none" \/ step \in {"fill entries", "drop entries"}
         => Meant(entries)
    /\ step = "rename entries" => Meant(copied)

\* Where the rows are: a copy that was left behind shares none with the log that
\* is served.
LogCopied ==
  /\ schema["request_log"] = "none" => log = {}
  /\ schema["request_log_v2"] = "none" => copiedLog = {}
  /\ step = "fill log" => copiedLog = {}
  /\ step = "drop log" => copiedLog = log
  /\ schema["request_log"] = "current" => log \cap copiedLog = {}

LogOK == RowsOK /\ LogCopied /\ WindowKept /\ DailyOK /\ CostOK

\* The inductive invariant.
IInv == ShapeOK /\ EntriesOK /\ RefsOK /\ LogOK

-----------------------------------------------------------------------------
(* One lemma for each step of the lifespan.                                *)

\* A step that changes the step or the schema alone.
LEMMA SameEntries ==
  ASSUME EntriesOK, UNCHANGED cache,
         schema'["cache_entries"] = "none" => entries = <<>>,
         schema'["cache_entries_v2"] = "none" => copied = <<>>,
         step' = "fill entries" => copied = <<>>,
         step' # "drop entries"
  PROVE  EntriesOK'
BY DEF EntriesOK, EntriesTyped, EntriesCopied, Held, cache

LEMMA SameRefs ==
  ASSUME RefsOK, UNCHANGED cache, ever' = ever,
         schema'["cache_entries_v2"] = "none" \/ step' \in {"fill entries", "drop entries"}
           => schema["cache_entries_v2"] = "none" \/ step \in {"fill entries", "drop entries"},
         step' # "rename entries"
  PROVE  RefsOK'
BY DEF RefsOK, Meant, cache

LEMMA SameDays ==
  ASSUME DailyOK, CostOK, UNCHANGED <<daily, roundings>>, Gone' = Gone
  PROVE  DailyOK' /\ CostOK'
<1>1. DailyOK'
  BY DEF DailyOK, Counted
<1>2. DailyCost' = DailyCost
  BY DEF DailyCost
<1> QED
  BY <1>1, <1>2 DEF CostOK

LEMMA SameLog ==
  ASSUME LogOK, UNCHANGED logs,
         schema'["request_log"] = "none" => log = {},
         schema'["request_log_v2"] = "none" => copiedLog = {},
         step' = "fill log" => copiedLog = {},
         step' # "drop log",
         schema'["request_log"] = "current" => log \cap copiedLog = {}
  PROVE  LogOK'
<1>1. RowsOK' /\ LogCopied' /\ WindowKept' /\ Gone' = Gone
  BY DEF LogOK, RowsOK, LogCopied, WindowKept, Gone, logs, retention
<1>2. DailyOK' /\ CostOK'
  BY <1>1, SameDays DEF LogOK, logs, retention
<1> QED
  BY <1>1, <1>2 DEF LogOK
LEMMA BootKeeps ==
  ASSUME IInv, Boot
  PROVE  IInv'
<1> USE DEF IInv
<1>1. ShapeOK'
  BY DEF Boot,
     ShapeOK, EntriesShape, LogShape, Rebuilding, EntriesDone, LogDone,
     Names, Shape, Steps
<1>2. EntriesOK'
  BY SameEntries DEF ShapeOK, EntriesShape, EntriesOK, EntriesCopied, Boot,
     Rebuilding, EntriesDone, Names, Shape
<1>3. RefsOK'
  BY SameRefs DEF ShapeOK, EntriesShape, Boot, logs, retention,
     Rebuilding, EntriesDone, Names, Shape
<1>4. LogOK'
  BY SameLog DEF ShapeOK, LogShape, LogOK, LogCopied, Boot,
     Rebuilding, LogDone, Names, Shape
<1> QED
  BY <1>1, <1>2, <1>3, <1>4

LEMMA CreateEntriesKeeps ==
  ASSUME IInv, CreateEntries
  PROVE  IInv'
<1> USE DEF IInv
<1>1. ShapeOK'
  BY DEF CreateEntries, CreateIfMissing, Runs,
     ShapeOK, EntriesShape, LogShape, Rebuilding, EntriesDone, LogDone,
     Names, Shape, Steps
<1>2. EntriesOK'
  BY SameEntries
     DEF ShapeOK, EntriesShape, EntriesOK, EntriesCopied, CreateEntries, CreateIfMissing, Runs,
     Rebuilding, EntriesDone, Names, Shape
<1>3. RefsOK'
  BY SameRefs
     DEF ShapeOK, EntriesShape, CreateEntries, CreateIfMissing, Runs, logs, retention,
     Rebuilding, EntriesDone, Names, Shape
<1>4. LogOK'
  BY SameLog
     DEF ShapeOK, LogShape, LogOK, LogCopied, CreateEntries, CreateIfMissing, Runs,
     Rebuilding, LogDone, Names, Shape
<1> QED
  BY <1>1, <1>2, <1>3, <1>4

LEMMA CreateLogKeeps ==
  ASSUME IInv, CreateLog
  PROVE  IInv'
<1> USE DEF IInv
<1>1. ShapeOK'
  BY DEF CreateLog, CreateIfMissing, Runs,
     ShapeOK, EntriesShape, LogShape, Rebuilding, EntriesDone, LogDone,
     Names, Shape, Steps
<1>2. EntriesOK'
  BY SameEntries
     DEF ShapeOK, EntriesShape, EntriesOK, EntriesCopied, CreateLog, CreateIfMissing, Runs,
     Rebuilding, EntriesDone, Names, Shape
<1>3. RefsOK'
  BY SameRefs
     DEF ShapeOK, EntriesShape, CreateLog, CreateIfMissing, Runs, logs, retention,
     Rebuilding, EntriesDone, Names, Shape
<1>4. LogOK'
  BY SameLog
     DEF ShapeOK, LogShape, LogOK, LogCopied, CreateLog, CreateIfMissing, Runs,
     Rebuilding, LogDone, Names, Shape
<1> QED
  BY <1>1, <1>2, <1>3, <1>4

LEMMA CopyEntriesKeeps ==
  ASSUME IInv, CopyEntries
  PROVE  IInv'
<1> USE DEF IInv
<1>1. ShapeOK'
  BY DEF CopyEntries, CreateCopy, Runs,
     ShapeOK, EntriesShape, LogShape, Rebuilding, EntriesDone, LogDone,
     Names, Shape, Steps
<1>2. EntriesOK'
  BY SameEntries
     DEF ShapeOK, EntriesShape, EntriesOK, EntriesCopied, CopyEntries, CreateCopy, Runs,
     Rebuilding, EntriesDone, Names, Shape
<1>3. RefsOK'
  BY SameRefs
     DEF ShapeOK, EntriesShape, CopyEntries, CreateCopy, Runs, logs, retention,
     Rebuilding, EntriesDone, Names, Shape
<1>4. LogOK'
  BY SameLog DEF ShapeOK, LogShape, LogOK, LogCopied, CopyEntries, CreateCopy, Runs,
     Rebuilding, LogDone, Names, Shape
<1> QED
  BY <1>1, <1>2, <1>3, <1>4

LEMMA ScopeLogKeeps ==
  ASSUME IInv, ScopeLog
  PROVE  IInv'
<1> USE DEF IInv
<1>1. ShapeOK'
  BY DEF ScopeLog, Runs,
     ShapeOK, EntriesShape, LogShape, Rebuilding, EntriesDone, LogDone,
     Names, Shape, Steps
<1>2. EntriesOK'
  BY SameEntries
     DEF ShapeOK, EntriesShape, EntriesOK, EntriesCopied, ScopeLog, Runs,
     Rebuilding, EntriesDone, Names, Shape
<1>3. RefsOK'
  BY SameRefs DEF ShapeOK, EntriesShape, ScopeLog, Runs, logs, retention,
     Rebuilding, EntriesDone, Names, Shape
<1>4. LogOK'
  BY SameLog DEF ShapeOK, LogShape, LogOK, LogCopied, ScopeLog, Runs,
     Rebuilding, LogDone, Names, Shape
<1> QED
  BY <1>1, <1>2, <1>3, <1>4

LEMMA CopyLogKeeps ==
  ASSUME IInv, CopyLog
  PROVE  IInv'
<1> USE DEF IInv
<1>1. ShapeOK'
  BY DEF CopyLog, CreateCopy, Runs,
     ShapeOK, EntriesShape, LogShape, Rebuilding, EntriesDone, LogDone,
     Names, Shape, Steps
<1>2. EntriesOK'
  BY SameEntries
     DEF ShapeOK, EntriesShape, EntriesOK, EntriesCopied, CopyLog, CreateCopy, Runs,
     Rebuilding, EntriesDone, Names, Shape
<1>3. RefsOK'
  BY SameRefs DEF ShapeOK, EntriesShape, CopyLog, CreateCopy, Runs, logs, retention,
     Rebuilding, EntriesDone, Names, Shape
<1>4. LogOK'
  BY SameLog DEF ShapeOK, LogShape, LogOK, LogCopied, CopyLog, CreateCopy, Runs,
     Rebuilding, LogDone, Names, Shape
<1> QED
  BY <1>1, <1>2, <1>3, <1>4

LEMMA SeedKeeps ==
  ASSUME IInv, Seed
  PROVE  IInv'
<1> USE DEF IInv
<1>1. ShapeOK'
  BY DEF Seed, Runs,
     ShapeOK, EntriesShape, LogShape, Rebuilding, EntriesDone, LogDone,
     Names, Shape, Steps
<1>2. EntriesOK'
  BY SameEntries DEF ShapeOK, EntriesShape, EntriesOK, EntriesCopied, Seed, Runs,
     Rebuilding, EntriesDone, Names, Shape
<1>3. RefsOK'
  BY SameRefs DEF ShapeOK, EntriesShape, Seed, Runs, logs, retention,
     Rebuilding, EntriesDone, Names, Shape
<1>4. LogOK'
  BY SameLog DEF ShapeOK, LogShape, LogOK, LogCopied, Seed, Runs,
     Rebuilding, LogDone, Names, Shape
<1> QED
  BY <1>1, <1>2, <1>3, <1>4

LEMMA KillKeeps ==
  ASSUME IInv, Kill
  PROVE  IInv'
<1> USE DEF IInv
<1>1. ShapeOK'
  <2>1. kills' \in 0 .. MaxKills
    BY StartupAssumption DEF Kill, ShapeOK
  <2> QED
    BY <2>1 DEF Kill,
     ShapeOK, EntriesShape, LogShape, Rebuilding, EntriesDone, LogDone,
     Names, Shape, Steps
<1>2. EntriesOK'
  BY SameEntries DEF ShapeOK, EntriesShape, EntriesOK, EntriesCopied, Kill,
     Rebuilding, EntriesDone, Names, Shape
<1>3. RefsOK'
  BY SameRefs DEF ShapeOK, EntriesShape, Kill, logs, retention,
     Rebuilding, EntriesDone, Names, Shape
<1>4. LogOK'
  BY SameLog DEF ShapeOK, LogShape, LogOK, LogCopied, Kill,
     Rebuilding, LogDone, Names, Shape
<1> QED
  BY <1>1, <1>2, <1>3, <1>4

LEMMA IdleKeeps ==
  ASSUME IInv, UNCHANGED vars
  PROVE  IInv'
<1>1. ShapeOK'
  BY DEF IInv, vars, ShapeOK, EntriesShape, LogShape
<1>2. EntriesOK'
  BY DEF IInv, vars, cache, EntriesOK, EntriesTyped, EntriesCopied, Held
<1>3. RefsOK'
  BY DEF IInv, vars, cache, logs, retention, RefsOK, Meant
<1>4. RowsOK' /\ LogCopied' /\ WindowKept' /\ Gone' = Gone
  BY DEF IInv, LogOK, RowsOK, LogCopied, WindowKept, Gone, vars, logs, retention
<1>5. DailyOK' /\ CostOK'
  BY <1>4, SameDays DEF IInv, LogOK, vars, logs, retention
<1> QED
  BY <1>1, <1>2, <1>3, <1>4, <1>5 DEF IInv, LogOK

\* INSERT ... SELECT copies every entry, and where ids have no gaps each keeps its
\* own.
LEMMA CopyInOrder ==
  ASSUME EntriesTyped
  PROVE  /\ InOrder \in Seq(stored)
         /\ Held(InOrder) = Held(entries)
         /\ DOMAIN entries = 1 .. Cardinality(DOMAIN entries) => InOrder = entries
<1> DEFINE D == DOMAIN entries
           n == Cardinality(D)
<1>1. D \in SUBSET Nat /\ IsFiniteSet(D)
  <2>1. lastId \in Nat /\ D \in SUBSET (1 .. lastId)
    BY DEF EntriesTyped
  <2>2. IsFiniteSet(1 .. lastId)
    BY <2>1, FS_Interval
  <2> QED
    BY <2>1, <2>2, FS_Subset
<1>2. n \in Nat
  BY <1>1, FS_CardinalityType
<1>3. InOrder = [k \in 1 .. n |-> entries[Nth(D, k)]]
  BY DEF InOrder
<1>4. entries = [i \in D |-> entries[i]] /\ \A i \in D : entries[i] \in stored
  BY DEF EntriesTyped
<1> HIDE DEF D, n
<1>5. /\ \A k \in 1 .. Cardinality(D) : Nth(D, k) \in D
      /\ \A i \in D : \E k \in 1 .. Cardinality(D) : Nth(D, k) = i
      /\ \A m \in Nat : D = 1 .. m => \A k \in D : Nth(D, k) = k
  BY <1>1, NthOfSet
<1>6. InOrder \in Seq(stored)
  <2>1. \A k \in 1 .. n : entries[Nth(D, k)] \in stored
    BY <1>4, <1>5 DEF n
  <2>2. InOrder \in [1 .. n -> stored]
    BY <2>1, <1>3
  <2> QED
    BY <2>2, <1>2
<1>7. Held(InOrder) = Held(entries)
  <2>1. DOMAIN InOrder = 1 .. n /\ \A k \in 1 .. n : InOrder[k] = entries[Nth(D, k)]
    BY <1>3
  <2>2. ASSUME NEW e \in Held(InOrder) PROVE e \in Held(entries)
    BY <2>1, <1>5 DEF Held, n, D
  <2>3. ASSUME NEW e \in Held(entries) PROVE e \in Held(InOrder)
    <3>1. PICK i \in D : e = entries[i]
      BY DEF Held, D
    <3>2. PICK k \in 1 .. n : Nth(D, k) = i
      BY <1>5 DEF n
    <3>3. InOrder[k] = e
      BY <2>1, <3>1, <3>2
    <3> QED
      BY <2>1, <3>3 DEF Held
  <2> QED
    BY <2>2, <2>3
<1>8. ASSUME D = 1 .. n PROVE InOrder = entries
  <2>1. \A k \in 1 .. n : Nth(D, k) = k
    BY <1>2, <1>5, <1>8
  <2>2. InOrder = [k \in D |-> entries[k]]
    BY <2>1, <1>3, <1>8
  <2> QED
    BY <2>2, <1>4
<1> QED
  BY <1>6, <1>7, <1>8 DEF D, n

LEMMA FillEntriesKeeps ==
  ASSUME IInv, FillEntries
  PROVE  IInv'
<1> USE DEF IInv
<1>1. ShapeOK'
  BY
     DEF FillEntries, Runs, ShapeOK, EntriesShape, LogShape, Rebuilding, EntriesDone, LogDone,
     Names, Shape, Steps
<1>2. /\ step = "fill entries" /\ step' = "drop entries" /\ UNCHANGED <<schema, logs>>
      /\ schema["cache_entries"] = "v1" /\ schema["cache_entries_v2"] = "current"
      /\ copied' = InOrder /\ UNCHANGED <<entries, lastId, stored>>
      /\ renumbered' = (renumbered \/ DOMAIN entries # 1 .. Cardinality(DOMAIN entries))
  BY DEF FillEntries, Runs, ShapeOK, EntriesShape, Rebuilding
<1>3. /\ copied' \in Seq(stored) /\ Held(copied') = Held(entries)
      /\ ~renumbered' => copied' = entries
      /\ renumbered' \in BOOLEAN
  BY <1>2, CopyInOrder DEF EntriesOK
<1>4. EntriesOK'
  <2>1. EntriesTyped'
    BY <1>2, <1>3 DEF EntriesOK, EntriesTyped
  <2>2. Held(entries)' = Held(entries) /\ Held(copied)' = Held(entries)
    BY <1>2, <1>3 DEF Held
  <2>3. copied = <<>>
    BY <1>2 DEF EntriesOK, EntriesCopied
  <2>4. Held(copied) = {}
    BY <2>3 DEF Held
  <2>5. stored' \subseteq Held(entries)' \cup Held(copied)'
    BY <2>2, <2>4, <1>2 DEF EntriesOK, EntriesCopied
  <2>6. EntriesCopied'
    BY <2>2, <2>5, <1>2, <1>3 DEF EntriesCopied
  <2> QED
    BY <2>1, <2>6 DEF EntriesOK
<1>5. RefsOK'
  <2>1. ~renumbered' => ~renumbered
    BY <1>2
  <2>2. ever' = ever
    BY <1>2 DEF logs, retention
  <2> QED
    BY <2>1, <2>2, <1>2 DEF RefsOK, Meant
<1>6. LogOK'
  BY <1>2, SameLog DEF LogOK, LogCopied
<1> QED
  BY <1>1, <1>4, <1>5, <1>6

LEMMA DropEntriesKeeps ==
  ASSUME IInv, DropEntries
  PROVE  IInv'
<1> USE DEF IInv
<1>1. ShapeOK'
  BY
     DEF DropEntries, Dropped, Runs, ShapeOK, EntriesShape, LogShape, Rebuilding, EntriesDone, LogDone,
     Names, Shape, Steps
<1>2. /\ step = "drop entries" /\ step' = "rename entries" /\ UNCHANGED logs
      /\ schema["cache_entries_v2"] = "current"
      /\ schema'["cache_entries_v2"] = "current"
      /\ schema'["request_log"] = schema["request_log"]
      /\ schema'["request_log_v2"] = schema["request_log_v2"]
      /\ entries' = <<>> /\ lastId' = 0 /\ UNCHANGED <<copied, stored, renumbered>>
  BY DEF DropEntries, Dropped, Runs, ShapeOK, EntriesShape, Names
<1>3. EntriesOK'
  <2>1. /\ DOMAIN <<>> = {} /\ <<>> \in [{} -> stored]
    OBVIOUS
  <2>2. EntriesTyped'
    BY <2>1, <1>2 DEF EntriesOK, EntriesTyped
  <2>3. Held(copied)' = Held(copied)
    BY <1>2 DEF Held
  <2>4. Held(copied) = Held(entries) /\ stored \subseteq Held(entries) \cup Held(copied)
    BY <1>2 DEF EntriesOK, EntriesCopied
  <2>5. stored' \subseteq Held(entries)' \cup Held(copied)'
    BY <2>3, <2>4, <1>2
  <2>6. EntriesCopied'
    BY <2>5, <1>2 DEF EntriesCopied
  <2> QED
    BY <2>2, <2>6 DEF EntriesOK
<1>4. RefsOK'
  <2>1. ever' = ever
    BY <1>2 DEF logs, retention
  <2>2. ~renumbered => Meant(copied)
    BY <1>2 DEF RefsOK, EntriesOK, EntriesCopied
  <2>3. Meant(copied) => Meant(copied)'
    BY <2>1, <1>2 DEF Meant
  <2> QED
    BY <2>2, <2>3, <1>2 DEF RefsOK
<1>5. LogOK'
  BY <1>2, SameLog DEF LogOK, LogCopied
<1> QED
  BY <1>1, <1>3, <1>4, <1>5

LEMMA RenameEntriesKeeps ==
  ASSUME IInv, RenameEntries
  PROVE  IInv'
<1> USE DEF IInv
<1>1. ShapeOK'
  BY
     DEF RenameEntries, Renamed, Runs, ShapeOK, EntriesShape, LogShape, Rebuilding, EntriesDone, LogDone,
     Names, Shape, Steps
<1>2. /\ step = "rename entries" /\ step' = "scope log" /\ UNCHANGED logs
      /\ schema["cache_entries"] = "none"
      /\ schema'["cache_entries"] = "current"
      /\ schema'["cache_entries_v2"] = "none"
      /\ schema'["request_log"] = schema["request_log"]
      /\ schema'["request_log_v2"] = schema["request_log_v2"]
      /\ entries' = copied /\ lastId' = Len(copied) /\ copied' = <<>>
      /\ UNCHANGED <<stored, renumbered>>
  BY DEF RenameEntries, Renamed, Runs, ShapeOK, EntriesShape, Names
<1>3. EntriesOK'
  <2>1. copied \in Seq(stored)
    BY DEF EntriesOK, EntriesTyped
  <2>2. /\ DOMAIN copied = 1 .. Len(copied) /\ Len(copied) \in Nat
        /\ copied \in [DOMAIN copied -> stored]
    BY <2>1
  <2>3. <<>> \in Seq(stored)
    OBVIOUS
  <2>4. EntriesTyped'
    BY <2>2, <2>3, <1>2 DEF EntriesOK, EntriesTyped
  <2>5. Held(entries)' = Held(copied)
    BY <1>2 DEF Held
  <2>6. entries = <<>>
    BY <1>2 DEF EntriesOK, EntriesCopied
  <2>7. Held(entries) = {}
    BY <2>6 DEF Held
  <2>8. stored \subseteq Held(entries) \cup Held(copied)
    BY DEF EntriesOK, EntriesCopied
  <2>9. stored' \subseteq Held(entries)' \cup Held(copied)'
    BY <2>5, <2>7, <2>8, <1>2
  <2>10. EntriesCopied'
    BY <2>9, <1>2 DEF EntriesCopied
  <2> QED
    BY <2>4, <2>10 DEF EntriesOK
<1>4. RefsOK'
  <2>1. ever' = ever
    BY <1>2 DEF logs, retention
  <2>2. ~renumbered => Meant(copied)
    BY <1>2 DEF RefsOK
  <2>3. Meant(copied) => Meant(entries)'
    BY <2>1, <1>2 DEF Meant
  <2> QED
    BY <2>2, <2>3, <1>2 DEF RefsOK
<1>5. LogOK'
  BY <1>2, SameLog DEF LogOK, LogCopied
<1> QED
  BY <1>1, <1>3, <1>4, <1>5

LEMMA FillLogKeeps ==
  ASSUME IInv, FillLog
  PROVE  IInv'
<1> USE DEF IInv
<1>1. ShapeOK'
  BY
     DEF FillLog, Runs, ShapeOK, EntriesShape, LogShape, Rebuilding, EntriesDone, LogDone,
     Names, Shape, Steps
<1>2. EntriesOK'
  BY SameEntries DEF ShapeOK, EntriesShape, EntriesOK, EntriesCopied, FillLog, Runs,
     Rebuilding, EntriesDone, Names, Shape
<1>3. RefsOK'
  BY SameRefs DEF ShapeOK, EntriesShape, FillLog, Runs, retention,
     Rebuilding, EntriesDone, Names, Shape
<1>4. LogOK'
  <2>1. /\ copiedLog = {} /\ copiedLog' = log /\ UNCHANGED retention
        /\ step' = "drop log" /\ UNCHANGED schema
        /\ schema["request_log"] = "scoped" /\ schema["request_log_v2"] = "current"
    BY DEF FillLog, Runs, ShapeOK, LogShape, LogOK, LogCopied
  <2>2. RowsOK' /\ LogCopied' /\ WindowKept' /\ Gone' = Gone
    BY <2>1 DEF LogOK, RowsOK, LogCopied, WindowKept, Gone, retention
  <2>3. DailyOK' /\ CostOK'
    BY <2>1, <2>2, SameDays DEF LogOK, retention
  <2> QED
    BY <2>2, <2>3 DEF LogOK
<1> QED
  BY <1>1, <1>2, <1>3, <1>4

LEMMA DropLogKeeps ==
  ASSUME IInv, DropLog
  PROVE  IInv'
<1> USE DEF IInv
<1>1. ShapeOK'
  BY
     DEF DropLog, Dropped, Runs, ShapeOK, EntriesShape, LogShape, Rebuilding, EntriesDone, LogDone,
     Names, Shape, Steps
<1>2. EntriesOK'
  BY SameEntries
     DEF ShapeOK, EntriesShape, EntriesOK, EntriesCopied, DropLog, Dropped, Runs,
     Rebuilding, EntriesDone, Names, Shape
<1>3. RefsOK'
  BY SameRefs DEF ShapeOK, EntriesShape, DropLog, Dropped, Runs, retention,
     Rebuilding, EntriesDone, Names, Shape
<1>4. LogOK'
  <2>1. /\ copiedLog = log /\ log' = {} /\ UNCHANGED <<daily, now, ever, roundings, copiedLog>>
        /\ step' = "rename log" /\ schema' = [schema EXCEPT !["request_log"] = "none"]
        /\ schema["request_log_v2"] = "current" /\ schema \in [Names -> Shape]
    BY DEF DropLog, Dropped, Runs, ShapeOK, LogShape, LogOK, LogCopied
  <2>2. RowsOK' /\ LogCopied' /\ WindowKept' /\ Gone' = Gone
    BY <2>1 DEF LogOK, RowsOK, LogCopied, WindowKept, Gone, Names
  <2>3. DailyOK' /\ CostOK'
    BY <2>1, <2>2, SameDays DEF LogOK
  <2> QED
    BY <2>2, <2>3 DEF LogOK
<1> QED
  BY <1>1, <1>2, <1>3, <1>4

LEMMA RenameLogKeeps ==
  ASSUME IInv, RenameLog
  PROVE  IInv'
<1> USE DEF IInv
<1>1. ShapeOK'
  BY
     DEF RenameLog, Renamed, Runs, ShapeOK, EntriesShape, LogShape, Rebuilding, EntriesDone, LogDone,
     Names, Shape, Steps
<1>2. EntriesOK'
  BY SameEntries
     DEF ShapeOK, EntriesShape, EntriesOK, EntriesCopied, RenameLog, Renamed, Runs,
     Rebuilding, EntriesDone, Names, Shape
<1>3. RefsOK'
  BY SameRefs DEF ShapeOK, EntriesShape, RenameLog, Renamed, Runs, retention,
     Rebuilding, EntriesDone, Names, Shape
<1>4. LogOK'
  <2>1. /\ log = {} /\ log' = copiedLog /\ copiedLog' = {}
        /\ UNCHANGED <<daily, now, ever, roundings>> /\ step' = "seed"
        /\ schema'["request_log"] = "current" /\ schema'["request_log_v2"] = "none"
    BY DEF RenameLog, Renamed, Runs, ShapeOK, LogShape, LogOK, LogCopied, Names
  <2>2. RowsOK' /\ LogCopied' /\ WindowKept' /\ Gone' = Gone
    BY <2>1 DEF LogOK, RowsOK, LogCopied, WindowKept, Gone
  <2>3. DailyOK' /\ CostOK'
    BY <2>1, <2>2, SameDays DEF LogOK
  <2> QED
    BY <2>2, <2>3 DEF LogOK
<1> QED
  BY <1>1, <1>2, <1>3, <1>4

LEMMA PruneOnceKeeps ==
  ASSUME IInv, PruneOnce
  PROVE  IInv'
<1> USE DEF IInv
<1>1. ShapeOK'
  BY
     DEF PruneOnce, Runs, ShapeOK, EntriesShape, LogShape, Rebuilding, EntriesDone, LogDone,
     Names, Shape, Steps
<1>2. /\ step = "prune" /\ step' = "serving" /\ UNCHANGED <<schema, cache, copiedLog>>
      /\ ever' = ever /\ (Prune \/ UNCHANGED retention)
      /\ schema["request_log"] = "current"
  BY DEF PruneOnce, Runs, Prune, retention, ShapeOK, LogShape, LogDone
<1>3. EntriesOK'
  BY <1>2, SameEntries DEF EntriesOK, EntriesCopied
<1>4. RefsOK'
  BY <1>2, SameRefs
<1>5. log \cap copiedLog = {}
  BY <1>2 DEF LogOK, LogCopied
<1>6. CASE UNCHANGED retention
  <2>1. UNCHANGED logs
    BY <1>2, <1>6 DEF logs
  <2>2. LogOK'
    BY <2>1, <1>2, <1>5, SameLog DEF LogOK, LogCopied
  <2> QED
    BY <2>2, <1>1, <1>3, <1>4
<1>7. CASE Prune
  <2>1. log' = log \ Old /\ now' = now
    BY <1>7 DEF Prune
  <2>2. RowsOK' /\ DailyOK' /\ CostOK'
    BY <1>2, <1>5, <1>7, PruneRows, PruneDaily, PruneCost DEF LogOK
  <2>3. LogCopied'
    BY <1>2, <1>5, <2>1 DEF LogOK, LogCopied
  <2>4. WindowKept'
    <3> SUFFICES ASSUME NEW r \in ever, r.at >= now - Window
                 PROVE  r \in (log \ Old) \cup copiedLog
      BY <1>2, <2>1 DEF WindowKept
    <3>1. r \in log \cup copiedLog
      BY DEF LogOK, WindowKept
    <3>2. r \notin Old
      <4>1. r.at \in Nat /\ now \in Nat /\ Window \in Nat
        BY RetentionAssumption DEF LogOK, RowsOK, Row
      <4> QED
        BY <4>1 DEF Old
    <3> QED
      BY <3>1, <3>2
  <2>5. LogOK'
    BY <2>2, <2>3, <2>4 DEF LogOK
  <2> QED
    BY <2>5, <1>1, <1>3, <1>4
<1> QED
  BY <1>2, <1>6, <1>7

LEMMA StoreEntryKeeps ==
  ASSUME IInv, StoreEntry
  PROVE  IInv'
<1> USE DEF IInv
<1> DEFINE entry == 1 + Max(stored \cup {0})
           id == lastId + 1
<1>1. /\ step = "serving" /\ step' = step /\ UNCHANGED <<schema, logs>>
      /\ lastId' = id
      /\ entries' = [i \in DOMAIN entries \cup {id} |->
                       IF i = id THEN entry ELSE entries[i]]
      /\ stored' = stored \cup {entry}
      /\ UNCHANGED <<copied, renumbered, pairs, kills>>
      /\ schema["cache_entries"] = "current"
  BY DEF StoreEntry, ShapeOK, EntriesShape, EntriesDone
<1>2. entry \in Nat
  BY MaxOfNone DEF EntriesOK, EntriesTyped
<1>3. id \in Nat /\ id \notin DOMAIN entries /\ DOMAIN entries \cup {id} \subseteq 1 .. id
  BY DEF EntriesOK, EntriesTyped
<1>4. IsFiniteSet(stored \cup {entry})
  BY FS_AddElement DEF EntriesOK, EntriesTyped
<1> HIDE DEF entry, id
<1>5. ShapeOK'
  BY <1>1 DEF ShapeOK, EntriesShape, LogShape
<1>6. /\ DOMAIN entries' = DOMAIN entries \cup {id}
      /\ entries'[id] = entry
      /\ \A i \in DOMAIN entries : entries'[i] = entries[i]
  BY <1>1, <1>3
<1>7. EntriesTyped'
  <2>1. entries' \in [DOMAIN entries' -> stored']
    BY <1>1, <1>6 DEF EntriesOK, EntriesTyped
  <2>2. copied' \in Seq(stored')
    <3>1. copied \in Seq(stored) /\ stored \subseteq stored'
      BY <1>1 DEF EntriesOK, EntriesTyped
    <3> QED
      BY <3>1, <1>1
  <2> QED
    BY <2>1, <2>2, <1>1, <1>2, <1>3, <1>4, <1>6 DEF EntriesOK, EntriesTyped
<1>8. EntriesCopied'
  <2>1. Held(entries)' = Held(entries) \cup {entry}
    <3>1. ASSUME NEW e \in Held(entries)' PROVE e \in Held(entries) \cup {entry}
      BY <1>6 DEF Held
    <3>2. ASSUME NEW e \in Held(entries) PROVE e \in Held(entries)'
      BY <1>6 DEF Held
    <3>3. entry \in Held(entries)'
      BY <1>6 DEF Held
    <3> QED
      BY <3>1, <3>2, <3>3
  <2>2. Held(copied)' = Held(copied)
    BY <1>1 DEF Held
  <2>3. stored' \subseteq Held(entries)' \cup Held(copied)'
    BY <2>1, <2>2, <1>1 DEF EntriesOK, EntriesCopied
  <2> QED
    BY <2>3, <1>1 DEF EntriesOK, EntriesCopied
<1>9. EntriesOK'
  BY <1>7, <1>8 DEF EntriesOK
<1>10. RefsOK'
  <2>1. Meant(entries) => Meant(entries)'
    <3>1. ever' = ever
      BY <1>1 DEF logs, retention
    <3> QED
      BY <3>1, <1>6 DEF Meant
  <2> QED
    BY <2>1, <1>1 DEF RefsOK
<1>11. LogOK'
  BY <1>1, SameLog DEF LogOK, LogCopied
<1> QED
  BY <1>5, <1>9, <1>10, <1>11

\* log_request writes one row that was never logged before.
LEMMA NewRow ==
  ASSUME RowsOK, NEW kind \in Kinds, NEW ref \in [id : Nat, entry : Nat],
         LogRow(kind, ref)
  PROVE  \E row \in Row \ ever : /\ row.at = now /\ row.ref = ref
                                 /\ log' = log \cup {row} /\ ever' = ever \cup {row}
                                 /\ UNCHANGED <<daily, now, roundings>>
<1> DEFINE serials == {r.serial : r \in ever}
           row == [serial |-> 1 + Max(serials \cup {0}), at |-> now,
                   kind |-> kind, ref |-> ref]
<1>1. serials \in SUBSET Nat
  BY DEF RowsOK, Row
<1>2. IsFiniteSet(serials)
  <2> DEFINE serial == [r \in ever |-> r.serial]
  <2>1. serial \in Surjection(ever, serials)
    BY DEF Surjection
  <2> HIDE DEF serial, serials
  <2> QED
    BY <2>1, FS_Surjection DEF RowsOK
<1>3. Max(serials \cup {0}) \in Nat /\ \A n \in serials : n <= Max(serials \cup {0})
  <2> HIDE DEF serials
  <2> QED
    BY <1>1, <1>2, MaxOfNone
<1>4. row \in Row
  <2> HIDE DEF serials
  <2> QED
    BY <1>3 DEF Row, RowsOK
<1>5. row \notin ever
  <2>1. row.serial \notin serials
    <3> HIDE DEF serials
    <3> QED
      BY <1>1, <1>3
  <2> HIDE DEF row
  <2> QED
    BY <2>1
<1>6. /\ row.at = now /\ row.ref = ref
      /\ log' = log \cup {row} /\ ever' = ever \cup {row}
      /\ UNCHANGED <<daily, now, roundings>>
  BY DEF LogRow
<1> HIDE DEF row
<1> QED
  BY <1>4, <1>5, <1>6

LEMMA LogRequestKeeps ==
  ASSUME IInv, NEW kind \in Kinds, LogRequest(kind)
  PROVE  IInv'
<1> USE DEF IInv
<1>1. /\ step = "serving" /\ UNCHANGED <<schema, cache, copiedLog, pairs, step, kills>>
      /\ schema["request_log"] = "current"
  BY DEF LogRequest, ShapeOK, LogShape, LogDone
<1>2. PICK ref \in [id : Nat, entry : Nat] :
        /\ LogRow(kind, ref)
        /\ ref # NoRef => ref.id \in DOMAIN entries /\ entries[ref.id] = ref.entry
  <2>1. CASE \E i \in DOMAIN entries : LogRow(kind, [id |-> i, entry |-> entries[i]])
    <3>1. PICK i \in DOMAIN entries : LogRow(kind, [id |-> i, entry |-> entries[i]])
      BY <2>1
    <3>2. i \in Nat /\ entries[i] \in Nat
      BY DEF EntriesOK, EntriesTyped
    <3> QED
      BY <3>1, <3>2
  <2>2. CASE LogRow(kind, NoRef)
    BY <2>2 DEF NoRef
  <2> QED
    BY <2>1, <2>2 DEF LogRequest
<1>3. PICK row \in Row \ ever : /\ row.at = now /\ row.ref = ref
                                /\ log' = log \cup {row} /\ ever' = ever \cup {row}
                                /\ UNCHANGED <<daily, now, roundings>>
  BY <1>2, NewRow DEF LogOK
<1>4. ShapeOK'
  BY <1>1 DEF ShapeOK, EntriesShape, LogShape
<1>5. EntriesOK'
  BY <1>1, SameEntries DEF EntriesOK, EntriesCopied
<1>6. RefsOK'
  <2>1. Meant(entries) => Meant(entries)'
    <3>1. entries' = entries
      BY <1>1 DEF cache
    <3> QED
      BY <3>1, <1>2, <1>3 DEF Meant
  <2> QED
    BY <2>1, <1>1 DEF RefsOK, cache
<1>7. RowsOK'
  <2>1. IsFiniteSet(ever \cup {row})
    BY FS_AddElement DEF LogOK, RowsOK
  <2> QED
    BY <2>1, <1>1, <1>3 DEF LogOK, RowsOK
<1>8. row \notin log /\ row \notin copiedLog
  BY DEF LogOK, RowsOK
<1>9. LogCopied' /\ WindowKept' /\ Gone' = Gone
  BY <1>1, <1>3, <1>8 DEF LogOK, LogCopied, WindowKept, Gone
<1>10. DailyOK' /\ CostOK'
  BY <1>3, <1>9, SameDays DEF LogOK
<1>11. LogOK'
  BY <1>7, <1>9, <1>10 DEF LogOK
<1> QED
  BY <1>4, <1>5, <1>6, <1>11

LEMMA ClockKeeps ==
  ASSUME IInv, Clock
  PROVE  IInv'
<1> USE DEF IInv
<1>1. /\ now' = now + 1
      /\ UNCHANGED <<log, daily, ever, roundings, schema, cache, copiedLog, pairs, step, kills>>
  BY DEF Clock, Tick
<1>2. ShapeOK'
  BY <1>1 DEF ShapeOK, EntriesShape, LogShape
<1>3. EntriesOK'
  BY <1>1 DEF EntriesOK, EntriesTyped, EntriesCopied, Held, cache
<1>4. RefsOK'
  BY <1>1 DEF RefsOK, Meant, cache
<1>5. RowsOK' /\ LogCopied' /\ Gone' = Gone
  <2>1. RowsOK'
    BY <1>1 DEF LogOK, RowsOK
  <2>2. LogCopied' /\ Gone' = Gone
    BY <1>1 DEF LogOK, LogCopied, Gone
  <2> QED
    BY <2>1, <2>2
<1>6. WindowKept'
  <2> SUFFICES ASSUME NEW r \in ever, r.at >= (now + 1) - Window
               PROVE  r \in log \cup copiedLog
    BY <1>1 DEF WindowKept
  <2>1. r.at \in Nat /\ now \in Nat /\ Window \in Nat
    BY RetentionAssumption DEF LogOK, RowsOK, Row
  <2>2. r.at >= now - Window
    BY <2>1
  <2> QED
    BY <2>2 DEF LogOK, WindowKept
<1>7. DailyOK' /\ CostOK'
  BY <1>1, <1>5, SameDays DEF LogOK
<1> QED
  BY <1>2, <1>3, <1>4, <1>5, <1>6, <1>7 DEF LogOK

-----------------------------------------------------------------------------
(* The invariant and what follows from it.                                 *)

\* The log of a database with these entries.
LeftLog(ids, kind) ==
  {[serial |-> i, at |-> 0, kind |-> kind, ref |-> [id |-> i, entry |-> i]] : i \in ids}

LEMMA LeftRows ==
  ASSUME NEW ids \in SUBSET (1 .. MaxLeft), NEW kind \in Kinds
  PROVE  /\ IsFiniteSet(ids) /\ ids \in SUBSET Nat
         /\ Max(ids \cup {0}) \in Nat /\ ids \subseteq 1 .. Max(ids \cup {0})
         /\ LeftLog(ids, kind) \subseteq Row /\ IsFiniteSet(LeftLog(ids, kind))
         /\ \A r \in LeftLog(ids, kind) : r.ref.id \in ids /\ r.ref.entry = r.ref.id
<1>1. IsFiniteSet(ids) /\ ids \in SUBSET Nat
  <2>1. MaxLeft \in Nat
    BY StartupAssumption
  <2>2. IsFiniteSet(1 .. MaxLeft)
    BY <2>1, FS_Interval
  <2>3. IsFiniteSet(ids)
    BY <2>2, FS_Subset
  <2> QED
    BY <2>1, <2>3
<1>2. Max(ids \cup {0}) \in Nat /\ \A i \in ids : i <= Max(ids \cup {0})
  BY <1>1, MaxOfNone
<1>3. ids \subseteq 1 .. Max(ids \cup {0})
  <2> DEFINE m == Max(ids \cup {0})
  <2>1. m \in Nat /\ \A i \in ids : i <= m
    BY <1>2
  <2> HIDE DEF m
  <2>2. ids \subseteq 1 .. m
    <3> SUFFICES ASSUME NEW i \in ids PROVE i \in 1 .. m
      OBVIOUS
    <3>1. i \in 1 .. MaxLeft /\ MaxLeft \in Nat
      BY StartupAssumption
    <3>2. i \in Nat /\ 1 <= i /\ i <= m
      BY <3>1, <2>1
    <3> QED
      BY <3>2, <2>1
  <2> QED
    BY <2>2 DEF m
<1>4. LeftLog(ids, kind) \subseteq Row
  BY <1>1 DEF Row, LeftLog
<1>5. IsFiniteSet(LeftLog(ids, kind))
  <2> DEFINE left == [i \in ids |-> [serial |-> i, at |-> 0, kind |-> kind,
                                     ref |-> [id |-> i, entry |-> i]]]
  <2>1. left \in Surjection(ids, LeftLog(ids, kind))
    BY DEF Surjection, LeftLog
  <2> HIDE DEF left
  <2> QED
    BY <2>1, <1>1, FS_Surjection
<1>6. \A r \in LeftLog(ids, kind) : r.ref.id \in ids /\ r.ref.entry = r.ref.id
  BY DEF LeftLog
<1> QED
  BY <1>1, <1>2, <1>3, <1>4, <1>5, <1>6

LEMMA InitHolds == Init => IInv
<1> SUFFICES ASSUME Init PROVE IInv
  OBVIOUS
<1>1. PICK shape \in OldShapes, ids \in SUBSET (1 .. MaxLeft), kind \in Kinds :
        /\ "none" \in {shape.cache_entries, shape.request_log} => ids = {}
        /\ Left(shape, ids, kind)
  BY DEF Init
<1>2. shape \in [cache_entries : {"none", "v1", "current"}, request_log : Shape]
  BY StartupAssumption
<1>3. /\ schema["cache_entries"] = shape.cache_entries
      /\ schema["request_log"] = shape.request_log
      /\ schema["cache_entries_v2"] = "none"
      /\ schema["request_log_v2"] = "none"
      /\ schema \in [Names -> Shape]
  BY <1>1, <1>2 DEF Left, Names, Shape
<1>4. /\ entries = [i \in ids |-> i] /\ lastId = Max(ids \cup {0})
      /\ log = LeftLog(ids, kind) /\ (ids = {} => log = {})
  BY <1>1 DEF Left, LeftLog
<1>5. /\ stored = ids /\ ever = log /\ daily = <<>> /\ now = 0 /\ roundings = 0
      /\ copied = <<>> /\ copiedLog = {} /\ pairs = 0 /\ step = "down"
      /\ renumbered = FALSE /\ kills = 0
  BY <1>4 DEF Init
<1>6. /\ IsFiniteSet(ids) /\ ids \in SUBSET Nat
      /\ lastId \in Nat /\ ids \subseteq 1 .. lastId
      /\ log \subseteq Row /\ IsFiniteSet(log)
      /\ \A r \in log : r.ref.id \in ids /\ r.ref.entry = r.ref.id
  BY <1>4, LeftRows
<1>7. ShapeOK
  <2>1. MaxKills \in Nat
    BY StartupAssumption
  <2> QED
    BY <2>1, <1>2, <1>3, <1>5 DEF ShapeOK, EntriesShape, LogShape, Steps,
       Rebuilding, EntriesDone, LogDone
<1>8. EntriesOK
  <2>1. copied \in Seq(stored)
    BY <1>5
  <2>2. EntriesTyped
    BY <2>1, <1>4, <1>5, <1>6 DEF EntriesTyped
  <2>3. Held(entries) = ids
    BY <1>4 DEF Held
  <2>4. schema["cache_entries"] = "none" => entries = <<>>
    <3> SUFFICES ASSUME ids = {} PROVE entries = <<>>
      BY <1>1, <1>3
    <3> QED
      BY <1>4
  <2>5. EntriesCopied
    BY <2>3, <2>4, <1>5 DEF EntriesCopied
  <2> QED
    BY <2>2, <2>5 DEF EntriesOK
<1>9. RefsOK
  <2>1. Meant(entries)
    BY <1>4, <1>5, <1>6 DEF Meant
  <2> QED
    BY <2>1, <1>5 DEF RefsOK
<1>10. RowsOK /\ LogCopied /\ WindowKept /\ Gone = {}
  <2>1. schema["request_log"] = "none" => log = {}
    BY <1>1, <1>3, <1>4
  <2> QED
    BY <2>1, <1>5, <1>6 DEF RowsOK, LogCopied, WindowKept, Gone
<1>11. DailyOK
  <2>1. Days({}) = {}
    BY DEF Days
  <2> QED
    BY <2>1, <1>5, <1>10 DEF DailyOK
<1>12. CostOK
  <2>1. DailyCost = SumFunctionOnSet([d \in DOMAIN daily |-> daily[d].cost], {})
    BY <1>5 DEF DailyCost, SumFunction
  <2>2. DailyCost = 0
    BY <2>1, SumEmpty
  <2>3. Hits({}) = {}
    BY DEF Hits
  <2>4. CostSaved({}) = SumFunctionOnSet([r \in Hits({}) |-> r.kind.cost], {})
    BY <2>3 DEF CostSaved, SumFunction
  <2>5. CostSaved(Gone) = 0
    BY <2>4, <1>10, SumEmpty
  <2>6. roundings * CostUnit = 0
    BY <1>5, RetentionAssumption
  <2> QED
    BY <2>2, <2>5, <2>6 DEF CostOK
<1> QED
  BY <1>7, <1>8, <1>9, <1>10, <1>11, <1>12 DEF IInv, LogOK

LEMMA NextKeeps == IInv /\ [Next]_vars => IInv'
<1> SUFFICES ASSUME IInv, [Next]_vars PROVE IInv'
  OBVIOUS
<1>1. CASE Boot
  BY <1>1, BootKeeps
<1>2. CASE CreateEntries
  BY <1>2, CreateEntriesKeeps
<1>3. CASE CreateLog
  BY <1>3, CreateLogKeeps
<1>4. CASE CopyEntries
  BY <1>4, CopyEntriesKeeps
<1>5. CASE FillEntries
  BY <1>5, FillEntriesKeeps
<1>6. CASE DropEntries
  BY <1>6, DropEntriesKeeps
<1>7. CASE RenameEntries
  BY <1>7, RenameEntriesKeeps
<1>8. CASE ScopeLog
  BY <1>8, ScopeLogKeeps
<1>9. CASE CopyLog
  BY <1>9, CopyLogKeeps
<1>10. CASE FillLog
  BY <1>10, FillLogKeeps
<1>11. CASE DropLog
  BY <1>11, DropLogKeeps
<1>12. CASE RenameLog
  BY <1>12, RenameLogKeeps
<1>13. CASE Seed
  BY <1>13, SeedKeeps
<1>14. CASE PruneOnce
  BY <1>14, PruneOnceKeeps
<1>15. CASE StoreEntry
  BY <1>15, StoreEntryKeeps
<1>16. CASE \E kind \in Kinds : LogRequest(kind)
  BY <1>16, LogRequestKeeps
<1>17. CASE Kill
  BY <1>17, KillKeeps
<1>18. CASE Clock
  BY <1>18, ClockKeeps
<1>19. CASE Idle \/ UNCHANGED vars
  BY <1>19, IdleKeeps DEF Idle
<1> QED
  BY <1>1, <1>2, <1>3, <1>4, <1>5, <1>6, <1>7, <1>8, <1>9, <1>10, <1>11, <1>12,
     <1>13, <1>14, <1>15, <1>16, <1>17, <1>18, <1>19 DEF Next

\* The invariant holds through every start, kill, migration and retention pass
\* (init_db, _migrate_user_scoping, seed_test_pairs, prune_old_logs).
THEOREM StartupInvariance == Spec => []IInv
<1>1. Init => IInv
  BY InitHolds
<1>2. IInv /\ [Next]_vars => IInv'
  BY NextKeeps
<1> QED
  BY <1>1, <1>2, PTL DEF Spec

\* Types, and that a table which does not exist holds no rows (the DROP and RENAME
\* statements of _migrate_user_scoping).
THEOREM StartupTyped == Spec => []TypeOKStartup
<1>1. IInv => TypeOKStartup
  <2> SUFFICES ASSUME IInv PROVE TypeOKStartup
    OBVIOUS
  <2>1. DOMAIN daily \subseteq Nat
    BY RowSets, DaysAreNat DEF IInv, LogOK, DailyOK
  <2>2. TypeOKRetention
    BY <2>1 DEF IInv, LogOK, RowsOK, DailyOK, TypeOKRetention
  <2>3. /\ entries \in [DOMAIN entries -> stored] /\ lastId \in Nat
        /\ DOMAIN entries \subseteq 1 .. lastId /\ copied \in Seq(stored)
        /\ stored \subseteq Nat /\ renumbered \in BOOLEAN
        /\ schema["cache_entries"] = "none" => entries = <<>>
        /\ schema["cache_entries_v2"] = "none" => copied = <<>>
    BY DEF IInv, EntriesOK, EntriesTyped, EntriesCopied
  <2>4. /\ copiedLog \subseteq ever
        /\ schema["request_log"] = "none" => log = {}
        /\ schema["request_log_v2"] = "none" => copiedLog = {}
    BY DEF IInv, LogOK, RowsOK, LogCopied
  <2>5. /\ schema \in [Names -> Shape] /\ pairs \in Nat /\ step \in Steps
        /\ kills \in 0 .. MaxKills
    BY DEF IInv, ShapeOK
  <2> QED
    BY <2>2, <2>3, <2>4, <2>5 DEF TypeOKStartup
<1> QED
  BY <1>1, StartupInvariance, PTL

\* However often init_db was killed, requests are only served on the current
\* schema and with one set of test pairs (lifespan).
THEOREM ServesCurrentTables == Spec => []ServedOnCurrentSchema
<1>1. IInv => ServedOnCurrentSchema
  BY DEF IInv, ShapeOK, EntriesShape, LogShape, EntriesDone, LogDone,
     ServedOnCurrentSchema
<1> QED
  BY <1>1, StartupInvariance, PTL

\* No row of the last days is taken by prune_old_logs or lost by the migration.
THEOREM RetentionKeepsWindow == Spec => []WindowKept
<1>1. IInv => WindowKept
  BY DEF IInv, LogOK
<1> QED
  BY <1>1, StartupInvariance, PTL

\* Every entry that was ever stored is in cache_entries or in its copy, wherever
\* the rebuild was killed (_migrate_user_scoping).
THEOREM MigrationKeepsEntries == Spec => []EntriesKept
<1>1. IInv => EntriesKept
  <2> SUFFICES ASSUME IInv, NEW e \in stored
               PROVE  e \in Held(entries) \/ e \in Held(copied)
    BY DEF EntriesKept, Held
  <2> QED
    BY DEF IInv, EntriesOK, EntriesCopied
<1> QED
  BY <1>1, StartupInvariance, PTL

\* matched_entry_id names the entry that was served, unless the rebuild gave it
\* another id (_migrate_user_scoping).
THEOREM ReferencesStayMeant == Spec => []ReferencesMeant
<1>1. IInv => ReferencesMeant
  BY DEF IInv, RefsOK, Meant, ReferencesMeant, LogOK, RowsOK
<1> QED
  BY <1>1, StartupInvariance, PTL

\* get_metrics adds the rows the retention took and those that remain.
LEMMA MetricsAdd ==
  ASSUME RowsOK, DailyOK
  PROVE  /\ Metrics.requests = Cardinality(Gone) + Cardinality(log)
         /\ Metrics.hits = Cardinality(Hits(Gone)) + Cardinality(Hits(log))
         /\ Metrics.tokens = TokensSaved(Gone) + TokensSaved(log)
         /\ Metrics.cost = DailyCost + CostSaved(log)
<1> DEFINE D == DOMAIN daily
           fr == [d \in D |-> daily[d].requests]
           fh == [d \in D |-> daily[d].hits]
           ft == [d \in D |-> daily[d].tokens]
           fc == [d \in D |-> daily[d].cost]
<1>1. /\ Metrics.requests = SumFunction(fr) + Cardinality(log)
      /\ Metrics.hits = SumFunction(fh) + Cardinality(Hits(log))
      /\ Metrics.tokens = SumFunction(ft) + TokensSaved(log)
      /\ Metrics.cost = SumFunction(fc) + CostSaved(log)
  BY DEF Metrics
<1>2. /\ SumFunction(fr) = SumFunctionOnSet(fr, D)
      /\ SumFunction(fh) = SumFunctionOnSet(fh, D)
      /\ SumFunction(ft) = SumFunctionOnSet(ft, D)
  BY DEF SumFunction
<1>3. /\ fr = [d \in D |-> Cardinality(OnDay(Gone, d))]
      /\ fh = [d \in D |-> Cardinality(Hits(OnDay(Gone, d)))]
      /\ ft = [d \in D |-> TokensSaved(OnDay(Gone, d))]
  BY DEF DailyOK, Counted
<1>4. IsFiniteSet(D) /\ Days(Gone) \subseteq D
  BY DailyCosts DEF DailyOK
<1>5. SumFunction(fc) = DailyCost
  BY DEF DailyCost
<1> HIDE DEF D, fr, fh, ft, fc
<1>6. /\ SumFunctionOnSet(fr, D) = Cardinality(Gone)
      /\ SumFunctionOnSet(fh, D) = Cardinality(Hits(Gone))
      /\ SumFunctionOnSet(ft, D) = TokensSaved(Gone)
  BY <1>3, <1>4, RowSets, DaysAddUp
<1> QED
  BY <1>1, <1>2, <1>5, <1>6

\* Every row that was logged was taken, remains, or is stranded in the copy.
LEMMA RowsAddUp ==
  ASSUME RowsOK
  PROVE  /\ Cardinality(ever) =
              Cardinality(Gone) + Cardinality(log) + Cardinality(Stranded)
         /\ Cardinality(Hits(ever)) = Cardinality(Hits(Gone)) + Cardinality(Hits(log))
                                      + Cardinality(Hits(Stranded))
         /\ TokensSaved(ever) =
              TokensSaved(Gone) + TokensSaved(log) + TokensSaved(Stranded)
         /\ CostSaved(ever) = CostSaved(Gone) + CostSaved(log) + CostSaved(Stranded)
<1> DEFINE rest == Gone \cup log
<1>1. /\ Gone \in SUBSET Row /\ IsFiniteSet(Gone)
      /\ log \in SUBSET Row /\ IsFiniteSet(log)
      /\ Gone \cap log = {}
  BY RowSets DEF Gone
<1>2. Stranded \in SUBSET Row /\ IsFiniteSet(Stranded)
  <2>1. Stranded \in SUBSET copiedLog
    BY DEF Stranded
  <2> QED
    BY <2>1, RowSets, FS_Subset
<1>3. rest \in SUBSET Row /\ IsFiniteSet(rest)
  BY <1>1, FS_Union
<1>4. ever = rest \cup Stranded /\ rest \cap Stranded = {}
  BY DEF Gone, Stranded, RowsOK
<1>5. /\ Cardinality(rest) = Cardinality(Gone) + Cardinality(log)
      /\ Cardinality(Hits(rest)) = Cardinality(Hits(Gone)) + Cardinality(Hits(log))
      /\ TokensSaved(rest) = TokensSaved(Gone) + TokensSaved(log)
      /\ CostSaved(rest) = CostSaved(Gone) + CostSaved(log)
  BY <1>1, SavedOfBoth
<1> HIDE DEF rest
<1>6. /\ Cardinality(ever) = Cardinality(rest) + Cardinality(Stranded)
      /\ Cardinality(Hits(ever)) = Cardinality(Hits(rest)) + Cardinality(Hits(Stranded))
      /\ TokensSaved(ever) = TokensSaved(rest) + TokensSaved(Stranded)
      /\ CostSaved(ever) = CostSaved(rest) + CostSaved(Stranded)
  BY <1>2, <1>3, <1>4, SavedOfBoth
<1> QED
  BY <1>5, <1>6

\* The lifetime requests, hits and tokens of get_metrics are those of all rows
\* ever logged, but for rows that a kill stranded.
THEOREM LifetimeTotalsHold == Spec => []LifetimeTotals
<1>1. IInv => LifetimeTotals
  BY MetricsAdd, RowsAddUp DEF IInv, LogOK, LifetimeTotals
<1> QED
  BY <1>1, StartupInvariance, PTL

\* The lifetime cost of get_metrics is off by half a unit at most for each day
\* that prune_old_logs rolled up.
THEOREM LifetimeCostHolds == Spec => []CostWithinRounding
<1>1. IInv => CostWithinRounding
  <2> SUFFICES ASSUME IInv PROVE CostWithinRounding
    OBVIOUS
  <2> DEFINE bound == roundings * CostUnit
             a == DailyCost
             g == CostSaved(Gone)
             l == CostSaved(log)
             z == CostSaved(Stranded)
  <2>1. RowsOK /\ DailyOK /\ CostOK
    BY DEF IInv, LogOK
  <2>2. /\ Metrics.cost = a + l /\ CostSaved(ever) = g + l + z
    BY <2>1, MetricsAdd, RowsAddUp
  <2>3. Stranded \in SUBSET Row /\ IsFiniteSet(Stranded)
    <3>1. Stranded \in SUBSET copiedLog
      BY DEF Stranded
    <3> QED
      BY <3>1, <2>1, RowSets, FS_Subset
  <2>4. a \in Nat /\ g \in Nat /\ l \in Nat /\ z \in Nat
    BY <2>1, <2>3, RowSets, DailyCosts, SavedAsSums
  <2>5. bound \in Nat
    <3>1. roundings \in Nat /\ CostUnit \in Nat
      BY <2>1, RetentionAssumption DEF RowsOK
    <3> QED
      BY <3>1
  <2>6. 2 * a <= 2 * g + bound /\ 2 * g <= 2 * a + bound
    BY <2>1 DEF CostOK
  <2> DEFINE off == Metrics.cost + z - CostSaved(ever)
  <2>7. off = a - g /\ off \in Int
    <3> HIDE DEF bound, a, g, l, z
    <3> QED
      BY <2>2, <2>4
  <2> HIDE DEF bound, a, g, l, off
  <2>8. 2 * off \in -bound .. bound /\ -2 * off \in -bound .. bound
    BY <2>4, <2>5, <2>6, <2>7
  <2> QED
    BY <2>8 DEF CostWithinRounding, bound, off
<1> QED
  BY <1>1, StartupInvariance, PTL

=============================================================================
