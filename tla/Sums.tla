--------------------------------- MODULE Sums ---------------------------------
(***************************************************************************)
(* What SumFunctionOnSet computes on finite sets: the sums over the lines  *)
(* of an order, the orders of the shop and the payments of an order.       *)
(*                                                                         *)
(* The sum takes one element after the other, in an order of its own.      *)
(* Each lemma is an induction on the set, written as the search for a      *)
(* smallest counterexample: inclusion of finite sets is well-founded.      *)
(***************************************************************************)
EXTENDS Integers, Functions, FiniteSetTheorems, WellFoundedInduction, TLAPS

\* The element that is taken first, and what it leaves.
Picked(S) == CHOOSE x \in S : TRUE
Rest(S) == S \ {Picked(S)}

\* t is the table of the sums over all subsets of S.
IsTable(f, S, t) == t = [s \in SUBSET S |-> IF s = {} THEN 0 ELSE f[Picked(s)] + t[Rest(s)]]

-------------------------------------------------------------------------------
(* The recursion has a solution, and only one. *)

LEMMA SumIsTable ==
    ASSUME NEW f, NEW S
    PROVE  SumFunctionOnSet(f, S) = (CHOOSE t : IsTable(f, S, t))[S]
BY DEF SumFunctionOnSet, FoldFunctionOnSet, MapThenFoldSet, IsTable, Picked, Rest

LEMMA PickedIsIn ==
    ASSUME NEW S, S # {}
    PROVE  Picked(S) \in S /\ Rest(S) \in SUBSET S /\ Rest(S) # S
BY DEF Picked, Rest

\* Among the subsets of a finite set that have a fault there is a smallest one.
LEMMA Smallest ==
    ASSUME NEW S, IsFiniteSet(S), NEW Faulty \in SUBSET SUBSET S, Faulty # {}
    PROVE  \E T \in Faulty : /\ IsFiniteSet(T)
                             /\ \A U \in SUBSET T : U # T => U \notin Faulty
<1>1. Faulty \subseteq FiniteSubsetsOf(S)
  BY FS_Subset DEF FiniteSubsetsOf
<1>2. PICK T \in Faulty : \A U \in Faulty : ~ (<<U, T>> \in StrictSubsetOrdering(S))
  BY <1>1, FS_StrictSubsetOrderingWellFounded, WFMin
<1>3. IsFiniteSet(T)
  BY <1>1, FS_Subset
<1>4. ASSUME NEW U \in SUBSET T, U # T PROVE U \notin Faulty
  BY <1>2, <1>4 DEF StrictSubsetOrdering
<1> QED BY <1>3, <1>4

LEMMA TableRow ==
    ASSUME NEW f, NEW S, NEW t, IsTable(f, S, t), NEW s \in SUBSET S
    PROVE  t[s] = IF s = {} THEN 0 ELSE f[Picked(s)] + t[Rest(s)]
BY DEF IsTable

LEMMA TablesAgree ==
    ASSUME NEW f, NEW T, NEW S \in SUBSET T, IsFiniteSet(S),
           NEW t, NEW u, IsTable(f, S, t), IsTable(f, T, u)
    PROVE  t[S] = u[S]
<1> DEFINE Faulty == {s \in SUBSET S : t[s] # u[s]}
<1> SUFFICES ASSUME Faulty # {} PROVE FALSE
  OBVIOUS
<1> Faulty \in SUBSET SUBSET S
  OBVIOUS
<1> HIDE DEF Faulty
<1>1. PICK s \in Faulty : \A U \in SUBSET s : U # s => U \notin Faulty
  BY Smallest
<1> s \in SUBSET S /\ s \in SUBSET T /\ t[s] # u[s]
  BY DEF Faulty
<1>2. t[s] = IF s = {} THEN 0 ELSE f[Picked(s)] + t[Rest(s)]
  BY DEF IsTable
<1>3. u[s] = IF s = {} THEN 0 ELSE f[Picked(s)] + u[Rest(s)]
  BY DEF IsTable
<1>4. s # {}
  BY <1>2, <1>3
<1>5. t[Rest(s)] = u[Rest(s)]
  BY <1>1, <1>4, PickedIsIn DEF Faulty
<1> QED BY <1>2, <1>3, <1>4, <1>5

\* The table of T is put together from those of its smaller subsets.
LEMMA TableExists ==
    ASSUME NEW f, NEW S, IsFiniteSet(S)
    PROVE  \E t : IsTable(f, S, t)
<1> DEFINE Faulty == {T \in SUBSET S : ~ \E t : IsTable(f, T, t)}
<1> SUFFICES ASSUME Faulty # {} PROVE FALSE
  OBVIOUS
<1> Faulty \in SUBSET SUBSET S
  OBVIOUS
<1> HIDE DEF Faulty
<1>1. PICK T \in Faulty : IsFiniteSet(T) /\ \A U \in SUBSET T : U # T => U \notin Faulty
  BY Smallest
<1>2. T \in SUBSET S /\ ~ \E t : IsTable(f, T, t)
  BY DEF Faulty
<1> DEFINE Table(U) == CHOOSE t : IsTable(f, U, t)
           Row(s) == IF s = {} THEN 0 ELSE f[Picked(s)] + Table(Rest(s))[Rest(s)]
           t == [s \in SUBSET T |-> Row(s)]
<1>3. ASSUME NEW U \in SUBSET T, U # T PROVE IsTable(f, U, Table(U)) /\ IsFiniteSet(U)
  <2>1. \E u : IsTable(f, U, u)
    BY <1>1, <1>2, <1>3 DEF Faulty
  <2> QED BY <1>1, <2>1, FS_Subset
<1> HIDE DEF Table
<1>4. ASSUME NEW U \in SUBSET T, U # T PROVE Table(U)[U] = Row(U)
  <2>1. CASE U = {}
    <3>1. IsTable(f, U, Table(U)) /\ U \in SUBSET U
      BY <1>3, <1>4
    <3>2. Table(U)[U] = 0
      BY <2>1, <3>1, TableRow
    <3> QED BY <2>1, <3>2
  <2>2. CASE U # {}
    <3>1. Rest(U) \in SUBSET U /\ Rest(U) \in SUBSET T /\ Rest(U) # T
      BY <1>4, <2>2, PickedIsIn
    <3>2. /\ IsTable(f, U, Table(U)) /\ IsTable(f, Rest(U), Table(Rest(U)))
          /\ IsFiniteSet(Rest(U))
      BY <1>3, <1>4, <3>1
    <3>3. Table(U)[Rest(U)] = Table(Rest(U))[Rest(U)]
      BY <3>1, <3>2, TablesAgree
    <3>4. Table(U)[U] = f[Picked(U)] + Table(U)[Rest(U)]
      <4>1. U \in SUBSET U
        OBVIOUS
      <4> QED BY <2>2, <3>2, <4>1, TableRow
    <3> QED BY <2>2, <3>3, <3>4
  <2> QED BY <2>1, <2>2
<1>5. ASSUME NEW s \in SUBSET T, s # {} PROVE t[Rest(s)] = Table(Rest(s))[Rest(s)]
  <2>1. Rest(s) \in SUBSET T /\ Rest(s) # T
    BY <1>5, PickedIsIn
  <2>2. t[Rest(s)] = Row(Rest(s))
    BY <2>1
  <2> HIDE DEF Row, t
  <2> QED BY <1>4, <2>1, <2>2
<1>6. t = [s \in SUBSET T |-> IF s = {} THEN 0 ELSE f[Picked(s)] + t[Rest(s)]]
  <2>1. \A s \in SUBSET T : s # {} => f[Picked(s)] + t[Rest(s)] = Row(s)
    <3> HIDE DEF t
    <3> QED BY <1>5
  <2> QED BY <2>1
<1>7. IsTable(f, T, t)
  BY <1>6 DEF IsTable
<1> HIDE DEF t
<1> QED BY <1>2, <1>7

\* The sum of a set, by the element that is taken first.
LEMMA SumFirst ==
    ASSUME NEW f, NEW S, IsFiniteSet(S)
    PROVE  SumFunctionOnSet(f, S) =
             IF S = {} THEN 0 ELSE f[Picked(S)] + SumFunctionOnSet(f, Rest(S))
<1> DEFINE Table(U) == CHOOSE t : IsTable(f, U, t)
<1>1. Rest(S) \in SUBSET S /\ IsFiniteSet(Rest(S))
  <2>1. Rest(S) \in SUBSET S
    BY DEF Rest
  <2> QED BY <2>1, FS_Subset
<1>2. IsTable(f, S, Table(S)) /\ IsTable(f, Rest(S), Table(Rest(S)))
  BY <1>1, TableExists
<1>3. /\ SumFunctionOnSet(f, S) = Table(S)[S]
      /\ SumFunctionOnSet(f, Rest(S)) = Table(Rest(S))[Rest(S)]
  BY SumIsTable
<1> HIDE DEF Table
<1>4. Table(S)[Rest(S)] = Table(Rest(S))[Rest(S)]
  BY <1>1, <1>2, TablesAgree
<1>5. Table(S)[S] = IF S = {} THEN 0 ELSE f[Picked(S)] + Table(S)[Rest(S)]
  <2>1. S \in SUBSET S
    OBVIOUS
  <2> QED BY <1>2, <2>1, TableRow
<1> QED BY <1>3, <1>4, <1>5

-------------------------------------------------------------------------------
(* What the proofs about sums use. *)

LEMMA SumEmpty == ASSUME NEW f PROVE SumFunctionOnSet(f, {}) = 0
BY SumFirst, FS_EmptySet

\* A set of numbers that each addition stays in holds the sum.
LEMMA SumStaysIn ==
    ASSUME NEW f, NEW S, IsFiniteSet(S), NEW V, 0 \in V,
           \A x \in S : \A v \in V : f[x] + v \in V
    PROVE  SumFunctionOnSet(f, S) \in V
<1> DEFINE Faulty == {T \in SUBSET S : SumFunctionOnSet(f, T) \notin V}
<1> SUFFICES ASSUME Faulty # {} PROVE FALSE
  OBVIOUS
<1> Faulty \in SUBSET SUBSET S
  OBVIOUS
<1> HIDE DEF Faulty
<1>1. PICK T \in Faulty : IsFiniteSet(T) /\ \A U \in SUBSET T : U # T => U \notin Faulty
  BY Smallest
<1>2. SumFunctionOnSet(f, T) =
        IF T = {} THEN 0 ELSE f[Picked(T)] + SumFunctionOnSet(f, Rest(T))
  BY <1>1, SumFirst
<1>3. T \in SUBSET S /\ T # {}
  BY <1>2 DEF Faulty
<1>4. Picked(T) \in T /\ SumFunctionOnSet(f, Rest(T)) \in V
  BY <1>1, <1>3, PickedIsIn DEF Faulty
<1> QED BY <1>2, <1>3, <1>4 DEF Faulty

LEMMA SumType ==
    ASSUME NEW f, NEW S, IsFiniteSet(S), \A x \in S : f[x] \in Int
    PROVE  SumFunctionOnSet(f, S) \in Int
<1>1. \A x \in S : \A v \in Int : f[x] + v \in Int
  OBVIOUS
<1> QED BY <1>1, SumStaysIn

LEMMA SumNat ==
    ASSUME NEW f, NEW S, IsFiniteSet(S), \A x \in S : f[x] \in Nat
    PROVE  SumFunctionOnSet(f, S) \in Nat
<1>1. \A x \in S : \A v \in Nat : f[x] + v \in Nat
  OBVIOUS
<1> QED BY <1>1, SumStaysIn

LEMMA SumZero ==
    ASSUME NEW f, NEW S, IsFiniteSet(S), \A x \in S : f[x] = 0
    PROVE  SumFunctionOnSet(f, S) = 0
<1>1. \A x \in S : \A v \in {0} : f[x] + v \in {0}
  OBVIOUS
<1>2. SumFunctionOnSet(f, S) \in {0}
  BY <1>1, SumStaysIn
<1> QED BY <1>2

\* Only the values of the elements matter.
LEMMA SumSame ==
    ASSUME NEW f, NEW g, NEW S, IsFiniteSet(S), \A x \in S : f[x] = g[x]
    PROVE  SumFunctionOnSet(f, S) = SumFunctionOnSet(g, S)
<1> DEFINE Faulty == {T \in SUBSET S : SumFunctionOnSet(f, T) # SumFunctionOnSet(g, T)}
<1> SUFFICES ASSUME Faulty # {} PROVE FALSE
  OBVIOUS
<1> Faulty \in SUBSET SUBSET S
  OBVIOUS
<1> HIDE DEF Faulty
<1>1. PICK T \in Faulty : IsFiniteSet(T) /\ \A U \in SUBSET T : U # T => U \notin Faulty
  BY Smallest
<1>2. SumFunctionOnSet(f, T) =
        IF T = {} THEN 0 ELSE f[Picked(T)] + SumFunctionOnSet(f, Rest(T))
  BY <1>1, SumFirst
<1>3. SumFunctionOnSet(g, T) =
        IF T = {} THEN 0 ELSE g[Picked(T)] + SumFunctionOnSet(g, Rest(T))
  BY <1>1, SumFirst
<1>4. T \in SUBSET S /\ T # {}
  BY <1>2, <1>3 DEF Faulty
<1>5. Picked(T) \in S /\ SumFunctionOnSet(f, Rest(T)) = SumFunctionOnSet(g, Rest(T))
  BY <1>1, <1>4, PickedIsIn DEF Faulty
<1> QED BY <1>2, <1>3, <1>4, <1>5 DEF Faulty

\* Any element may be taken first: otherwise there is a smallest set where one
\* may not, and it and the one that is picked can be taken in either order.
LEMMA SumRemove ==
    ASSUME NEW f, NEW S, IsFiniteSet(S), \A x \in S : f[x] \in Int, NEW a \in S
    PROVE  SumFunctionOnSet(f, S) = f[a] + SumFunctionOnSet(f, S \ {a})
<1> DEFINE Faulty == {T \in SUBSET S :
              \E x \in T : SumFunctionOnSet(f, T) # f[x] + SumFunctionOnSet(f, T \ {x})}
<1> SUFFICES ASSUME Faulty # {} PROVE FALSE
  OBVIOUS
<1> Faulty \in SUBSET SUBSET S
  OBVIOUS
<1> HIDE DEF Faulty
<1>1. PICK T \in Faulty : IsFiniteSet(T) /\ \A U \in SUBSET T : U # T => U \notin Faulty
  BY Smallest
<1>2. PICK x \in T : SumFunctionOnSet(f, T) # f[x] + SumFunctionOnSet(f, T \ {x})
  BY DEF Faulty
<1> DEFINE y == Picked(T)
           Both == (T \ {x}) \ {y}
<1>3. y \in T /\ T \in SUBSET S
  BY PickedIsIn
<1>4. SumFunctionOnSet(f, T) = f[y] + SumFunctionOnSet(f, T \ {y})
  BY <1>1, <1>2, SumFirst DEF Rest
<1>5. x # y
  BY <1>2, <1>4
<1>6. T \ {y} \notin Faulty /\ T \ {x} \notin Faulty
  BY <1>1, <1>2, <1>3
<1>7. SumFunctionOnSet(f, T \ {y}) = f[x] + SumFunctionOnSet(f, (T \ {y}) \ {x})
  BY <1>2, <1>3, <1>5, <1>6 DEF Faulty
<1>8. SumFunctionOnSet(f, T \ {x}) = f[y] + SumFunctionOnSet(f, Both)
  BY <1>3, <1>5, <1>6 DEF Faulty
<1>9. (T \ {y}) \ {x} = Both
  OBVIOUS
<1>10. SumFunctionOnSet(f, Both) \in Int
  <2>1. IsFiniteSet(Both) /\ \A z \in Both : f[z] \in Int
    BY <1>1, <1>3, FS_Subset
  <2> HIDE DEF Both
  <2> QED BY <2>1, SumType
<1>11. f[x] \in Int /\ f[y] \in Int
  BY <1>2, <1>3
<1>12. SumFunctionOnSet(f, T) = f[y] + (f[x] + SumFunctionOnSet(f, Both))
  BY <1>4, <1>7, <1>9
<1>13. f[x] + SumFunctionOnSet(f, T \ {x}) = f[x] + (f[y] + SumFunctionOnSet(f, Both))
  BY <1>8
<1>14. ASSUME NEW i \in Int, NEW j \in Int, NEW k \in Int PROVE i + (j + k) = j + (i + k)
  OBVIOUS
<1> HIDE DEF Both, y
<1>15. f[y] + (f[x] + SumFunctionOnSet(f, Both)) = f[x] + (f[y] + SumFunctionOnSet(f, Both))
  BY <1>10, <1>11, <1>14
<1> QED BY <1>2, <1>12, <1>13, <1>15

LEMMA SumAdd ==
    ASSUME NEW f, NEW S, IsFiniteSet(S), NEW a, a \notin S,
           f[a] \in Int, \A x \in S : f[x] \in Int
    PROVE  SumFunctionOnSet(f, S \cup {a}) = f[a] + SumFunctionOnSet(f, S)
<1>1. IsFiniteSet(S \cup {a}) /\ (S \cup {a}) \ {a} = S
  BY FS_AddElement
<1> QED BY <1>1, SumRemove

\* A sum of which all but one element are nothing is that element.
LEMMA SumOfOne ==
    ASSUME NEW f, NEW S, IsFiniteSet(S), NEW a \in S, f[a] \in Int,
           \A x \in S \ {a} : f[x] = 0
    PROVE  SumFunctionOnSet(f, S) = f[a]
<1>1. IsFiniteSet(S \ {a})
  BY FS_RemoveElement
<1>2. SumFunctionOnSet(f, S \ {a}) = 0
  BY <1>1, SumZero
<1>3. SumFunctionOnSet(f, S) = f[a] + SumFunctionOnSet(f, S \ {a})
  BY SumRemove
<1> QED BY <1>2, <1>3
===============================================================================
