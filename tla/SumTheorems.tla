---------------------------- MODULE SumTheorems ----------------------------
(***************************************************************************)
(* Sums over finite sets: what MapThenSumSet of the community modules      *)
(* computes, for every finite set and every function of natural numbers.   *)
(* It is a recursion over the subsets, each time by an element that CHOOSE *)
(* picks; the theorems say that it is defined, that the choice does not    *)
(* matter, and that one element more adds its value.  The proofs take a    *)
(* minimal counterexample, since proper inclusion of finite sets is well   *)
(* founded.                                                                *)
(***************************************************************************)
EXTENDS FiniteSetsExt, FiniteSetTheorems, TLAPS

SumOver(f, S) == MapThenSumSet(LAMBDA x : f[x], S)

Chosen(s) == CHOOSE x \in s : TRUE

(* g computes the sums of all subsets of S.                                *)
Sums(g, f, S) ==
  g = [s \in SUBSET S |-> IF s = {} THEN 0 ELSE f[Chosen(s)] + g[s \ {Chosen(s)}]]

LEMMA SumIsChosen == ASSUME NEW f, NEW S PROVE SumOver(f, S) = (CHOOSE g : Sums(g, f, S))[S]
BY DEF SumOver, MapThenSumSet, MapThenFoldSet, Sums, Chosen

LEMMA ChosenIn == ASSUME NEW s, s # {} PROVE Chosen(s) \in s
BY DEF Chosen

(* Every set of finite sets has a smallest: no other is a proper subset.   *)
LEMMA Smallest ==
  ASSUME NEW S, IsFiniteSet(S), NEW T, T \subseteq SUBSET S, T # {}
  PROVE  \E s \in T : \A t \in T : t \subseteq s => t = s
<1>1. IsWellFoundedOn(StrictSubsetOrdering(S), SUBSET S)
  BY FS_StrictSubsetOrderingWellFounded, FS_FiniteSubsetsOfFinite
<1>2. \E s \in T : \A t \in T : ~ (<<t, s>> \in StrictSubsetOrdering(S))
  BY <1>1, WFMin
<1>3. PICK s \in T : \A t \in T : ~ (<<t, s>> \in StrictSubsetOrdering(S))
  BY <1>2
<1>4. ASSUME NEW t \in T, t \subseteq s, t # s PROVE FALSE
  <2>1. t \in SUBSET S /\ s \in SUBSET S
    OBVIOUS
  <2> QED BY <1>3, <1>4, <2>1 DEF StrictSubsetOrdering
<1> QED BY <1>3, <1>4

(* Two computations agree where both compute.                              *)
LEMMA SumsAgree ==
  ASSUME NEW f, NEW S, IsFiniteSet(S), NEW U \in SUBSET S, NEW g, NEW h, Sums(g, f, S), Sums(h, f, U)
  PROVE  \A s \in SUBSET U : g[s] = h[s]
<1> DEFINE bad == {s \in SUBSET U : g[s] # h[s]}
<1>1. SUFFICES ASSUME bad # {} PROVE FALSE
  OBVIOUS
<1>2. PICK s \in bad : \A t \in bad : t \subseteq s => t = s
  <2>1. IsFiniteSet(U)
    BY FS_Subset
  <2>2. bad \subseteq SUBSET U
    OBVIOUS
  <2> HIDE DEF bad
  <2> QED BY <1>1, <2>1, <2>2, Smallest
<1>3. s \in SUBSET U /\ s \in SUBSET S /\ g[s] # h[s]
  OBVIOUS
<1>4. /\ g[s] = IF s = {} THEN 0 ELSE f[Chosen(s)] + g[s \ {Chosen(s)}]
      /\ h[s] = IF s = {} THEN 0 ELSE f[Chosen(s)] + h[s \ {Chosen(s)}]
  BY <1>3 DEF Sums
<1>5. s # {} /\ g[s \ {Chosen(s)}] # h[s \ {Chosen(s)}]
  BY <1>3, <1>4
<1>6. s \ {Chosen(s)} \in bad /\ s \ {Chosen(s)} # s
  BY <1>3, <1>5, ChosenIn
<1> QED BY <1>2, <1>6

LEMMA SumOfSubset ==
  ASSUME NEW f, NEW S, IsFiniteSet(S), NEW g, Sums(g, f, S), NEW U \in SUBSET S
  PROVE  g[U] = SumOver(f, U)
<1> DEFINE h == [s \in SUBSET U |-> g[s]]
<1>1. Sums(h, f, U)
  <2>1. ASSUME NEW s \in SUBSET U
        PROVE  h[s] = IF s = {} THEN 0 ELSE f[Chosen(s)] + h[s \ {Chosen(s)}]
    <3>1. s \in SUBSET S /\ s \ {Chosen(s)} \in SUBSET U
      OBVIOUS
    <3> QED BY <3>1 DEF Sums
  <2>2. h = [s \in SUBSET U |-> h[s]]
    OBVIOUS
  <2> HIDE DEF h
  <2> QED BY <2>1, <2>2 DEF Sums
<1> HIDE DEF h
<1>2. Sums(CHOOSE k : Sums(k, f, U), f, U)
  BY <1>1
<1>3. g[U] = (CHOOSE k : Sums(k, f, U))[U]
  BY <1>2, SumsAgree
<1> QED BY <1>3, SumIsChosen

(* The recursion has a solution.                                           *)
LEMMA SumsExists == ASSUME NEW f, NEW S, IsFiniteSet(S) PROVE \E g : Sums(g, f, S)
<1> DEFINE bad == {T \in SUBSET S : ~ \E g : Sums(g, f, T)}
<1>1. SUFFICES ASSUME bad # {} PROVE FALSE
  OBVIOUS
<1>2. PICK T \in bad : \A t \in bad : t \subseteq T => t = T
  <2>1. bad \subseteq SUBSET S
    OBVIOUS
  <2> HIDE DEF bad
  <2> QED BY <1>1, <2>1, Smallest
<1>3. T \in SUBSET S /\ IsFiniteSet(T)
  BY FS_Subset
<1> DEFINE g == [s \in SUBSET T |-> IF s = {} THEN 0 ELSE f[Chosen(s)] + SumOver(f, s \ {Chosen(s)})]
<1>4. ASSUME NEW s \in SUBSET T, s # {} PROVE g[s \ {Chosen(s)}] = SumOver(f, s \ {Chosen(s)})
  <2> DEFINE v == s \ {Chosen(s)}
  <2>1. v \in SUBSET T /\ v # T
    BY <1>4, ChosenIn
  <2>2. v \in SUBSET S /\ v \notin bad
    BY <1>2, <1>3, <2>1
  <2>3. PICK k : Sums(k, f, v)
    BY <2>2
  <2>4. IsFiniteSet(v)
    BY <1>3, <2>1, FS_Subset
  <2>5. SumOver(f, v) = k[v]
    BY <2>3, <2>4, SumOfSubset
  <2>6. k[v] = IF v = {} THEN 0 ELSE f[Chosen(v)] + k[v \ {Chosen(v)}]
    BY <2>3 DEF Sums
  <2>7. k[v \ {Chosen(v)}] = SumOver(f, v \ {Chosen(v)})
    <3>1. v \ {Chosen(v)} \in SUBSET v
      OBVIOUS
    <3> HIDE DEF v
    <3> QED BY <2>3, <2>4, <3>1, SumOfSubset
  <2>8. g[v] = IF v = {} THEN 0 ELSE f[Chosen(v)] + SumOver(f, v \ {Chosen(v)})
    <3> HIDE DEF v
    <3> QED BY <2>1
  <2> HIDE DEF v, g
  <2>9. g[v] = SumOver(f, v)
    BY <2>5, <2>6, <2>7, <2>8
  <2> QED BY <2>9 DEF v
<1>5. g = [s \in SUBSET T |-> IF s = {} THEN 0 ELSE f[Chosen(s)] + g[s \ {Chosen(s)}]]
  <2>1. ASSUME NEW s \in SUBSET T
        PROVE  (IF s = {} THEN 0 ELSE f[Chosen(s)] + SumOver(f, s \ {Chosen(s)}))
                 = (IF s = {} THEN 0 ELSE f[Chosen(s)] + g[s \ {Chosen(s)}])
    <3> HIDE DEF g
    <3> QED BY <1>4
  <2> QED BY <2>1
<1>6. Sums(g, f, T)
  <2> HIDE DEF g
  <2> QED BY <1>5 DEF Sums
<1> QED BY <1>6

(* The sum of no element; of one chosen and the rest.                      *)
LEMMA SumUnfolds ==
  ASSUME NEW f, NEW S, IsFiniteSet(S)
  PROVE  SumOver(f, S) = IF S = {} THEN 0 ELSE f[Chosen(S)] + SumOver(f, S \ {Chosen(S)})
<1>1. PICK g : Sums(g, f, S)
  BY SumsExists
<1>2. S \in SUBSET S /\ S \ {Chosen(S)} \in SUBSET S
  OBVIOUS
<1>3. g[S] = IF S = {} THEN 0 ELSE f[Chosen(S)] + g[S \ {Chosen(S)}]
  BY <1>1, <1>2 DEF Sums
<1>4. g[S] = SumOver(f, S)
  BY <1>1, <1>2, SumOfSubset
<1>5. g[S \ {Chosen(S)}] = SumOver(f, S \ {Chosen(S)})
  <2> DEFINE v == S \ {Chosen(S)}
  <2>1. v \in SUBSET S
    OBVIOUS
  <2> HIDE DEF v
  <2>2. g[v] = SumOver(f, v)
    BY <1>1, <2>1, SumOfSubset
  <2> QED BY <2>2 DEF v
<1> QED BY <1>3, <1>4, <1>5

(* Natural numbers have a natural sum.                                     *)
THEOREM SumType ==
  ASSUME NEW f, NEW S, IsFiniteSet(S), \A x \in S : f[x] \in Nat
  PROVE  SumOver(f, S) \in Nat
<1> DEFINE bad == {T \in SUBSET S : SumOver(f, T) \notin Nat}
<1>1. SUFFICES ASSUME bad # {} PROVE FALSE
  OBVIOUS
<1>2. PICK T \in bad : \A t \in bad : t \subseteq T => t = T
  <2>1. bad \subseteq SUBSET S
    OBVIOUS
  <2> HIDE DEF bad
  <2> QED BY <1>1, <2>1, Smallest
<1>3. T \in SUBSET S /\ IsFiniteSet(T)
  BY FS_Subset
<1>4. SumOver(f, T) = IF T = {} THEN 0 ELSE f[Chosen(T)] + SumOver(f, T \ {Chosen(T)})
  BY <1>3, SumUnfolds
<1>5. CASE T = {}
  BY <1>4, <1>5
<1>6. CASE T # {}
  <2>1. Chosen(T) \in T
    BY <1>6, ChosenIn
  <2>2. T \ {Chosen(T)} \notin bad /\ T \ {Chosen(T)} \in SUBSET S
    BY <1>2, <2>1
  <2>3. f[Chosen(T)] \in Nat /\ SumOver(f, T \ {Chosen(T)}) \in Nat
    BY <1>3, <2>1, <2>2
  <2> QED BY <1>4, <1>6, <2>3
<1> QED BY <1>5, <1>6

(* The sum does not depend on which element is taken first.                *)
THEOREM SumRemove ==
  ASSUME NEW f, NEW S, IsFiniteSet(S), \A y \in S : f[y] \in Nat, NEW x \in S
  PROVE  SumOver(f, S) = f[x] + SumOver(f, S \ {x})
<1> DEFINE bad == {T \in SUBSET S : \E y \in T : SumOver(f, T) # f[y] + SumOver(f, T \ {y})}
<1>1. SUFFICES ASSUME bad # {} PROVE FALSE
  OBVIOUS
<1>2. PICK T \in bad : \A t \in bad : t \subseteq T => t = T
  <2>1. bad \subseteq SUBSET S
    OBVIOUS
  <2> HIDE DEF bad
  <2> QED BY <1>1, <2>1, Smallest
<1>3. PICK y \in T : SumOver(f, T) # f[y] + SumOver(f, T \ {y})
  OBVIOUS
<1> DEFINE c == Chosen(T)
           T1 == T \ {c}
           T2 == T \ {y}
           T3 == T \ {c, y}
<1>4. T \in SUBSET S /\ IsFiniteSet(T) /\ c \in T
  <2>1. T # {}
    OBVIOUS
  <2> QED BY <2>1, ChosenIn, FS_Subset
<1>5. SumOver(f, T) = f[c] + SumOver(f, T1)
  <2>1. T # {}
    OBVIOUS
  <2>2. SumOver(f, T) = IF T = {} THEN 0 ELSE f[Chosen(T)] + SumOver(f, T \ {Chosen(T)})
    BY <1>4, SumUnfolds
  <2> QED BY <2>1, <2>2
<1>6. y # c
  BY <1>3, <1>5
<1>7. /\ T1 \in SUBSET S /\ T1 \notin bad /\ T2 \in SUBSET S /\ T2 \notin bad
      /\ y \in T1 /\ c \in T2 /\ T1 \ {y} = T3 /\ T2 \ {c} = T3 /\ T3 \in SUBSET S
  BY <1>2, <1>4, <1>6
<1>8. SumOver(f, T1) = f[y] + SumOver(f, T1 \ {y})
  BY <1>7
<1>9. SumOver(f, T2) = f[c] + SumOver(f, T2 \ {c})
  BY <1>7
<1>10. SumOver(f, T3) \in Nat /\ f[c] \in Nat /\ f[y] \in Nat
  <2>1. IsFiniteSet(T3) /\ \A z \in T3 : f[z] \in Nat
    BY <1>7, FS_Subset
  <2> HIDE DEF T3
  <2>2. SumOver(f, T3) \in Nat
    BY <2>1, SumType
  <2> QED BY <1>4, <2>2
<1>11. SumOver(f, T) # f[y] + SumOver(f, T2)
  BY <1>3
<1> HIDE DEF T1, T2, T3, c, bad
<1> QED BY <1>5, <1>7, <1>8, <1>9, <1>10, <1>11

(* One element more adds its value.                                        *)
THEOREM SumAdd ==
  ASSUME NEW f, NEW S, IsFiniteSet(S), NEW x, x \notin S, \A y \in S \cup {x} : f[y] \in Nat
  PROVE  SumOver(f, S \cup {x}) = f[x] + SumOver(f, S)
<1> DEFINE T == S \cup {x}
<1>1. IsFiniteSet(T)
  BY FS_AddElement
<1>2. x \in T /\ T \ {x} = S /\ \A y \in T : f[y] \in Nat
  OBVIOUS
<1> HIDE DEF T
<1>3. SumOver(f, T) = f[x] + SumOver(f, T \ {x})
  BY <1>1, <1>2, SumRemove
<1> QED BY <1>2, <1>3 DEF T

(* No element is greater than the sum.                                     *)
THEOREM SumMember ==
  ASSUME NEW f, NEW S, IsFiniteSet(S), \A y \in S : f[y] \in Nat, NEW x \in S
  PROVE  f[x] <= SumOver(f, S)
<1>1. SumOver(f, S) = f[x] + SumOver(f, S \ {x})
  BY SumRemove
<1>2. SumOver(f, S \ {x}) \in Nat
  <2> DEFINE T == S \ {x}
  <2>1. IsFiniteSet(T) /\ \A y \in T : f[y] \in Nat
    BY FS_Subset
  <2> HIDE DEF T
  <2>2. SumOver(f, T) \in Nat
    BY <2>1, SumType
  <2> QED BY <2>2 DEF T
<1> QED BY <1>1, <1>2

(* The sum of nothing.                                                     *)
THEOREM SumEmpty == ASSUME NEW f PROVE SumOver(f, {}) = 0
<1>1. IsFiniteSet({})
  BY FS_EmptySet
<1> QED BY <1>1, SumUnfolds

(* Values that agree on the set have the same sum.                         *)
THEOREM SumSame ==
  ASSUME NEW f, NEW g, NEW S, IsFiniteSet(S), \A x \in S : f[x] = g[x]
  PROVE  SumOver(f, S) = SumOver(g, S)
<1> DEFINE bad == {T \in SUBSET S : SumOver(f, T) # SumOver(g, T)}
<1>1. SUFFICES ASSUME bad # {} PROVE FALSE
  OBVIOUS
<1>2. PICK T \in bad : \A t \in bad : t \subseteq T => t = T
  <2>1. bad \subseteq SUBSET S
    OBVIOUS
  <2> HIDE DEF bad
  <2> QED BY <1>1, <2>1, Smallest
<1>3. T \in SUBSET S /\ IsFiniteSet(T)
  BY FS_Subset
<1>4. SumOver(f, T) = IF T = {} THEN 0 ELSE f[Chosen(T)] + SumOver(f, T \ {Chosen(T)})
  BY <1>3, SumUnfolds
<1>5. SumOver(g, T) = IF T = {} THEN 0 ELSE g[Chosen(T)] + SumOver(g, T \ {Chosen(T)})
  BY <1>3, SumUnfolds
<1>6. T # {}
  BY <1>4, <1>5
<1>7. Chosen(T) \in T
  BY <1>6, ChosenIn
<1>8. T \ {Chosen(T)} \notin bad /\ T \ {Chosen(T)} \in SUBSET S
  BY <1>2, <1>7
<1>9. f[Chosen(T)] = g[Chosen(T)] /\ SumOver(f, T \ {Chosen(T)}) = SumOver(g, T \ {Chosen(T)})
  BY <1>3, <1>7, <1>8
<1> QED BY <1>4, <1>5, <1>9

(* One value changes: so does the sum, by as much.                         *)
THEOREM SumChange ==
  ASSUME NEW f, NEW g, NEW S, IsFiniteSet(S), NEW p \in S,
         \A x \in S : f[x] \in Nat /\ g[x] \in Nat, \A x \in S \ {p} : f[x] = g[x]
  PROVE  SumOver(g, S) + f[p] = SumOver(f, S) + g[p]
<1>1. SumOver(f, S) = f[p] + SumOver(f, S \ {p}) /\ SumOver(g, S) = g[p] + SumOver(g, S \ {p})
  BY SumRemove
<1>2. IsFiniteSet(S \ {p})
  BY FS_Subset
<1>3. SumOver(f, S \ {p}) = SumOver(g, S \ {p})
  BY <1>2, SumSame
<1>4. SumOver(f, S \ {p}) \in Nat
  BY <1>2, SumType
<1> QED BY <1>1, <1>3, <1>4
=============================================================================
