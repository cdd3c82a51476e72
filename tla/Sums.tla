---------------------------------- MODULE Sums ----------------------------------
(***************************************************************************)
(* Sums over finite sets, as SumFunctionOnSet computes them: one element   *)
(* after the other, in an order nobody knows. The lemmas say what does not *)
(* depend on the order. An induction is stated over a set of sets (those   *)
(* for which a claim holds), so that it can be cited.                      *)
(***************************************************************************)
EXTENDS FiniteSetTheorems, FiniteSetsExt, TLAPS

(* A claim that holds for a set whenever it holds for the set with any one *)
(* of its elements taken out holds for every finite set.                   *)
LEMMA SubsetInduction ==
  ASSUME NEW S, IsFiniteSet(S), NEW G,
         \A T \in SUBSET S : (\A x \in T : T \ {x} \in G) => T \in G
  PROVE  \A T \in SUBSET S : T \in G
<1> DEFINE R == StrictSubsetOrdering(S)
           Bad == {T \in SUBSET S : T \notin G}
<1>1. SUFFICES ASSUME Bad # {} PROVE FALSE
  OBVIOUS
<1>2. IsWellFoundedOn(R, SUBSET S)
  BY FS_StrictSubsetOrderingWellFounded, FS_FiniteSubsetsOfFinite, Zenon
<1>3. PICK T \in Bad : \A U \in Bad : <<U, T>> \notin R
  <2> HIDE DEF R, Bad
  <2>1. Bad \subseteq SUBSET S
    BY DEF Bad
  <2>2. QED
    BY <1>1, <1>2, <2>1, WFMin, Zenon
<1>4. PICK x \in T : T \ {x} \notin G
  OBVIOUS
<1>5. T \ {x} \in Bad
  BY <1>4
<1>6. <<T \ {x}, T>> \in R
  BY DEF StrictSubsetOrdering
<1>7. QED
  BY <1>3, <1>5, <1>6

LEMMA NatSetInduction ==
  ASSUME NEW G, 0 \in G, \A n \in Nat : n \in G => n + 1 \in G
  PROVE  \A n \in Nat : n \in G
<1> DEFINE R == OpToRel(<, Nat)
           Bad == {n \in Nat : n \notin G}
<1>1. SUFFICES ASSUME Bad # {} PROVE FALSE
  OBVIOUS
<1>2. PICK n \in Bad : \A k \in Bad : <<k, n>> \notin R
  <2> HIDE DEF R, Bad
  <2>1. Bad \subseteq Nat
    BY DEF Bad
  <2>2. IsWellFoundedOn(R, Nat)
    BY NatLessThanWellFounded DEF R
  <2>3. QED
    BY <1>1, <2>1, <2>2, WFMin, Zenon
<1>3. n - 1 \in Nat /\ n - 1 \notin G
  OBVIOUS
<1>4. <<n - 1, n>> \in R
  BY <1>3 DEF OpToRel
<1>5. QED
  BY <1>2, <1>3, <1>4
-----------------------------------------------------------------------------
(* The computation: the sum over every subset from that over a smaller one. *)
Pick(T) == CHOOSE x \in T : TRUE

WalkStep(g, f, T) == IF T = {} THEN 0 ELSE f[Pick(T)] + g[T \ {Pick(T)}]

IsWalk(g, f, S) == g = [T \in SUBSET S |-> WalkStep(g, f, T)]

LEMMA SumIsWalk ==
  ASSUME NEW f, NEW S
  PROVE  SumFunctionOnSet(f, S) = (CHOOSE g : IsWalk(g, f, S))[S]
BY DEF SumFunctionOnSet, FoldFunctionOnSet, MapThenFoldSet, IsWalk, WalkStep, Pick

LEMMA PickIsMember == ASSUME NEW T, T # {} PROVE Pick(T) \in T
BY DEF Pick

LEMMA WalkExists ==
  ASSUME NEW f, NEW S, IsFiniteSet(S)
  PROVE  \E g : IsWalk(g, f, S)
<1> DEFINE Upto(g, n) == /\ g = [T \in SUBSET S |-> g[T]]
                         /\ \A T \in SUBSET S : Cardinality(T) <= n => g[T] = WalkStep(g, f, T)
           G == {n \in Nat : \E g : Upto(g, n)}
<1>1. \A T \in SUBSET S : IsFiniteSet(T) /\ Cardinality(T) \in Nat
  BY FS_Subset, FS_CardinalityType
<1>2. 0 \in G
  <2> DEFINE g == [T \in SUBSET S |-> 0]
  <2>1. \A T \in SUBSET S : Cardinality(T) <= 0 => T = {}
    BY <1>1, FS_EmptySet
  <2>2. Upto(g, 0)
    BY <2>1 DEF WalkStep
  <2>3. QED
    BY <2>2
<1>3. ASSUME NEW n \in Nat, n \in G PROVE n + 1 \in G
  <2>1. PICK g : Upto(g, n)
    BY <1>3
  <2> DEFINE h == [T \in SUBSET S |-> WalkStep(g, f, T)]
  <2>2. ASSUME NEW T \in SUBSET S, Cardinality(T) <= n + 1
        PROVE  h[T] = WalkStep(h, f, T)
    <3>1. CASE T = {}
      BY <3>1 DEF WalkStep
    <3>2. CASE T # {}
      <4>1. Pick(T) \in T
        BY <3>2, PickIsMember
      <4>2. PICK U \in SUBSET S : U = T \ {Pick(T)}
        OBVIOUS
      <4>3. Cardinality(U) <= n
        BY <1>1, <2>2, <4>1, <4>2, FS_RemoveElement
      <4>4. g[U] = WalkStep(g, f, U)
        BY <2>1, <4>3
      <4>5. h[U] = g[U]
        BY <4>4
      <4>6. QED
        BY <3>2, <4>2, <4>5 DEF WalkStep
    <3>3. QED
      BY <3>1, <3>2
  <2>3. h = [T \in SUBSET S |-> h[T]]
    OBVIOUS
  <2>4. Upto(h, n + 1)
    <3> HIDE DEF h
    <3>1. QED
      BY <2>2, <2>3
  <2>5. \E k : Upto(k, n + 1)
    <3> HIDE DEF h, Upto
    <3>1. QED
      BY <2>4
  <2>6. n + 1 \in Nat
    OBVIOUS
  <2>7. QED
    <3> HIDE DEF h, Upto
    <3>1. QED
      BY <2>5, <2>6
<1>4. Cardinality(S) \in G
  <2> HIDE DEF G
  <2>1. \A n \in Nat : n \in G
    BY <1>2, <1>3, NatSetInduction
  <2>2. QED
    BY <1>1, <2>1
<1>5. PICK g : Upto(g, Cardinality(S))
  BY <1>4
<1>6. \A T \in SUBSET S : g[T] = WalkStep(g, f, T)
  BY <1>1, <1>5, FS_Subset
<1>7. IsWalk(g, f, S)
  BY <1>5, <1>6 DEF IsWalk
<1>8. QED
  BY <1>7

(* Two walks agree on the sets they share. *)
LEMMA WalksAgree ==
  ASSUME NEW f, NEW S, NEW U, U \subseteq S, IsFiniteSet(U),
         NEW g, NEW h, IsWalk(g, f, S), IsWalk(h, f, U)
  PROVE  g[U] = h[U]
<1> DEFINE G == {T \in SUBSET U : g[T] = h[T]}
<1>1. ASSUME NEW T \in SUBSET U, \A x \in T : T \ {x} \in G
      PROVE  T \in G
  <2>1. g[T] = WalkStep(g, f, T) /\ h[T] = WalkStep(h, f, T)
    BY DEF IsWalk
  <2>2. CASE T = {}
    BY <2>1, <2>2 DEF WalkStep
  <2>3. CASE T # {}
    <3>1. Pick(T) \in T
      BY <2>3, PickIsMember
    <3>2. g[T \ {Pick(T)}] = h[T \ {Pick(T)}]
      BY <1>1, <3>1
    <3>3. QED
      BY <2>1, <2>3, <3>2 DEF WalkStep
  <2>4. QED
    BY <2>2, <2>3
<1>2. QED
  <2> HIDE DEF G
  <2>1. \A T \in SUBSET U : (\A x \in T : T \ {x} \in G) => T \in G
    BY <1>1
  <2>2. \A T \in SUBSET U : T \in G
    BY <2>1, SubsetInduction, Zenon
  <2>3. QED
    BY <2>2 DEF G
-----------------------------------------------------------------------------
(* The laws of the sum. *)
LEMMA SumOfNothing == ASSUME NEW f PROVE SumFunctionOnSet(f, {}) = 0
<1>1. PICK g : IsWalk(g, f, {})
  BY WalkExists, FS_EmptySet
<1>2. IsWalk(CHOOSE h : IsWalk(h, f, {}), f, {})
  BY <1>1
<1>3. QED
  BY <1>2, SumIsWalk DEF IsWalk, WalkStep

LEMMA SumPicks ==
  ASSUME NEW f, NEW S, IsFiniteSet(S), S # {}
  PROVE  SumFunctionOnSet(f, S) = f[Pick(S)] + SumFunctionOnSet(f, S \ {Pick(S)})
<1> DEFINE U == S \ {Pick(S)}
           g == CHOOSE k : IsWalk(k, f, S)
           h == CHOOSE k : IsWalk(k, f, U)
<1>1. IsFiniteSet(U)
  BY FS_Subset
<1>2. IsWalk(g, f, S)
  BY WalkExists
<1>3. IsWalk(h, f, U)
  BY <1>1, WalkExists
<1>4. SumFunctionOnSet(f, S) = g[S] /\ SumFunctionOnSet(f, U) = h[U]
  BY SumIsWalk
<1>5. g[U] = h[U]
  <2> HIDE DEF g, h
  <2>1. U \subseteq S
    OBVIOUS
  <2> HIDE DEF U
  <2>2. QED
    BY <1>1, <1>2, <1>3, <2>1, WalksAgree
<1>6. g[S] = f[Pick(S)] + g[U]
  <2> HIDE DEF g
  <2>1. QED
    BY <1>2 DEF IsWalk, WalkStep
<1>7. QED
  BY <1>4, <1>5, <1>6

LEMMA SumType ==
  ASSUME NEW f, NEW S, IsFiniteSet(S), \A x \in S : f[x] \in Int
  PROVE  SumFunctionOnSet(f, S) \in Int
<1> DEFINE G == {T \in SUBSET S : SumFunctionOnSet(f, T) \in Int}
<1>1. ASSUME NEW T \in SUBSET S, \A x \in T : T \ {x} \in G
      PROVE  T \in G
  <2>1. IsFiniteSet(T)
    BY FS_Subset
  <2>2. CASE T = {}
    BY <2>2, SumOfNothing
  <2>3. CASE T # {}
    <3>1. Pick(T) \in T
      BY <2>3, PickIsMember
    <3>2. SumFunctionOnSet(f, T \ {Pick(T)}) \in Int /\ f[Pick(T)] \in Int
      BY <1>1, <3>1
    <3>3. QED
      BY <2>1, <2>3, <3>2, SumPicks
  <2>4. QED
    BY <2>2, <2>3
<1>2. QED
  <2> HIDE DEF G
  <2>1. \A T \in SUBSET S : (\A x \in T : T \ {x} \in G) => T \in G
    BY <1>1
  <2>2. \A T \in SUBSET S : T \in G
    BY <2>1, SubsetInduction, Zenon
  <2>3. QED
    BY <2>2 DEF G

(* Any element may be counted first. *)
LEMMA SumTakesOut ==
  ASSUME NEW f, NEW S, IsFiniteSet(S), \A x \in S : f[x] \in Int, NEW y \in S
  PROVE  SumFunctionOnSet(f, S) = f[y] + SumFunctionOnSet(f, S \ {y})
<1> DEFINE G == {T \in SUBSET S : \A x \in T :
                   SumFunctionOnSet(f, T) = f[x] + SumFunctionOnSet(f, T \ {x})}
<1>1. ASSUME NEW T \in SUBSET S, \A x \in T : T \ {x} \in G
      PROVE  T \in G
  <2>1. SUFFICES ASSUME NEW x \in T
                 PROVE  SumFunctionOnSet(f, T) = f[x] + SumFunctionOnSet(f, T \ {x})
    OBVIOUS
  <2> DEFINE p == Pick(T)
  <2>2. p \in T
    BY PickIsMember
  <2>3. SumFunctionOnSet(f, T) = f[p] + SumFunctionOnSet(f, T \ {p})
    BY SumPicks, FS_Subset
  <2>4. CASE x = p
    BY <2>3, <2>4
  <2>5. CASE x # p
    <3> HIDE DEF p
    <3>1. T \ {p} \in G /\ T \ {x} \in G
      BY <1>1, <2>2
    <3>2. SumFunctionOnSet(f, T \ {p}) = f[x] + SumFunctionOnSet(f, (T \ {p}) \ {x})
      BY <2>5, <3>1
    <3>3. SumFunctionOnSet(f, T \ {x}) = f[p] + SumFunctionOnSet(f, (T \ {x}) \ {p})
      BY <2>2, <2>5, <3>1
    <3>4. (T \ {p}) \ {x} = (T \ {x}) \ {p}
      OBVIOUS
    <3>5. PICK U \in SUBSET S : U = (T \ {p}) \ {x}
      OBVIOUS
    <3>6. SumFunctionOnSet(f, U) \in Int
      BY SumType, FS_Subset
    <3>7. f[x] \in Int /\ f[p] \in Int
      BY <2>2
    <3>8. SumFunctionOnSet(f, T \ {p}) = f[x] + SumFunctionOnSet(f, U)
      BY <3>2, <3>5, Zenon
    <3>9. SumFunctionOnSet(f, T \ {x}) = f[p] + SumFunctionOnSet(f, U)
      BY <3>3, <3>4, <3>5, Zenon
    <3>10. QED
      BY <2>3, <3>6, <3>7, <3>8, <3>9
  <2>6. QED
    BY <2>4, <2>5
<1>2. QED
  <2> HIDE DEF G
  <2>1. \A T \in SUBSET S : (\A x \in T : T \ {x} \in G) => T \in G
    BY <1>1
  <2>2. \A T \in SUBSET S : T \in G
    BY <2>1, SubsetInduction, Zenon
  <2>3. QED
    BY <2>2 DEF G

(* Sums of sums, element by element. *)
LEMMA SumAdds ==
  ASSUME NEW f, NEW g, NEW h, NEW S, IsFiniteSet(S),
         \A x \in S : f[x] \in Int /\ g[x] \in Int /\ h[x] = f[x] + g[x]
  PROVE  SumFunctionOnSet(h, S) = SumFunctionOnSet(f, S) + SumFunctionOnSet(g, S)
<1> DEFINE G == {T \in SUBSET S : SumFunctionOnSet(h, T) =
                                    SumFunctionOnSet(f, T) + SumFunctionOnSet(g, T)}
<1>1. ASSUME NEW T \in SUBSET S, \A x \in T : T \ {x} \in G
      PROVE  T \in G
  <2>1. CASE T = {}
    BY <2>1, SumOfNothing
  <2>2. CASE T # {}
    <3>1. PICK x \in T : TRUE
      BY <2>2
    <3>2. PICK U \in SUBSET S : U = T \ {x}
      OBVIOUS
    <3>3. IsFiniteSet(T) /\ IsFiniteSet(U)
      BY FS_Subset
    <3>4. /\ SumFunctionOnSet(f, U) \in Int
          /\ SumFunctionOnSet(g, U) \in Int
      BY <3>3, SumType
    <3>5. SumFunctionOnSet(h, U) = SumFunctionOnSet(f, U) + SumFunctionOnSet(g, U)
      BY <1>1, <3>2
    <3>6. \A y \in T : f[y] \in Int /\ g[y] \in Int /\ h[y] \in Int
      OBVIOUS
    <3>7. /\ SumFunctionOnSet(f, T) = f[x] + SumFunctionOnSet(f, U)
          /\ SumFunctionOnSet(g, T) = g[x] + SumFunctionOnSet(g, U)
          /\ SumFunctionOnSet(h, T) = h[x] + SumFunctionOnSet(h, U)
      BY <3>2, <3>3, <3>6, SumTakesOut
    <3>8. h[x] = f[x] + g[x] /\ f[x] \in Int /\ g[x] \in Int
      OBVIOUS
    <3>9. QED
      BY <3>4, <3>5, <3>7, <3>8
  <2>3. QED
    BY <2>1, <2>2
<1>2. QED
  <2> HIDE DEF G
  <2>1. \A T \in SUBSET S : (\A x \in T : T \ {x} \in G) => T \in G
    BY <1>1
  <2>2. \A T \in SUBSET S : T \in G
    BY <2>1, SubsetInduction, Zenon
  <2>3. QED
    BY <2>2 DEF G

LEMMA SumAddsThree ==
  ASSUME NEW f, NEW g, NEW k, NEW h, NEW S, IsFiniteSet(S),
         \A x \in S : f[x] \in Int /\ g[x] \in Int /\ k[x] \in Int
                      /\ h[x] = f[x] + g[x] + k[x]
  PROVE  SumFunctionOnSet(h, S) =
           SumFunctionOnSet(f, S) + SumFunctionOnSet(g, S) + SumFunctionOnSet(k, S)
<1> DEFINE m == [x \in S |-> f[x] + g[x]]
<1>1. \A x \in S : m[x] \in Int /\ m[x] = f[x] + g[x] /\ h[x] = m[x] + k[x]
  OBVIOUS
<1> HIDE DEF m
<1>2. SumFunctionOnSet(m, S) = SumFunctionOnSet(f, S) + SumFunctionOnSet(g, S)
  BY <1>1, SumAdds
<1>3. SumFunctionOnSet(h, S) = SumFunctionOnSet(m, S) + SumFunctionOnSet(k, S)
  BY <1>1, SumAdds
<1>4. QED
  BY <1>2, <1>3

(* Where the summands are zero nothing is added: the sum over a set is the *)
(* sum over the part of it where they are not, whatever function agrees    *)
(* with the summands there. *)
LEMMA SumOnSupport ==
  ASSUME NEW f, NEW g, NEW S, IsFiniteSet(S), NEW T, T \subseteq S,
         \A x \in T : f[x] \in Int /\ g[x] = f[x],
         \A x \in S \ T : f[x] = 0
  PROVE  SumFunctionOnSet(f, S) = SumFunctionOnSet(g, T)
<1> DEFINE G == {U \in SUBSET S : SumFunctionOnSet(f, U) = SumFunctionOnSet(g, U \cap T)}
<1>1. ASSUME NEW U \in SUBSET S, \A x \in U : U \ {x} \in G
      PROVE  U \in G
  <2>1. CASE U = {}
    <3>1. U \cap T = {}
      BY <2>1
    <3>2. QED
      BY <2>1, <3>1, SumOfNothing
  <2>2. CASE U # {}
    <3>1. PICK x \in U : TRUE
      BY <2>2
    <3>2. PICK V \in SUBSET S : V = U \ {x}
      OBVIOUS
    <3>3. IsFiniteSet(U) /\ IsFiniteSet(U \cap T) /\ IsFiniteSet(V \cap T)
      BY FS_Subset
    <3>4. SumFunctionOnSet(f, V) = SumFunctionOnSet(g, V \cap T)
      BY <1>1, <3>2
    <3>5. SumFunctionOnSet(f, U) = f[x] + SumFunctionOnSet(f, V)
      <4>1. \A y \in U : f[y] \in Int
        OBVIOUS
      <4>2. QED
        BY <3>2, <3>3, <4>1, SumTakesOut
    <3>6. \A y \in U \cap T : g[y] \in Int
      OBVIOUS
    <3>7. SumFunctionOnSet(g, V \cap T) \in Int
      BY <3>2, <3>3, <3>6, SumType
    <3>8. CASE x \in T
      <4>1. (U \cap T) \ {x} = V \cap T
        BY <3>2
      <4>2. SumFunctionOnSet(g, U \cap T) = g[x] + SumFunctionOnSet(g, V \cap T)
        BY <3>3, <3>6, <3>8, <4>1, SumTakesOut
      <4>3. f[x] = g[x]
        BY <3>8
      <4>4. QED
        BY <3>4, <3>5, <4>2, <4>3
    <3>9. CASE x \notin T
      <4>1. U \cap T = V \cap T
        BY <3>2, <3>9
      <4>2. f[x] = 0
        BY <3>9
      <4>3. SumFunctionOnSet(f, V) = SumFunctionOnSet(g, U \cap T)
        BY <3>4, <4>1, Zenon
      <4>4. SumFunctionOnSet(f, V) \in Int
        BY <3>4, <3>7, Zenon
      <4>5. QED
        BY <3>5, <4>2, <4>3, <4>4
    <3>10. QED
      BY <3>8, <3>9
  <2>3. QED
    BY <2>1, <2>2
<1>2. QED
  <2> HIDE DEF G
  <2>1. \A U \in SUBSET S : (\A x \in U : U \ {x} \in G) => U \in G
    BY <1>1
  <2>2. \A U \in SUBSET S : U \in G
    BY <2>1, SubsetInduction, Zenon
  <2>3. S \cap T = T
    OBVIOUS
  <2>4. QED
    BY <2>2, <2>3 DEF G

(* Equal summands have equal sums. *)
LEMMA SumCongruence ==
  ASSUME NEW f, NEW g, NEW S, IsFiniteSet(S),
         \A x \in S : f[x] \in Int /\ g[x] = f[x]
  PROVE  SumFunctionOnSet(f, S) = SumFunctionOnSet(g, S)
BY SumOnSupport

(* A sum of zeros. *)
LEMMA SumOfZeros ==
  ASSUME NEW f, NEW S, IsFiniteSet(S), \A x \in S : f[x] = 0
  PROVE  SumFunctionOnSet(f, S) = 0
<1>1. SumFunctionOnSet(f, S) = SumFunctionOnSet(f, {})
  BY SumOnSupport
<1>2. QED
  BY <1>1, SumOfNothing

(* A single summand that is not zero.                                      *)
LEMMA SumAtPoint ==
  ASSUME NEW f, NEW S, IsFiniteSet(S), NEW y, NEW v \in Int,
         \A x \in S : f[x] = IF x = y THEN v ELSE 0
  PROVE  SumFunctionOnSet(f, S) = IF y \in S THEN v ELSE 0
<1>1. CASE y \in S
  <2>1. PICK U \in SUBSET S : U = S \ {y}
    OBVIOUS
  <2>2. IsFiniteSet(U) /\ \A x \in U : f[x] = 0
    BY <2>1, FS_Subset
  <2>3. SumFunctionOnSet(f, U) = 0
    BY <2>2, SumOfZeros
  <2>4. \A x \in S : f[x] \in Int
    OBVIOUS
  <2>5. SumFunctionOnSet(f, S) = f[y] + SumFunctionOnSet(f, U)
    BY <1>1, <2>1, <2>4, SumTakesOut
  <2>6. QED
    BY <1>1, <2>3, <2>5
<1>2. CASE y \notin S
  BY <1>2, SumOfZeros
<1>3. QED
  BY <1>1, <1>2

(* One summand more. *)
LEMMA SumWithOneMore ==
  ASSUME NEW f, NEW g, NEW S, IsFiniteSet(S), NEW y, y \notin S, f[y] \in Int,
         \A x \in S : f[x] \in Int /\ g[x] = f[x]
  PROVE  SumFunctionOnSet(f, S \cup {y}) = SumFunctionOnSet(g, S) + f[y]
<1>1. IsFiniteSet(S \cup {y}) /\ (S \cup {y}) \ {y} = S
  BY FS_AddElement
<1>2. SumFunctionOnSet(f, S \cup {y}) = f[y] + SumFunctionOnSet(f, S)
  BY <1>1, SumTakesOut
<1>3. SumFunctionOnSet(f, S) \in Int /\ SumFunctionOnSet(f, S) = SumFunctionOnSet(g, S)
  BY SumType, SumCongruence
<1>4. QED
  BY <1>2, <1>3

(* One summand changed. *)
LEMMA SumWithOneChanged ==
  ASSUME NEW f, NEW g, NEW S, IsFiniteSet(S), NEW y \in S, g[y] \in Int,
         \A x \in S : f[x] \in Int, \A x \in S \ {y} : g[x] = f[x]
  PROVE  SumFunctionOnSet(g, S) = SumFunctionOnSet(f, S) + g[y] - f[y]
<1>1. \A x \in S : g[x] \in Int
  OBVIOUS
<1>2. PICK U \in SUBSET S : U = S \ {y}
  OBVIOUS
<1>3. /\ SumFunctionOnSet(f, S) = f[y] + SumFunctionOnSet(f, U)
      /\ SumFunctionOnSet(g, S) = g[y] + SumFunctionOnSet(g, U)
  BY <1>1, <1>2, SumTakesOut
<1>4. IsFiniteSet(U)
  BY FS_Subset
<1>5. SumFunctionOnSet(f, U) \in Int /\ SumFunctionOnSet(f, U) = SumFunctionOnSet(g, U)
  BY <1>2, <1>4, SumType, SumCongruence
<1>6. QED
  BY <1>3, <1>5

(* One summand set: added if it was not there, else exchanged. *)
LEMMA SumWithOneSet ==
  ASSUME NEW f, NEW g, NEW S, IsFiniteSet(S), NEW y, g[y] \in Int,
         \A x \in S : f[x] \in Int, \A x \in S \ {y} : g[x] = f[x]
  PROVE  SumFunctionOnSet(g, S \cup {y}) =
           SumFunctionOnSet(f, S) + g[y] - (IF y \in S THEN f[y] ELSE 0)
<1>1. SumFunctionOnSet(f, S) \in Int
  BY SumType
<1>2. CASE y \in S
  <2>1. S \cup {y} = S
    BY <1>2
  <2>2. SumFunctionOnSet(g, S) = SumFunctionOnSet(f, S) + g[y] - f[y]
    BY <1>2, SumWithOneChanged
  <2>3. QED
    BY <1>2, <2>1, <2>2
<1>3. CASE y \notin S
  <2>1. \A x \in S : g[x] \in Int /\ f[x] = g[x]
    BY <1>3
  <2>2. SumFunctionOnSet(g, S \cup {y}) = SumFunctionOnSet(f, S) + g[y]
    BY <1>3, <2>1, SumWithOneMore
  <2>3. QED
    BY <1>1, <1>3, <2>2
<1>4. QED
  BY <1>2, <1>3

(* The rows of a table add up to what its columns add up to. *)
LEMMA SumOfRows ==
  ASSUME NEW A, NEW B, IsFiniteSet(A), IsFiniteSet(B),
         NEW m, \A a \in A, b \in B : m[a][b] \in Int
  PROVE  SumFunctionOnSet([a \in A |-> SumFunctionOnSet(m[a], B)], A) =
         SumFunctionOnSet([b \in B |-> SumFunctionOnSet([a \in A |-> m[a][b]], A)], B)
<1> DEFINE row == [a \in A |-> SumFunctionOnSet(m[a], B)]
           col(T) == [b \in B |-> SumFunctionOnSet([a \in A |-> m[a][b]], T)]
           G == {T \in SUBSET A : SumFunctionOnSet(row, T) = SumFunctionOnSet(col(T), B)}
<1>0. \A a \in A : row[a] \in Int
  BY SumType
<1>1. ASSUME NEW T \in SUBSET A, \A x \in T : T \ {x} \in G
      PROVE  T \in G
  <2>1. CASE T = {}
    <3>1. SumFunctionOnSet(col(T), B) = 0
      <4>1. \A b \in B : col(T)[b] = 0
        BY <2>1, SumOfNothing
      <4> HIDE DEF col
      <4>2. QED
        BY <4>1, SumOfZeros
    <3>2. QED
      BY <2>1, <3>1, SumOfNothing
  <2>2. CASE T # {}
    <3>1. PICK x \in T : TRUE
      BY <2>2
    <3>2. PICK U \in SUBSET A : U = T \ {x}
      OBVIOUS
    <3>3. IsFiniteSet(T) /\ IsFiniteSet(U)
      BY FS_Subset
    <3>4. SumFunctionOnSet(row, T) = SumFunctionOnSet(m[x], B) + SumFunctionOnSet(row, U)
      <4>1. \A a \in T : row[a] \in Int
        BY <1>0
      <4>2. row[x] = SumFunctionOnSet(m[x], B)
        OBVIOUS
      <4> HIDE DEF row
      <4>3. QED
        BY <3>2, <3>3, <4>1, <4>2, SumTakesOut
    <3>5. ASSUME NEW b \in B
          PROVE  /\ col(U)[b] \in Int
                 /\ col(T)[b] = m[x][b] + col(U)[b]
      <4> DEFINE c == [a \in A |-> m[a][b]]
      <4>1. \A a \in A : c[a] \in Int
        OBVIOUS
      <4>2. c[x] = m[x][b]
        OBVIOUS
      <4>3. col(U)[b] = SumFunctionOnSet(c, U) /\ col(T)[b] = SumFunctionOnSet(c, T)
        OBVIOUS
      <4> HIDE DEF c
      <4>4. SumFunctionOnSet(c, U) \in Int
        BY <3>3, <4>1, SumType
      <4>5. SumFunctionOnSet(c, T) = c[x] + SumFunctionOnSet(c, U)
        BY <3>2, <3>3, <4>1, SumTakesOut
      <4>6. QED
        BY <4>2, <4>3, <4>4, <4>5
    <3>6. SumFunctionOnSet(col(T), B) = SumFunctionOnSet(m[x], B) + SumFunctionOnSet(col(U), B)
      <4> HIDE DEF col
      <4>1. PICK f, g, h : f = m[x] /\ g = col(U) /\ h = col(T)
        OBVIOUS
      <4>2. \A b \in B : f[b] \in Int /\ g[b] \in Int /\ h[b] = f[b] + g[b]
        BY <3>5, <4>1
      <4>3. QED
        BY <4>1, <4>2, SumAdds
    <3>7. SumFunctionOnSet(row, U) = SumFunctionOnSet(col(U), B)
      BY <1>1, <3>2
    <3>8. QED
      BY <3>4, <3>6, <3>7
  <2>3. QED
    BY <2>1, <2>2
<1>2. QED
  <2> HIDE DEF G
  <2>1. \A T \in SUBSET A : (\A x \in T : T \ {x} \in G) => T \in G
    BY <1>1
  <2>2. \A T \in SUBSET A : T \in G
    BY <2>1, SubsetInduction, Zenon
  <2>3. QED
    BY <2>2 DEF G
=============================================================================
