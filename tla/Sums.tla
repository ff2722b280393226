-------------------------------- MODULE Sums --------------------------------
(***************************************************************************)
(* Sums over finite sets, as the models write them: SumFunctionOnSet of    *)
(* the community modules.  The recursion behind it is shown to have a      *)
(* solution, by induction on finite sets in the form "a set of finite sets *)
(* that is not empty has a minimal member" (WFMin), which needs no         *)
(* operator parameter.                                                     *)
(***************************************************************************)
EXTENDS Integers, FiniteSets, Functions, FiniteSetTheorems, TLAPS

Pick(s) == CHOOSE x \in s : TRUE

(* The recursion that SumFunctionOnSet(f, D) solves. *)
Recursion(f, D, g) ==
    g = [s \in SUBSET D |-> IF s = {} THEN 0 ELSE f[Pick(s)] + g[s \ {Pick(s)}]]

Solution(f, D) == CHOOSE g : Recursion(f, D, g)

(* SumFunctionOnSet, in the words of this module. *)
LEMMA SumIsSolution ==
    ASSUME NEW f, NEW D
    PROVE  SumFunctionOnSet(f, D) = Solution(f, D)[D]
BY DEF SumFunctionOnSet, FoldFunctionOnSet, MapThenFoldSet, Solution, Recursion, Pick

(* Induction: a nonempty set of subsets of a finite set has a minimal one. *)
LEMMA MinimalSubset ==
    ASSUME NEW D, IsFiniteSet(D), NEW B, B \subseteq SUBSET D, B # {}
    PROVE  \E t \in B : \A u \in B : ~(u \subseteq t /\ u # t)
<1>1. B \subseteq FiniteSubsetsOf(D)
  BY FS_FiniteSubsetsOfFinite
<1>2. IsWellFoundedOn(StrictSubsetOrdering(D), FiniteSubsetsOf(D))
  BY FS_StrictSubsetOrderingWellFounded
<1>3. \E t \in B : \A u \in B : ~(<<u, t>> \in StrictSubsetOrdering(D))
  BY <1>1, <1>2, WFMin
<1> QED BY <1>3 DEF StrictSubsetOrdering

(* Two solutions agree where both are defined. *)
LEMMA SolutionsAgree ==
    ASSUME NEW f, NEW D, NEW E, NEW g, NEW h, NEW s,
           IsFiniteSet(s), s \subseteq D, s \subseteq E,
           Recursion(f, D, g), Recursion(f, E, h)
    PROVE  g[s] = h[s]
<1> DEFINE B == {u \in SUBSET s : g[u] # h[u]}
<1> SUFFICES ASSUME B # {} PROVE FALSE
  OBVIOUS
<1>1. PICK t \in B : \A u \in B : ~(u \subseteq t /\ u # t)
  <2>1. B \subseteq SUBSET s
    OBVIOUS
  <2> HIDE DEF B
  <2> QED BY <2>1, MinimalSubset
<1>2. t # {}
  BY <1>1 DEF Recursion
<1>3. Pick(t) \in t
  BY <1>2 DEF Pick
<1>4. g[t \ {Pick(t)}] = h[t \ {Pick(t)}]
  BY <1>1, <1>3
<1>5. g[t] = f[Pick(t)] + g[t \ {Pick(t)}] /\ h[t] = f[Pick(t)] + h[t \ {Pick(t)}]
  BY <1>1, <1>2 DEF Recursion
<1> QED BY <1>1, <1>4, <1>5

(* The recursion has a solution on every finite set. *)
LEMMA SolutionExists ==
    ASSUME NEW f, NEW D, IsFiniteSet(D)
    PROVE  Recursion(f, D, Solution(f, D))
<1> DEFINE G(u) == Solution(f, u)
           B == {u \in SUBSET D : ~ \E g : Recursion(f, u, g)}
<1>0. ASSUME NEW u, \E g : Recursion(f, u, g) PROVE Recursion(f, u, G(u))
  BY <1>0, Zenon DEF Solution
<1> SUFFICES ASSUME B # {} PROVE FALSE
  BY <1>0
<1>1. PICK t \in B : \A u \in B : ~(u \subseteq t /\ u # t)
  <2>1. B \subseteq SUBSET D
    OBVIOUS
  <2> HIDE DEF B
  <2> QED BY <2>1, MinimalSubset
<1>2. \A u \in SUBSET t : u # t => Recursion(f, u, G(u))
  BY <1>0, <1>1
<1> DEFINE value(s) == IF s = t THEN IF s = {} THEN 0
                                     ELSE f[Pick(s)] + G(s \ {Pick(s)})[s \ {Pick(s)}]
                       ELSE G(s)[s]
           glued == [s \in SUBSET t |-> value(s)]
<1>3. ASSUME NEW s \in SUBSET t
      PROVE  value(s) = IF s = {} THEN 0 ELSE f[Pick(s)] + glued[s \ {Pick(s)}]
  <2> HIDE DEF G
  <2>1. s # {} => Pick(s) \in s
    BY DEF Pick
  <2>2. s # {} => glued[s \ {Pick(s)}] = G(s \ {Pick(s)})[s \ {Pick(s)}]
    BY <2>1
  <2>3. CASE s = t
    BY <2>2, <2>3
  <2>4. CASE s # t
    <3>1. Recursion(f, s, G(s))
      BY <1>2, <2>4
    <3>2. G(s)[s] = IF s = {} THEN 0 ELSE f[Pick(s)] + G(s)[s \ {Pick(s)}]
      BY <3>1 DEF Recursion
    <3>3. s # {} => G(s)[s \ {Pick(s)}] = G(s \ {Pick(s)})[s \ {Pick(s)}]
      <4> SUFFICES ASSUME s # {} PROVE G(s)[s \ {Pick(s)}] = G(s \ {Pick(s)})[s \ {Pick(s)}]
        OBVIOUS
      <4> DEFINE r == s \ {Pick(s)}
      <4>1. r \subseteq s /\ r \subseteq t /\ r # t /\ r \in SUBSET D
        BY <2>1
      <4>2. Recursion(f, r, G(r)) /\ IsFiniteSet(r)
        BY <1>2, <4>1, FS_Subset
      <4> QED BY <3>1, <4>1, <4>2, SolutionsAgree
    <3> QED BY <2>2, <2>4, <3>2, <3>3
  <2> QED BY <2>3, <2>4
<1> HIDE DEF value, G
<1>4. Recursion(f, t, glued)
  BY <1>3 DEF Recursion
<1> QED BY <1>1, <1>4

-----------------------------------------------------------------------------
(* The sum over the empty set is zero. *)
THEOREM SumEmpty ==
    ASSUME NEW f
    PROVE  SumFunctionOnSet(f, {}) = 0
<1>1. Recursion(f, {}, Solution(f, {}))
  BY SolutionExists, FS_EmptySet
<1> QED BY <1>1, SumIsSolution DEF Recursion

(* One step of the recursion. *)
LEMMA SumStep ==
    ASSUME NEW f, NEW S, IsFiniteSet(S), S # {}
    PROVE  /\ Pick(S) \in S
           /\ SumFunctionOnSet(f, S) = f[Pick(S)] + SumFunctionOnSet(f, S \ {Pick(S)})
<1> DEFINE r == S \ {Pick(S)}
<1>1. Pick(S) \in S
  BY DEF Pick
<1>2. IsFiniteSet(r) /\ r \subseteq S
  BY FS_Subset
<1>3. Recursion(f, S, Solution(f, S)) /\ Recursion(f, r, Solution(f, r))
  BY <1>2, SolutionExists
<1>4. Solution(f, S)[S] = f[Pick(S)] + Solution(f, S)[r]
  BY <1>3 DEF Recursion
<1>5. Solution(f, S)[r] = Solution(f, r)[r]
  BY <1>2, <1>3, SolutionsAgree
<1> QED BY <1>1, <1>4, <1>5, SumIsSolution

(* A sum of integers is an integer, a sum of naturals a natural. *)
THEOREM SumType ==
    ASSUME NEW f, NEW S, IsFiniteSet(S), \A x \in S : f[x] \in Int
    PROVE  /\ SumFunctionOnSet(f, S) \in Int
           /\ (\A x \in S : f[x] \in Nat) => SumFunctionOnSet(f, S) \in Nat
<1> DEFINE P(u) == /\ SumFunctionOnSet(f, u) \in Int
                   /\ (\A x \in S : f[x] \in Nat) => SumFunctionOnSet(f, u) \in Nat
           B == {u \in SUBSET S : ~P(u)}
<1> SUFFICES ASSUME B # {} PROVE FALSE
  OBVIOUS
<1>1. PICK t \in B : \A u \in B : ~(u \subseteq t /\ u # t)
  <2>1. B \subseteq SUBSET S
    OBVIOUS
  <2> HIDE DEF B
  <2> QED BY <2>1, MinimalSubset
<1>2. t # {}
  BY <1>1, SumEmpty
<1>3. IsFiniteSet(t)
  BY FS_Subset
<1>4. /\ Pick(t) \in t
      /\ SumFunctionOnSet(f, t) = f[Pick(t)] + SumFunctionOnSet(f, t \ {Pick(t)})
  BY <1>2, <1>3, SumStep
<1>5. P(t \ {Pick(t)})
  BY <1>1, <1>4
<1>6. f[Pick(t)] \in Int
  BY <1>4
<1> QED BY <1>1, <1>4, <1>5, <1>6

(* Any member of the set may be taken out first: the order in which the    *)
(* fold picks them does not matter.                                        *)
THEOREM SumRemove ==
    ASSUME NEW f, NEW S, IsFiniteSet(S), \A x \in S : f[x] \in Int, NEW e \in S
    PROVE  SumFunctionOnSet(f, S) = f[e] + SumFunctionOnSet(f, S \ {e})
<1> DEFINE P(u) == \A x \in u : SumFunctionOnSet(f, u) = f[x] + SumFunctionOnSet(f, u \ {x})
           B == {u \in SUBSET S : ~P(u)}
<1> SUFFICES ASSUME B # {} PROVE FALSE
  OBVIOUS
<1>1. PICK t \in B : \A u \in B : ~(u \subseteq t /\ u # t)
  <2>1. B \subseteq SUBSET S
    OBVIOUS
  <2> HIDE DEF B
  <2> QED BY <2>1, MinimalSubset
<1>2. PICK x \in t : SumFunctionOnSet(f, t) # f[x] + SumFunctionOnSet(f, t \ {x})
  BY <1>1
<1> DEFINE p == Pick(t)
<1>3. /\ p \in t
      /\ SumFunctionOnSet(f, t) = f[p] + SumFunctionOnSet(f, t \ {p})
  BY <1>2, FS_Subset, SumStep
<1> HIDE DEF p
<1>4. x # p
  BY <1>2, <1>3
<1>5. P(t \ {p}) /\ P(t \ {x})
  BY <1>1, <1>2, <1>3
<1>6. SumFunctionOnSet(f, t \ {p}) = f[x] + SumFunctionOnSet(f, (t \ {p}) \ {x})
  BY <1>4, <1>5
<1>7. SumFunctionOnSet(f, t \ {x}) = f[p] + SumFunctionOnSet(f, (t \ {x}) \ {p})
  BY <1>3, <1>4, <1>5
<1>8. (t \ {p}) \ {x} = (t \ {x}) \ {p}
  OBVIOUS
<1>9. SumFunctionOnSet(f, (t \ {x}) \ {p}) \in Int /\ f[x] \in Int /\ f[p] \in Int
  BY <1>3, FS_Subset, SumType
<1>10. SumFunctionOnSet(f, (t \ {p}) \ {x}) = SumFunctionOnSet(f, (t \ {x}) \ {p})
  BY <1>8
<1> HIDE DEF P, B
<1> QED BY <1>2, <1>3, <1>6, <1>7, <1>9, <1>10

(* Adding an element. *)
THEOREM SumAdd ==
    ASSUME NEW f, NEW S, IsFiniteSet(S), \A x \in S : f[x] \in Int,
           NEW e, e \notin S, f[e] \in Int
    PROVE  SumFunctionOnSet(f, S \cup {e}) = SumFunctionOnSet(f, S) + f[e]
<1>1. IsFiniteSet(S \cup {e})
  BY FS_AddElement
<1>2. SumFunctionOnSet(f, S \cup {e}) = f[e] + SumFunctionOnSet(f, (S \cup {e}) \ {e})
  BY <1>1, SumRemove
<1>3. (S \cup {e}) \ {e} = S
  OBVIOUS
<1> QED BY <1>2, <1>3, SumType

(* Only the values on the set count. *)
THEOREM SumSame ==
    ASSUME NEW f, NEW g, NEW S, IsFiniteSet(S), \A x \in S : f[x] = g[x]
    PROVE  SumFunctionOnSet(f, S) = SumFunctionOnSet(g, S)
<1> DEFINE B == {u \in SUBSET S : SumFunctionOnSet(f, u) # SumFunctionOnSet(g, u)}
<1> SUFFICES ASSUME B # {} PROVE FALSE
  OBVIOUS
<1>1. PICK t \in B : \A u \in B : ~(u \subseteq t /\ u # t)
  <2>1. B \subseteq SUBSET S
    OBVIOUS
  <2> HIDE DEF B
  <2> QED BY <2>1, MinimalSubset
<1>2. t # {}
  BY <1>1, SumEmpty
<1>3. IsFiniteSet(t)
  BY FS_Subset
<1>4. /\ Pick(t) \in t
      /\ SumFunctionOnSet(f, t) = f[Pick(t)] + SumFunctionOnSet(f, t \ {Pick(t)})
      /\ SumFunctionOnSet(g, t) = g[Pick(t)] + SumFunctionOnSet(g, t \ {Pick(t)})
  BY <1>2, <1>3, SumStep
<1>5. SumFunctionOnSet(f, t \ {Pick(t)}) = SumFunctionOnSet(g, t \ {Pick(t)})
  BY <1>1, <1>4
<1> QED BY <1>1, <1>4, <1>5

(* A sum over two disjoint sets. *)
THEOREM SumUnion ==
    ASSUME NEW f, NEW S, NEW T, IsFiniteSet(S), IsFiniteSet(T), S \cap T = {},
           \A x \in S \cup T : f[x] \in Int
    PROVE  SumFunctionOnSet(f, S \cup T) = SumFunctionOnSet(f, S) + SumFunctionOnSet(f, T)
<1> DEFINE B == {u \in SUBSET T : SumFunctionOnSet(f, S \cup u)
                                     # SumFunctionOnSet(f, S) + SumFunctionOnSet(f, u)}
<1> SUFFICES ASSUME B # {} PROVE FALSE
  OBVIOUS
<1>1. PICK t \in B : \A u \in B : ~(u \subseteq t /\ u # t)
  <2>1. B \subseteq SUBSET T
    OBVIOUS
  <2> HIDE DEF B
  <2> QED BY <2>1, MinimalSubset
<1>2. SumFunctionOnSet(f, S) \in Int
  BY SumType
<1>3. t # {}
  <2>1. S \cup {} = S
    OBVIOUS
  <2>2. SumFunctionOnSet(f, S \cup {}) = SumFunctionOnSet(f, S) + SumFunctionOnSet(f, {})
    BY <1>2, <2>1, SumEmpty
  <2> QED BY <1>1, <2>2
<1>4. PICK e : e \in t
  BY <1>3
<1> DEFINE r == t \ {e}
<1>5. IsFiniteSet(t) /\ IsFiniteSet(r)
  BY FS_Subset
<1>6. SumFunctionOnSet(f, S \cup r) = SumFunctionOnSet(f, S) + SumFunctionOnSet(f, r)
  BY <1>1, <1>4
<1>7. SumFunctionOnSet(f, t) = f[e] + SumFunctionOnSet(f, r)
  BY <1>4, <1>5, SumRemove
<1>8. SumFunctionOnSet(f, S \cup t) = f[e] + SumFunctionOnSet(f, S \cup r)
  <2>1. IsFiniteSet(S \cup t)
    BY <1>5, FS_Union
  <2>2. (S \cup t) \ {e} = S \cup r
    BY <1>4
  <2>3. SumFunctionOnSet(f, S \cup t) = f[e] + SumFunctionOnSet(f, (S \cup t) \ {e})
    BY <1>4, <2>1, SumRemove
  <2> QED BY <2>2, <2>3
<1>9. f[e] \in Int /\ SumFunctionOnSet(f, r) \in Int
  BY <1>4, <1>5, SumType
<1> QED BY <1>1, <1>2, <1>6, <1>7, <1>8, <1>9

(* Changing the value of one member. *)
THEOREM SumChange ==
    ASSUME NEW f, NEW g, NEW S, IsFiniteSet(S), NEW e \in S,
           \A x \in S : f[x] \in Int, \A x \in S \ {e} : g[x] = f[x], g[e] \in Int
    PROVE  SumFunctionOnSet(g, S) = SumFunctionOnSet(f, S) + g[e] - f[e]
<1>1. IsFiniteSet(S \ {e})
  BY FS_RemoveElement
<1>2. SumFunctionOnSet(g, S \ {e}) = SumFunctionOnSet(f, S \ {e})
  BY <1>1, SumSame
<1>3. /\ SumFunctionOnSet(f, S) = f[e] + SumFunctionOnSet(f, S \ {e})
      /\ SumFunctionOnSet(g, S) = g[e] + SumFunctionOnSet(g, S \ {e})
  BY SumRemove
<1>4. SumFunctionOnSet(f, S \ {e}) \in Int /\ f[e] \in Int
  BY <1>1, SumType
<1> QED BY <1>2, <1>3, <1>4
=============================================================================
