-------------------------------- MODULE Sums --------------------------------
(***************************************************************************)
(* Lemmas on the operators the proofs share: sums over finite sets of      *)
(* indices, the greatest value of a function, and functions defined by     *)
(* recursion over the subsets of a finite set.  The folds of the community *)
(* modules are recursive functions behind a CHOOSE: that a function with   *)
(* the recursion exists, and is the only one, is shown here by a minimal   *)
(* counterexample in the well-founded order of finite subsets (WFMin).     *)
(***************************************************************************)
EXTENDS Integers, FiniteSets, Functions, FiniteSetTheorems, WellFoundedInduction, TLAPS

\* The element a fold takes away first.
Element(s) == CHOOSE x \in s : TRUE

\* One step of a sum: g is defined on sets of indices.
SumStep(f, g, s) ==
    IF s = {} THEN 0 ELSE f[Element(s)] + g[s \ {Element(s)}]

\* g is defined by that recursion on every subset of S; SumRec is one such g.
Summing(f, S, g) == g = [s \in SUBSET S |-> SumStep(f, g, s)]

SumRec(f, S) == CHOOSE g : Summing(f, S, g)

\* The sum of the community modules is the last value of the recursion.
LEMMA SumUnfold ==
    ASSUME NEW f, NEW S
    PROVE  SumFunctionOnSet(f, S) = SumRec(f, S)[S]
BY DEF SumFunctionOnSet, FoldFunctionOnSet, MapThenFoldSet, SumRec, SumStep, Summing, Element

\* Among subsets of a finite set one has no smaller one beside it.
LEMMA LeastSubset ==
    ASSUME NEW S, IsFiniteSet(S), NEW B, B \subseteq SUBSET S, B # {}
    PROVE  \E T \in B : \A U \in B : U \subseteq T => U = T
<1>1. B \subseteq FiniteSubsetsOf(S)
  BY FS_Subset DEF FiniteSubsetsOf
<1>2. PICK T \in B : \A U \in B : ~(<<U, T>> \in StrictSubsetOrdering(S))
  BY <1>1, FS_StrictSubsetOrderingWellFounded, WFMin
<1>3. \A U \in B : U \subseteq T => U = T
  BY <1>2 DEF StrictSubsetOrdering
<1>4. QED
  BY <1>3

\* The element taken is one of the set.
LEMMA ElementIn == ASSUME NEW s, s # {} PROVE Element(s) \in s
BY DEF Element

\* One value of the recursion.
LEMMA SummingStep ==
    ASSUME NEW f, NEW S, NEW g, Summing(f, S, g), NEW s \in SUBSET S
    PROVE  g[s] = IF s = {} THEN 0 ELSE f[Element(s)] + g[s \ {Element(s)}]
<1>1. g[s] = SumStep(f, g, s)
  BY DEF Summing
<1>2. QED
  BY <1>1 DEF SumStep

\* Two functions with the recursion agree where both are defined.
LEMMA SummingUnique ==
    ASSUME NEW f, NEW S, NEW T, NEW g, NEW h, Summing(f, S, g), Summing(f, T, h),
           IsFiniteSet(S), NEW V, V \subseteq S, V \subseteq T
    PROVE  g[V] = h[V]
<1> DEFINE B == {s \in SUBSET S : s \subseteq T /\ g[s] # h[s]}
<1>1. SUFFICES ASSUME B # {} PROVE FALSE
  OBVIOUS
<1>2. PICK s \in B : \A U \in B : U \subseteq s => U = s
  <2>1. B \subseteq SUBSET S
    OBVIOUS
  <2> HIDE DEF B
  <2>2. QED
    BY <1>1, <2>1, LeastSubset
<1>3. s \subseteq S /\ s \subseteq T /\ g[s] # h[s]
  OBVIOUS
<1>4. s # {}
  BY <1>3, SummingStep
<1>5. Element(s) \in s
  BY <1>4, ElementIn
<1>6. g[s \ {Element(s)}] = h[s \ {Element(s)}]
  BY <1>2, <1>3, <1>5
<1>7. g[s] = h[s]
  BY <1>3, <1>4, <1>6, SummingStep
<1>8. QED
  BY <1>3, <1>7

\* The value for a set is its first element's and the value for the rest, also
\* when that is taken from the recursion of the rest alone.
LEMMA SummingRest ==
    ASSUME NEW f, NEW r, IsFiniteSet(r), r # {}, NEW g, NEW h,
           Summing(f, r, g), Summing(f, r \ {Element(r)}, h)
    PROVE  g[r] = f[Element(r)] + h[r \ {Element(r)}]
<1>1. g[r] = f[Element(r)] + g[r \ {Element(r)}]
  BY SummingStep
<1>2. g[r \ {Element(r)}] = h[r \ {Element(r)}]
  BY SummingUnique
<1>3. QED
  BY <1>1, <1>2

\* A function with the recursion exists.
LEMMA SummingExists ==
    ASSUME NEW f, NEW S, IsFiniteSet(S)
    PROVE  \E g : Summing(f, S, g)
<1> DEFINE B == {T \in SUBSET S : ~ \E g : Summing(f, T, g)}
<1>1. SUFFICES ASSUME B # {} PROVE FALSE
  OBVIOUS
<1>2. PICK T \in B : \A U \in B : U \subseteq T => U = T
  <2>1. B \subseteq SUBSET S
    OBVIOUS
  <2> HIDE DEF B
  <2>2. QED
    BY <1>1, <2>1, LeastSubset
<1>3. \A U \in SUBSET T : U # T => Summing(f, U, SumRec(f, U))
  <2> SUFFICES ASSUME NEW U \in SUBSET T, U # T
               PROVE  Summing(f, U, SumRec(f, U))
    OBVIOUS
  <2>1. \E g : Summing(f, U, g)
    BY <1>2
  <2>2. QED
    BY <2>1 DEF SumRec
<1> DEFINE Rest(s) == s \ {Element(s)}
           h == [s \in SUBSET T |->
                  IF s = {} THEN 0 ELSE f[Element(s)] + SumRec(f, Rest(s))[Rest(s)]]
<1>4. ASSUME NEW s \in SUBSET T
      PROVE  h[s] = SumStep(f, h, s)
  <2>1. CASE s = {}
    BY <2>1 DEF SumStep
  <2>2. CASE s # {}
    <3>1. Element(s) \in s /\ Rest(s) \subseteq T /\ Rest(s) # T
      BY <2>2, ElementIn
    <3>2. SumRec(f, Rest(s))[Rest(s)] = h[Rest(s)]
      <4> DEFINE r == Rest(s)
      <4>0. r \in SUBSET T
        BY <3>1
      <4>1. CASE r = {}
        <5>1. SumRec(f, r)[r] = 0
          BY <1>3, <3>1, <4>1, SummingStep
        <5>2. h[r] = 0
          BY <4>1
        <5>3. QED
          BY <5>1, <5>2
      <4>2. CASE r # {}
        <5>1. Element(r) \in r /\ Rest(r) \subseteq r /\ Rest(r) # T /\ Rest(r) \subseteq T
          BY <3>1, <4>2, ElementIn
        <5>3. IsFiniteSet(r)
          <6>1. r \in SUBSET S
            BY <3>1
          <6>2. QED
            BY <6>1, FS_Subset
        <5>4. Summing(f, r, SumRec(f, r)) /\ Summing(f, Rest(r), SumRec(f, Rest(r)))
          BY <1>3, <3>1, <5>1
        <5>5. SumRec(f, r)[r] = f[Element(r)] + SumRec(f, Rest(r))[Rest(r)]
          <6> HIDE DEF r
          <6>1. QED
            BY <4>2, <5>3, <5>4, SummingRest
        <5>6. h[r] = f[Element(r)] + SumRec(f, Rest(r))[Rest(r)]
          <6> HIDE DEF r
          <6>1. QED
            BY <4>0, <4>2
        <5>7. QED
          BY <5>5, <5>6
      <4>3. QED
        BY <4>1, <4>2
    <3>3. QED
      BY <2>2, <3>1, <3>2 DEF SumStep
  <2>3. QED
    BY <2>1, <2>2
<1>5. Summing(f, T, h)
  <2> HIDE DEF h
  <2>1. h = [s \in SUBSET T |-> h[s]]
    BY DEF h
  <2>2. QED
    BY <1>4, <2>1 DEF Summing
<1>6. QED
  BY <1>2, <1>5

\* The sum of nothing.
LEMMA SumEmpty ==
    ASSUME NEW f
    PROVE  SumFunctionOnSet(f, {}) = 0
<1>1. Summing(f, {}, SumRec(f, {}))
  BY SummingExists, FS_EmptySet DEF SumRec
<1>2. QED
  BY <1>1, SummingStep, SumUnfold

\* The sum without the element that is taken first.
LEMMA SumElement ==
    ASSUME NEW f, NEW S, IsFiniteSet(S), S # {}
    PROVE  SumFunctionOnSet(f, S)
             = f[Element(S)] + SumFunctionOnSet(f, S \ {Element(S)})
<1>1. IsFiniteSet(S \ {Element(S)})
  BY FS_RemoveElement
<1>2. Summing(f, S, SumRec(f, S))
  BY SummingExists DEF SumRec
<1>3. Summing(f, S \ {Element(S)}, SumRec(f, S \ {Element(S)}))
  BY <1>1, SummingExists DEF SumRec
<1>4. QED
  BY <1>2, <1>3, SummingRest, SumUnfold

\* A sum of integers is one.
LEMMA SumType ==
    ASSUME NEW f, NEW S, IsFiniteSet(S), \A x \in S : f[x] \in Int
    PROVE  SumFunctionOnSet(f, S) \in Int
<1> DEFINE B == {T \in SUBSET S : SumFunctionOnSet(f, T) \notin Int}
<1>1. SUFFICES ASSUME B # {} PROVE FALSE
  OBVIOUS
<1>2. PICK T \in B : \A U \in B : U \subseteq T => U = T
  <2>1. B \subseteq SUBSET S
    OBVIOUS
  <2> HIDE DEF B
  <2>2. QED
    BY <1>1, <2>1, LeastSubset
<1>3. T \subseteq S /\ IsFiniteSet(T) /\ SumFunctionOnSet(f, T) \notin Int
  BY FS_Subset
<1>4. T # {}
  BY <1>3, SumEmpty
<1>5. Element(T) \in T
  BY <1>4, ElementIn
<1>6. SumFunctionOnSet(f, T \ {Element(T)}) \in Int
  BY <1>2, <1>5
<1>7. SumFunctionOnSet(f, T) = f[Element(T)] + SumFunctionOnSet(f, T \ {Element(T)})
  BY <1>3, <1>4, SumElement
<1>8. QED
  BY <1>3, <1>5, <1>6, <1>7

\* Whichever element a sum begins with.
LEMMA SumRemove ==
    ASSUME NEW f, NEW S, IsFiniteSet(S), \A x \in S : f[x] \in Int, NEW x \in S
    PROVE  SumFunctionOnSet(f, S) = f[x] + SumFunctionOnSet(f, S \ {x})
<1> DEFINE Good(T) == \A y \in T :
                        SumFunctionOnSet(f, T) = f[y] + SumFunctionOnSet(f, T \ {y})
           B == {T \in SUBSET S : ~Good(T)}
<1>1. SUFFICES ASSUME B # {} PROVE FALSE
  OBVIOUS
<1>2. PICK T \in B : \A U \in B : U \subseteq T => U = T
  <2>1. B \subseteq SUBSET S
    OBVIOUS
  <2> HIDE DEF B
  <2>2. QED
    BY <1>1, <2>1, LeastSubset
<1>3. T \subseteq S /\ IsFiniteSet(T) /\ ~Good(T)
  BY FS_Subset
<1>4. PICK y \in T : SumFunctionOnSet(f, T) # f[y] + SumFunctionOnSet(f, T \ {y})
  BY <1>3
<1>5. PICK e : e = Element(T) /\ e \in T
  BY ElementIn
<1>6. SumFunctionOnSet(f, T) = f[e] + SumFunctionOnSet(f, T \ {e})
  BY <1>3, <1>5, SumElement
<1>7. y # e
  BY <1>4, <1>6
<1>8. Good(T \ {e}) /\ Good(T \ {y})
  BY <1>2, <1>3, <1>4, <1>5
<1>9. /\ SumFunctionOnSet(f, T \ {e}) = f[y] + SumFunctionOnSet(f, (T \ {e}) \ {y})
      /\ SumFunctionOnSet(f, T \ {y}) = f[e] + SumFunctionOnSet(f, (T \ {y}) \ {e})
  BY <1>4, <1>5, <1>7, <1>8
<1>10. (T \ {e}) \ {y} = (T \ {y}) \ {e}
  OBVIOUS
<1>11. SumFunctionOnSet(f, (T \ {e}) \ {y}) \in Int
  <2>1. (T \ {e}) \ {y} \in SUBSET S
    BY <1>3
  <2>2. IsFiniteSet((T \ {e}) \ {y})
    BY <2>1, FS_Subset
  <2>3. QED
    BY <2>1, <2>2, SumType
<1>12. f[e] \in Int /\ f[y] \in Int
  BY <1>3, <1>4, <1>5
<1>13. PICK r \in Int : r = SumFunctionOnSet(f, (T \ {e}) \ {y})
  BY <1>11
<1>14. /\ SumFunctionOnSet(f, T) = f[e] + (f[y] + r)
       /\ SumFunctionOnSet(f, T \ {y}) = f[e] + r
  BY <1>6, <1>9, <1>10, <1>13
<1>15. f[e] + (f[y] + r) = f[y] + (f[e] + r)
  BY <1>12
<1>16. QED
  BY <1>4, <1>14, <1>15

\* The sum with one element more.
LEMMA SumAdd ==
    ASSUME NEW f, NEW S, IsFiniteSet(S), NEW x, x \notin S, \A y \in S \cup {x} : f[y] \in Int
    PROVE  SumFunctionOnSet(f, S \cup {x}) = SumFunctionOnSet(f, S) + f[x]
<1>1. IsFiniteSet(S \cup {x}) /\ (S \cup {x}) \ {x} = S
  BY FS_AddElement
<1>2. SumFunctionOnSet(f, S \cup {x}) = f[x] + SumFunctionOnSet(f, S)
  BY <1>1, SumRemove
<1>3. SumFunctionOnSet(f, S) \in Int
  BY SumType
<1>4. QED
  BY <1>2, <1>3

\* Equal on the set, equal in the sum.
LEMMA SumSame ==
    ASSUME NEW f, NEW g, NEW S, IsFiniteSet(S), \A x \in S : f[x] = g[x]
    PROVE  SumFunctionOnSet(f, S) = SumFunctionOnSet(g, S)
<1> DEFINE B == {T \in SUBSET S : SumFunctionOnSet(f, T) # SumFunctionOnSet(g, T)}
<1>1. SUFFICES ASSUME B # {} PROVE FALSE
  OBVIOUS
<1>2. PICK T \in B : \A U \in B : U \subseteq T => U = T
  <2>1. B \subseteq SUBSET S
    OBVIOUS
  <2> HIDE DEF B
  <2>2. QED
    BY <1>1, <2>1, LeastSubset
<1>3. T \subseteq S /\ IsFiniteSet(T) /\ SumFunctionOnSet(f, T) # SumFunctionOnSet(g, T)
  BY FS_Subset
<1>4. T # {}
  BY <1>3, SumEmpty
<1>5. PICK e : e = Element(T) /\ e \in T
  BY <1>4, ElementIn
<1>6. SumFunctionOnSet(f, T \ {e}) = SumFunctionOnSet(g, T \ {e})
  BY <1>2, <1>5
<1>7. /\ SumFunctionOnSet(f, T) = f[e] + SumFunctionOnSet(f, T \ {e})
      /\ SumFunctionOnSet(g, T) = g[e] + SumFunctionOnSet(g, T \ {e})
  BY <1>3, <1>4, <1>5, SumElement
<1>8. f[e] = g[e]
  BY <1>3, <1>5
<1>9. QED
  BY <1>3, <1>6, <1>7, <1>8

\* A sum of natural numbers is one.
LEMMA SumNat ==
    ASSUME NEW f, NEW S, IsFiniteSet(S), \A x \in S : f[x] \in Nat
    PROVE  SumFunctionOnSet(f, S) \in Nat
<1> DEFINE B == {T \in SUBSET S : SumFunctionOnSet(f, T) \notin Nat}
<1>1. SUFFICES ASSUME B # {} PROVE FALSE
  OBVIOUS
<1>2. PICK T \in B : \A U \in B : U \subseteq T => U = T
  <2>1. B \subseteq SUBSET S
    OBVIOUS
  <2> HIDE DEF B
  <2>2. QED
    BY <1>1, <2>1, LeastSubset
<1>3. T \subseteq S /\ IsFiniteSet(T) /\ SumFunctionOnSet(f, T) \notin Nat
  BY FS_Subset
<1>4. T # {}
  BY <1>3, SumEmpty
<1>5. Element(T) \in T
  BY <1>4, ElementIn
<1>6. SumFunctionOnSet(f, T \ {Element(T)}) \in Nat
  BY <1>2, <1>5
<1>7. SumFunctionOnSet(f, T) = f[Element(T)] + SumFunctionOnSet(f, T \ {Element(T)})
  BY <1>3, <1>4, SumElement
<1>8. QED
  BY <1>3, <1>5, <1>6, <1>7

\* A function with one value more.
LEMMA SumGrows ==
    ASSUME NEW f, NEW g, NEW a, IsFiniteSet(DOMAIN f), a \notin DOMAIN f,
           DOMAIN g = DOMAIN f \cup {a}, g[a] \in Int,
           \A x \in DOMAIN f : f[x] \in Int /\ g[x] = f[x]
    PROVE  SumFunction(f) \in Int /\ SumFunction(g) = SumFunction(f) + g[a]
<1>1. SumFunctionOnSet(g, DOMAIN f \cup {a}) = SumFunctionOnSet(g, DOMAIN f) + g[a]
  BY SumAdd
<1>2. SumFunctionOnSet(g, DOMAIN f) = SumFunctionOnSet(f, DOMAIN f)
  BY SumSame
<1>3. SumFunctionOnSet(f, DOMAIN f) \in Int
  BY SumType
<1>4. QED
  BY <1>1, <1>2, <1>3 DEF SumFunction

\* A sum of nothing but zeros.
LEMMA SumZero ==
    ASSUME NEW f, NEW S, IsFiniteSet(S), \A x \in S : f[x] = 0
    PROVE  SumFunctionOnSet(f, S) = 0
<1> DEFINE B == {T \in SUBSET S : SumFunctionOnSet(f, T) # 0}
<1>1. SUFFICES ASSUME B # {} PROVE FALSE
  OBVIOUS
<1>2. PICK T \in B : \A U \in B : U \subseteq T => U = T
  <2>1. B \subseteq SUBSET S
    OBVIOUS
  <2> HIDE DEF B
  <2>2. QED
    BY <1>1, <2>1, LeastSubset
<1>3. T \subseteq S /\ IsFiniteSet(T) /\ SumFunctionOnSet(f, T) # 0
  BY FS_Subset
<1>4. T # {}
  BY <1>3, SumEmpty
<1>5. Element(T) \in T
  BY <1>4, ElementIn
<1>6. SumFunctionOnSet(f, T \ {Element(T)}) = 0
  BY <1>2, <1>5
<1>7. SumFunctionOnSet(f, T) = f[Element(T)] + SumFunctionOnSet(f, T \ {Element(T)})
  BY <1>3, <1>4, SumElement
<1>8. QED
  BY <1>3, <1>5, <1>6, <1>7

\* The sum over two sets without a common element.
LEMMA SumUnion ==
    ASSUME NEW f, NEW S, IsFiniteSet(S), NEW T, IsFiniteSet(T), S \cap T = {},
           \A x \in S \cup T : f[x] \in Int
    PROVE  SumFunctionOnSet(f, S \cup T) = SumFunctionOnSet(f, S) + SumFunctionOnSet(f, T)
<1> DEFINE B == {U \in SUBSET T : SumFunctionOnSet(f, S \cup U)
                                    # SumFunctionOnSet(f, S) + SumFunctionOnSet(f, U)}
<1>1. SUFFICES ASSUME B # {} PROVE FALSE
  OBVIOUS
<1>2. PICK U \in B : \A V \in B : V \subseteq U => V = U
  <2>1. B \subseteq SUBSET T
    OBVIOUS
  <2> HIDE DEF B
  <2>2. QED
    BY <1>1, <2>1, LeastSubset
<1>3. /\ U \subseteq T /\ IsFiniteSet(U)
      /\ SumFunctionOnSet(f, S \cup U) # SumFunctionOnSet(f, S) + SumFunctionOnSet(f, U)
  BY FS_Subset
<1>4. SumFunctionOnSet(f, S) \in Int
  BY SumType
<1>5. U # {}
  <2>1. S \cup {} = S
    OBVIOUS
  <2>2. SumFunctionOnSet(f, S) + 0 = SumFunctionOnSet(f, S)
    BY <1>4
  <2> HIDE DEF B
  <2>3. QED
    BY <1>3, <2>1, <2>2, SumEmpty
<1>6. PICK x \in U : TRUE
  BY <1>5
<1>7. SumFunctionOnSet(f, S \cup (U \ {x})) = SumFunctionOnSet(f, S) + SumFunctionOnSet(f, U \ {x})
  <2>1. U \ {x} \in SUBSET T /\ U \ {x} # U
    BY <1>3, <1>6
  <2>2. QED
    BY <1>2, <2>1
<1> HIDE DEF B
<1>8. /\ IsFiniteSet(S \cup U) /\ IsFiniteSet(U \ {x}) /\ x \in S \cup U
      /\ (S \cup U) \ {x} = S \cup (U \ {x})
  <2>1. x \notin S
    BY <1>3, <1>6
  <2>2. IsFiniteSet(S \cup U)
    BY <1>3, FS_Union
  <2>3. IsFiniteSet(U \ {x})
    BY <1>3, FS_Subset
  <2>4. QED
    BY <1>6, <2>1, <2>2, <2>3
<1>9. (\A y \in S \cup U : f[y] \in Int) /\ (\A y \in U : f[y] \in Int) /\ f[x] \in Int
  BY <1>3, <1>6
<1>10. SumFunctionOnSet(f, S \cup U) = f[x] + SumFunctionOnSet(f, S \cup (U \ {x}))
  BY <1>8, <1>9, SumRemove
<1>11. SumFunctionOnSet(f, U) = f[x] + SumFunctionOnSet(f, U \ {x})
  BY <1>3, <1>6, <1>9, SumRemove
<1>12. SumFunctionOnSet(f, U \ {x}) \in Int
  BY <1>8, <1>9, SumType
<1>13. QED
  BY <1>3, <1>4, <1>7, <1>9, <1>10, <1>11, <1>12

\* Of natural numbers, no part exceeds the whole.
LEMMA SumSubset ==
    ASSUME NEW f, NEW S, IsFiniteSet(S), \A x \in S : f[x] \in Nat, NEW T, T \subseteq S
    PROVE  SumFunctionOnSet(f, T) <= SumFunctionOnSet(f, S)
<1> DEFINE B == {U \in SUBSET S :
                   T \subseteq U /\ ~(SumFunctionOnSet(f, T) <= SumFunctionOnSet(f, U))}
<1>1. SUFFICES ASSUME B # {} PROVE FALSE
  OBVIOUS
<1>2. PICK U \in B : \A W \in B : W \subseteq U => W = U
  <2>1. B \subseteq SUBSET S
    OBVIOUS
  <2> HIDE DEF B
  <2>2. QED
    BY <1>1, <2>1, LeastSubset
<1>3. /\ T \subseteq U /\ U \subseteq S
      /\ ~(SumFunctionOnSet(f, T) <= SumFunctionOnSet(f, U))
  OBVIOUS
<1>4. IsFiniteSet(T) /\ IsFiniteSet(U)
  BY <1>3, FS_Subset
<1>5. SumFunctionOnSet(f, T) \in Nat /\ SumFunctionOnSet(f, U) \in Nat
  BY <1>3, <1>4, SumNat
<1>6. PICK x \in U : x \notin T
  BY SMTT(30), <1>3, <1>5
<1>7. SumFunctionOnSet(f, T) <= SumFunctionOnSet(f, U \ {x})
  BY <1>2, <1>3, <1>6
<1>8. /\ SumFunctionOnSet(f, U) = f[x] + SumFunctionOnSet(f, U \ {x})
      /\ SumFunctionOnSet(f, U \ {x}) \in Nat
  <2>1. \A y \in U : f[y] \in Int /\ f[y] \in Nat
    BY <1>3
  <2>2. IsFiniteSet(U \ {x})
    BY <1>4, FS_RemoveElement
  <2>3. QED
    <3>1. SumFunctionOnSet(f, U) = f[x] + SumFunctionOnSet(f, U \ {x})
      BY <1>4, <2>1, SumRemove
    <3>2. SumFunctionOnSet(f, U \ {x}) \in Nat
      BY <2>1, <2>2, SumNat
    <3>3. QED
      BY <3>1, <3>2
<1>9. f[x] \in Nat
  BY <1>3
<1>10. QED
  BY <1>3, <1>5, <1>7, <1>8, <1>9

\* A finite set has an element at which f is greatest.
LEMMA Greatest ==
    ASSUME NEW f, NEW S, IsFiniteSet(S), S # {}, \A x \in S : f[x] \in Int
    PROVE  \E x \in S : \A y \in S : f[y] <= f[x]
<1> DEFINE B == {T \in SUBSET S : T # {} /\ \A x \in T : \E y \in T : ~(f[y] <= f[x])}
<1>1. SUFFICES ASSUME B # {} PROVE FALSE
  OBVIOUS
<1>2. PICK T \in B : \A U \in B : U \subseteq T => U = T
  <2>1. B \subseteq SUBSET S
    OBVIOUS
  <2> HIDE DEF B
  <2>2. QED
    BY <1>1, <2>1, LeastSubset
<1>3. /\ T \subseteq S /\ T # {}
      /\ \A x \in T : \E y \in T : ~(f[y] <= f[x])
  OBVIOUS
<1>4. PICK x \in T : TRUE
  BY <1>3
<1>5. CASE T \ {x} = {}
  BY <1>3, <1>5
<1>6. CASE T \ {x} # {}
  <2>1. T \ {x} \notin B
    BY <1>2, <1>4
  <2>2. PICK z \in T \ {x} : \A y \in T \ {x} : f[y] <= f[z]
    BY <1>3, <1>6, <2>1
  <2>3. f[x] \in Int /\ f[z] \in Int /\ \A y \in T : f[y] \in Int
    BY <1>3
  <2>4. CASE f[x] <= f[z]
    BY <1>3, <2>2, <2>3, <2>4
  <2>5. CASE f[z] <= f[x]
    <3>1. \A y \in T : f[y] <= f[x]
      BY <2>2, <2>3, <2>5
    <3>2. QED
      BY <1>3, <3>1
  <2>6. QED
    BY <2>3, <2>4, <2>5
<1>7. QED
  BY <1>5, <1>6

\* A set of numbers that is not empty has a least one.
LEMMA LeastNumber ==
    ASSUME NEW B, B \subseteq Nat, B # {}
    PROVE  \E k \in B : \A j \in B : k <= j
<1>1. PICK b \in B : TRUE
  OBVIOUS
<1> DEFINE C == {k \in B : k <= b}
           f == [k \in C |-> -k]
<1>2. IsFiniteSet(C) /\ C # {}
  <2>1. b \in C /\ C \subseteq 0 .. b
    <3>1. b \in Nat /\ b <= b
      OBVIOUS
    <3>2. b \in C
      BY <3>1
    <3>3. ASSUME NEW k \in C PROVE k \in 0 .. b
      <4>1. k \in Nat /\ k <= b
        OBVIOUS
      <4>2. QED
        BY <3>1, <4>1
    <3>4. QED
      BY <3>2, <3>3
  <2>2. IsFiniteSet(0 .. b)
    <3>1. 0 \in Int /\ b \in Int
      OBVIOUS
    <3> HIDE DEF C, f
    <3>2. QED
      BY <3>1, FS_Interval
  <2> HIDE DEF C, f
  <2>3. QED
    BY <2>1, <2>2, FS_Subset
<1>3. \A k \in C : f[k] \in Int
  OBVIOUS
<1>4. PICK k \in C : \A j \in C : f[j] <= f[k]
  <2> HIDE DEF f, C
  <2>1. QED
    BY <1>2, <1>3, Greatest
<1>5. \A j \in B : k <= j
  <2>1. \A j \in C : k <= j
    BY <1>4
  <2>2. k <= b /\ k \in Nat /\ b \in Nat
    BY <1>1, <1>4
  <2>3. ASSUME NEW j \in B PROVE k <= j
    <3>1. j \in Nat
      OBVIOUS
    <3>2. CASE j <= b
      BY <2>1, <3>2
    <3>3. CASE ~(j <= b)
      <4> HIDE DEF C, f
      <4>1. QED
        BY <2>2, <3>1, <3>3
    <3>4. QED
      BY <3>2, <3>3
  <2>4. QED
    BY <2>3
<1>6. QED
  BY <1>5

-----------------------------------------------------------------------------
(* Recursion over the subsets of a finite set: each takes one element away *)

\* pick takes an element of a set away, step makes its value of the one for the
\* rest.
RecStep(base, pick, step, g, T) ==
    IF T = {} THEN base ELSE step[<<T, g[T \ {pick[T]}]>>]

\* g is defined by that recursion on every subset of S; RecOf is one such g.
Recurs(base, pick, step, S, g) ==
    g = [T \in SUBSET S |-> RecStep(base, pick, step, g, T)]

RecOf(base, pick, step, S) == CHOOSE g : Recurs(base, pick, step, S, g)

\* One value of the recursion.
LEMMA RecursStep ==
    ASSUME NEW base, NEW pick, NEW step, NEW S, NEW g, Recurs(base, pick, step, S, g),
           NEW T \in SUBSET S
    PROVE  g[T] = IF T = {} THEN base ELSE step[<<T, g[T \ {pick[T]}]>>]
<1>1. g[T] = RecStep(base, pick, step, g, T)
  BY DEF Recurs
<1>2. QED
  BY <1>1 DEF RecStep

\* Two functions with the recursion agree where both are defined.
LEMMA RecursUnique ==
    ASSUME NEW base, NEW pick, NEW step, NEW S, IsFiniteSet(S), NEW R, NEW g, NEW h,
           \A T \in SUBSET S : T # {} => pick[T] \in T,
           Recurs(base, pick, step, S, g), Recurs(base, pick, step, R, h),
           NEW V, V \subseteq S, V \subseteq R
    PROVE  g[V] = h[V]
<1> DEFINE B == {T \in SUBSET S : T \subseteq R /\ g[T] # h[T]}
<1>1. SUFFICES ASSUME B # {} PROVE FALSE
  OBVIOUS
<1>2. PICK T \in B : \A U \in B : U \subseteq T => U = T
  <2>1. B \subseteq SUBSET S
    OBVIOUS
  <2> HIDE DEF B
  <2>2. QED
    BY <1>1, <2>1, LeastSubset
<1>3. T \subseteq S /\ T \subseteq R /\ g[T] # h[T]
  OBVIOUS
<1>4. /\ g[T] = IF T = {} THEN base ELSE step[<<T, g[T \ {pick[T]}]>>]
      /\ h[T] = IF T = {} THEN base ELSE step[<<T, h[T \ {pick[T]}]>>]
  <2> HIDE DEF B
  <2>1. T \in SUBSET S /\ T \in SUBSET R
    BY <1>3
  <2>2. g[T] = RecStep(base, pick, step, g, T)
    BY <2>1 DEF Recurs
  <2>3. h[T] = RecStep(base, pick, step, h, T)
    BY <2>1 DEF Recurs
  <2>4. QED
    BY <2>2, <2>3 DEF RecStep
<1>5. T # {}
  BY <1>3, <1>4
<1>6. pick[T] \in T
  BY <1>3, <1>5
<1>7. g[T \ {pick[T]}] = h[T \ {pick[T]}]
  BY <1>2, <1>3, <1>6
<1>8. QED
  BY <1>3, <1>4, <1>7

\* The recursion has a solution.
LEMMA RecursExists ==
    ASSUME NEW base, NEW pick, NEW step, NEW S, IsFiniteSet(S),
           \A T \in SUBSET S : T # {} => pick[T] \in T
    PROVE  \E g : Recurs(base, pick, step, S, g)
<1> DEFINE B == {T \in SUBSET S : ~ \E g : Recurs(base, pick, step, T, g)}
<1>1. SUFFICES ASSUME B # {} PROVE FALSE
  OBVIOUS
<1>2. PICK T \in B : \A U \in B : U \subseteq T => U = T
  <2>1. B \subseteq SUBSET S
    OBVIOUS
  <2> HIDE DEF B
  <2>2. QED
    BY <1>1, <2>1, LeastSubset
<1>3. T \subseteq S /\ ~ \E g : Recurs(base, pick, step, T, g)
  OBVIOUS
<1> DEFINE Rec(U) == RecOf(base, pick, step, U)
           Rest(U) == U \ {pick[U]}
           h == [U \in SUBSET T |->
                  IF U = {} THEN base ELSE step[<<U, Rec(Rest(U))[Rest(U)]>>]]
<1>4. \A U \in SUBSET T : U # T => Recurs(base, pick, step, U, Rec(U))
  <2> SUFFICES ASSUME NEW U \in SUBSET T, U # T
               PROVE  Recurs(base, pick, step, U, Rec(U))
    OBVIOUS
  <2>1. \E g : Recurs(base, pick, step, U, g)
    BY <1>2
  <2>2. QED
    BY <2>1 DEF RecOf
<1>5. \A U \in SUBSET T : U # {} => pick[U] \in U
  BY <1>3
<1>6. \A U \in SUBSET T : U # T => Rec(U)[U] = h[U]
  <2> SUFFICES ASSUME NEW U \in SUBSET T, U # T PROVE Rec(U)[U] = h[U]
    OBVIOUS
  <2>1. Recurs(base, pick, step, U, Rec(U))
    BY <1>4
  <2>2. CASE U = {}
    <3>1. Rec(U)[U] = base
      <4> HIDE DEF Rec
      <4>1. Rec(U)[U] = IF U = {} THEN base ELSE step[<<U, Rec(U)[U \ {pick[U]}]>>]
        BY <2>1, RecursStep
      <4>2. QED
        BY <2>2, <4>1
    <3>2. h[U] = base
      BY <2>2
    <3>3. QED
      BY <3>1, <3>2
  <2>3. CASE U # {}
    <3>1. pick[U] \in U /\ Rest(U) \subseteq T /\ Rest(U) # T /\ Rest(U) \subseteq U
      BY <1>5, <2>3
    <3>2. Recurs(base, pick, step, Rest(U), Rec(Rest(U)))
      BY <1>4, <3>1
    <3>3. IsFiniteSet(U)
      BY <1>3, FS_Subset
    <3>4. Rec(U)[Rest(U)] = Rec(Rest(U))[Rest(U)]
      <4> HIDE DEF Rec, Rest
      <4>1. \A W \in SUBSET U : W # {} => pick[W] \in W
        BY <1>5
      <4>2. QED
        BY <2>1, <3>1, <3>2, <3>3, <4>1, RecursUnique
    <3>5. Rec(U)[U] = step[<<U, Rec(U)[Rest(U)]>>]
      <4> HIDE DEF Rec
      <4>1. QED
        BY <2>1, <2>3, RecursStep
    <3>6. h[U] = step[<<U, Rec(Rest(U))[Rest(U)]>>]
      <4> HIDE DEF Rec
      <4>1. QED
        BY <2>3
    <3>7. QED
      BY <3>4, <3>5, <3>6
  <2>4. QED
    BY <2>2, <2>3
<1>7. ASSUME NEW U \in SUBSET T
      PROVE  h[U] = RecStep(base, pick, step, h, U)
  <2>1. CASE U = {}
    BY <2>1 DEF RecStep
  <2>2. CASE U # {}
    <3>1. pick[U] \in U /\ Rest(U) \in SUBSET T /\ Rest(U) # T
      BY <1>5, <2>2
    <3>2. Rec(Rest(U))[Rest(U)] = h[Rest(U)]
      <4> HIDE DEF Rec, h, Rest
      <4>1. QED
        BY <1>6, <3>1
    <3>3. h[U] = step[<<U, Rec(Rest(U))[Rest(U)]>>]
      <4> HIDE DEF Rec
      <4>1. QED
        BY <2>2
    <3>4. h[U] = step[<<U, h[Rest(U)]>>]
      BY <3>2, <3>3
    <3>5. QED
      <4> HIDE DEF h
      <4>1. QED
        BY <2>2, <3>4 DEF RecStep
  <2>3. QED
    BY <2>1, <2>2
<1>8. Recurs(base, pick, step, T, h)
  <2> HIDE DEF h
  <2>1. h = [U \in SUBSET T |-> h[U]]
    BY DEF h
  <2>2. QED
    BY <1>7, <2>1 DEF Recurs
<1>9. QED
  BY <1>3, <1>8

\* Its values are integers, where the step keeps them so.
LEMMA RecursInt ==
    ASSUME NEW base, NEW pick, NEW step, NEW S, IsFiniteSet(S), NEW g,
           \A T \in SUBSET S : T # {} => pick[T] \in T,
           Recurs(base, pick, step, S, g), base \in Int,
           \A T \in SUBSET S, v \in Int : step[<<T, v>>] \in Int
    PROVE  \A T \in SUBSET S : g[T] \in Int
<1> DEFINE B == {T \in SUBSET S : g[T] \notin Int}
<1>1. SUFFICES ASSUME B # {} PROVE FALSE
  OBVIOUS
<1>2. PICK T \in B : \A U \in B : U \subseteq T => U = T
  <2>1. B \subseteq SUBSET S
    OBVIOUS
  <2> HIDE DEF B
  <2>2. QED
    BY <1>1, <2>1, LeastSubset
<1>3. T \subseteq S /\ g[T] \notin Int
  OBVIOUS
<1>4. g[T] = IF T = {} THEN base ELSE step[<<T, g[T \ {pick[T]}]>>]
  <2>1. T \in SUBSET S
    BY <1>3
  <2>2. g[T] = RecStep(base, pick, step, g, T)
    BY <2>1 DEF Recurs
  <2>3. QED
    BY <2>2 DEF RecStep
<1>5. T # {}
  BY <1>3, <1>4
<1>6. pick[T] \in T
  BY <1>3, <1>5
<1>7. g[T \ {pick[T]}] \in Int
  BY <1>2, <1>3, <1>6
<1>8. QED
  BY <1>3, <1>4, <1>5, <1>7
=============================================================================
