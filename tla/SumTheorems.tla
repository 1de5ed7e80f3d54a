----------------------------- MODULE SumTheorems -----------------------------
(***************************************************************************)
(* Facts about the sums of module Functions over finite sets.  A sum is    *)
(* defined by recursion over the subsets of a set; induction over them is  *)
(* the choice of a smallest counterexample.                                *)
(***************************************************************************)
EXTENDS Integers, Functions, FiniteSetTheorems, TLAPS

\* Every family of subsets of a finite set has a smallest member.
LEMMA SmallestSubset ==
    ASSUME NEW S, IsFiniteSet(S), NEW B \in SUBSET (SUBSET S), B # {}
    PROVE  \E T \in B : \A U \in B : U \subseteq T => U = T
<1>1. FiniteSubsetsOf(S) = SUBSET S
    BY FS_FiniteSubsetsOfFinite
<1>2. \E x \in B : \A y \in B : ~(<<y, x>> \in StrictSubsetOrdering(S))
    BY <1>1, FS_StrictSubsetOrderingWellFounded, WFMin
<1> QED
    BY <1>2 DEF StrictSubsetOrdering

(***************************************************************************)
(* The recursion.                                                          *)
(***************************************************************************)

Pick(s) == CHOOSE x \in s : TRUE
Rest(s) == s \ {Pick(s)}
Body(f, g, s) == IF s = {} THEN 0 ELSE f[Pick(s)] + g[Rest(s)]
IsSum(f, S, g) == g = [s \in SUBSET S |-> Body(f, g, s)]
SumBy(f, S) == CHOOSE g : IsSum(f, S, g)

LEMMA SumIsSumBy == ASSUME NEW f, NEW S PROVE SumFunctionOnSet(f, S) = SumBy(f, S)[S]
BY DEF SumFunctionOnSet, FoldFunctionOnSet, MapThenFoldSet, SumBy, IsSum, Body, Pick, Rest

LEMMA RestIsSmaller ==
    ASSUME NEW s, s # {}
    PROVE  /\ Pick(s) \in s /\ Rest(s) \subseteq s /\ Rest(s) # s
           /\ Pick(s) \notin Rest(s) /\ s = Rest(s) \cup {Pick(s)}
BY DEF Pick, Rest

LEMMA SumAt ==
    ASSUME NEW f, NEW S, NEW g, IsSum(f, S, g), NEW s \in SUBSET S
    PROVE  g[s] = Body(f, g, s)
<1>1. g = [t \in SUBSET S |-> Body(f, g, t)]
    BY DEF IsSum
<1> DEFINE h == [t \in SUBSET S |-> Body(f, g, t)]
<1>2. h[s] = Body(f, g, s)
    OBVIOUS
<1> HIDE DEF h
<1>3. g = h
    BY <1>1 DEF h
<1> QED
    BY <1>2, <1>3

LEMMA SumIsUnique ==
    ASSUME NEW f, NEW S, IsFiniteSet(S), NEW g, NEW h, IsSum(f, S, g), IsSum(f, S, h)
    PROVE  g = h
<1> DEFINE B == {s \in SUBSET S : g[s] # h[s]}
<1>1. ASSUME B # {} PROVE FALSE
    <2>1. PICK T \in B : \A U \in B : U \subseteq T => U = T
        <3>1. B \in SUBSET (SUBSET S)
            OBVIOUS
        <3> HIDE DEF B
        <3> QED
            BY <1>1, <3>1, SmallestSubset
    <2>2. g[T] = Body(f, g, T) /\ h[T] = Body(f, h, T)
        BY <2>1, SumAt
    <2>3. T # {}
        BY <2>1, <2>2 DEF Body
    <2>4. Rest(T) \in SUBSET S /\ Rest(T) \notin B
        BY <2>1, <2>3, RestIsSmaller
    <2>5. g[Rest(T)] = h[Rest(T)]
        BY <2>4
    <2> QED
        BY <2>1, <2>2, <2>5 DEF Body
<1>2. \A s \in SUBSET S : g[s] = h[s]
    BY <1>1
<1>3. /\ g = [s \in SUBSET S |-> Body(f, g, s)]
      /\ h = [s \in SUBSET S |-> Body(f, h, s)]
    BY DEF IsSum
<1>4. \A s \in SUBSET S : Body(f, g, s) = Body(f, h, s)
    BY <1>2, SumAt
<1> QED
    BY <1>3, <1>4

LEMMA SumOfLess ==
    ASSUME NEW f, NEW S, NEW g, IsSum(f, S, g), NEW T \in SUBSET S
    PROVE  IsSum(f, T, [s \in SUBSET T |-> g[s]])
<1> DEFINE h == [s \in SUBSET T |-> g[s]]
<1>1. ASSUME NEW s \in SUBSET T PROVE g[s] = Body(f, h, s)
    <2>1. g[s] = Body(f, g, s)
        BY SumAt
    <2>2. CASE s = {}
        BY <2>1, <2>2 DEF Body
    <2>3. CASE s # {}
        <3>1. Rest(s) \in SUBSET T
            BY <2>3, RestIsSmaller
        <3>2. h[Rest(s)] = g[Rest(s)]
            BY <3>1
        <3> HIDE DEF h
        <3> QED
            BY <2>1, <2>3, <3>2 DEF Body
    <2> QED
        BY <2>2, <2>3
<1>2. h = [s \in SUBSET T |-> Body(f, h, s)]
    BY <1>1
<1> QED
    BY <1>2 DEF IsSum

LEMMA SumExists == ASSUME NEW f, NEW S, IsFiniteSet(S) PROVE IsSum(f, S, SumBy(f, S))
<1> DEFINE B == {A \in SUBSET S : ~ \E g : IsSum(f, A, g)}
           G(A) == CHOOSE g : IsSum(f, A, g)
<1>1. ASSUME B # {} PROVE FALSE
    <2>1. PICK T \in B : \A U \in B : U \subseteq T => U = T
        <3>1. B \in SUBSET (SUBSET S)
            OBVIOUS
        <3> HIDE DEF B
        <3> QED
            BY <1>1, <3>1, SmallestSubset
    <2>2. ASSUME NEW A \in SUBSET T, A # T PROVE IsSum(f, A, G(A)) /\ IsFiniteSet(A)
        <3>1. A \in SUBSET S /\ A \notin B
            BY <2>1, <2>2
        <3>2. \E g : IsSum(f, A, g)
            BY <3>1
        <3> QED
            BY <3>1, <3>2, FS_Subset
    <2>3. ASSUME NEW A \in SUBSET T, A # T, NEW C \in SUBSET A, C # T
          PROVE  G(A)[C] = G(C)[C]
        <3> DEFINE h == [s \in SUBSET C |-> G(A)[s]]
        <3> HIDE DEF G
        <3>1. IsSum(f, A, G(A)) /\ IsSum(f, C, G(C)) /\ IsFiniteSet(C)
            BY <2>2, <2>3
        <3>2. IsSum(f, C, h)
            BY <3>1, SumOfLess
        <3>3. h = G(C)
            BY <3>1, <3>2, SumIsUnique
        <3> QED
            BY <3>3
    <2> DEFINE g == [s \in SUBSET T |-> IF s = {} THEN 0 ELSE f[Pick(s)] + G(Rest(s))[Rest(s)]]
    <2> HIDE DEF G
    <2>4. ASSUME NEW t \in SUBSET T, t # T PROVE g[t] = G(t)[t]
        <3>1. G(t)[t] = Body(f, G(t), t)
            BY <2>2, <2>4, SumAt
        <3>2. CASE t = {}
            BY <3>1, <3>2 DEF Body
        <3>3. CASE t # {}
            <4>1. Rest(t) \in SUBSET t /\ Rest(t) # T
                BY <2>4, <3>3, RestIsSmaller
            <4>2. G(t)[Rest(t)] = G(Rest(t))[Rest(t)]
                BY <2>3, <2>4, <4>1
            <4> QED
                BY <3>1, <3>3, <4>2 DEF Body
        <3> QED
            BY <3>2, <3>3
    <2>5. ASSUME NEW s \in SUBSET T PROVE g[s] = Body(f, g, s)
        <3>1. CASE s = {}
            BY <3>1 DEF Body
        <3>2. CASE s # {}
            <4>1. Rest(s) \in SUBSET T /\ Rest(s) # T
                BY <3>2, RestIsSmaller
            <4>2. g[Rest(s)] = G(Rest(s))[Rest(s)]
                BY <2>4, <4>1
            <4>3. g[s] = f[Pick(s)] + G(Rest(s))[Rest(s)]
                BY <3>2
            <4> QED
                BY <3>2, <4>2, <4>3 DEF Body
        <3> QED
            BY <3>1, <3>2
    <2>6. g = [s \in SUBSET T |-> g[s]]
        OBVIOUS
    <2>7. IsSum(f, T, g)
        <3> HIDE DEF g
        <3> QED
            BY <2>5, <2>6 DEF IsSum
    <2> QED
        BY <2>1, <2>7
<1>2. \E g : IsSum(f, S, g)
    BY <1>1
<1> QED
    BY <1>2 DEF SumBy

\* The recursion equation of a sum.
LEMMA SumUnfolds ==
    ASSUME NEW f, NEW S, IsFiniteSet(S)
    PROVE  SumFunctionOnSet(f, S) =
              IF S = {} THEN 0 ELSE f[Pick(S)] + SumFunctionOnSet(f, Rest(S))
<1> DEFINE g == SumBy(f, S)
<1>1. IsSum(f, S, g)
    BY SumExists
<1>2. SumFunctionOnSet(f, S) = g[S] /\ g[S] = Body(f, g, S)
    BY <1>1, SumIsSumBy, SumAt
<1>3. CASE S = {}
    BY <1>2, <1>3 DEF Body
<1>4. CASE S # {}
    <2> DEFINE h == [s \in SUBSET Rest(S) |-> g[s]]
    <2>1. Rest(S) \in SUBSET S /\ IsFiniteSet(Rest(S))
        BY <1>4, RestIsSmaller, FS_Subset
    <2>2. IsSum(f, Rest(S), h) /\ IsSum(f, Rest(S), SumBy(f, Rest(S)))
        BY <1>1, <2>1, SumOfLess, SumExists
    <2>3. h = SumBy(f, Rest(S))
        BY <2>1, <2>2, SumIsUnique
    <2>4. g[Rest(S)] = SumFunctionOnSet(f, Rest(S))
        BY <2>3, SumIsSumBy
    <2> QED
        BY <1>2, <1>4, <2>4 DEF Body
<1> QED
    BY <1>3, <1>4

(***************************************************************************)
(* What sums are made of.                                                  *)
(***************************************************************************)

LEMMA SumOfNothing == ASSUME NEW f PROVE SumFunctionOnSet(f, {}) = 0
BY SumUnfolds, FS_EmptySet

LEMMA SumIsInteger ==
    ASSUME NEW f, NEW S, IsFiniteSet(S), \A x \in S : f[x] \in Int
    PROVE  SumFunctionOnSet(f, S) \in Int
<1> DEFINE B == {T \in SUBSET S : SumFunctionOnSet(f, T) \notin Int}
<1>1. ASSUME B # {} PROVE FALSE
    <2>1. PICK T \in B : \A U \in B : U \subseteq T => U = T
        <3>1. B \in SUBSET (SUBSET S)
            OBVIOUS
        <3> HIDE DEF B
        <3> QED
            BY <1>1, <3>1, SmallestSubset
    <2>2. T \in SUBSET S /\ IsFiniteSet(T)
        BY <2>1, FS_Subset
    <2>3. T # {}
        <3>1. SumFunctionOnSet(f, T) \notin Int
            BY <2>1
        <3> QED
            BY <3>1, SumOfNothing
    <2>4. Rest(T) \in SUBSET S /\ Rest(T) \notin B /\ Pick(T) \in S
        BY <2>1, <2>3, RestIsSmaller
    <2>5. SumFunctionOnSet(f, Rest(T)) \in Int /\ f[Pick(T)] \in Int
        BY <2>4
    <2> QED
        BY <2>1, <2>2, <2>3, <2>5, SumUnfolds
<1> QED
    BY <1>1

\* A sum does not depend on the order in which it is taken.
LEMMA SumWithout ==
    ASSUME NEW f, NEW S, IsFiniteSet(S), \A y \in S : f[y] \in Int, NEW x \in S
    PROVE  SumFunctionOnSet(f, S) = f[x] + SumFunctionOnSet(f, S \ {x})
<1> DEFINE B == {T \in SUBSET S : \E y \in T :
                    SumFunctionOnSet(f, T) # f[y] + SumFunctionOnSet(f, T \ {y})}
<1>1. ASSUME B # {} PROVE FALSE
    <2>1. PICK T \in B : \A U \in B : U \subseteq T => U = T
        <3>1. B \in SUBSET (SUBSET S)
            OBVIOUS
        <3> HIDE DEF B
        <3> QED
            BY <1>1, <3>1, SmallestSubset
    <2>2. T \in SUBSET S /\ IsFiniteSet(T)
        BY <2>1, FS_Subset
    <2>3. PICK y \in T : SumFunctionOnSet(f, T) # f[y] + SumFunctionOnSet(f, T \ {y})
        BY <2>1
    <2>4. PICK p \in T : SumFunctionOnSet(f, T) = f[p] + SumFunctionOnSet(f, T \ {p})
        BY <2>2, <2>3, RestIsSmaller, SumUnfolds DEF Rest
    <2>5. p # y
        BY <2>3, <2>4
    <2>6. ASSUME NEW U \in SUBSET T, U # T, NEW z \in U
          PROVE  SumFunctionOnSet(f, U) = f[z] + SumFunctionOnSet(f, U \ {z})
        <3>1. U \in SUBSET S /\ U \notin B
            BY <2>1, <2>2, <2>6
        <3> QED
            BY <3>1
    <2>7. SumFunctionOnSet(f, T \ {p}) = f[y] + SumFunctionOnSet(f, (T \ {p}) \ {y})
        <3>1. T \ {p} \in SUBSET T /\ T \ {p} # T /\ y \in T \ {p}
            BY <2>5
        <3> QED
            BY <2>6, <3>1
    <2>8. SumFunctionOnSet(f, T \ {y}) = f[p] + SumFunctionOnSet(f, (T \ {y}) \ {p})
        <3>1. T \ {y} \in SUBSET T /\ T \ {y} # T /\ p \in T \ {y}
            BY <2>5
        <3> QED
            BY <2>6, <3>1
    <2>9. (T \ {p}) \ {y} = (T \ {y}) \ {p}
        OBVIOUS
    <2> DEFINE most == SumFunctionOnSet(f, (T \ {y}) \ {p})
    <2>10. most \in Int /\ f[p] \in Int /\ f[y] \in Int
        <3>1. IsFiniteSet((T \ {y}) \ {p}) /\ (T \ {y}) \ {p} \subseteq S
            BY <2>2, FS_Subset
        <3> QED
            BY <2>2, <3>1, SumIsInteger
    <2> HIDE DEF most
    <2>11. /\ SumFunctionOnSet(f, T) = f[p] + (f[y] + most)
           /\ f[y] + SumFunctionOnSet(f, T \ {y}) = f[y] + (f[p] + most)
        BY <2>4, <2>7, <2>8, <2>9 DEF most
    <2> QED
        BY <2>3, <2>10, <2>11
<1>2. S \in SUBSET S /\ S \notin B
    BY <1>1
<1> QED
    BY <1>2

\* Two functions that agree on a set have the same sum over it.
LEMMA SumOfEquals ==
    ASSUME NEW f, NEW g, NEW S, IsFiniteSet(S), \A x \in S : f[x] = g[x]
    PROVE  SumFunctionOnSet(f, S) = SumFunctionOnSet(g, S)
<1> DEFINE B == {T \in SUBSET S : SumFunctionOnSet(f, T) # SumFunctionOnSet(g, T)}
<1>1. ASSUME B # {} PROVE FALSE
    <2>1. PICK T \in B : \A U \in B : U \subseteq T => U = T
        <3>1. B \in SUBSET (SUBSET S)
            OBVIOUS
        <3> HIDE DEF B
        <3> QED
            BY <1>1, <3>1, SmallestSubset
    <2>2. T \in SUBSET S /\ IsFiniteSet(T)
        BY <2>1, FS_Subset
    <2>3. T # {}
        <3>1. SumFunctionOnSet(f, T) # SumFunctionOnSet(g, T)
            BY <2>1
        <3> QED
            BY <3>1, SumOfNothing
    <2>4. Rest(T) \in SUBSET S /\ Rest(T) \notin B /\ Pick(T) \in S
        BY <2>1, <2>3, RestIsSmaller
    <2>5. SumFunctionOnSet(f, Rest(T)) = SumFunctionOnSet(g, Rest(T)) /\ f[Pick(T)] = g[Pick(T)]
        BY <2>4
    <2> QED
        BY <2>1, <2>2, <2>3, <2>5, SumUnfolds
<1> QED
    BY <1>1

LEMMA SumOfOne ==
    ASSUME NEW f, NEW x, f[x] \in Int
    PROVE  SumFunctionOnSet(f, {x}) = f[x]
<1>1. IsFiniteSet({x}) /\ {x} \ {x} = {}
    BY FS_Singleton
<1> QED
    BY <1>1, SumWithout, SumOfNothing

LEMMA SumOfUnion ==
    ASSUME NEW f, NEW S, IsFiniteSet(S), NEW T, IsFiniteSet(T), S \cap T = {},
           \A x \in S \cup T : f[x] \in Int
    PROVE  SumFunctionOnSet(f, S \cup T) = SumFunctionOnSet(f, S) + SumFunctionOnSet(f, T)
<1> DEFINE B == {A \in SUBSET S : SumFunctionOnSet(f, A \cup T)
                                     # SumFunctionOnSet(f, A) + SumFunctionOnSet(f, T)}
<1>1. ASSUME B # {} PROVE FALSE
    <2>1. PICK A \in B : \A U \in B : U \subseteq A => U = A
        <3>1. B \in SUBSET (SUBSET S)
            OBVIOUS
        <3> HIDE DEF B
        <3> QED
            BY <1>1, <3>1, SmallestSubset
    <2>2. A \in SUBSET S /\ IsFiniteSet(A) /\ IsFiniteSet(A \cup T)
        BY <2>1, FS_Subset, FS_Union
    <2>3. SumFunctionOnSet(f, T) \in Int
        BY SumIsInteger
    <2>4. PICK x : x \in A
        <3>1. SumFunctionOnSet(f, A \cup T) # SumFunctionOnSet(f, A) + SumFunctionOnSet(f, T)
            BY <2>1
        <3>2. SumFunctionOnSet(f, {}) = 0 /\ {} \cup T = T
            BY SumOfNothing
        <3> HIDE DEF B
        <3>3. A # {}
            BY <2>3, <3>1, <3>2
        <3> QED
            BY <3>3
    <2>5. A \ {x} \in SUBSET S /\ A \ {x} \notin B
        BY <2>1, <2>2, <2>4
    <2>6. /\ SumFunctionOnSet(f, (A \ {x}) \cup T)
                = SumFunctionOnSet(f, A \ {x}) + SumFunctionOnSet(f, T)
          /\ (A \cup T) \ {x} = (A \ {x}) \cup T
        BY <2>2, <2>4, <2>5
    <2>7. /\ SumFunctionOnSet(f, A) = f[x] + SumFunctionOnSet(f, A \ {x})
          /\ SumFunctionOnSet(f, A \cup T) = f[x] + SumFunctionOnSet(f, (A \cup T) \ {x})
        BY <2>2, <2>4, SumWithout
    <2>8. SumFunctionOnSet(f, A \ {x}) \in Int /\ f[x] \in Int
        <3>1. IsFiniteSet(A \ {x}) /\ A \ {x} \subseteq S
            BY <2>2, FS_Subset
        <3> QED
            BY <2>2, <2>4, <3>1, SumIsInteger
    <2>9. SumFunctionOnSet(f, A \cup T) = f[x] + (SumFunctionOnSet(f, A \ {x}) + SumFunctionOnSet(f, T))
        BY <2>6, <2>7
    <2>10. SumFunctionOnSet(f, A \cup T) # SumFunctionOnSet(f, A) + SumFunctionOnSet(f, T)
        BY <2>1
    <2> HIDE DEF B
    <2> QED
        BY <2>3, <2>7, <2>8, <2>9, <2>10
<1>2. S \in SUBSET S /\ S \notin B
    BY <1>1
<1> QED
    BY <1>2

LEMMA SumIsNatural ==
    ASSUME NEW f, NEW S, IsFiniteSet(S), \A x \in S : f[x] \in Nat
    PROVE  SumFunctionOnSet(f, S) \in Nat
<1> DEFINE B == {T \in SUBSET S : SumFunctionOnSet(f, T) \notin Nat}
<1>1. ASSUME B # {} PROVE FALSE
    <2>1. PICK T \in B : \A U \in B : U \subseteq T => U = T
        <3>1. B \in SUBSET (SUBSET S)
            OBVIOUS
        <3> HIDE DEF B
        <3> QED
            BY <1>1, <3>1, SmallestSubset
    <2>2. T \in SUBSET S /\ IsFiniteSet(T)
        BY <2>1, FS_Subset
    <2>3. T # {}
        <3>1. SumFunctionOnSet(f, T) \notin Nat
            BY <2>1
        <3>2. SumFunctionOnSet(f, {}) = 0
            BY SumOfNothing
        <3> HIDE DEF B
        <3> QED
            BY <3>1, <3>2
    <2>4. Rest(T) \in SUBSET S /\ Rest(T) \notin B /\ Pick(T) \in S
        BY <2>1, <2>3, RestIsSmaller
    <2>5. SumFunctionOnSet(f, Rest(T)) \in Nat /\ f[Pick(T)] \in Nat
        BY <2>4
    <2> QED
        BY <2>1, <2>2, <2>3, <2>5, SumUnfolds
<1> QED
    BY <1>1

LEMMA SumOfPart ==
    ASSUME NEW f, NEW S, IsFiniteSet(S), \A x \in S : f[x] \in Nat, NEW T \in SUBSET S
    PROVE  SumFunctionOnSet(f, T) <= SumFunctionOnSet(f, S)
<1>1. IsFiniteSet(T) /\ IsFiniteSet(S \ T) /\ T \cup (S \ T) = S /\ T \cap (S \ T) = {}
    BY FS_Subset
<1>2. SumFunctionOnSet(f, T) \in Nat /\ SumFunctionOnSet(f, S \ T) \in Nat
    BY <1>1, SumIsNatural
<1>3. SumFunctionOnSet(f, T \cup (S \ T)) = SumFunctionOnSet(f, T) + SumFunctionOnSet(f, S \ T)
    BY <1>1, SumOfUnion
<1>4. SumFunctionOnSet(f, S) = SumFunctionOnSet(f, T) + SumFunctionOnSet(f, S \ T)
    BY <1>1, <1>3, Zenon
<1> QED
    BY <1>2, <1>4

\* Sums of differences.
LEMMA SumOfDifferences ==
    ASSUME NEW f, NEW g, NEW h, NEW S, IsFiniteSet(S),
           \A x \in S : f[x] \in Int /\ g[x] \in Int /\ h[x] = f[x] - g[x]
    PROVE  SumFunctionOnSet(h, S) = SumFunctionOnSet(f, S) - SumFunctionOnSet(g, S)
<1> DEFINE B == {T \in SUBSET S : SumFunctionOnSet(h, T)
                                     # SumFunctionOnSet(f, T) - SumFunctionOnSet(g, T)}
<1>1. ASSUME B # {} PROVE FALSE
    <2>1. PICK T \in B : \A U \in B : U \subseteq T => U = T
        <3>1. B \in SUBSET (SUBSET S)
            OBVIOUS
        <3> HIDE DEF B
        <3> QED
            BY <1>1, <3>1, SmallestSubset
    <2>2. /\ T \in SUBSET S /\ IsFiniteSet(T)
          /\ SumFunctionOnSet(h, T) # SumFunctionOnSet(f, T) - SumFunctionOnSet(g, T)
        BY <2>1, FS_Subset
    <2>3. T # {}
        <3>1. /\ SumFunctionOnSet(f, {}) = 0 /\ SumFunctionOnSet(g, {}) = 0
              /\ SumFunctionOnSet(h, {}) = 0
            BY SumOfNothing
        <3> HIDE DEF B
        <3> SUFFICES ASSUME T = {} PROVE FALSE
            OBVIOUS
        <3>2. SumFunctionOnSet(f, T) = 0 /\ SumFunctionOnSet(g, T) = 0 /\ SumFunctionOnSet(h, T) = 0
            BY <3>1
        <3> QED
            BY <2>2, <3>2
    <2>4. Rest(T) \in SUBSET S /\ Rest(T) \notin B /\ Pick(T) \in S /\ IsFiniteSet(Rest(T))
        BY <2>1, <2>2, <2>3, RestIsSmaller, FS_Subset
    <2>5. SumFunctionOnSet(h, Rest(T)) = SumFunctionOnSet(f, Rest(T)) - SumFunctionOnSet(g, Rest(T))
        BY <2>4
    <2>6. SumFunctionOnSet(f, Rest(T)) \in Int /\ SumFunctionOnSet(g, Rest(T)) \in Int
        BY <2>4, SumIsInteger
    <2>7. /\ SumFunctionOnSet(f, T) = f[Pick(T)] + SumFunctionOnSet(f, Rest(T))
          /\ SumFunctionOnSet(g, T) = g[Pick(T)] + SumFunctionOnSet(g, Rest(T))
          /\ SumFunctionOnSet(h, T) = h[Pick(T)] + SumFunctionOnSet(h, Rest(T))
        BY <2>2, <2>3, SumUnfolds
    <2>8. f[Pick(T)] \in Int /\ g[Pick(T)] \in Int /\ h[Pick(T)] = f[Pick(T)] - g[Pick(T)]
        BY <2>4
    <2> HIDE DEF B
    <2> QED
        BY <2>2, <2>5, <2>6, <2>7, <2>8
<1>2. S \in SUBSET S /\ S \notin B
    BY <1>1
<1> QED
    BY <1>2

\* The sums over the parts of a set add up to that over the set.
LEMMA SumOfParts ==
    ASSUME NEW f, NEW U, IsFiniteSet(U), \A y \in U : f[y] \in Int,
           NEW S, IsFiniteSet(S), NEW part \in [S -> SUBSET U],
           \A x, y \in S : x # y => part[x] \cap part[y] = {},
           NEW g, \A x \in S : g[x] = SumFunctionOnSet(f, part[x])
    PROVE  SumFunctionOnSet(g, S) = SumFunctionOnSet(f, UNION {part[x] : x \in S})
<1> DEFINE Whole(T) == UNION {part[x] : x \in T}
           B == {T \in SUBSET S : SumFunctionOnSet(g, T) # SumFunctionOnSet(f, Whole(T))}
<1>1. ASSUME B # {} PROVE FALSE
    <2>1. PICK T \in B : \A V \in B : V \subseteq T => V = T
        <3>1. B \in SUBSET (SUBSET S)
            OBVIOUS
        <3> HIDE DEF B
        <3> QED
            BY <1>1, <3>1, SmallestSubset
    <2>2. /\ T \in SUBSET S /\ IsFiniteSet(T)
          /\ SumFunctionOnSet(g, T) # SumFunctionOnSet(f, Whole(T))
        BY <2>1, FS_Subset
    <2>3. T # {}
        <3>1. SumFunctionOnSet(f, {}) = 0 /\ SumFunctionOnSet(g, {}) = 0 /\ Whole({}) = {}
            BY SumOfNothing
        <3> HIDE DEF B, Whole
        <3> QED
            BY <2>2, <3>1
    <2> DEFINE p == Pick(T)
               R == Rest(T)
    <2>4. R \in SUBSET S /\ R \notin B /\ p \in S /\ p \notin R /\ T = R \cup {p}
        BY <2>1, <2>2, <2>3, RestIsSmaller
    <2>5. SumFunctionOnSet(g, R) = SumFunctionOnSet(f, Whole(R))
        BY <2>4
    <2>6. SumFunctionOnSet(g, T) = g[p] + SumFunctionOnSet(g, R)
        BY <2>2, <2>3, SumUnfolds
    <2> HIDE DEF p, R, B
    <2>7. /\ Whole(T) = Whole(R) \cup part[p] /\ Whole(R) \cap part[p] = {}
          /\ Whole(R) \subseteq U /\ part[p] \subseteq U
        BY <2>4
    <2> HIDE DEF Whole
    <2>8. IsFiniteSet(Whole(R)) /\ IsFiniteSet(part[p])
        BY <2>7, FS_Subset
    <2>9. SumFunctionOnSet(f, Whole(R) \cup part[p])
             = SumFunctionOnSet(f, Whole(R)) + SumFunctionOnSet(f, part[p])
        BY <2>7, <2>8, SumOfUnion
    <2>10. SumFunctionOnSet(f, Whole(R)) \in Int /\ SumFunctionOnSet(f, part[p]) \in Int
        BY <2>7, <2>8, SumIsInteger
    <2>11. g[p] = SumFunctionOnSet(f, part[p])
        BY <2>4
    <2> QED
        BY <2>2, <2>5, <2>6, <2>7, <2>9, <2>10, <2>11
<1>2. S \in SUBSET S /\ S \notin B
    BY <1>1
<1> QED
    BY <1>2

\* A sum over the values of an injection is one over its arguments.
LEMMA SumOverValues ==
    ASSUME NEW f, NEW S, IsFiniteSet(S), NEW g, NEW h,
           \A x, y \in S : x # y => h[x] # h[y],
           \A x \in S : f[h[x]] \in Int /\ g[x] = f[h[x]]
    PROVE  SumFunctionOnSet(f, {h[x] : x \in S}) = SumFunctionOnSet(g, S)
<1> DEFINE Image(T) == {h[x] : x \in T}
           B == {T \in SUBSET S : SumFunctionOnSet(f, Image(T)) # SumFunctionOnSet(g, T)}
<1>1. ASSUME B # {} PROVE FALSE
    <2>1. PICK T \in B : \A V \in B : V \subseteq T => V = T
        <3>1. B \in SUBSET (SUBSET S)
            OBVIOUS
        <3> HIDE DEF B
        <3> QED
            BY <1>1, <3>1, SmallestSubset
    <2>2. /\ T \in SUBSET S /\ IsFiniteSet(T) /\ IsFiniteSet(Image(T))
          /\ SumFunctionOnSet(f, Image(T)) # SumFunctionOnSet(g, T)
        <3>1. T \in SUBSET S /\ IsFiniteSet(T)
              /\ SumFunctionOnSet(f, Image(T)) # SumFunctionOnSet(g, T)
            BY <2>1, FS_Subset
        <3>2. IsFiniteSet(Image(T))
            <4> DEFINE k == [x \in T |-> h[x]]
            <4>1. k \in Surjection(T, Image(T))
                BY DEF Surjection
            <4> QED
                BY <3>1, <4>1, FS_Surjection
        <3> QED
            BY <3>1, <3>2
    <2>3. T # {}
        <3>1. SumFunctionOnSet(f, {}) = 0 /\ SumFunctionOnSet(g, {}) = 0 /\ Image({}) = {}
            BY SumOfNothing
        <3> HIDE DEF B, Image
        <3> QED
            BY <2>2, <3>1
    <2> DEFINE p == Pick(T)
               R == Rest(T)
    <2>4. R \in SUBSET S /\ R \notin B /\ p \in S /\ p \notin R /\ T = R \cup {p}
        BY <2>1, <2>2, <2>3, RestIsSmaller
    <2>5. SumFunctionOnSet(f, Image(R)) = SumFunctionOnSet(g, R)
        BY <2>4
    <2>6. SumFunctionOnSet(g, T) = g[p] + SumFunctionOnSet(g, R)
        BY <2>2, <2>3, SumUnfolds
    <2> HIDE DEF p, R, B
    <2>7. /\ h[p] \in Image(T) /\ Image(T) \ {h[p]} = Image(R)
          /\ \A y \in Image(T) : f[y] \in Int
        BY <2>2, <2>4
    <2> HIDE DEF Image
    <2>8. SumFunctionOnSet(f, Image(T)) = f[h[p]] + SumFunctionOnSet(f, Image(T) \ {h[p]})
        BY <2>2, <2>7, SumWithout
    <2> QED
        BY <2>2, <2>4, <2>5, <2>6, <2>7, <2>8
<1>2. S \in SUBSET S /\ S \notin B
    BY <1>1
<1> QED
    BY <1>2

\* Sums over a function's domain.
LEMMA SumOverDomain ==
    ASSUME NEW f, NEW S, IsFiniteSet(S), NEW g, DOMAIN g = S, \A x \in S : g[x] = f[x]
    PROVE  SumFunction(g) = SumFunctionOnSet(f, S)
BY SumOfEquals DEF SumFunction

LEMMA HasSmallestPart ==
    ASSUME NEW S, IsFiniteSet(S), S # {}, NEW part \in [S -> SUBSET S]
    PROVE  \E x \in S : \A y \in S : part[y] \subseteq part[x] => part[y] = part[x]
<1> DEFINE B == {part[x] : x \in S}
<1>1. B \in SUBSET (SUBSET S) /\ B # {}
    OBVIOUS
<1>2. \E T \in B : \A U \in B : U \subseteq T => U = T
    <2> HIDE DEF B
    <2> QED
        BY <1>1, SmallestSubset
<1> QED
    BY <1>2

\* A finite set of integers has a greatest member.
LEMMA HasGreatest ==
    \A S : IsFiniteSet(S) /\ S # {} /\ S \subseteq Int => \E x \in S : \A y \in S : x >= y
<1>1. ASSUME NEW S, IsFiniteSet(S) /\ S # {}, S \subseteq Int
      PROVE  \E x \in S : \A y \in S : x >= y
    <2> DEFINE part == [i \in S |-> {j \in S : j >= i}]
    <2>1. IsFiniteSet(S) /\ S # {} /\ part \in [S -> SUBSET S]
        BY <1>1
    <2>2. \A i \in S : part[i] = {j \in S : j >= i}
        OBVIOUS
    <2> HIDE DEF part
    <2>3. PICK x \in S : \A y \in S : part[y] \subseteq part[x] => part[y] = part[x]
        BY <2>1, HasSmallestPart
    <2>4. ASSUME NEW y \in S, ~(x >= y) PROVE FALSE
        <3>1. x \in Int /\ y \in Int /\ x < y
            BY <1>1, <2>4
        <3>2. x \in part[x] /\ x \notin part[y]
            BY <2>2, <3>1
        <3>3. \A z \in part[y] : z \in S /\ z >= y
            BY <2>2
        <3>4. \A z \in S : z >= y => z >= x
            BY <1>1, <3>1
        <3>5. \A z \in S : z >= x => z \in part[x]
            BY <2>2
        <3>6. part[y] \subseteq part[x]
            BY <3>3, <3>4, <3>5
        <3> QED
            BY <2>3, <3>2, <3>6
    <2> QED
        BY <2>4
<1> QED
    BY <1>1

\* What adds up over disjoint sets is the sum of its values for the single elements.
LEMMA SumOfAdditive ==
    ASSUME NEW S, IsFiniteSet(S), NEW F, \A T \in SUBSET S : F[T] \in Int,
           F[{}] = 0,
           \A x \in S : \A T \in SUBSET S : x \notin T => F[T \cup {x}] = F[T] + F[{x}],
           NEW g, \A x \in S : g[x] = F[{x}]
    PROVE  SumFunctionOnSet(g, S) = F[S]
<1> DEFINE Bad == {T \in SUBSET S : SumFunctionOnSet(g, T) # F[T]}
<1>1. SUFFICES ASSUME Bad # {} PROVE FALSE
    OBVIOUS
<1>2. PICK T \in Bad : \A U \in Bad : U \subseteq T => U = T
    <2>1. Bad \in SUBSET (SUBSET S)
        OBVIOUS
    <2> HIDE DEF Bad
    <2> QED
        BY <1>1, <2>1, SmallestSubset
<1>3. T \in SUBSET S /\ IsFiniteSet(T) /\ \A x \in T : g[x] \in Int /\ g[x] = F[{x}]
    BY <1>2, FS_Subset
<1>4. PICK x : x \in T
    <2>1. T # {}
        BY <1>2, SumOfNothing
    <2> QED
        BY <2>1
<1>5. T \ {x} \in SUBSET S /\ SumFunctionOnSet(g, T \ {x}) = F[T \ {x}]
    BY <1>2, <1>3, <1>4
<1>6. SumFunctionOnSet(g, T) = g[x] + SumFunctionOnSet(g, T \ {x})
    <2>1. IsFiniteSet(T) /\ \A y \in T : g[y] \in Int
        BY <1>3
    <2> HIDE DEF Bad
    <2> QED
        BY <2>1, <1>4, SumWithout
<1>7. F[T] = F[T \ {x}] + F[{x}]
    <2>1. (T \ {x}) \cup {x} = T
        BY <1>4
    <2> QED
        BY <2>1, <1>3, <1>4, <1>5
<1>8. F[T \ {x}] \in Int /\ F[{x}] \in Int
    BY <1>3, <1>4, <1>5
<1> QED
    BY <1>2, <1>3, <1>4, <1>5, <1>6, <1>7, <1>8

\* A sum of terms that are no greater is no greater.
LEMMA SumOfNoMore ==
    ASSUME NEW f, NEW g, NEW S, IsFiniteSet(S),
           \A x \in S : f[x] \in Nat /\ g[x] \in Nat /\ f[x] <= g[x]
    PROVE  SumFunctionOnSet(f, S) <= SumFunctionOnSet(g, S)
<1> DEFINE h == [x \in S |-> g[x] - f[x]]
<1>1. \A x \in S : g[x] \in Int /\ f[x] \in Int /\ h[x] = g[x] - f[x] /\ h[x] \in Nat
    OBVIOUS
<1> HIDE DEF h
<1>2. SumFunctionOnSet(h, S) = SumFunctionOnSet(g, S) - SumFunctionOnSet(f, S)
    BY <1>1, SumOfDifferences
<1>3. SumFunctionOnSet(h, S) \in Nat
    BY <1>1, SumIsNatural
<1>4. SumFunctionOnSet(g, S) \in Nat /\ SumFunctionOnSet(f, S) \in Nat
    BY SumIsNatural
<1> QED
    BY <1>2, <1>3, <1>4

\* The image of a finite set is finite.
LEMMA ImageIsFinite ==
    ASSUME NEW S, IsFiniteSet(S), NEW f PROVE IsFiniteSet({f[x] : x \in S})
<1> DEFINE T == {f[x] : x \in S}  g == [x \in S |-> f[x]]
<1>1. g \in Surjection(S, T)
    BY DEF Surjection
<1> QED
    BY <1>1, FS_Surjection

\* Induction over a set of natural numbers.
LEMMA NaturalInduction ==
    ASSUME NEW P, 0 \in P, \A n \in Nat : n \in P => n + 1 \in P
    PROVE  \A n \in Nat : n \in P
<1>1. SUFFICES ASSUME NEW m \in Nat, m \notin P PROVE FALSE
    OBVIOUS
<1> DEFINE G == {k \in 0 .. m : \A j \in 0 .. k : j \in P}
<1>2. G \subseteq Int /\ 0 \in G /\ IsFiniteSet(G)
    <2>1. G \subseteq 0 .. m /\ 0 \in G
        OBVIOUS
    <2>2. IsFiniteSet(0 .. m)
        BY FS_Interval
    <2> QED
        BY <2>1, <2>2, FS_Subset
<1>3. PICK x \in G : \A y \in G : x >= y
    <2> HIDE DEF G
    <2> QED
        BY <1>2, HasGreatest
<1>4. x + 1 \in P /\ x < m
    BY <1>1, <1>3
<1>5. x + 1 \in G
    BY <1>3, <1>4
<1> QED
    BY <1>3, <1>5
=============================================================================
