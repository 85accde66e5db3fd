-------------------------------- MODULE Sums --------------------------------
(***************************************************************************)
(* Sums over finite sets: what MapThenSumSet, which the models add up      *)
(* with, returns. The library states no theorem about its folds, and one   *)
(* by induction on a set would need an operator for a parameter. A least   *)
(* counterexample does without: among the subsets of a finite set where    *)
(* something fails one is minimal (Minimal); the lemmas look at that one.  *)
(***************************************************************************)
EXTENDS Functions, FiniteSetsExt, FiniteSetTheorems, WellFoundedInduction, TLAPS

\* The sum of f over S, as the models write it.
SumOf(f, S) == MapThenSumSet(LAMBDA x : f[x], S)

\* Of some subsets of a finite set, one has no other of them inside it.
LEMMA Minimal ==
  ASSUME NEW S, IsFiniteSet(S), NEW Bad, Bad \subseteq SUBSET S, Bad # {}
  PROVE  \E T \in Bad : \A U \in SUBSET T : U # T => U \notin Bad
<1>1. IsWellFoundedOn(StrictSubsetOrdering(S), SUBSET S)
  BY FS_StrictSubsetOrderingWellFounded, FS_FiniteSubsetsOfFinite
<1>2. PICK T \in Bad : \A U \in Bad : ~(<<U, T>> \in StrictSubsetOrdering(S))
  BY <1>1, WFMin
<1>. QED  BY <1>2 DEF StrictSubsetOrdering

\* The recursive function inside of MapThenSumSet: g sums f over every subset of S.
IsSum(g, f, S) ==
  g = [s \in SUBSET S |-> IF s = {} THEN 0 ELSE LET x == CHOOSE x \in s : TRUE IN f[x] + g[s \ {x}]]

\* The element that it takes away first.
Pick(s) == CHOOSE x \in s : TRUE

\* The sum is what such a function, if there is one, says of S.
LEMMA SumDef ==
  ASSUME NEW f, NEW S
  PROVE  SumOf(f, S) = (CHOOSE g : IsSum(g, f, S))[S]
BY DEF SumOf, MapThenSumSet, MapThenFoldSet, IsSum

\* One step of such a function.
LEMMA SumStep ==
  ASSUME NEW g, NEW f, NEW S, IsSum(g, f, S), NEW s \in SUBSET S
  PROVE  g[s] = IF s = {} THEN 0 ELSE f[Pick(s)] + g[s \ {Pick(s)}]
<1>1. g = [t \in SUBSET S |-> IF t = {} THEN 0 ELSE f[Pick(t)] + g[t \ {Pick(t)}]]
  BY DEF IsSum, Pick
<1>. QED  BY <1>1

\* What is taken away was in the set.
LEMMA PickIn == ASSUME NEW s, s # {} PROVE Pick(s) \in s
BY DEF Pick

\* Two such functions agree where both are defined.
LEMMA SumUnique ==
  ASSUME NEW f, NEW S, IsFiniteSet(S), NEW T, NEW g, NEW h, IsSum(g, f, S), IsSum(h, f, T),
         NEW V \in SUBSET S, V \in SUBSET T
  PROVE  g[V] = h[V]
<1>. DEFINE Bad == {U \in SUBSET V : g[U] # h[U]}
<1>. SUFFICES ASSUME Bad # {} PROVE FALSE
  OBVIOUS
<1>1. PICK U \in Bad : \A W \in SUBSET U : W # U => W \notin Bad
  <2>1. IsFiniteSet(V)  BY FS_Subset
  <2>2. Bad \subseteq SUBSET V  OBVIOUS
  <2>. HIDE DEF Bad
  <2>. QED  BY <2>1, <2>2, Minimal
<1>2. CASE U = {}
  BY <1>2, SumStep
<1>3. CASE U # {}
  <2>1. Pick(U) \in U  BY <1>3, PickIn
  <2>2. g[U \ {Pick(U)}] = h[U \ {Pick(U)}]
    BY <1>1, <2>1
  <2>3. U \in SUBSET S /\ U \in SUBSET T  BY <1>1
  <2>4. g[U] = f[Pick(U)] + g[U \ {Pick(U)}]
    BY <1>3, <2>3, SumStep
  <2>5. h[U] = f[Pick(U)] + h[U \ {Pick(U)}]
    BY <1>3, <2>3, SumStep
  <2>. QED  BY <1>1, <2>2, <2>4, <2>5
<1>. QED  BY <1>2, <1>3

\* There is one, for every finite set.
LEMMA SumExists ==
  ASSUME NEW f, NEW S, IsFiniteSet(S)
  PROVE  \E g : IsSum(g, f, S)
<1>. DEFINE Bad == {T \in SUBSET S : ~\E g : IsSum(g, f, T)}
<1>. SUFFICES ASSUME Bad # {} PROVE FALSE
  OBVIOUS
<1>1. PICK T \in Bad : \A U \in SUBSET T : U # T => U \notin Bad
  <2>1. Bad \subseteq SUBSET S  OBVIOUS
  <2>. HIDE DEF Bad
  <2>. QED  BY <2>1, Minimal
<1>. DEFINE G(s) == CHOOSE g : IsSum(g, f, s)
            Next(s) == IF s = {} THEN 0 ELSE f[Pick(s)] + G(s \ {Pick(s)})[s \ {Pick(s)}]
            h == [s \in SUBSET T |-> Next(s)]
<1>. HIDE DEF Next
<1>2. ASSUME NEW s \in SUBSET T, s # T
      PROVE  IsSum(G(s), f, s)
  <2>1. \E g : IsSum(g, f, s)  BY <1>1, <1>2
  <2>. QED  BY <2>1
<1>3. ASSUME NEW s \in SUBSET T, s # T
      PROVE  h[s] = G(s)[s]
  <2>0. IsSum(G(s), f, s)  BY <1>2, <1>3
  <2>. HIDE DEF G
  <2>1. G(s)[s] = IF s = {} THEN 0 ELSE f[Pick(s)] + G(s)[s \ {Pick(s)}]
    BY <2>0, SumStep
  <2>2. ASSUME s # {}
        PROVE  G(s)[s \ {Pick(s)}] = G(s \ {Pick(s)})[s \ {Pick(s)}]
    <3>1. s \ {Pick(s)} # T /\ s \ {Pick(s)} \in SUBSET T  BY <2>2, PickIn
    <3>2. IsSum(G(s \ {Pick(s)}), f, s \ {Pick(s)})  BY <1>2, <3>1
    <3>3. IsFiniteSet(s)  BY FS_Subset
    <3>. QED  BY <2>0, <3>2, <3>3, SumUnique
  <2>. QED  BY <2>1, <2>2 DEF Next
<1>4. IsSum(h, f, T)
  <2>1. ASSUME NEW s \in SUBSET T
        PROVE  Next(s) = IF s = {} THEN 0 ELSE f[Pick(s)] + h[s \ {Pick(s)}]
    <3>1. CASE s = {}  BY <3>1 DEF Next
    <3>2. CASE s # {}
      <4>1. s \ {Pick(s)} # T /\ s \ {Pick(s)} \in SUBSET T  BY <3>2, PickIn
      <4>. HIDE DEF G, h
      <4>. QED  BY <3>2, <4>1, <1>3 DEF Next
    <3>. QED  BY <3>1, <3>2
  <2>2. h = [s \in SUBSET T |-> IF s = {} THEN 0 ELSE f[Pick(s)] + h[s \ {Pick(s)}]]
    BY <2>1
  <2>. QED  BY <2>2 DEF IsSum, Pick
<1>. QED  BY <1>1, <1>4

\* So the sum is what any of them says.
LEMMA SumIsSum ==
  ASSUME NEW f, NEW S, IsFiniteSet(S), NEW g, IsSum(g, f, S)
  PROVE  SumOf(f, S) = g[S]
<1>1. IsSum(CHOOSE x : IsSum(x, f, S), f, S)
  BY SumExists
<1>. QED  BY <1>1, SumDef, SumUnique

\* And it can be computed one element at a time.
LEMMA SumRec ==
  ASSUME NEW f, NEW S, IsFiniteSet(S)
  PROVE  SumOf(f, S) = IF S = {} THEN 0 ELSE f[Pick(S)] + SumOf(f, S \ {Pick(S)})
<1>1. PICK g : IsSum(g, f, S)  BY SumExists
<1>2. SumOf(f, S) = g[S]  BY <1>1, SumIsSum
<1>3. CASE S = {}  BY <1>1, <1>2, <1>3, SumStep
<1>4. CASE S # {}
  <2>1. S \ {Pick(S)} \in SUBSET S /\ IsFiniteSet(S \ {Pick(S)})  BY FS_Subset
  <2>2. PICK h : IsSum(h, f, S \ {Pick(S)})  BY <2>1, SumExists
  <2>3. SumOf(f, S \ {Pick(S)}) = h[S \ {Pick(S)}]  BY <2>1, <2>2, SumIsSum
  <2>4. g[S \ {Pick(S)}] = h[S \ {Pick(S)}]
    <3>. DEFINE R == S \ {Pick(S)}
    <3>1. R \in SUBSET S /\ R \in SUBSET R /\ IsSum(h, f, R)  BY <2>2
    <3>. HIDE DEF R
    <3>2. g[R] = h[R]  BY <1>1, <3>1, SumUnique
    <3>. QED  BY <3>2 DEF R
  <2>. QED  BY <1>1, <1>2, <1>4, <2>3, <2>4, SumStep
<1>. QED  BY <1>3, <1>4

\* The sum over nothing.
LEMMA SumEmpty == ASSUME NEW f PROVE SumOf(f, {}) = 0
BY SumRec, FS_EmptySet

\* A sum of integers is an integer.
LEMMA SumInt ==
  ASSUME NEW f, NEW S, IsFiniteSet(S), \A x \in S : f[x] \in Int
  PROVE  SumOf(f, S) \in Int
<1>. DEFINE Bad == {T \in SUBSET S : SumOf(f, T) \notin Int}
<1>. SUFFICES ASSUME Bad # {} PROVE FALSE
  OBVIOUS
<1>1. PICK T \in Bad : \A U \in SUBSET T : U # T => U \notin Bad
  <2>1. Bad \subseteq SUBSET S  OBVIOUS
  <2>. HIDE DEF Bad
  <2>. QED  BY <2>1, Minimal
<1>2. IsFiniteSet(T)  BY FS_Subset
<1>3. T # {}  BY SumEmpty
<1>4. Pick(T) \in T  BY <1>3, PickIn
<1>5. SumOf(f, T \ {Pick(T)}) \in Int  BY <1>1, <1>4
<1>6. SumOf(f, T) = f[Pick(T)] + SumOf(f, T \ {Pick(T)})  BY <1>2, <1>3, SumRec
<1>. QED  BY <1>4, <1>5, <1>6

\* A sum of naturals is a natural.
LEMMA SumNat ==
  ASSUME NEW f, NEW S, IsFiniteSet(S), \A x \in S : f[x] \in Nat
  PROVE  SumOf(f, S) \in Nat
<1>. DEFINE Bad == {T \in SUBSET S : SumOf(f, T) \notin Nat}
<1>. SUFFICES ASSUME Bad # {} PROVE FALSE
  OBVIOUS
<1>1. PICK T \in Bad : \A U \in SUBSET T : U # T => U \notin Bad
  <2>1. Bad \subseteq SUBSET S  OBVIOUS
  <2>. HIDE DEF Bad
  <2>. QED  BY <2>1, Minimal
<1>2. IsFiniteSet(T)  BY FS_Subset
<1>3. T # {}  BY SumEmpty
<1>4. Pick(T) \in T  BY <1>3, PickIn
<1>5. SumOf(f, T \ {Pick(T)}) \in Nat  BY <1>1, <1>4
<1>6. SumOf(f, T) = f[Pick(T)] + SumOf(f, T \ {Pick(T)})  BY <1>2, <1>3, SumRec
<1>. QED  BY <1>4, <1>5, <1>6

\* Any element can be taken away first.
LEMMA SumRemove ==
  ASSUME NEW f, NEW S, IsFiniteSet(S), \A x \in S : f[x] \in Int, NEW x \in S
  PROVE  SumOf(f, S) = f[x] + SumOf(f, S \ {x})
<1>. DEFINE Bad == {T \in SUBSET S : \E y \in T : SumOf(f, T) # f[y] + SumOf(f, T \ {y})}
<1>. SUFFICES ASSUME Bad # {} PROVE FALSE
  OBVIOUS
<1>1. PICK T \in Bad : \A U \in SUBSET T : U # T => U \notin Bad
  <2>1. Bad \subseteq SUBSET S  OBVIOUS
  <2>. HIDE DEF Bad
  <2>. QED  BY <2>1, Minimal
<1>2. PICK y \in T : SumOf(f, T) # f[y] + SumOf(f, T \ {y})
  BY <1>1
<1>. DEFINE p == Pick(T)
<1>3. p \in T  BY PickIn
<1>4. SumOf(f, T) = f[p] + SumOf(f, T \ {p})
  BY SumRec, FS_Subset
<1>5. p # y  BY <1>2, <1>4
<1>. HIDE DEF p
<1>6. T \ {p} \notin Bad /\ T \ {y} \notin Bad
  BY <1>1, <1>2, <1>3
<1>7. SumOf(f, T \ {p}) = f[y] + SumOf(f, (T \ {p}) \ {y})
  BY <1>1, <1>2, <1>3, <1>5, <1>6
<1>8. SumOf(f, T \ {y}) = f[p] + SumOf(f, (T \ {y}) \ {p})
  BY <1>1, <1>2, <1>3, <1>5, <1>6
<1>9. (T \ {y}) \ {p} = (T \ {p}) \ {y}  OBVIOUS
<1>10. SumOf(f, (T \ {p}) \ {y}) \in Int /\ f[p] \in Int /\ f[y] \in Int
  <2>1. (T \ {p}) \ {y} \in SUBSET S /\ IsFiniteSet((T \ {p}) \ {y})  BY FS_Subset
  <2>. QED  BY <1>2, <1>3, <2>1, SumInt
<1>11. SumOf(f, T) = f[p] + (f[y] + SumOf(f, (T \ {p}) \ {y}))  BY <1>4, <1>7
<1>12. f[y] + SumOf(f, T \ {y}) = f[y] + (f[p] + SumOf(f, (T \ {p}) \ {y}))  BY <1>8, <1>9
<1>13. SumOf(f, T) = f[y] + SumOf(f, T \ {y})  BY <1>10, <1>11, <1>12
<1>. QED  BY <1>2, <1>13

\* The sum depends only on what f is within S.
LEMMA SumSame ==
  ASSUME NEW f, NEW g, NEW S, IsFiniteSet(S), \A x \in S : f[x] = g[x]
  PROVE  SumOf(f, S) = SumOf(g, S)
<1>. DEFINE Bad == {T \in SUBSET S : SumOf(f, T) # SumOf(g, T)}
<1>. SUFFICES ASSUME Bad # {} PROVE FALSE
  OBVIOUS
<1>1. PICK T \in Bad : \A U \in SUBSET T : U # T => U \notin Bad
  <2>1. Bad \subseteq SUBSET S  OBVIOUS
  <2>. HIDE DEF Bad
  <2>. QED  BY <2>1, Minimal
<1>2. IsFiniteSet(T)  BY FS_Subset
<1>3. T # {}  BY SumEmpty
<1>4. Pick(T) \in T  BY <1>3, PickIn
<1>5. SumOf(f, T \ {Pick(T)}) = SumOf(g, T \ {Pick(T)})  BY <1>1, <1>4
<1>6. SumOf(f, T) = f[Pick(T)] + SumOf(f, T \ {Pick(T)})  BY <1>2, <1>3, SumRec
<1>7. SumOf(g, T) = g[Pick(T)] + SumOf(g, T \ {Pick(T)})  BY <1>2, <1>3, SumRec
<1>. QED  BY <1>4, <1>5, <1>6, <1>7

\* f changes at one element.
LEMMA SumUpdate ==
  ASSUME NEW f, NEW g, NEW S, IsFiniteSet(S), NEW x \in S,
         \A y \in S : f[y] \in Int, g[x] \in Int, \A y \in S \ {x} : g[y] = f[y]
  PROVE  SumOf(g, S) = SumOf(f, S) - f[x] + g[x]
<1>1. IsFiniteSet(S \ {x})  BY FS_Subset
<1>2. SumOf(g, S \ {x}) = SumOf(f, S \ {x})  BY <1>1, SumSame
<1>3. SumOf(f, S \ {x}) \in Int  BY <1>1, SumInt
<1>4. SumOf(g, S) = g[x] + SumOf(g, S \ {x})
  <2>1. \A y \in S : g[y] \in Int  OBVIOUS
  <2>. QED  BY <2>1, SumRemove
<1>5. SumOf(f, S) = f[x] + SumOf(f, S \ {x})  BY SumRemove
<1>. QED  BY <1>2, <1>3, <1>4, <1>5

\* No part of a sum of naturals is more than it.
LEMMA SumAtLeast ==
  ASSUME NEW f, NEW S, IsFiniteSet(S), \A x \in S : f[x] \in Nat, NEW x \in S
  PROVE  f[x] <= SumOf(f, S)
<1>1. IsFiniteSet(S \ {x})  BY FS_Subset
<1>2. SumOf(f, S) = f[x] + SumOf(f, S \ {x})
  <2>1. \A y \in S : f[y] \in Int  OBVIOUS
  <2>. QED  BY <2>1, SumRemove
<1>3. SumOf(f, S \ {x}) \in Nat  BY <1>1, SumNat
<1>. QED  BY <1>2, <1>3

\* Sums over disjoint sets are added.
LEMMA SumUnion ==
  ASSUME NEW f, NEW S, NEW T, IsFiniteSet(S), IsFiniteSet(T), S \cap T = {},
         \A x \in S \cup T : f[x] \in Int
  PROVE  SumOf(f, S \cup T) = SumOf(f, S) + SumOf(f, T)
<1>. DEFINE Bad == {U \in SUBSET T : SumOf(f, S \cup U) # SumOf(f, S) + SumOf(f, U)}
<1>. SUFFICES ASSUME Bad # {} PROVE FALSE
  OBVIOUS
<1>1. PICK U \in Bad : \A V \in SUBSET U : V # U => V \notin Bad
  <2>1. Bad \subseteq SUBSET T  OBVIOUS
  <2>. HIDE DEF Bad
  <2>. QED  BY <2>1, Minimal
<1>2. IsFiniteSet(U) /\ IsFiniteSet(S \cup U)  BY FS_Subset, FS_Union
<1>3. SumOf(f, S) \in Int  BY SumInt
<1>4. U # {}
  <2>1. ASSUME U = {} PROVE FALSE
    <3>1. S \cup U = S  BY <2>1
    <3>2. SumOf(f, U) = 0  BY <2>1, SumEmpty
    <3>3. SumOf(f, S \cup U) = SumOf(f, S) + SumOf(f, U)  BY <1>3, <3>1, <3>2
    <3>. QED  BY <1>1, <3>3
  <2>. QED  BY <2>1
<1>5. PICK x \in U : TRUE  BY <1>4
<1>6. SumOf(f, S \cup (U \ {x})) = SumOf(f, S) + SumOf(f, U \ {x})  BY <1>1, <1>5
<1>7. SumOf(f, U) = f[x] + SumOf(f, U \ {x})  BY <1>2, <1>5, SumRemove
<1>8. SumOf(f, S \cup U) = f[x] + SumOf(f, (S \cup U) \ {x})
  <2>1. x \in S \cup U /\ \A y \in S \cup U : f[y] \in Int  BY <1>5
  <2>. QED  BY <1>2, <2>1, SumRemove
<1>9. (S \cup U) \ {x} = S \cup (U \ {x})  BY <1>5
<1>10. SumOf(f, U \ {x}) \in Int /\ f[x] \in Int
  <2>1. IsFiniteSet(U \ {x})  BY <1>2, FS_Subset
  <2>. QED  BY <1>5, <2>1, SumInt
<1>. QED  BY <1>1, <1>3, <1>6, <1>7, <1>8, <1>9, <1>10

\* A subset has no greater sum of naturals.
LEMMA SumWithin ==
  ASSUME NEW f, NEW S, IsFiniteSet(S), NEW T \in SUBSET S, \A x \in S : f[x] \in Nat
  PROVE  SumOf(f, T) <= SumOf(f, S)
<1>1. IsFiniteSet(T) /\ IsFiniteSet(S \ T)  BY FS_Subset
<1>2. T \cap (S \ T) = {} /\ T \cup (S \ T) = S  OBVIOUS
<1>3. \A x \in T \cup (S \ T) : f[x] \in Int  OBVIOUS
<1>4. SumOf(f, T \cup (S \ T)) = SumOf(f, T) + SumOf(f, S \ T)
  BY <1>1, <1>2, <1>3, SumUnion
<1>5. SumOf(f, T) \in Nat /\ SumOf(f, S \ T) \in Nat  BY <1>1, SumNat
<1>6. SumOf(f, S) = SumOf(f, T) + SumOf(f, S \ T)  BY <1>2, <1>4
<1>. QED  BY <1>5, <1>6

\* A sum of zeros.
LEMMA SumZero ==
  ASSUME NEW f, NEW S, IsFiniteSet(S), \A x \in S : f[x] = 0
  PROVE  SumOf(f, S) = 0
<1>. DEFINE Bad == {T \in SUBSET S : SumOf(f, T) # 0}
<1>. SUFFICES ASSUME Bad # {} PROVE FALSE
  OBVIOUS
<1>1. PICK T \in Bad : \A U \in SUBSET T : U # T => U \notin Bad
  <2>1. Bad \subseteq SUBSET S  OBVIOUS
  <2>. HIDE DEF Bad
  <2>. QED  BY <2>1, Minimal
<1>2. IsFiniteSet(T)  BY FS_Subset
<1>3. T # {}  BY SumEmpty
<1>4. Pick(T) \in T  BY <1>3, PickIn
<1>5. SumOf(f, T \ {Pick(T)}) = 0  BY <1>1, <1>4
<1>6. SumOf(f, T) = f[Pick(T)] + SumOf(f, T \ {Pick(T)})  BY <1>2, <1>3, SumRec
<1>. QED  BY <1>1, <1>4, <1>5, <1>6

\* A finite set that is not empty has an element at which f is least.
LEMMA LeastExists ==
  ASSUME NEW f, NEW S, IsFiniteSet(S), S # {}, \A x \in S : f[x] \in Int
  PROVE  \E x \in S : \A y \in S : f[x] <= f[y]
<1>. DEFINE Bad == {T \in SUBSET S : T # {} /\ ~\E x \in T : \A y \in T : f[x] <= f[y]}
<1>. SUFFICES ASSUME Bad # {} PROVE FALSE
  OBVIOUS
<1>1. PICK T \in Bad : \A U \in SUBSET T : U # T => U \notin Bad
  <2>1. Bad \subseteq SUBSET S  OBVIOUS
  <2>. HIDE DEF Bad
  <2>. QED  BY <2>1, Minimal
<1>2. PICK p \in T : TRUE  BY <1>1
<1>3. CASE T \ {p} = {}
  BY <1>1, <1>2, <1>3
<1>4. CASE T \ {p} # {}
  <2>1. PICK x \in T \ {p} : \A y \in T \ {p} : f[x] <= f[y]  BY <1>1, <1>2, <1>4
  <2>2. CASE f[x] <= f[p]  BY <1>1, <1>2, <2>1, <2>2
  <2>3. CASE ~(f[x] <= f[p])
    <3>1. \A y \in T : f[p] <= f[y]  BY <1>1, <1>2, <2>1, <2>3
    <3>. QED  BY <1>1, <1>2, <3>1
  <2>. QED  BY <2>2, <2>3
<1>. QED  BY <1>3, <1>4
=============================================================================
