----------------------------- MODULE FiniteSums -----------------------------
(***************************************************************************)
(* Facts about SumFunctionOnSet of module Functions, the sum of a function *)
(* over a finite set of indices.  The balances of the platform (earnings,  *)
(* allocations of a withdrawal) are such sums, and the proofs of           *)
(* WithdrawalsProofs cite these facts.                                     *)
(*                                                                         *)
(* The usual induction theorems take a predicate as a parameter.  Here     *)
(* induction is a minimal-counterexample argument over a SET of finite     *)
(* sets (MinimalSet), which rests on the well-foundedness of strict        *)
(* inclusion.  WaitCycle, on lock waits, is another such argument.         *)
(***************************************************************************)
EXTENDS Integers, FiniteSets, Functions, FiniteSetTheorems, TLAPS

\* Every nonempty collection of subsets of a finite set has a member with no
\* other member strictly inside it.
LEMMA MinimalSet ==
  ASSUME NEW S, IsFiniteSet(S), NEW Bad, Bad \subseteq SUBSET S, Bad # {}
  PROVE  \E T \in Bad : \A U \in Bad : U \subseteq T => U = T
<1>1. Bad \subseteq FiniteSubsetsOf(S)
  BY FS_Subset DEF FiniteSubsetsOf
<1>2. PICK T \in Bad : \A U \in Bad : <<U, T>> \notin StrictSubsetOrdering(S)
  BY <1>1, FS_StrictSubsetOrderingWellFounded, WFMin
<1>3. QED
  BY <1>2 DEF StrictSubsetOrdering

\* If each of finitely many transactions waits for some of them, some of them wait in a cycle,
\* or several: each waits for one of those and one of those waits for it.
LEMMA WaitCycle ==
  ASSUME NEW S, IsFiniteSet(S), S # {}, NEW W, \A d \in S : W[d] \cap S # {}
  PROVE  \E T \in SUBSET S : T # {} /\ \A d \in T : W[d] \cap T # {} /\ \E e \in T : d \in W[e]
<1> DEFINE Bad == {T \in SUBSET S : T # {} /\ \A d \in T : W[d] \cap T # {}}
<1>1. Bad \subseteq SUBSET S /\ Bad # {}
  OBVIOUS
<1>2. PICK T \in Bad : \A U \in Bad : U \subseteq T => U = T
  <2> HIDE DEF Bad
  <2> QED
    BY <1>1, MinimalSet
<1>3. ASSUME NEW d \in T, \A e \in T : d \notin W[e] PROVE FALSE
  <2>1. PICK x \in T : x \in W[d]
    BY <1>2
  <2>2. T \ {d} \in Bad
    BY <1>2, <1>3, <2>1
  <2> QED
    BY <1>2, <1>3, <2>2
<1> QED
  BY <1>2, <1>3

\* A nonempty set of numbers has a least element.
LEMMA LeastExists ==
  ASSUME NEW S, S \subseteq Nat, S # {}
  PROVE  \E x \in S : \A y \in S : x <= y
<1> DEFINE R == OpToRel(<, Nat)
<1>1. PICK x \in S : \A y \in S : <<y, x>> \notin R
  <2>1. IsWellFoundedOn(R, Nat)
    BY NatLessThanWellFounded
  <2> HIDE DEF R
  <2>2. QED
    BY <2>1, WFMin
<1>2. \A y \in S : ~ (y < x)
  BY <1>1 DEF OpToRel
<1>3. QED
  BY <1>2

\* The element a sum takes first, and the equation its partial sums satisfy.
First(T) == CHOOSE x \in T : TRUE

PartialSums(f, T, g) ==
  g = [U \in SUBSET T |-> IF U = {} THEN 0 ELSE f[First(U)] + g[U \ {First(U)}]]

\* The index a summation takes first is one of those left.
LEMMA FirstIsMember ==
  ASSUME NEW T, T # {}
  PROVE  First(T) \in T
BY DEF First

\* A sum is the last of the partial sums over the subsets of its index set.
LEMMA SumIsPartialSum ==
  ASSUME NEW f, NEW T
  PROVE  SumFunctionOnSet(f, T) = (CHOOSE g : PartialSums(f, T, g))[T]
BY DEF SumFunctionOnSet, FoldFunctionOnSet, MapThenFoldSet, PartialSums, First

\* Two solutions of the equation agree on every finite set both cover.
LEMMA PartialSumsAgree ==
  ASSUME NEW f, NEW A, NEW B, NEW g, NEW h,
         PartialSums(f, A, g), PartialSums(f, B, h),
         NEW V, IsFiniteSet(V), V \subseteq A, V \subseteq B
  PROVE  g[V] = h[V]
<1> DEFINE Bad == {U \in SUBSET V : g[U] # h[U]}
<1>1. SUFFICES ASSUME Bad # {} PROVE FALSE
  OBVIOUS
<1>2. PICK U \in Bad : \A W \in Bad : W \subseteq U => W = U
  <2>1. Bad \subseteq SUBSET V
    OBVIOUS
  <2> HIDE DEF Bad
  <2>2. QED
    BY <1>1, <2>1, MinimalSet
<1>3. U \in SUBSET A /\ U \in SUBSET B /\ g[U] # h[U] /\ U \in SUBSET V
  BY <1>2
<1> HIDE DEF Bad
<1>4. g[U] = IF U = {} THEN 0 ELSE f[First(U)] + g[U \ {First(U)}]
  BY <1>3 DEF PartialSums
<1>5. h[U] = IF U = {} THEN 0 ELSE f[First(U)] + h[U \ {First(U)}]
  BY <1>3 DEF PartialSums
<1>6. U # {} /\ First(U) \in U
  BY <1>3, <1>4, <1>5, FirstIsMember
<1>7. U \ {First(U)} \notin Bad
  BY <1>6, <1>2
<1>8. g[U \ {First(U)}] = h[U \ {First(U)}]
  BY <1>7, <1>3 DEF Bad
<1>9. QED
  BY <1>3, <1>4, <1>5, <1>6, <1>8

\* Partial sums over a set are partial sums over each of its subsets.
LEMMA PartialSumsRestrict ==
  ASSUME NEW f, NEW A, NEW g, PartialSums(f, A, g), NEW B, B \subseteq A
  PROVE  PartialSums(f, B, [U \in SUBSET B |-> g[U]])
<1> DEFINE h == [U \in SUBSET B |-> g[U]]
<1>1. ASSUME NEW U \in SUBSET B
      PROVE  h[U] = IF U = {} THEN 0 ELSE f[First(U)] + h[U \ {First(U)}]
  <2>1. U \in SUBSET A /\ U \ {First(U)} \in SUBSET B
    OBVIOUS
  <2>2. g[U] = IF U = {} THEN 0 ELSE f[First(U)] + g[U \ {First(U)}]
    BY <2>1 DEF PartialSums
  <2>3. QED
    BY <2>1, <2>2
<1> HIDE DEF h
<1>2. h = [U \in SUBSET B |-> h[U]]
  BY DEF h
<1>3. h = [U \in SUBSET B |-> IF U = {} THEN 0 ELSE f[First(U)] + h[U \ {First(U)}]]
  BY <1>1, <1>2
<1>4. PartialSums(f, B, h)
  BY <1>3 DEF PartialSums
<1>5. QED
  BY <1>4 DEF h

\* If the equation can be solved below T it can be solved at T.
LEMMA SumUnfold ==
  ASSUME NEW f, NEW T, IsFiniteSet(T), NEW g, PartialSums(f, T, g)
  PROVE  SumFunctionOnSet(f, T) =
           IF T = {} THEN 0 ELSE f[First(T)] + SumFunctionOnSet(f, T \ {First(T)})
<1>1. PartialSums(f, T, CHOOSE h : PartialSums(f, T, h))
  OBVIOUS
<1>2. PICK k : PartialSums(f, T, k) /\ SumFunctionOnSet(f, T) = k[T]
  BY <1>1, SumIsPartialSum
<1>3. k[T] = IF T = {} THEN 0 ELSE f[First(T)] + k[T \ {First(T)}]
  <2>1. T \in SUBSET T
    OBVIOUS
  <2>2. QED
    BY <1>2, <2>1 DEF PartialSums
<1>4. CASE T = {}
  BY <1>2, <1>3, <1>4
<1>5. CASE T # {}
  <2> DEFINE R == T \ {First(T)}
  <2>1. IsFiniteSet(R) /\ R \subseteq T /\ R \subseteq R
    BY FS_Subset
  <2> HIDE DEF R
  <2>2. \E h : PartialSums(f, R, h)
    BY <1>2, <2>1, PartialSumsRestrict
  <2>3. PartialSums(f, R, CHOOSE h : PartialSums(f, R, h))
    BY <2>2
  <2>4. PICK h : PartialSums(f, R, h) /\ SumFunctionOnSet(f, R) = h[R]
    BY <2>3, SumIsPartialSum
  <2>5. h[R] = k[R]
    BY <1>2, <2>1, <2>4, PartialSumsAgree
  <2>6. QED
    BY <1>2, <1>3, <1>5, <2>4, <2>5 DEF R
<1>6. QED
  BY <1>4, <1>5

\* The partial sums exist over every finite set.
LEMMA PartialSumsExist ==
  ASSUME NEW f, NEW S, IsFiniteSet(S)
  PROVE  \E g : PartialSums(f, S, g)
<1> DEFINE Bad == {T \in SUBSET S : ~ \E g : PartialSums(f, T, g)}
<1>1. SUFFICES ASSUME Bad # {} PROVE FALSE
  OBVIOUS
<1>2. PICK T \in Bad : \A W \in Bad : W \subseteq T => W = T
  <2>1. Bad \subseteq SUBSET S
    OBVIOUS
  <2> HIDE DEF Bad
  <2>2. QED
    BY <1>1, <2>1, MinimalSet
<1>3. T \in SUBSET S /\ IsFiniteSet(T) /\ ~ \E g : PartialSums(f, T, g)
  BY <1>2, FS_Subset
<1>4. ASSUME NEW U \in SUBSET T, U # T
      PROVE  IsFiniteSet(U) /\ \E g : PartialSums(f, U, g)
  BY <1>2, <1>3, <1>4, FS_Subset
<1> HIDE DEF Bad
<1> DEFINE Below(U) == IF U = {} THEN 0
                       ELSE f[First(U)] + SumFunctionOnSet(f, U \ {First(U)})
           g == [U \in SUBSET T |-> Below(U)]
<1>5. ASSUME NEW U \in SUBSET T, U # {}
      PROVE  g[U \ {First(U)}] = SumFunctionOnSet(f, U \ {First(U)})
  <2> DEFINE R == U \ {First(U)}
  <2>1. R \in SUBSET T /\ R # T
    BY <1>5, FirstIsMember
  <2>2. PICK h : PartialSums(f, R, h)
    BY <1>4, <2>1
  <2>3. IsFiniteSet(R)
    BY <1>4, <2>1
  <2> HIDE DEF R
  <2>4. SumFunctionOnSet(f, R) = Below(R)
    BY <2>2, <2>3, SumUnfold
  <2>5. g[R] = Below(R)
    BY <2>1
  <2>6. QED
    BY <2>4, <2>5 DEF R
<1>6. ASSUME NEW U \in SUBSET T
      PROVE  Below(U) = IF U = {} THEN 0 ELSE f[First(U)] + g[U \ {First(U)}]
  BY <1>5
<1>7. g = [U \in SUBSET T |-> IF U = {} THEN 0 ELSE f[First(U)] + g[U \ {First(U)}]]
  <2>1. g = [U \in SUBSET T |-> Below(U)]
    OBVIOUS
  <2> HIDE DEF g, Below
  <2>2. QED
    BY <2>1, <1>6
<1> HIDE DEF g
<1>8. PartialSums(f, T, g)
  BY <1>7 DEF PartialSums
<1>9. QED
  BY <1>3, <1>8

\* One step of a sum: the chosen element plus the sum over the rest.
LEMMA SumStep ==
  ASSUME NEW f, NEW S, IsFiniteSet(S)
  PROVE  SumFunctionOnSet(f, S) =
           IF S = {} THEN 0 ELSE f[First(S)] + SumFunctionOnSet(f, S \ {First(S)})
BY PartialSumsExist, SumUnfold

\* A sum of natural numbers is a natural number.
LEMMA SumType ==
  ASSUME NEW f, NEW S, IsFiniteSet(S), \A x \in S : f[x] \in Nat
  PROVE  SumFunctionOnSet(f, S) \in Nat
<1> DEFINE Bad == {U \in SUBSET S : SumFunctionOnSet(f, U) \notin Nat}
<1>1. SUFFICES ASSUME Bad # {} PROVE FALSE
  OBVIOUS
<1>2. PICK U \in Bad : \A W \in Bad : W \subseteq U => W = U
  <2>1. Bad \subseteq SUBSET S
    OBVIOUS
  <2> HIDE DEF Bad
  <2>2. QED
    BY <1>1, <2>1, MinimalSet
<1>3. U \subseteq S /\ IsFiniteSet(U) /\ SumFunctionOnSet(f, U) \notin Nat
  BY <1>2, FS_Subset
<1>4. U # {} /\ First(U) \in U
  <2>1. U = {} => SumFunctionOnSet(f, U) = 0
    BY <1>3, SumStep
  <2>2. QED
    BY <1>3, <2>1, FirstIsMember
<1>5. SumFunctionOnSet(f, U \ {First(U)}) \in Nat
  BY <1>2, <1>4
<1>6. QED
  BY <1>3, <1>4, <1>5, SumStep

\* Any element can be taken out first: the order of summation is irrelevant.
LEMMA SumRemove ==
  ASSUME NEW f, NEW S, IsFiniteSet(S), \A x \in S : f[x] \in Nat, NEW w \in S
  PROVE  SumFunctionOnSet(f, S) = f[w] + SumFunctionOnSet(f, S \ {w})
<1> DEFINE Wrong(U) == \E x \in U :
               SumFunctionOnSet(f, U) # f[x] + SumFunctionOnSet(f, U \ {x})
           Bad == {U \in SUBSET S : Wrong(U)}
<1>1. SUFFICES ASSUME Bad # {} PROVE FALSE
  OBVIOUS
<1>2. PICK U \in Bad : \A W \in Bad : W \subseteq U => W = U
  <2>1. Bad \subseteq SUBSET S
    OBVIOUS
  <2> HIDE DEF Bad
  <2>2. QED
    BY <1>1, <2>1, MinimalSet
<1>3. PICK x \in U : SumFunctionOnSet(f, U) # f[x] + SumFunctionOnSet(f, U \ {x})
  BY <1>2
<1> DEFINE y == First(U)
           R == (U \ {x}) \ {y}
<1>4. U \subseteq S /\ y \in U /\ x \in S /\ y \in S
  BY <1>2, <1>3, FirstIsMember
<1>5. /\ IsFiniteSet(U) /\ IsFiniteSet(U \ {x}) /\ IsFiniteSet(U \ {y}) /\ IsFiniteSet(R)
  BY <1>4, FS_Subset
<1>6. SumFunctionOnSet(f, U) = f[y] + SumFunctionOnSet(f, U \ {y})
  BY <1>4, <1>5, SumStep
<1>7. x # y
  BY <1>3, <1>6
<1>8. SumFunctionOnSet(f, U \ {y}) = f[x] + SumFunctionOnSet(f, R)
  <2>1. U \ {y} \notin Bad
    BY <1>2, <1>4
  <2>2. x \in U \ {y} /\ (U \ {y}) \ {x} = R /\ U \ {y} \in SUBSET S
    BY <1>3, <1>4, <1>7
  <2>3. QED
    BY <2>1, <2>2
<1>9. SumFunctionOnSet(f, U \ {x}) = f[y] + SumFunctionOnSet(f, R)
  <2>1. U \ {x} \notin Bad
    BY <1>2, <1>3
  <2>2. y \in U \ {x} /\ U \ {x} \in SUBSET S
    BY <1>4, <1>7
  <2>3. QED
    BY <2>1, <2>2
<1>10. SumFunctionOnSet(f, R) \in Nat /\ f[x] \in Nat /\ f[y] \in Nat
  BY <1>4, <1>5, SumType
<1> HIDE DEF y, R, Bad, Wrong
<1>11. QED
  BY <1>3, <1>6, <1>8, <1>9, <1>10

\* Functions that agree on S have the same sum over S.
LEMMA SumAgree ==
  ASSUME NEW f, NEW g, NEW S, IsFiniteSet(S), \A x \in S : f[x] = g[x]
  PROVE  SumFunctionOnSet(f, S) = SumFunctionOnSet(g, S)
<1> DEFINE Bad == {U \in SUBSET S : SumFunctionOnSet(f, U) # SumFunctionOnSet(g, U)}
<1>1. SUFFICES ASSUME Bad # {} PROVE FALSE
  OBVIOUS
<1>2. PICK U \in Bad : \A W \in Bad : W \subseteq U => W = U
  <2>1. Bad \subseteq SUBSET S
    OBVIOUS
  <2> HIDE DEF Bad
  <2>2. QED
    BY <1>1, <2>1, MinimalSet
<1>3. U \subseteq S /\ IsFiniteSet(U)
      /\ SumFunctionOnSet(f, U) # SumFunctionOnSet(g, U)
  BY <1>2, FS_Subset
<1>4. U # {} /\ First(U) \in U
  BY <1>3, SumStep, FirstIsMember
<1>5. SumFunctionOnSet(f, U \ {First(U)}) = SumFunctionOnSet(g, U \ {First(U)})
  BY <1>2, <1>4
<1>6. QED
  BY <1>3, <1>4, <1>5, SumStep

\* Changing one value moves the sum by the difference.
LEMMA SumChange ==
  ASSUME NEW f, NEW g, NEW S, IsFiniteSet(S), NEW w \in S,
         \A x \in S : f[x] \in Nat /\ g[x] \in Nat,
         \A x \in S \ {w} : f[x] = g[x]
  PROVE  SumFunctionOnSet(g, S) + f[w] = SumFunctionOnSet(f, S) + g[w]
<1>1. IsFiniteSet(S \ {w})
  BY FS_Subset
<1>2. SumFunctionOnSet(f, S \ {w}) = SumFunctionOnSet(g, S \ {w})
  BY <1>1, SumAgree
<1>3. SumFunctionOnSet(f, S \ {w}) \in Nat
  BY <1>1, SumType
<1>4. SumFunctionOnSet(f, S) = f[w] + SumFunctionOnSet(f, S \ {w})
  BY SumRemove
<1>5. SumFunctionOnSet(g, S) = g[w] + SumFunctionOnSet(g, S \ {w})
  BY SumRemove
<1>6. QED
  BY <1>2, <1>3, <1>4, <1>5

\* A sum of zeros is zero.
LEMMA SumZero ==
  ASSUME NEW f, NEW S, IsFiniteSet(S), \A x \in S : f[x] = 0
  PROVE  SumFunctionOnSet(f, S) = 0
<1> DEFINE Bad == {U \in SUBSET S : SumFunctionOnSet(f, U) # 0}
<1>1. SUFFICES ASSUME Bad # {} PROVE FALSE
  OBVIOUS
<1>2. PICK U \in Bad : \A W \in Bad : W \subseteq U => W = U
  <2>1. Bad \subseteq SUBSET S
    OBVIOUS
  <2> HIDE DEF Bad
  <2>2. QED
    BY <1>1, <2>1, MinimalSet
<1>3. U \subseteq S /\ IsFiniteSet(U) /\ SumFunctionOnSet(f, U) # 0
  BY <1>2, FS_Subset
<1>4. U # {} /\ First(U) \in U
  BY <1>3, SumStep, FirstIsMember
<1>5. SumFunctionOnSet(f, U \ {First(U)}) = 0
  BY <1>2, <1>4
<1>6. QED
  BY <1>3, <1>4, <1>5, SumStep

\* No part of a sum of natural numbers exceeds it.
LEMMA SumBound ==
  ASSUME NEW f, NEW S, IsFiniteSet(S), \A x \in S : f[x] \in Nat, NEW w \in S
  PROVE  f[w] <= SumFunctionOnSet(f, S)
<1>1. IsFiniteSet(S \ {w})
  BY FS_Subset
<1>2. SumFunctionOnSet(f, S \ {w}) \in Nat
  BY <1>1, SumType
<1>3. QED
  BY <1>2, SumRemove

\* A sum over no index is zero.
LEMMA SumOfNone ==
  ASSUME NEW f
  PROVE  SumFunctionOnSet(f, {}) = 0
BY SumStep, FS_EmptySet

\* Adding two functions adds their sums.
LEMMA SumAdd ==
  ASSUME NEW f, NEW g, NEW h, NEW S, IsFiniteSet(S),
         \A x \in S : f[x] \in Nat /\ g[x] \in Nat /\ h[x] = f[x] + g[x]
  PROVE  SumFunctionOnSet(h, S) = SumFunctionOnSet(f, S) + SumFunctionOnSet(g, S)
<1> DEFINE Bad == {U \in SUBSET S : SumFunctionOnSet(h, U) #
                                      SumFunctionOnSet(f, U) + SumFunctionOnSet(g, U)}
<1>1. SUFFICES ASSUME Bad # {} PROVE FALSE
  OBVIOUS
<1>2. PICK U \in Bad : \A W \in Bad : W \subseteq U => W = U
  <2>1. Bad \subseteq SUBSET S
    OBVIOUS
  <2> HIDE DEF Bad
  <2>2. QED
    BY <1>1, <2>1, MinimalSet
<1> DEFINE R == U \ {First(U)}
<1>3. /\ U \subseteq S /\ IsFiniteSet(U)
      /\ SumFunctionOnSet(h, U) # SumFunctionOnSet(f, U) + SumFunctionOnSet(g, U)
  BY <1>2, FS_Subset
<1>4. U # {} /\ First(U) \in U
  BY <1>3, SumOfNone, FirstIsMember
<1>5. SumFunctionOnSet(h, R) = SumFunctionOnSet(f, R) + SumFunctionOnSet(g, R)
  BY <1>2, <1>3, <1>4
<1>6. R \subseteq S /\ IsFiniteSet(R)
  BY <1>3, FS_Subset
<1>7. SumFunctionOnSet(f, R) \in Nat /\ SumFunctionOnSet(g, R) \in Nat
  BY <1>6, SumType
<1>8. /\ SumFunctionOnSet(f, U) = f[First(U)] + SumFunctionOnSet(f, R)
      /\ SumFunctionOnSet(g, U) = g[First(U)] + SumFunctionOnSet(g, R)
      /\ SumFunctionOnSet(h, U) = h[First(U)] + SumFunctionOnSet(h, R)
  BY <1>3, <1>4, SumStep
<1>9. /\ f[First(U)] \in Nat /\ g[First(U)] \in Nat
      /\ h[First(U)] = f[First(U)] + g[First(U)]
  BY <1>3, <1>4
<1> HIDE DEF R
<1>10. QED
  BY <1>3, <1>5, <1>7, <1>8, <1>9

\* Where a function is zero nothing is added.
LEMMA SumRestrict ==
  ASSUME NEW f, NEW S, IsFiniteSet(S), \A x \in S : f[x] \in Nat,
         NEW P, P \subseteq S, \A x \in S \ P : f[x] = 0
  PROVE  SumFunctionOnSet(f, S) = SumFunctionOnSet(f, P)
<1> DEFINE Bad == {U \in SUBSET S : SumFunctionOnSet(f, U) # SumFunctionOnSet(f, U \cap P)}
<1>1. SUFFICES ASSUME Bad # {} PROVE FALSE
  <2>1. Bad = {} => SumFunctionOnSet(f, S) = SumFunctionOnSet(f, S \cap P)
    OBVIOUS
  <2>2. S \cap P = P
    OBVIOUS
  <2> QED
    BY <2>1, <2>2
<1>2. PICK U \in Bad : \A W \in Bad : W \subseteq U => W = U
  <2>1. Bad \subseteq SUBSET S
    OBVIOUS
  <2> HIDE DEF Bad
  <2>2. QED
    BY <1>1, <2>1, MinimalSet
<1>3. /\ U \subseteq S /\ IsFiniteSet(U)
      /\ SumFunctionOnSet(f, U) # SumFunctionOnSet(f, U \cap P)
  BY <1>2, FS_Subset
<1>4. PICK x \in U : x \notin P
  <2>1. U \subseteq P => U \cap P = U
    OBVIOUS
  <2> QED
    BY <1>3, <2>1
<1>5. SumFunctionOnSet(f, U) = f[x] + SumFunctionOnSet(f, U \ {x})
  BY <1>3, SumRemove
<1>6. SumFunctionOnSet(f, U \ {x}) \in Nat
  <2>1. IsFiniteSet(U \ {x}) /\ \A y \in U \ {x} : f[y] \in Nat
    BY <1>3, FS_Subset
  <2> QED
    BY <2>1, SumType
<1>7. SumFunctionOnSet(f, U \ {x}) = SumFunctionOnSet(f, (U \ {x}) \cap P)
  BY <1>2, <1>3
<1>8. (U \ {x}) \cap P = U \cap P
  BY <1>4
<1>9. f[x] = 0
  BY <1>3, <1>4
<1>10. SumFunctionOnSet(f, U) = SumFunctionOnSet(f, U \ {x})
  BY <1>5, <1>6, <1>9
<1>11. SumFunctionOnSet(f, U) = SumFunctionOnSet(f, U \cap P)
  BY <1>7, <1>8, <1>10, Zenon
<1> QED
  BY <1>3, <1>11

\* The entries of a table add up to the same by rows as by columns.
LEMMA SumSwap ==
  ASSUME NEW A, IsFiniteSet(A), NEW B, IsFiniteSet(B), NEW t,
         \A a \in A, b \in B : t[a][b] \in Nat
  PROVE  SumFunctionOnSet([a \in A |-> SumFunctionOnSet(t[a], B)], A) =
         SumFunctionOnSet([b \in B |-> SumFunctionOnSet([a \in A |-> t[a][b]], A)], B)
<1> DEFINE rows == [a \in A |-> SumFunctionOnSet(t[a], B)]
           column(b) == [a \in A |-> t[a][b]]
           columns(U) == [b \in B |-> SumFunctionOnSet(column(b), U)]
           Bad == {U \in SUBSET A : SumFunctionOnSet(rows, U) # SumFunctionOnSet(columns(U), B)}
<1>1. SUFFICES ASSUME Bad # {} PROVE FALSE
  OBVIOUS
<1>2. PICK U \in Bad : \A W \in Bad : W \subseteq U => W = U
  <2>1. Bad \subseteq SUBSET A
    OBVIOUS
  <2> HIDE DEF Bad
  <2>2. QED
    BY <1>1, <2>1, MinimalSet
<1> DEFINE x == First(U)
           R == U \ {x}
<1>3. /\ U \subseteq A /\ IsFiniteSet(U)
      /\ SumFunctionOnSet(rows, U) # SumFunctionOnSet(columns(U), B)
  BY <1>2, FS_Subset
<1>4. \A a \in A, b \in B : column(b)[a] = t[a][b] /\ t[a][b] \in Nat
  OBVIOUS
<1>5. \A a \in A : rows[a] = SumFunctionOnSet(t[a], B)
  OBVIOUS
<1>6. \A V : \A b \in B : columns(V)[b] = SumFunctionOnSet(column(b), V)
  OBVIOUS
<1> HIDE DEF rows, column, columns
<1>7. U # {} /\ x \in U
  <2>1. ASSUME U = {} PROVE FALSE
    <3>1. SumFunctionOnSet(rows, U) = 0
      BY <2>1, SumOfNone
    <3>2. \A b \in B : columns(U)[b] = 0
      BY <1>6, <2>1, SumOfNone
    <3>3. SumFunctionOnSet(columns(U), B) = 0
      BY <3>2, SumZero
    <3> QED
      BY <1>3, <3>1, <3>3
  <2> QED
    BY <2>1, FirstIsMember
<1>8. SumFunctionOnSet(rows, R) = SumFunctionOnSet(columns(R), B)
  BY <1>2, <1>3, <1>7
<1>9. x \in A /\ R \subseteq A /\ IsFiniteSet(R)
  BY <1>3, <1>7, FS_Subset
<1> HIDE DEF Bad
<1>10. SumFunctionOnSet(rows, U) = SumFunctionOnSet(t[x], B) + SumFunctionOnSet(rows, R)
  BY <1>3, <1>5, <1>7, <1>9, SumStep
<1>11. ASSUME NEW b \in B
       PROVE  /\ columns(U)[b] = t[x][b] + columns(R)[b]
              /\ t[x][b] \in Nat /\ columns(R)[b] \in Nat
  <2>1. SumFunctionOnSet(column(b), U) = column(b)[x] + SumFunctionOnSet(column(b), R)
    BY <1>3, <1>7, SumStep
  <2>2. SumFunctionOnSet(column(b), R) \in Nat
    BY <1>4, <1>9, SumType
  <2> QED
    BY <1>4, <1>6, <1>9, <2>1, <2>2
<1>12. SumFunctionOnSet(columns(U), B) = SumFunctionOnSet(t[x], B) + SumFunctionOnSet(columns(R), B)
  <2> DEFINE f == t[x]
             g == columns(R)
             h == columns(U)
  <2>1. \A b \in B : f[b] \in Nat /\ g[b] \in Nat /\ h[b] = f[b] + g[b]
    BY <1>11
  <2> HIDE DEF f, g, h
  <2>2. SumFunctionOnSet(h, B) = SumFunctionOnSet(f, B) + SumFunctionOnSet(g, B)
    BY <2>1, SumAdd
  <2> QED
    BY <2>2 DEF f, g, h
<1> QED
  BY <1>3, <1>8, <1>10, <1>12

\* A new member adds its value.
LEMMA SumInsert ==
  ASSUME NEW f, NEW S, IsFiniteSet(S), NEW k, k \notin S, \A x \in S \cup {k} : f[x] \in Nat
  PROVE  SumFunctionOnSet(f, S \cup {k}) = SumFunctionOnSet(f, S) + f[k]
<1>1. IsFiniteSet(S \cup {k})
  BY FS_AddElement
<1>2. (S \cup {k}) \ {k} = S
  OBVIOUS
<1>3. SumFunctionOnSet(f, S \cup {k}) = f[k] + SumFunctionOnSet(f, S)
  BY <1>1, <1>2, SumRemove
<1>4. SumFunctionOnSet(f, S) \in Nat
  BY SumType
<1> QED
  BY <1>3, <1>4
=============================================================================
