---------------------------- MODULE SumTheorems ----------------------------
(***************************************************************************)
(* Sums over finite sets, in the form in which MapThenSumSet of the        *)
(* community modules computes them: take some element of the set and add   *)
(* the sum over the others.  What the sum is does not depend on which      *)
(* element is taken, so that one element can be taken out, and one term    *)
(* changed, wherever it is.                                                *)
(*                                                                         *)
(* MapThenSumSet(LAMBDA x : f[x], S) expands to SumOf(f, S).               *)
(* Facts about products, quotients, least and greatest numbers that the    *)
(* proofs share are here too.                                              *)
(***************************************************************************)
EXTENDS Integers, FiniteSetsExt, FiniteSetTheorems, WellFoundedInduction, TLAPS

SumOf(f, S) ==
  LET iter[s \in SUBSET S] ==
        IF s = {} THEN 0 ELSE LET x == CHOOSE x \in s : TRUE IN f[x] + iter[s \ {x}]
  IN  iter[S]

\* The element taken first.
Taken(S) == CHOOSE x \in S : TRUE

\* g is the function that SumOf evaluates on the subsets of S.
Sums(g, f, S) ==
  g = [s \in SUBSET S |-> IF s = {} THEN 0 ELSE f[Taken(s)] + g[s \ {Taken(s)}]]

\* The recursive function of SumOf exists on a finite set, and is the only one.
LEMMA SumsExist ==
  ASSUME NEW f, NEW S, IsFiniteSet(S)
  PROVE  /\ \E g : Sums(g, f, S) /\ SumOf(f, S) = g[S]
         /\ \A g, h : Sums(g, f, S) /\ Sums(h, f, S) => g = h
<1> DEFINE D(g, s) == IF s = {} THEN 0 ELSE f[Taken(s)] + g[s \ {Taken(s)}]
           R       == StrictSubsetOrdering(S)
           iter    == CHOOSE g : g = [s \in SUBSET S |-> D(g, s)]
<1>1. IsWellFoundedOn(R, SUBSET S)
  <2>1. FiniteSubsetsOf(S) = SUBSET S
    BY FS_FiniteSubsetsOfFinite
  <2> QED BY <2>1, FS_StrictSubsetOrderingWellFounded
<1>2. WFDefOn(R, SUBSET S, D)
  <2>1. ASSUME NEW g, NEW h, NEW s \in SUBSET S,
               \A y \in SetLessThan(s, R, SUBSET S) : g[y] = h[y]
        PROVE  D(g, s) = D(h, s)
    <3>1. CASE s = {}
      BY <3>1
    <3>2. CASE s # {}
      <4> DEFINE t == s \ {Taken(s)}
      <4>1. Taken(s) \in s
        BY <3>2 DEF Taken
      <4>2. t \in SUBSET S /\ t \subseteq s /\ t # s
        BY <4>1
      <4>3. <<t, s>> \in R
        BY <4>2 DEF StrictSubsetOrdering
      <4>4. t \in SetLessThan(s, R, SUBSET S)
        BY <4>2, <4>3 DEF SetLessThan
      <4> QED BY <2>1, <4>4, <3>2
    <3> QED BY <3>1, <3>2
  <2> HIDE DEF D
  <2> QED BY <2>1 DEF WFDefOn
<1>3. OpDefinesFcn(iter, SUBSET S, D)
  BY DEF OpDefinesFcn
<1>4. WFInductiveDefines(iter, SUBSET S, D)
  <2> HIDE DEF D, R, iter
  <2> QED BY <1>1, <1>2, <1>3, WFInductiveDef
<1>5. WFInductiveUnique(SUBSET S, D)
  <2> HIDE DEF D, R, iter
  <2> QED BY <1>1, <1>2, WFDefOnUnique
<1>6. Sums(iter, f, S)
  <2>1. iter = [s \in SUBSET S |-> D(iter, s)]
    <3> HIDE DEF D, iter
    <3> QED BY <1>4 DEF WFInductiveDefines
  <2> HIDE DEF iter
  <2> QED BY <2>1 DEF Sums
<1>7. SumOf(f, S) = iter[S]
  BY DEF SumOf, Taken
<1>8. ASSUME NEW g, NEW h, Sums(g, f, S), Sums(h, f, S) PROVE g = h
  <2>1. WFInductiveDefines(g, SUBSET S, D) /\ WFInductiveDefines(h, SUBSET S, D)
    BY <1>8 DEF WFInductiveDefines, Sums
  <2> HIDE DEF D
  <2> QED BY <2>1, <1>5 DEF WFInductiveUnique
<1> QED BY <1>6, <1>7, <1>8

-----------------------------------------------------------------------------
(* Unfolding.                                                              *)

LEMMA SumEmpty ==
  ASSUME NEW f
  PROVE  SumOf(f, {}) = 0
<1>1. IsFiniteSet({})
  BY FS_EmptySet
<1>2. PICK g : Sums(g, f, {}) /\ SumOf(f, {}) = g[{}]
  BY <1>1, SumsExist
<1>3. {} \in SUBSET {}
  OBVIOUS
<1> QED BY <1>2, <1>3 DEF Sums

LEMMA SumUnfolds ==
  ASSUME NEW f, NEW S, IsFiniteSet(S), S # {}
  PROVE  /\ Taken(S) \in S
         /\ SumOf(f, S) = f[Taken(S)] + SumOf(f, S \ {Taken(S)})
<1> DEFINE T == S \ {Taken(S)}
<1>1. Taken(S) \in S
  BY DEF Taken
<1>2. T \subseteq S /\ IsFiniteSet(T)
  BY FS_Subset
<1>3. PICK g : Sums(g, f, S) /\ SumOf(f, S) = g[S]
  BY SumsExist
<1>4. PICK h : Sums(h, f, T) /\ SumOf(f, T) = h[T]
  BY <1>2, SumsExist
<1>5. g[S] = f[Taken(S)] + g[T]
  BY <1>3 DEF Sums
<1> DEFINE k == [s \in SUBSET T |-> g[s]]
<1>6. Sums(k, f, T)
  <2>1. ASSUME NEW s \in SUBSET T
        PROVE  k[s] = IF s = {} THEN 0 ELSE f[Taken(s)] + k[s \ {Taken(s)}]
    <3>1. s \in SUBSET S /\ s \ {Taken(s)} \in SUBSET T
      BY <1>2
    <3>2. k[s] = g[s] /\ k[s \ {Taken(s)}] = g[s \ {Taken(s)}]
      BY <3>1
    <3>3. g[s] = IF s = {} THEN 0 ELSE f[Taken(s)] + g[s \ {Taken(s)}]
      BY <3>1, <1>3 DEF Sums
    <3> QED BY <3>2, <3>3
  <2>2. k = [s \in SUBSET T |-> k[s]]
    OBVIOUS
  <2> HIDE DEF k
  <2>3. k = [s \in SUBSET T |-> IF s = {} THEN 0 ELSE f[Taken(s)] + k[s \ {Taken(s)}]]
    BY <2>1, <2>2
  <2> QED BY <2>3 DEF Sums
<1>7. k = h
  <2> HIDE DEF k
  <2> QED BY <1>2, <1>4, <1>6, SumsExist
<1>8. g[T] = h[T]
  BY <1>7
<1> QED BY <1>1, <1>3, <1>4, <1>5, <1>8

-----------------------------------------------------------------------------
(* A property of finite sets holds if a least set without it is impossible.*)

Earlier == {p \in Nat \X Nat : p[1] < p[2]}

\* The least number of a set of numbers.
LEMMA LeastNumber ==
  ASSUME NEW N \in SUBSET Nat, N # {}
  PROVE  \E x \in N : \A y \in N : x <= y
<1>1. IsWellFoundedOn(Earlier, Nat)
  <2>1. OpToRel(<, Nat) = Earlier
    BY DEF OpToRel, Earlier
  <2> QED BY <2>1, NatLessThanWellFounded
<1>2. PICK x \in N : \A y \in N : ~ (<<y, x>> \in Earlier)
  BY <1>1, WFMin
<1>3. ASSUME NEW y \in N PROVE x <= y
  <2>1. x \in Nat /\ y \in Nat /\ ~(<<y, x>> \in Earlier)
    BY <1>2
  <2>2. <<y, x>> \in Nat \X Nat /\ <<y, x>>[1] = y /\ <<y, x>>[2] = x
    BY <2>1
  <2>3. ~(y < x)
    BY <2>1, <2>2 DEF Earlier
  <2> QED BY <2>1, <2>3
<1> QED BY <1>3

\* Among some subsets of a finite set, one contains no other.
LEMMA SmallestSet ==
  ASSUME NEW S, IsFiniteSet(S), NEW C \in SUBSET (SUBSET S), C # {}
  PROVE  \E T \in C : \A U \in C : U \subseteq T => U = T
<1>1. FiniteSubsetsOf(S) = SUBSET S
  BY FS_FiniteSubsetsOfFinite
<1>2. IsWellFoundedOn(StrictSubsetOrdering(S), SUBSET S)
  BY <1>1, FS_StrictSubsetOrderingWellFounded
<1>3. PICK T \in C : \A U \in C : ~(<<U, T>> \in StrictSubsetOrdering(S))
  BY <1>2, WFMin
<1>4. ASSUME NEW U \in C, U \subseteq T PROVE U = T
  <2>1. U \in SUBSET S /\ T \in SUBSET S
    OBVIOUS
  <2>2. ~(<<U, T>> \in StrictSubsetOrdering(S))
    BY <1>3
  <2> QED BY <2>1, <2>2, <1>4 DEF StrictSubsetOrdering
<1> QED BY <1>4

-----------------------------------------------------------------------------
(* Terms.                                                                  *)

LEMMA SumIsInt ==
  ASSUME NEW f, NEW S, IsFiniteSet(S), \A x \in S : f[x] \in Int
  PROVE  SumOf(f, S) \in Int
<1> DEFINE C == {T \in SUBSET S : SumOf(f, T) \notin Int}
<1> SUFFICES ASSUME C # {} PROVE FALSE
  OBVIOUS
<1>1. PICK T \in C : \A U \in C : U \subseteq T => U = T
  <2>1. C \in SUBSET (SUBSET S)
    OBVIOUS
  <2> HIDE DEF C
  <2> QED BY <2>1, SmallestSet
<1>2. T \in SUBSET S /\ IsFiniteSet(T) /\ T # {}
  <2>1. T \in SUBSET S /\ SumOf(f, T) \notin Int
    OBVIOUS
  <2>2. SumOf(f, {}) \in Int
    BY SumEmpty
  <2>3. T # {}
    BY <2>1, <2>2
  <2>4. IsFiniteSet(T)
    BY <2>1, FS_Subset
  <2> QED BY <2>1, <2>3, <2>4
<1>3. Taken(T) \in T /\ SumOf(f, T) = f[Taken(T)] + SumOf(f, T \ {Taken(T)})
  BY <1>2, SumUnfolds
<1>4. T \ {Taken(T)} \in SUBSET S /\ T \ {Taken(T)} # T /\ T \ {Taken(T)} \subseteq T
  BY <1>2, <1>3
<1>5. SumOf(f, T \ {Taken(T)}) \in Int
  BY <1>1, <1>4
<1>6. SumOf(f, T) \in Int
  BY <1>2, <1>3, <1>5
<1> QED BY <1>6

\* Nothing is summed to nothing.
LEMMA SumOfZeros ==
  ASSUME NEW f, NEW S, IsFiniteSet(S), \A x \in S : f[x] = 0
  PROVE  SumOf(f, S) = 0
<1> DEFINE C == {T \in SUBSET S : SumOf(f, T) # 0}
<1> SUFFICES ASSUME C # {} PROVE FALSE
  OBVIOUS
<1>1. PICK T \in C : \A U \in C : U \subseteq T => U = T
  <2>1. C \in SUBSET (SUBSET S)
    OBVIOUS
  <2> HIDE DEF C
  <2> QED BY <2>1, SmallestSet
<1>2. T \in SUBSET S /\ IsFiniteSet(T) /\ T # {}
  <2>1. T \in SUBSET S /\ SumOf(f, T) # 0
    OBVIOUS
  <2>2. SumOf(f, {}) = 0
    BY SumEmpty
  <2>3. T # {}
    BY <2>1, <2>2
  <2>4. IsFiniteSet(T)
    BY <2>1, FS_Subset
  <2> QED BY <2>1, <2>3, <2>4
<1>3. Taken(T) \in T /\ SumOf(f, T) = f[Taken(T)] + SumOf(f, T \ {Taken(T)})
  BY <1>2, SumUnfolds
<1>4. T \ {Taken(T)} \in SUBSET S /\ T \ {Taken(T)} # T /\ T \ {Taken(T)} \subseteq T
  BY <1>2, <1>3
<1>5. SumOf(f, T \ {Taken(T)}) = 0
  BY <1>1, <1>4
<1>6. SumOf(f, T) = 0
  BY <1>2, <1>3, <1>5
<1> QED BY <1>6

\* Any element may be taken first.
LEMMA SumTakes ==
  ASSUME NEW f, NEW S, IsFiniteSet(S), \A x \in S : f[x] \in Int, NEW x \in S
  PROVE  SumOf(f, S) = f[x] + SumOf(f, S \ {x})
<1> DEFINE C == {T \in SUBSET S : \E y \in T : SumOf(f, T) # f[y] + SumOf(f, T \ {y})}
<1>1. ASSUME C # {} PROVE FALSE
  <2>1. PICK T \in C : \A U \in C : U \subseteq T => U = T
    <3>1. C \in SUBSET (SUBSET S)
      OBVIOUS
    <3> HIDE DEF C
    <3> QED BY <1>1, <3>1, SmallestSet
  <2>2. PICK y \in T : SumOf(f, T) # f[y] + SumOf(f, T \ {y})
    OBVIOUS
  <2>3. T \in SUBSET S /\ IsFiniteSet(T)
    BY FS_Subset
  <2> DEFINE c == Taken(T)
  <2>4. c \in T /\ SumOf(f, T) = f[c] + SumOf(f, T \ {c})
    BY <2>2, <2>3, SumUnfolds
  <2>5. c # y
    BY <2>2, <2>4
  <2> HIDE DEF c
  <2>6. ASSUME NEW z \in T, NEW w \in T, z # w
        PROVE  SumOf(f, T \ {z}) = f[w] + SumOf(f, (T \ {z}) \ {w})
    <3>1. T \ {z} \in SUBSET S /\ T \ {z} \subseteq T /\ T \ {z} # T /\ w \in T \ {z}
      BY <2>3, <2>6
    <3> QED BY <2>1, <3>1
  <2>7. (T \ {c}) \ {y} = (T \ {y}) \ {c}
    OBVIOUS
  <2>8. f[c] \in Int /\ f[y] \in Int
    BY <2>3, <2>4
  <2> DEFINE rest == SumOf(f, (T \ {c}) \ {y})
  <2>9. rest \in Int
    <3> DEFINE U == (T \ {c}) \ {y}
    <3>1. U \subseteq S /\ IsFiniteSet(U)
      BY <2>3, FS_Subset
    <3>2. \A z \in U : f[z] \in Int
      BY <3>1
    <3> HIDE DEF U
    <3>3. SumOf(f, U) \in Int
      BY <3>1, <3>2, SumIsInt
    <3> QED BY <3>3 DEF U
  <2>10. SumOf(f, T \ {c}) = f[y] + rest
    BY <2>4, <2>5, <2>6
  <2>11. SumOf(f, T \ {y}) = f[c] + rest
    BY <2>4, <2>5, <2>6, <2>7
  <2> HIDE DEF rest
  <2>12. SumOf(f, T) = f[y] + SumOf(f, T \ {y})
    BY <2>4, <2>8, <2>9, <2>10, <2>11
  <2> QED BY <2>2, <2>12
<1> QED BY <1>1

\* A sum depends on its terms only.
LEMMA SumSame ==
  ASSUME NEW f, NEW g, NEW S, IsFiniteSet(S), \A x \in S : f[x] = g[x]
  PROVE  SumOf(f, S) = SumOf(g, S)
<1> DEFINE C == {T \in SUBSET S : SumOf(f, T) # SumOf(g, T)}
<1> SUFFICES ASSUME C # {} PROVE FALSE
  OBVIOUS
<1>1. PICK T \in C : \A U \in C : U \subseteq T => U = T
  <2>1. C \in SUBSET (SUBSET S)
    OBVIOUS
  <2> HIDE DEF C
  <2> QED BY <2>1, SmallestSet
<1>2. T \in SUBSET S /\ IsFiniteSet(T) /\ T # {}
  <2>1. T \in SUBSET S /\ SumOf(f, T) # SumOf(g, T)
    OBVIOUS
  <2> QED BY <2>1, FS_Subset, SumEmpty
<1>3. /\ Taken(T) \in T /\ SumOf(f, T) = f[Taken(T)] + SumOf(f, T \ {Taken(T)})
      /\ SumOf(g, T) = g[Taken(T)] + SumOf(g, T \ {Taken(T)})
  BY <1>2, SumUnfolds
<1>4. T \ {Taken(T)} \in SUBSET S /\ T \ {Taken(T)} # T /\ T \ {Taken(T)} \subseteq T
  BY <1>2, <1>3
<1>5. SumOf(f, T \ {Taken(T)}) = SumOf(g, T \ {Taken(T)})
  BY <1>1, <1>4
<1>6. SumOf(f, T) = SumOf(g, T)
  BY <1>2, <1>3, <1>5
<1> QED BY <1>6

\* One term changes.
LEMMA SumChanges ==
  ASSUME NEW f, NEW g, NEW S, IsFiniteSet(S), \A x \in S : f[x] \in Int /\ g[x] \in Int,
         NEW x \in S, \A y \in S : y # x => g[y] = f[y]
  PROVE  SumOf(g, S) = SumOf(f, S) + g[x] - f[x]
<1>1. IsFiniteSet(S \ {x}) /\ \A y \in S \ {x} : f[y] = g[y]
  BY FS_Subset
<1>2. SumOf(f, S \ {x}) = SumOf(g, S \ {x})
  BY <1>1, SumSame
<1>3. SumOf(f, S) = f[x] + SumOf(f, S \ {x})
  BY SumTakes
<1>4. SumOf(g, S) = g[x] + SumOf(g, S \ {x})
  BY SumTakes
<1>5. SumOf(f, S \ {x}) \in Int
  BY <1>1, SumIsInt
<1>6. f[x] \in Int /\ g[x] \in Int
  OBVIOUS
<1> QED BY <1>2, <1>3, <1>4, <1>5, <1>6

\* A sum of naturals covers each of its terms.
LEMMA SumCovers ==
  ASSUME NEW f, NEW S, IsFiniteSet(S), \A x \in S : f[x] \in Nat
  PROVE  SumOf(f, S) \in Nat /\ \A x \in S : f[x] <= SumOf(f, S)
<1> DEFINE C == {T \in SUBSET S : SumOf(f, T) \notin Nat}
<1>1. ASSUME C # {} PROVE FALSE
  <2>1. PICK T \in C : \A U \in C : U \subseteq T => U = T
    <3>1. C \in SUBSET (SUBSET S)
      OBVIOUS
    <3> HIDE DEF C
    <3> QED BY <1>1, <3>1, SmallestSet
  <2>2. T \in SUBSET S /\ IsFiniteSet(T) /\ T # {}
    <3>1. T \in SUBSET S /\ SumOf(f, T) \notin Nat
      OBVIOUS
    <3>2. SumOf(f, {}) \in Nat
      BY SumEmpty
    <3>3. T # {}
      BY <3>1, <3>2
    <3>4. IsFiniteSet(T)
      BY <3>1, FS_Subset
    <3> QED BY <3>1, <3>3, <3>4
  <2>3. Taken(T) \in T /\ SumOf(f, T) = f[Taken(T)] + SumOf(f, T \ {Taken(T)})
    BY <2>2, SumUnfolds
  <2>4. T \ {Taken(T)} \in SUBSET S /\ T \ {Taken(T)} # T /\ T \ {Taken(T)} \subseteq T
    BY <2>2, <2>3
  <2>5. SumOf(f, T \ {Taken(T)}) \in Nat
    BY <2>1, <2>4
  <2>6. SumOf(f, T) \in Nat
    BY <2>2, <2>3, <2>5
  <2> QED BY <2>6
<1>2. ASSUME NEW T \in SUBSET S PROVE SumOf(f, T) \in Nat
  BY <1>1
<1>3. ASSUME NEW x \in S PROVE f[x] <= SumOf(f, S)
  <2>1. SumOf(f, S \ {x}) \in Nat
    BY <1>2
  <2>2. SumOf(f, S) = f[x] + SumOf(f, S \ {x})
    BY SumTakes
  <2>3. f[x] \in Nat
    OBVIOUS
  <2> QED BY <2>1, <2>2, <2>3
<1> QED BY <1>2, <1>3

\* A larger term makes a larger sum.
LEMMA SumAtMost ==
  ASSUME NEW f, NEW g, NEW S, IsFiniteSet(S),
         \A x \in S : f[x] \in Int /\ g[x] \in Int /\ f[x] <= g[x]
  PROVE  SumOf(f, S) <= SumOf(g, S)
<1> DEFINE C == {T \in SUBSET S : ~ (SumOf(f, T) <= SumOf(g, T))}
<1> SUFFICES ASSUME C # {} PROVE FALSE
  OBVIOUS
<1>1. PICK T \in C : \A U \in C : U \subseteq T => U = T
  <2>1. C \in SUBSET (SUBSET S)
    OBVIOUS
  <2> HIDE DEF C
  <2> QED BY <2>1, SmallestSet
<1>2. T \in SUBSET S /\ ~ (SumOf(f, T) <= SumOf(g, T)) /\ IsFiniteSet(T)
  BY FS_Subset
<1>3. T # {}
  BY <1>2, SumEmpty
<1> DEFINE x == Taken(T)
           U == T \ {x}
<1>4. x \in T /\ SumOf(f, T) = f[x] + SumOf(f, U) /\ SumOf(g, T) = g[x] + SumOf(g, U)
  BY <1>2, <1>3, SumUnfolds
<1>5. U \in SUBSET S /\ U # T /\ U \subseteq T /\ IsFiniteSet(U)
  BY <1>2, <1>4, FS_Subset
<1>6. SumOf(f, U) <= SumOf(g, U)
  BY <1>1, <1>5
<1>7. SumOf(f, U) \in Int /\ SumOf(g, U) \in Int
  BY <1>5, SumIsInt
<1>8. f[x] \in Int /\ g[x] \in Int /\ f[x] <= g[x]
  BY <1>2, <1>4
<1> HIDE DEF U, x
<1> QED BY <1>2, <1>4, <1>6, <1>7, <1>8

\* The sum over two sets with no element in common.
LEMMA SumUnion ==
  ASSUME NEW f, NEW S, NEW R, IsFiniteSet(S), IsFiniteSet(R), S \cap R = {},
         \A x \in S \cup R : f[x] \in Int
  PROVE  SumOf(f, S \cup R) = SumOf(f, S) + SumOf(f, R)
<1> DEFINE C == {T \in SUBSET S : SumOf(f, T \cup R) # SumOf(f, T) + SumOf(f, R)}
<1> SUFFICES ASSUME C # {} PROVE FALSE
  OBVIOUS
<1>1. PICK T \in C : \A U \in C : U \subseteq T => U = T
  <2>1. C \in SUBSET (SUBSET S)
    OBVIOUS
  <2> HIDE DEF C
  <2> QED BY <2>1, SmallestSet
<1>2. T \in SUBSET S /\ SumOf(f, T \cup R) # SumOf(f, T) + SumOf(f, R)
  OBVIOUS
<1>3. IsFiniteSet(T) /\ IsFiniteSet(T \cup R) /\ SumOf(f, R) \in Int
  <2>1. IsFiniteSet(T)
    BY <1>2, FS_Subset
  <2> QED BY <2>1, FS_Union, SumIsInt
<1>4. T # {}
  <2> SUFFICES ASSUME T = {} PROVE FALSE
    OBVIOUS
  <2>1. SumOf(f, {}) = 0 /\ {} \cup R = R
    BY SumEmpty
  <2>2. SumOf(f, {} \cup R) # SumOf(f, {}) + SumOf(f, R)
    BY <1>2
  <2> QED BY <1>3, <2>1, <2>2
<1> DEFINE x == Taken(T)
           U == T \ {x}
<1>5. x \in T
  BY <1>4 DEF Taken
<1>6. U \in SUBSET S /\ U # T /\ U \subseteq T
  BY <1>2, <1>5
<1>7. SumOf(f, U \cup R) = SumOf(f, U) + SumOf(f, R)
  BY <1>1, <1>6
<1>8. SumOf(f, T) = f[x] + SumOf(f, U)
  BY <1>2, <1>3, <1>5, SumTakes
<1>9. SumOf(f, T \cup R) = f[x] + SumOf(f, U \cup R)
  <2>1. (T \cup R) \ {x} = U \cup R /\ x \in T \cup R
    BY <1>2, <1>5
  <2>2. SumOf(f, T \cup R) = f[x] + SumOf(f, (T \cup R) \ {x})
    BY <1>2, <1>3, <2>1, SumTakes
  <2> QED BY <2>1, <2>2
<1>10. SumOf(f, U) \in Int /\ f[x] \in Int
  <2>1. IsFiniteSet(U)
    BY <1>3, <1>6, FS_Subset
  <2> QED BY <1>2, <1>5, <1>6, <2>1, SumIsInt
<1> HIDE DEF U, x
<1> QED BY <1>2, <1>3, <1>7, <1>8, <1>9, <1>10

\* The sum of a function that adds two up is that of both.
LEMMA SumAdds ==
  ASSUME NEW f, NEW g, NEW h, NEW S, IsFiniteSet(S),
         \A x \in S : f[x] \in Int /\ g[x] \in Int /\ h[x] = f[x] + g[x]
  PROVE  SumOf(h, S) = SumOf(f, S) + SumOf(g, S)
<1> DEFINE C == {T \in SUBSET S : SumOf(h, T) # SumOf(f, T) + SumOf(g, T)}
<1> SUFFICES ASSUME C # {} PROVE FALSE
  OBVIOUS
<1>1. PICK T \in C : \A U \in C : U \subseteq T => U = T
  <2>1. C \in SUBSET (SUBSET S)
    OBVIOUS
  <2> HIDE DEF C
  <2> QED BY <2>1, SmallestSet
<1>2. T \in SUBSET S /\ SumOf(h, T) # SumOf(f, T) + SumOf(g, T) /\ IsFiniteSet(T)
  BY FS_Subset
<1>3. T # {}
  <2> SUFFICES ASSUME T = {} PROVE FALSE
    OBVIOUS
  <2>1. SumOf(f, {}) = 0 /\ SumOf(g, {}) = 0 /\ SumOf(h, {}) = 0
    BY SumEmpty
  <2>2. SumOf(h, {}) # SumOf(f, {}) + SumOf(g, {})
    BY <1>2
  <2> QED BY ONLY <2>1, <2>2
<1>4. PICK x \in T : x = Taken(T)
  BY <1>2, <1>3, SumUnfolds
<1>5. T \ {x} \notin C
  BY <1>1, <1>4
<1>6. SumOf(h, T \ {x}) = SumOf(f, T \ {x}) + SumOf(g, T \ {x})
  BY <1>2, <1>5
<1> HIDE DEF C
<1>7. /\ SumOf(f, T) = f[x] + SumOf(f, T \ {x})
      /\ SumOf(g, T) = g[x] + SumOf(g, T \ {x})
      /\ SumOf(h, T) = h[x] + SumOf(h, T \ {x})
  BY <1>2, <1>3, <1>4, SumUnfolds
<1>8. SumOf(f, T \ {x}) \in Int /\ SumOf(g, T \ {x}) \in Int
  <2>1. IsFiniteSet(T \ {x}) /\ \A y \in T \ {x} : f[y] \in Int /\ g[y] \in Int
    BY <1>2, FS_Subset
  <2> QED BY <2>1, SumIsInt
<1>9. h[x] = f[x] + g[x] /\ f[x] \in Int /\ g[x] \in Int
  BY <1>2
<1> QED BY <1>2, <1>6, <1>7, <1>8, <1>9

\* Fewer terms, when none is negative, make a smaller sum.
LEMMA SumSubset ==
  ASSUME NEW f, NEW S, IsFiniteSet(S), NEW T \in SUBSET S, \A x \in S : f[x] \in Nat
  PROVE  SumOf(f, T) <= SumOf(f, S)
<1>1. IsFiniteSet(T) /\ IsFiniteSet(S \ T)
  BY FS_Subset
<1>2. T \cup (S \ T) = S /\ T \cap (S \ T) = {}
  OBVIOUS
<1>3. SumOf(f, S) = SumOf(f, T) + SumOf(f, S \ T)
  <2>1. \A x \in T \cup (S \ T) : f[x] \in Int
    OBVIOUS
  <2>2. SumOf(f, T \cup (S \ T)) = SumOf(f, T) + SumOf(f, S \ T)
    BY <1>1, <1>2, <2>1, SumUnion
  <2> QED BY <1>2, <2>2
<1>4. SumOf(f, T) \in Nat /\ SumOf(f, S \ T) \in Nat
  BY <1>1, SumCovers
<1> QED BY <1>3, <1>4

-----------------------------------------------------------------------------
(* Numbers.                                                                *)

LEMMA QuotientNat ==
  ASSUME NEW a \in Nat, NEW c \in Nat \ {0}
  PROVE  a \div c \in Nat /\ c * (a \div c) <= a /\ a < c * (a \div c) + c
OBVIOUS

LEMMA ProductNat ==
  ASSUME NEW a \in Nat, NEW b \in Nat
  PROVE  a * b \in Nat
OBVIOUS

LEMMA MinOfTwo ==
  ASSUME NEW a \in Int, NEW b \in Int
  PROVE  /\ Min({a, b}) \in {a, b}
         /\ Min({a, b}) <= a /\ Min({a, b}) <= b
<1>1. \E x \in {a, b} : \A y \in {a, b} : x <= y
  OBVIOUS
<1> QED BY <1>1 DEF Min

LEMMA MaxOfTwo ==
  ASSUME NEW a \in Int, NEW b \in Int
  PROVE  /\ Max({a, b}) \in {a, b}
         /\ a <= Max({a, b}) /\ b <= Max({a, b})
<1>1. \E x \in {a, b} : \A y \in {a, b} : x >= y
  OBVIOUS
<1> QED BY <1>1 DEF Max

\* A bounded set of numbers has a greatest one, which Max finds.
LEMMA MaxOfBounded ==
  ASSUME NEW hi \in Nat, NEW S \in SUBSET (0..hi), S # {}
  PROVE  Max(S) \in S /\ \A y \in S : y <= Max(S)
<1> DEFINE N == {n \in Nat : \A y \in S : y <= n}
<1>1. hi \in N
  OBVIOUS
<1>2. PICK n \in N : \A m \in N : n <= m
  <2>1. N \in SUBSET Nat /\ N # {}
    BY <1>1
  <2> HIDE DEF N
  <2> QED BY <2>1, LeastNumber
<1>3. n \in S
  <2> SUFFICES ASSUME n \notin S PROVE FALSE
    OBVIOUS
  <2>1. PICK y \in S : TRUE
    OBVIOUS
  <2>2. n \in Nat /\ y \in Nat /\ y <= n /\ y # n
    OBVIOUS
  <2>3. n - 1 \in Nat
    BY <2>2
  <2>4. \A z \in S : z <= n - 1
    OBVIOUS
  <2>5. n - 1 \in N
    BY <2>3, <2>4
  <2> QED BY <1>2, <2>2, <2>5
<1>4. \E x \in S : \A y \in S : x >= y
  BY <1>3
<1>5. Max(S) \in S /\ \A y \in S : Max(S) >= y
  BY <1>4 DEF Max
<1> QED BY <1>5

\* A function that grows no faster than another at every step of an interval
\* grows no faster over the whole of it.
LEMMA StepwiseGrowth ==
  ASSUME NEW lo \in Nat, NEW hi \in Nat, lo <= hi, NEW f, NEW g,
         \A n \in lo..hi : f[n] \in Int /\ g[n] \in Int,
         \A n \in lo + 1 .. hi : f[n] - f[n - 1] <= g[n] - g[n - 1]
  PROVE  f[hi] - f[lo] <= g[hi] - g[lo]
<1> DEFINE C == {n \in lo..hi : ~ (f[n] - f[lo] <= g[n] - g[lo])}
<1> SUFFICES ASSUME C # {} PROVE FALSE
  OBVIOUS
<1>1. PICK n \in C : \A m \in C : n <= m
  <2>1. C \in SUBSET Nat
    OBVIOUS
  <2> HIDE DEF C
  <2> QED BY <2>1, LeastNumber
<1>2. n \in lo..hi /\ ~ (f[n] - f[lo] <= g[n] - g[lo])
  OBVIOUS
<1>3. lo \in lo..hi
  OBVIOUS
<1>4. n # lo
  BY <1>2, <1>3
<1>5. n \in lo + 1 .. hi /\ n - 1 \in lo..hi /\ ~ (n <= n - 1)
  BY <1>2, <1>4
<1>6. f[n - 1] - f[lo] <= g[n - 1] - g[lo]
  BY <1>1, <1>5
<1>7. f[n] - f[n - 1] <= g[n] - g[n - 1]
  BY <1>5
<1>8. /\ f[n] \in Int /\ g[n] \in Int /\ f[n - 1] \in Int /\ g[n - 1] \in Int
      /\ f[lo] \in Int /\ g[lo] \in Int
  BY <1>2, <1>3, <1>5
<1> HIDE DEF C
<1> QED BY <1>2, <1>6, <1>7, <1>8

-----------------------------------------------------------------------------
(* Adding up over the elements of a set of numbers, each from the one      *)
(* before it.                                                              *)

\* lo and the elements of B below n, and the last of them.
UpTo(lo, B, n)   == {lo} \cup {b \in B : b < n}
Before(lo, B, n) == Max(UpTo(lo, B, n))

LEMMA BeforeBounds ==
  ASSUME NEW lo \in Nat, NEW B, \A b \in B : b \in Nat /\ lo < b, NEW n \in Nat, lo < n
  PROVE  /\ Before(lo, B, n) \in UpTo(lo, B, n)
         /\ Before(lo, B, n) \in lo .. n - 1
         /\ \A b \in UpTo(lo, B, n) : b <= Before(lo, B, n)
<1>1. UpTo(lo, B, n) \in SUBSET (0 .. n - 1) /\ lo \in UpTo(lo, B, n) /\ n - 1 \in Nat
  <2>1. \A b \in UpTo(lo, B, n) : b \in 0 .. n - 1
    BY DEF UpTo
  <2>2. lo \in UpTo(lo, B, n) /\ n - 1 \in Nat
    BY DEF UpTo
  <2> QED BY <2>1, <2>2
<1>2. /\ Before(lo, B, n) \in UpTo(lo, B, n)
      /\ \A b \in UpTo(lo, B, n) : b <= Before(lo, B, n)
  <2> DEFINE S == UpTo(lo, B, n)
             k == n - 1
  <2>1. k \in Nat /\ S \in SUBSET (0..k) /\ S # {}
    BY <1>1
  <2> HIDE DEF S, k
  <2>2. Max(S) \in S /\ \A y \in S : y <= Max(S)
    BY <2>1, MaxOfBounded
  <2> QED BY <2>2 DEF Before, S
<1>3. \A b \in UpTo(lo, B, n) : b \in Nat /\ lo <= b /\ b <= n - 1
  BY DEF UpTo
<1> QED BY <1>2, <1>3

\* When each term is the growth of F since the element before, the sum is the
\* growth of F over all of them.
LEMMA Telescoping ==
  ASSUME NEW lo \in Nat, NEW top \in Nat, lo < top,
         NEW B, \A b \in B : b \in Nat /\ lo < b /\ b < top,
         NEW F, \A n \in Nat : lo <= n /\ n < top => F[n] \in Int,
         NEW g, \A b \in B : g[b] = F[b] - F[Before(lo, B, b)]
  PROVE  SumOf(g, B) = F[Before(lo, B, top)] - F[lo]
<1> DEFINE hi == top - 1
<1>a. /\ hi \in Nat /\ lo <= hi /\ top = hi + 1
      /\ \A b \in B : b \in lo + 1 .. hi
      /\ \A n \in lo..hi : F[n] \in Int
  OBVIOUS
<1> HIDE DEF hi
<1> SUFFICES ASSUME hi \in Nat, lo <= hi, top = hi + 1, \A b \in B : b \in lo + 1 .. hi,
                    \A n \in lo..hi : F[n] \in Int
             PROVE  SumOf(g, B) = F[Before(lo, B, hi + 1)] - F[lo]
  BY <1>a
<1> DEFINE Low(n)   == {b \in B : b < n}
           Holds(n) == SumOf(g, Low(n)) = F[Before(lo, B, n)] - F[lo]
           C        == {n \in lo + 1 .. hi + 1 : ~ Holds(n)}
<1>0. \A b \in B : b \in Nat /\ lo < b
  OBVIOUS
<1>1. ASSUME C # {} PROVE FALSE
  <2>1. PICK n \in C : \A m \in C : n <= m
    <3>1. C \in SUBSET Nat
      OBVIOUS
    <3> HIDE DEF C
    <3> QED BY <1>1, <3>1, LeastNumber
  <2>2. n \in lo + 1 .. hi + 1 /\ ~ Holds(n)
    OBVIOUS
  <2> DEFINE m == n - 1
  <2>3. n # lo + 1
    <3> SUFFICES ASSUME n = lo + 1 PROVE FALSE
      OBVIOUS
    <3>0. n = lo + 1
      OBVIOUS
    <3>1. Low(n) = {}
      BY <2>2
    <3>2. Before(lo, B, n) = lo
      <4>1. Before(lo, B, n) \in lo .. n - 1
        <5>1. n \in Nat /\ lo < n
          BY <2>2
        <5> QED BY <1>0, <5>1, BeforeBounds
      <4> QED BY <4>1, <3>0
    <3>3. F[lo] \in Int
      OBVIOUS
    <3>4. SumOf(g, Low(n)) = 0
      BY <3>1, SumEmpty
    <3> HIDE DEF Low
    <3> QED BY <2>2, <3>2, <3>3, <3>4
  <2>4. m \in lo + 1 .. hi /\ m \in lo + 1 .. hi + 1 /\ ~ (n <= m)
    BY <2>2, <2>3
  <2>5. Holds(m)
    <3>1. m \in C \/ Holds(m)
      BY <2>4
    <3>2. m \notin C
      BY <2>1, <2>4
    <3> QED BY <3>1, <3>2
  <2>6. CASE m \notin B
    <3>1. Low(n) = Low(m) /\ UpTo(lo, B, n) = UpTo(lo, B, m)
      <4>1. \A b \in B : b < n <=> b < m
        BY <2>2, <2>4, <2>6
      <4> QED BY <4>1 DEF UpTo
    <3>2. Before(lo, B, n) = Before(lo, B, m)
      BY <3>1 DEF Before
    <3>3. SumOf(g, Low(m)) = F[Before(lo, B, m)] - F[lo]
      BY <2>5
    <3> HIDE DEF Low, m
    <3> QED BY <2>2, <3>1, <3>2, <3>3
  <2>7. CASE m \in B
    <3>1. Low(n) \ {m} = Low(m) /\ m \in Low(n) /\ IsFiniteSet(Low(n))
      <4>1. \A b \in B : b < n <=> b < m \/ b = m
        BY <2>2, <2>4
      <4>2. IsFiniteSet(lo + 1 .. hi)
        BY FS_Interval
      <4>3. IsFiniteSet(Low(n))
        <5>1. Low(n) \subseteq lo + 1 .. hi
          OBVIOUS
        <5> QED BY <4>2, <5>1, FS_Subset
      <4>4. ~ (m < m)
        BY <2>4
      <4> QED BY <2>7, <4>1, <4>3, <4>4
    <3>2. Before(lo, B, n) = m
      <4>1. m \in UpTo(lo, B, n)
        BY <2>4, <2>7 DEF UpTo
      <4>2. m <= Before(lo, B, n) /\ Before(lo, B, n) \in lo .. n - 1
        <5>1. n \in Nat /\ lo < n
          BY <2>2
        <5> QED BY <1>0, <4>1, <5>1, BeforeBounds
      <4> QED BY <2>4, <4>2
    <3>3. \A b \in Low(n) : g[b] \in Int
      <4> SUFFICES ASSUME NEW b \in Low(n) PROVE g[b] \in Int
        OBVIOUS
      <4>1. b \in lo + 1 .. hi /\ b \in Nat /\ lo < b
        OBVIOUS
      <4>2. Before(lo, B, b) \in lo .. b - 1
        BY <1>0, <4>1, BeforeBounds
      <4>3. F[b] \in Int /\ F[Before(lo, B, b)] \in Int
        BY <4>1, <4>2
      <4> QED BY <4>3
    <3>4. SumOf(g, Low(n)) = g[m] + SumOf(g, Low(m))
      <4>1. SumOf(g, Low(n)) = g[m] + SumOf(g, Low(n) \ {m})
        <5>1. m \in Low(n) /\ IsFiniteSet(Low(n))
          BY <3>1
        <5> HIDE DEF Low, m
        <5> QED BY <5>1, <3>3, SumTakes
      <4> QED BY <3>1, <4>1
    <3>5. g[m] = F[m] - F[Before(lo, B, m)]
      BY <2>7
    <3>6. F[m] \in Int /\ F[Before(lo, B, m)] \in Int /\ F[lo] \in Int
      <4>1. Before(lo, B, m) \in lo .. m - 1
        <5>1. m \in Nat /\ lo < m
          BY <2>4
        <5> HIDE DEF m
        <5> QED BY <1>0, <5>1, BeforeBounds
      <4> QED BY <2>4, <4>1
    <3>7. SumOf(g, Low(m)) = F[Before(lo, B, m)] - F[lo]
      BY <2>5
    <3>8. SumOf(g, Low(n)) = F[m] - F[lo]
      <4> HIDE DEF Low, m
      <4> QED BY <3>4, <3>5, <3>6, <3>7
    <3> QED BY <2>2, <3>2, <3>8
  <2> QED BY <2>6, <2>7
<1>2. Holds(hi + 1)
  <2>1. hi + 1 \in lo + 1 .. hi + 1
    OBVIOUS
  <2>2. hi + 1 \notin C
    BY <1>1
  <2> HIDE DEF Holds
  <2> QED BY <2>1, <2>2
<1>3. Low(hi + 1) = B
  OBVIOUS
<1>4. SumOf(g, Low(hi + 1)) = F[Before(lo, B, hi + 1)] - F[lo]
  BY <1>2
<1> QED BY <1>3, <1>4

-----------------------------------------------------------------------------
(* A sum over an operator.  The provers cannot instantiate a lemma with an *)
(* operator: where an operator V is summed, MapThenSumSet is expanded to   *)
(* the function `iter' it evaluates, and this lemma applies.                *)

\* From k on, f goes as g does, for m terms.
Continues(f, g, k, m) == \A i \in 1..m : g[i] \in Int /\ f[k + i] = g[i]

\* A sum of consecutive terms, counted from elsewhere.
LEMMA SumShift ==
  ASSUME NEW f, NEW g, NEW k \in Nat, NEW m \in Nat, Continues(f, g, k, m)
  PROVE  SumOf(f, k + 1 .. k + m) = SumOf(g, 1..m)
<1> DEFINE C == {n \in 0..m : SumOf(f, k + 1 .. k + n) # SumOf(g, 1..n)}
<1> SUFFICES ASSUME C # {} PROVE FALSE
  OBVIOUS
<1>1. PICK n \in C : \A j \in C : n <= j
  <2>1. C \in SUBSET Nat
    OBVIOUS
  <2> HIDE DEF C
  <2> QED BY <2>1, LeastNumber
<1>2. n \in 0..m /\ SumOf(f, k + 1 .. k + n) # SumOf(g, 1..n)
  OBVIOUS
<1>3. n # 0
  <2>1. k + 1 .. k + 0 = {} /\ 1..0 = {}
    OBVIOUS
  <2>2. SumOf(f, {}) = SumOf(g, {})
    BY SumEmpty
  <2> QED BY <1>2, <2>1, <2>2
<1>4. PICK p \in 0..m : p = n - 1 /\ p \notin C
  <2>1. n - 1 \in 0..m /\ ~(n <= n - 1)
    BY <1>2, <1>3
  <2>2. n - 1 \notin C
    BY <1>1, <2>1
  <2> QED BY <2>1, <2>2
<1>5. SumOf(f, k + 1 .. k + p) = SumOf(g, 1..p)
  BY <1>4
<1> HIDE DEF C
<1>6. /\ k + 1 .. k + p = (k + 1 .. k + n) \ {k + n} /\ k + n \in k + 1 .. k + n
      /\ 1..p = (1..n) \ {n} /\ n \in 1..n
  <2>1. n \in Nat \ {0} /\ p \in Nat /\ p = n - 1
    BY <1>2, <1>3, <1>4
  <2>2. PICK a \in Nat, b \in Nat \ {0} : a = k + p /\ b = k + n /\ a = b - 1 /\ k < b
    BY <2>1
  <2>3. k + 1 .. a = (k + 1 .. b) \ {b} /\ b \in k + 1 .. b
    BY ONLY k \in Nat, <2>2
  <2>4. 1..p = (1..n) \ {n} /\ n \in 1..n
    BY ONLY <2>1
  <2> QED BY <2>2, <2>3, <2>4
<1>7. IsFiniteSet(1..n) /\ IsFiniteSet(k + 1 .. k + n)
  BY <1>2, FS_Interval
<1>8. \A i \in 1..n : g[i] \in Int /\ f[k + i] = g[i]
  BY <1>2 DEF Continues
<1>9. \A j \in k + 1 .. k + n : f[j] \in Int
  <2> SUFFICES ASSUME NEW j \in k + 1 .. k + n PROVE f[j] \in Int
    OBVIOUS
  <2>1. j - k \in 1..n /\ k + (j - k) = j
    BY <1>2
  <2> QED BY <1>8, <2>1
<1>10. SumOf(g, 1..n) = g[n] + SumOf(g, (1..n) \ {n})
  <2>1. \A i \in 1..n : g[i] \in Int
    BY <1>8
  <2> QED BY ONLY <1>6, <1>7, <2>1, SumTakes
<1>11. SumOf(f, k + 1 .. k + n) = f[k + n] + SumOf(f, (k + 1 .. k + n) \ {k + n})
  <2>1. PICK T, y : T = k + 1 .. k + n /\ y = k + n
    OBVIOUS
  <2>2. IsFiniteSet(T) /\ y \in T /\ \A j \in T : f[j] \in Int
    BY <1>6, <1>7, <1>9, <2>1
  <2>3. SumOf(f, T) = f[y] + SumOf(f, T \ {y})
    BY ONLY <2>2, SumTakes
  <2> QED BY ONLY <2>1, <2>3
<1>12. f[k + n] = g[n]
  BY <1>6, <1>8
<1> QED BY <1>2, <1>5, <1>6, <1>10, <1>11, <1>12

\* iter is the sum when the equation it is chosen by is that of Sums.
LEMMA SumIterated ==
  ASSUME NEW f, NEW S, IsFiniteSet(S), NEW iter,
         (\E h : Sums(h, f, S)) => Sums(iter, f, S)
  PROVE  iter[S] = SumOf(f, S)
<1>1. PICK h : Sums(h, f, S) /\ SumOf(f, S) = h[S]
  BY SumsExist
<1>2. iter = h
  BY <1>1, SumsExist
<1> QED BY <1>1, <1>2
=============================================================================
