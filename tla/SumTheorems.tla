----------------------------- MODULE SumTheorems -----------------------------
(***************************************************************************)
(* What the folds of the community modules add up, for sequences of any    *)
(* length.  The induction theorems of the library take an operator as      *)
(* parameter; here induction is the least counterexample: a set of numbers *)
(* has a least one, and a family of subsets of a finite set has one that   *)
(* contains no other.                                                      *)
(***************************************************************************)
EXTENDS Integers, Sequences, FiniteSets, FiniteSetTheorems, WellFoundedInduction, TLAPS

(* A set of natural numbers that is not empty has a least element.          *)
LEMMA LeastNumber ==
  ASSUME NEW T, T \subseteq Nat, T # {}
  PROVE  \E n \in T : \A m \in T : n <= m
<1> DEFINE R == OpToRel(<, Nat)
<1>1. IsWellFoundedOn(R, Nat)
  BY NatLessThanWellFounded
<1>3. \A x, y \in Nat : <<y, x>> \in R <=> y < x
  BY DEF OpToRel
<1> HIDE DEF R
<1>2. PICK x \in T : \A y \in T : ~ (<<y, x>> \in R)
  BY <1>1, WFMin, Zenon
<1>4. \A y \in T : ~(y < x)
  BY <1>2, <1>3, Zenon
<1> QED BY <1>4

(* Among subsets of a finite set there is one that contains no other.       *)
LEMMA SmallestSet ==
  ASSUME NEW D, IsFiniteSet(D), NEW C, C \subseteq SUBSET D, C # {}
  PROVE  \E S \in C : \A U \in C : ~(U \subseteq S /\ U # S)
<1>1. \A S \in C : IsFiniteSet(S) /\ Cardinality(S) \in Nat
  BY FS_Subset, FS_CardinalityType
<1> DEFINE T == {Cardinality(S) : S \in C}
<1>2. T \subseteq Nat /\ T # {}
  BY <1>1
<1>3. PICK n \in T : \A m \in T : n <= m
  <2> HIDE DEF T
  <2> QED BY <1>2, LeastNumber
<1>4. PICK S \in C : Cardinality(S) = n
  OBVIOUS
<1>5. ASSUME NEW U \in C, U \subseteq S, U # S PROVE FALSE
  <2>1. Cardinality(U) <= Cardinality(S) /\ Cardinality(U) # Cardinality(S)
    BY <1>1, <1>5, FS_Subset
  <2>2. Cardinality(U) \in Nat /\ Cardinality(S) \in Nat
    BY <1>1
  <2>3. Cardinality(S) <= Cardinality(U)
    BY <1>3, <1>4
  <2> QED BY <2>1, <2>2, <2>3
<1> QED BY <1>5

-----------------------------------------------------------------------------
(* g gives the sum of the weights w over each subset of D.                  *)
Sums(D, w, g) ==
  /\ g \in [SUBSET D -> Int]
  /\ g[{}] = 0
  /\ \A S \in SUBSET D : \A x \in S : g[S] = g[S \ {x}] + w[x]

(* How MapThenFoldSet adds up: it takes an element c chooses out of a set   *)
(* and adds it to the fold of the rest, or the other way round.             *)
Chooses(D, c) == \A S \in SUBSET D : S # {} => c[S] \in S
FoldsTo(D, w, c, g) ==
  /\ g = [S \in SUBSET D |-> g[S]]
  /\ g[{}] = 0
  /\ \A S \in SUBSET D : S # {} =>
       \/ g[S] = w[c[S]] + g[S \ {c[S]}]
       \/ g[S] = g[S \ {c[S]}] + w[c[S]]
(* The same, of integers and with the element added first.                  *)
FoldsFirst(D, w, c, g) ==
  /\ g \in [SUBSET D -> Int] /\ FoldsTo(D, w, c, g)
  /\ \A S \in SUBSET D : S # {} => g[S] = w[c[S]] + g[S \ {c[S]}]

(* A fold of integers is an integer, ...                                    *)
LEMMA FoldInt ==
  ASSUME NEW D, IsFiniteSet(D), NEW w \in [D -> Int], NEW c, Chooses(D, c),
         NEW g, FoldsTo(D, w, c, g)
  PROVE  g \in [SUBSET D -> Int]
<1> DEFINE Bad == {S \in SUBSET D : g[S] \notin Int}
<1>1. ASSUME Bad # {} PROVE FALSE
  <2>1. PICK S \in Bad : \A U \in Bad : ~(U \subseteq S /\ U # S)
    <3>1. Bad \subseteq SUBSET D
      OBVIOUS
    <3> HIDE DEF Bad
    <3> QED BY <1>1, <3>1, SmallestSet
  <2>2. CASE S = {}
    BY <2>2 DEF FoldsTo
  <2>3. CASE S # {}
    <3>1. c[S] \in S /\ c[S] \in D
      BY <2>3 DEF Chooses
    <3>2. S \ {c[S]} \in SUBSET D /\ S \ {c[S]} # S /\ S \ {c[S]} \subseteq S
      BY <3>1
    <3>3. g[S \ {c[S]}] \in Int
      BY <2>1, <3>2
    <3>4. g[S] = w[c[S]] + g[S \ {c[S]}] \/ g[S] = g[S \ {c[S]}] + w[c[S]]
      BY <2>3 DEF FoldsTo
    <3>5. w[c[S]] \in Int
      BY <3>1
    <3> QED BY <3>3, <3>4, <3>5
  <2> QED BY <2>2, <2>3
<1>2. \A S \in SUBSET D : g[S] \in Int
  BY <1>1
<1>3. g = [S \in SUBSET D |-> g[S]]
  BY DEF FoldsTo
<1> QED BY <1>2, <1>3

(* ... and a sum in whatever order the elements are taken.                  *)
LEMMA FoldSums ==
  ASSUME NEW D, IsFiniteSet(D), NEW w \in [D -> Int], NEW c, Chooses(D, c),
         NEW g, FoldsTo(D, w, c, g)
  PROVE  Sums(D, w, g)
<1>1. g \in [SUBSET D -> Int]
  BY FoldInt
<1>2. g[{}] = 0
  BY DEF FoldsTo
<1> DEFINE Ok(S) == \A x \in S : g[S] = g[S \ {x}] + w[x]
           Bad == {S \in SUBSET D : ~Ok(S)}
<1>3. ASSUME Bad # {} PROVE FALSE
  <2>1. PICK S \in Bad : \A U \in Bad : ~(U \subseteq S /\ U # S)
    <3>1. Bad \subseteq SUBSET D
      OBVIOUS
    <3> HIDE DEF Bad
    <3> QED BY <1>3, <3>1, SmallestSet
  <2>2. PICK x \in S : g[S] # g[S \ {x}] + w[x]
    OBVIOUS
  <2> DEFINE y == c[S]
  <2>3. y \in S /\ y \in D /\ x \in D
    BY <2>2 DEF Chooses
  <2>4. g[S] = g[S \ {y}] + w[y]
    <3>1. S \ {y} \in SUBSET D
      OBVIOUS
    <3>2. g[S] = w[y] + g[S \ {y}] \/ g[S] = g[S \ {y}] + w[y]
      BY <2>2 DEF FoldsTo
    <3> HIDE DEF y
    <3> QED BY <1>1, <2>3, <3>1, <3>2
  <2> HIDE DEF y
  <2>5. x # y
    BY <2>2, <2>4
  <2>6. Ok(S \ {x}) /\ Ok(S \ {y})
    <3>1. S \ {x} \in SUBSET D /\ S \ {x} # S /\ S \ {x} \subseteq S
      BY <2>2
    <3>2. S \ {y} \in SUBSET D /\ S \ {y} # S /\ S \ {y} \subseteq S
      BY <2>3
    <3> HIDE DEF Ok
    <3> QED BY <2>1, <3>1, <3>2
  <2> DEFINE U == (S \ {x}) \ {y}
  <2>7. g[S \ {x}] = g[U] + w[y]
    BY <2>3, <2>5, <2>6
  <2>8. g[S \ {y}] = g[U] + w[x]
    <3>1. g[S \ {y}] = g[(S \ {y}) \ {x}] + w[x]
      BY <2>2, <2>5, <2>6
    <3>2. (S \ {y}) \ {x} = U
      OBVIOUS
    <3> QED BY <3>1, <3>2
  <2>9. U \in SUBSET D /\ S \ {x} \in SUBSET D /\ S \ {y} \in SUBSET D
    OBVIOUS
  <2>10. g[U] \in Int /\ w[x] \in Int /\ w[y] \in Int
    BY <1>1, <2>3, <2>9
  <2> HIDE DEF U
  <2>11. g[S] = g[S \ {x}] + w[x]
    BY <2>4, <2>7, <2>8, <2>10
  <2> QED BY <2>2, <2>11
<1> QED BY <1>1, <1>2, <1>3 DEF Sums

(* The recursive function behind a fold exists, by induction on the size of *)
(* the sets it is given.                                                    *)
LEMMA FoldExists ==
  ASSUME NEW D, IsFiniteSet(D), NEW w \in [D -> Int], NEW c, Chooses(D, c)
  PROVE  \E g : FoldsFirst(D, w, c, g)
<1> DEFINE Below(n) == {S \in SUBSET D : Cardinality(S) <= n}
           Good(n, f) == f = [S \in Below(n) |->
                                IF S = {} THEN 0 ELSE w[c[S]] + f[S \ {c[S]}]]
           Bad == {n \in Nat : ~\E f : Good(n, f)}
<1>0. \A S \in SUBSET D : IsFiniteSet(S) /\ Cardinality(S) \in Nat
  BY FS_Subset, FS_CardinalityType
<1>1. ASSUME Bad # {} PROVE FALSE
  <2>1. PICK n \in Bad : \A m \in Bad : n <= m
    <3> HIDE DEF Good
    <3> QED BY <1>1, LeastNumber
  <2>2. n # 0
    <3>1. \A S \in Below(0) : S = {}
      BY <1>0, FS_EmptySet
    <3>2. Good(0, [S \in Below(0) |-> 0])
      BY <3>1
    <3> QED BY <3>2
  <2>3. PICK f : Good(n - 1, f)
    <3>1. n - 1 \in Nat /\ ~(n <= n - 1)
      BY <2>2
    <3> HIDE DEF Good
    <3> QED BY <2>1, <3>1
  <2> DEFINE h == [S \in Below(n) |-> IF S = {} THEN 0 ELSE w[c[S]] + f[S \ {c[S]}]]
  <2>4. \A S \in Below(n) : S # {} => S \ {c[S]} \in Below(n - 1) /\ S \ {c[S]} \in Below(n)
    <3> SUFFICES ASSUME NEW S \in Below(n), S # {}
                 PROVE  S \ {c[S]} \in Below(n - 1) /\ S \ {c[S]} \in Below(n)
      OBVIOUS
    <3>1. c[S] \in S
      BY DEF Chooses
    <3>2. Cardinality(S \ {c[S]}) = Cardinality(S) - 1
      BY <1>0, <3>1, FS_RemoveElement
    <3>3. Cardinality(S) \in Nat /\ Cardinality(S) <= n /\ n \in Nat
      BY <1>0
    <3>4. S \ {c[S]} \in SUBSET D
      OBVIOUS
    <3> QED BY <3>2, <3>3, <3>4
  <2>5. \A S \in Below(n - 1) : S \in Below(n) /\ f[S] = h[S]
    <3>1. \A S \in Below(n - 1) : S \in Below(n)
      BY <1>0
    <3>2. \A S \in Below(n - 1) :
            f[S] = IF S = {} THEN 0 ELSE w[c[S]] + f[S \ {c[S]}]
      BY <2>3
    <3> QED BY <3>1, <3>2
  <2>6. \A S \in Below(n) : h[S] = IF S = {} THEN 0 ELSE w[c[S]] + h[S \ {c[S]}]
    BY <2>4, <2>5
  <2>7. Good(n, h)
    BY <2>6
  <2> QED BY <2>7
<1>2. PICK f : Good(Cardinality(D), f)
  <2>1. Cardinality(D) \in Nat
    BY FS_CardinalityType
  <2> HIDE DEF Good
  <2> QED BY <1>1, <2>1
<1>3. Below(Cardinality(D)) = SUBSET D
  BY FS_Subset
<1>4. f = [S \in SUBSET D |-> IF S = {} THEN 0 ELSE w[c[S]] + f[S \ {c[S]}]]
  BY <1>2, <1>3
<1>5. /\ f = [S \in SUBSET D |-> f[S]] /\ f[{}] = 0
      /\ \A S \in SUBSET D : S # {} => f[S] = w[c[S]] + f[S \ {c[S]}]
  <2>1. DOMAIN f = SUBSET D
    BY <1>4
  <2>2. f[{}] = 0 /\ \A S \in SUBSET D : S # {} => f[S] = w[c[S]] + f[S \ {c[S]}]
    BY <1>4
  <2>3. f = [S \in DOMAIN f |-> f[S]]
    BY <1>4
  <2> QED BY <2>1, <2>2, <2>3
<1>6. FoldsTo(D, w, c, f)
  BY <1>5 DEF FoldsTo
<1>7. f \in [SUBSET D -> Int]
  BY <1>6, FoldInt
<1> QED BY <1>5, <1>6, <1>7 DEF FoldsFirst

(* Sums of the same weights are the same.                                   *)
LEMMA SumUnique ==
  ASSUME NEW D, NEW E, NEW w, NEW v, NEW g, NEW h, IsFiniteSet(D),
         Sums(D, w, g), Sums(E, v, h),
         NEW S, S \subseteq D, S \subseteq E, \A x \in S : w[x] = v[x]
  PROVE  g[S] = h[S]
<1> DEFINE Bad == {U \in SUBSET S : g[U] # h[U]}
<1>1. ASSUME Bad # {} PROVE FALSE
  <2>1. PICK U \in Bad : \A V \in Bad : ~(V \subseteq U /\ V # U)
    <3>1. Bad \subseteq SUBSET D
      OBVIOUS
    <3> HIDE DEF Bad
    <3> QED BY <1>1, <3>1, SmallestSet
  <2>2. CASE U = {}
    BY <2>2 DEF Sums
  <2>3. ASSUME NEW x \in U PROVE FALSE
    <3>1. U \ {x} \in SUBSET S /\ U \ {x} # U /\ U \ {x} \subseteq U
      BY <2>3
    <3>2. g[U \ {x}] = h[U \ {x}]
      BY <2>1, <3>1
    <3>3. g[U] = g[U \ {x}] + w[x] /\ h[U] = h[U \ {x}] + v[x]
      BY <2>3 DEF Sums
    <3> QED BY <2>3, <3>2, <3>3
  <2> QED BY <2>2, <2>3
<1> QED BY <1>1

-----------------------------------------------------------------------------
(* The sum of n weights.                                                    *)
Weights(n) == [1..n -> Int]
SumOf(n, w) == (CHOOSE g : Sums(1..n, w, g))[1..n]

LEMMA SumOfExists ==
  ASSUME NEW n \in Nat, NEW w \in Weights(n)
  PROVE  \E g : Sums(1..n, w, g) /\ SumOf(n, w) = g[1..n]
<1> DEFINE c == [S \in SUBSET (1..n) |-> CHOOSE x \in S : TRUE]
<1>1. IsFiniteSet(1..n)
  BY FS_Interval
<1>2. Chooses(1..n, c)
  BY DEF Chooses
<1>3. \E g : Sums(1..n, w, g)
  <2> HIDE DEF c
  <2> QED BY <1>1, <1>2, FoldExists, FoldSums DEF Weights, FoldsFirst
<1> QED BY <1>3 DEF SumOf

(* Any function that gives the sums of the same weights gives SumOf.        *)
LEMMA SumOfIs ==
  ASSUME NEW n \in Nat, NEW w \in Weights(n), NEW D, NEW v, NEW h,
         Sums(D, v, h), 1..n \subseteq D, \A k \in 1..n : w[k] = v[k]
  PROVE  SumOf(n, w) = h[1..n]
<1>1. PICK g : Sums(1..n, w, g) /\ SumOf(n, w) = g[1..n]
  BY SumOfExists
<1>2. IsFiniteSet(1..n)
  BY FS_Interval
<1>3. g[1..n] = h[1..n]
  BY <1>1, <1>2, SumUnique
<1> QED BY <1>1, <1>3

LEMMA SumOfNone == ASSUME NEW w \in Weights(0) PROVE SumOf(0, w) = 0
<1>1. PICK g : Sums(1..0, w, g) /\ SumOf(0, w) = g[1..0]
  BY SumOfExists
<1>2. 1..0 = {}
  OBVIOUS
<1> QED BY <1>1, <1>2 DEF Sums

LEMMA SumOfInt ==
  ASSUME NEW n \in Nat, NEW w \in Weights(n)
  PROVE  SumOf(n, w) \in Int
<1>1. PICK g : Sums(1..n, w, g) /\ SumOf(n, w) = g[1..n]
  BY SumOfExists
<1> QED BY <1>1 DEF Sums

(* Of weights none of which is negative no sum is, ...                      *)
LEMMA PartSumsNat ==
  ASSUME NEW D, IsFiniteSet(D), NEW w \in [D -> Nat], NEW g, Sums(D, w, g)
  PROVE  \A S \in SUBSET D : g[S] \in Nat
<1> DEFINE Bad == {S \in SUBSET D : g[S] \notin Nat}
<1>1. ASSUME Bad # {} PROVE FALSE
  <2>1. PICK S \in Bad : \A U \in Bad : ~(U \subseteq S /\ U # S)
    <3>1. Bad \subseteq SUBSET D
      OBVIOUS
    <3> HIDE DEF Bad
    <3> QED BY <1>1, <3>1, SmallestSet
  <2>2. CASE S = {}
    BY <2>2 DEF Sums
  <2>3. ASSUME NEW x \in S PROVE FALSE
    <3>1. S \ {x} \in SUBSET D /\ S \ {x} # S /\ S \ {x} \subseteq S /\ x \in D
      OBVIOUS
    <3>2. g[S \ {x}] \in Nat
      BY <2>1, <3>1
    <3>3. g[S] = g[S \ {x}] + w[x]
      BY DEF Sums
    <3>4. w[x] \in Nat
      BY <3>1
    <3> QED BY <3>2, <3>3, <3>4
  <2> QED BY <2>2, <2>3
<1> QED BY <1>1

LEMMA SumsNat ==
  ASSUME NEW D, IsFiniteSet(D), NEW w \in [D -> Nat], NEW g, Sums(D, w, g)
  PROVE  g[D] \in Nat
  BY PartSumsNat

(* and two of them are no more than any sum they are in.                    *)
LEMMA SumsPair ==
  ASSUME NEW D, NEW w \in [D -> Nat], NEW g, Sums(D, w, g),
         NEW S \in SUBSET D, NEW a \in S, NEW b \in S, a # b
  PROVE  g[S] = g[S \ {a, b}] + w[a] + w[b]
<1>1. S \ {a} \in SUBSET D /\ b \in S \ {a} /\ (S \ {a}) \ {b} = S \ {a, b} /\ S \ {a, b} \in SUBSET D
  OBVIOUS
<1>2. g[S] = g[S \ {a}] + w[a]
  BY DEF Sums
<1>3. g[S \ {a}] = g[S \ {a, b}] + w[b]
  <2>1. g[S \ {a}] = g[(S \ {a}) \ {b}] + w[b]
    BY <1>1 DEF Sums
  <2> QED BY <1>1, <2>1, Zenon
<1>4. g[S \ {a, b}] \in Int /\ w[a] \in Nat /\ w[b] \in Nat
  <2>1. a \in D /\ b \in D
    OBVIOUS
  <2>2. g[S \ {a, b}] \in Int
    BY <1>1 DEF Sums
  <2> QED BY <2>1, <2>2
<1> QED BY <1>2, <1>3, <1>4

LEMMA SumOfNat ==
  ASSUME NEW n \in Nat, NEW w \in [1..n -> Nat]
  PROVE  SumOf(n, w) \in Nat
<1>1. w \in Weights(n) /\ IsFiniteSet(1..n)
  BY FS_Interval DEF Weights
<1>2. PICK g : Sums(1..n, w, g) /\ SumOf(n, w) = g[1..n]
  BY <1>1, SumOfExists
<1> QED BY <1>1, <1>2, SumsNat

(* The last weight is added to the sum of those before it, ...              *)
LEMMA SumOfAppend ==
  ASSUME NEW n \in Nat, NEW w \in Weights(n), NEW v \in Weights(n + 1),
         \A k \in 1..n : w[k] = v[k]
  PROVE  SumOf(n + 1, v) = SumOf(n, w) + v[n + 1]
<1>1. PICK h : Sums(1..n + 1, v, h) /\ SumOf(n + 1, v) = h[1..n + 1]
  BY SumOfExists
<1>2. 1..n \subseteq 1..n + 1 /\ n + 1 \in 1..n + 1 /\ (1..n + 1) \ {n + 1} = 1..n
  OBVIOUS
<1>3. SumOf(n, w) = h[1..n]
  BY <1>1, <1>2, SumOfIs
<1>4. h[1..n + 1] = h[(1..n + 1) \ {n + 1}] + v[n + 1]
  BY <1>1, <1>2 DEF Sums
<1> QED BY <1>1, <1>2, <1>3, <1>4

(* ... and so is the first to the sum of those after it.                    *)
LEMMA SumOfTail ==
  ASSUME NEW n \in Nat, NEW w \in Weights(n + 1), NEW v \in Weights(n),
         \A k \in 1..n : v[k] = w[k + 1]
  PROVE  SumOf(n + 1, w) = w[1] + SumOf(n, v)
<1>1. PICK g : Sums(1..n + 1, w, g) /\ SumOf(n + 1, w) = g[1..n + 1]
  BY SumOfExists
<1> DEFINE Shift(S) == {k + 1 : k \in S}
           h == [S \in SUBSET (1..n) |-> g[Shift(S)]]
<1>2. \A S \in SUBSET (1..n) : Shift(S) \in SUBSET (1..n + 1)
  OBVIOUS
<1>3. Sums(1..n, v, h)
  <2>1. h \in [SUBSET (1..n) -> Int]
    BY <1>1, <1>2 DEF Sums
  <2>2. h[{}] = 0
    <3>1. Shift({}) = {}
      OBVIOUS
    <3> HIDE DEF Shift
    <3>2. h[{}] = g[Shift({})]
      OBVIOUS
    <3> QED BY <1>1, <3>1, <3>2 DEF Sums
  <2>3. ASSUME NEW S \in SUBSET (1..n), NEW x \in S PROVE h[S] = h[S \ {x}] + v[x]
    <3>1. x \in 1..n /\ x + 1 \in Shift(S) /\ S \ {x} \in SUBSET (1..n)
      OBVIOUS
    <3>2. Shift(S \ {x}) = Shift(S) \ {x + 1}
      OBVIOUS
    <3> HIDE DEF Shift
    <3>3. g[Shift(S)] = g[Shift(S) \ {x + 1}] + w[x + 1]
      BY <1>1, <1>2, <3>1 DEF Sums
    <3> QED BY <3>1, <3>2, <3>3
  <2> HIDE DEF h
  <2> QED BY <2>1, <2>2, <2>3 DEF Sums
<1>4. SumOf(n, v) = h[1..n]
  <2> HIDE DEF h
  <2> QED BY <1>3, SumOfIs
<1>5. h[1..n] = g[(1..n + 1) \ {1}]
  <2>1. Shift(1..n) = (1..n + 1) \ {1}
    <3>1. ASSUME NEW y \in (1..n + 1) \ {1} PROVE y \in Shift(1..n)
      <4>1. y - 1 \in 1..n /\ y = (y - 1) + 1
        OBVIOUS
      <4> QED BY <4>1
    <3>2. ASSUME NEW y \in Shift(1..n) PROVE y \in (1..n + 1) \ {1}
      OBVIOUS
    <3> HIDE DEF Shift
    <3> QED BY <3>1, <3>2
  <2> HIDE DEF Shift
  <2> QED BY <2>1
<1>6. g[1..n + 1] = g[(1..n + 1) \ {1}] + w[1] /\ g[(1..n + 1) \ {1}] \in Int
  BY <1>1 DEF Sums
<1>7. w[1] \in Int
  BY DEF Weights
<1> QED BY <1>1, <1>4, <1>5, <1>6, <1>7

(* A fold over a function, or a part of it, picks any element of what is    *)
(* left: its recursive function.                                            *)
AnyOf(S) == CHOOSE x \in S : TRUE
FoldsAny(D, w, g) ==
  g = [S \in SUBSET D |-> IF S = {} THEN 0 ELSE w[AnyOf(S)] + g[S \ {AnyOf(S)}]]

LEMMA AnyOfIsIn == ASSUME NEW S, S # {} PROVE AnyOf(S) \in S
  BY DEF AnyOf

LEMMA FoldsAnyExists ==
  ASSUME NEW D, IsFiniteSet(D), NEW w \in [D -> Int]
  PROVE  \E g : FoldsAny(D, w, g)
<1> DEFINE c == [S \in SUBSET D |-> AnyOf(S)]
<1>1. Chooses(D, c) /\ \A S \in SUBSET D : c[S] = AnyOf(S)
  BY AnyOfIsIn DEF Chooses
<1>2. PICK g : FoldsFirst(D, w, c, g)
  <2> HIDE DEF c
  <2> QED BY <1>1, FoldExists
<1>3. \A S \in SUBSET D :
        g[S] = IF S = {} THEN 0 ELSE w[AnyOf(S)] + g[S \ {AnyOf(S)}]
  BY <1>1, <1>2 DEF FoldsFirst, FoldsTo
<1>4. DOMAIN g = SUBSET D /\ g = [S \in DOMAIN g |-> g[S]]
  BY <1>2 DEF FoldsFirst
<1>5. FoldsAny(D, w, g)
  BY <1>3, <1>4 DEF FoldsAny
<1> QED BY <1>5

LEMMA FoldsAnySums ==
  ASSUME NEW D, IsFiniteSet(D), NEW w \in [D -> Int], NEW g, FoldsAny(D, w, g)
  PROVE  Sums(D, w, g)
<1> DEFINE c == [S \in SUBSET D |-> AnyOf(S)]
<1>1. Chooses(D, c) /\ \A S \in SUBSET D : c[S] = AnyOf(S)
  BY AnyOfIsIn DEF Chooses
<1>2. \A S \in SUBSET D :
        g[S] = IF S = {} THEN 0 ELSE w[AnyOf(S)] + g[S \ {AnyOf(S)}]
  BY DEF FoldsAny
<1>3. g = [S \in SUBSET D |-> g[S]]
  BY DEF FoldsAny
<1> HIDE DEF c
<1>4. FoldsTo(D, w, c, g)
  BY <1>1, <1>2, <1>3 DEF FoldsTo
<1> QED BY <1>1, <1>4, FoldSums

LEMMA FoldsAnyIsSum ==
  ASSUME NEW n \in Nat, NEW w \in Weights(n), NEW g, FoldsAny(1..n, w, g)
  PROVE  g[1..n] = SumOf(n, w)
<1>1. IsFiniteSet(1..n)
  BY FS_Interval
<1>2. Sums(1..n, w, g)
  BY <1>1, FoldsAnySums DEF Weights
<1> QED BY <1>2, SumOfIs

-----------------------------------------------------------------------------
(* The sum of no greater weights is no greater, ...                         *)
LEMMA SumsMonotone ==
  ASSUME NEW D, IsFiniteSet(D), NEW w \in [D -> Int], NEW v \in [D -> Int],
         \A x \in D : w[x] <= v[x], NEW g, Sums(D, w, g), NEW h, Sums(D, v, h)
  PROVE  g[D] <= h[D]
<1> DEFINE Bad == {S \in SUBSET D : ~(g[S] <= h[S])}
<1>1. ASSUME Bad # {} PROVE FALSE
  <2>1. PICK S \in Bad : \A U \in Bad : ~(U \subseteq S /\ U # S)
    <3>1. Bad \subseteq SUBSET D
      OBVIOUS
    <3> HIDE DEF Bad
    <3> QED BY <1>1, <3>1, SmallestSet
  <2>2. CASE S = {}
    BY <2>2 DEF Sums
  <2>3. ASSUME NEW x \in S PROVE FALSE
    <3>1. S \ {x} \in SUBSET D /\ S \ {x} # S /\ S \ {x} \subseteq S /\ x \in D
      OBVIOUS
    <3>2. g[S \ {x}] <= h[S \ {x}]
      BY <2>1, <3>1
    <3>3. g[S] = g[S \ {x}] + w[x] /\ h[S] = h[S \ {x}] + v[x]
      BY DEF Sums
    <3>4. w[x] <= v[x] /\ w[x] \in Int /\ v[x] \in Int
      BY <3>1
    <3>5. g[S \ {x}] \in Int /\ h[S \ {x}] \in Int
      BY <3>1 DEF Sums
    <3> QED BY <3>2, <3>3, <3>4, <3>5
  <2> QED BY <2>2, <2>3
<1> QED BY <1>1

(* ... and that of one weight, if no other counts, is that weight.          *)
LEMMA SumsAlone ==
  ASSUME NEW D, IsFiniteSet(D), NEW w \in [D -> Int], NEW m \in D,
         \A x \in D : x # m => w[x] = 0, NEW g, Sums(D, w, g)
  PROVE  g[D] = w[m]
<1> DEFINE h == [S \in SUBSET D |-> IF m \in S THEN w[m] ELSE 0]
<1>1. h \in [SUBSET D -> Int] /\ h[{}] = 0 /\ h[D] = w[m]
  OBVIOUS
<1>2. ASSUME NEW S \in SUBSET D, NEW x \in S PROVE h[S] = h[S \ {x}] + w[x]
  <2>1. h[S] = (IF m \in S THEN w[m] ELSE 0) /\ h[S \ {x}] = (IF m \in S \ {x} THEN w[m] ELSE 0)
    OBVIOUS
  <2> QED BY <2>1
<1> HIDE DEF h
<1>3. Sums(D, w, h)
  BY <1>1, <1>2 DEF Sums
<1>4. g[D] = h[D]
  BY <1>3, SumUnique
<1> QED BY <1>1, <1>4
-----------------------------------------------------------------------------
(* A fold over a sequence from the left: the last element, the highest      *)
(* place, is added to the fold of those before it.                          *)
Highest(S) == CHOOSE x \in S : \A y \in S : x >= y
FoldsLeft(n, T, base, step, g) ==
  /\ g = [S \in SUBSET (1..n) |-> g[S]] /\ g[{}] = base
  /\ \A S \in SUBSET (1..n) : S # {} /\ g[S \ {Highest(S)}] \in T =>
       g[S] = step[Highest(S)][g[S \ {Highest(S)}]]

(* The highest of some numbers up to n is one of them.                      *)
LEMMA HighestIsIn ==
  ASSUME NEW n \in Nat, NEW S \in SUBSET (1..n), S # {}
  PROVE  Highest(S) \in S
<1>1. \E x \in S : \A y \in S : x >= y
  <2> DEFINE U == {n - x : x \in S}
  <2>0. \A x \in S : n - x \in Nat
    OBVIOUS
  <2>1. U \subseteq Nat /\ U # {}
    BY <2>0
  <2>2. PICK u \in U : \A v \in U : u <= v
    <3> HIDE DEF U
    <3> QED BY <2>1, LeastNumber
  <2>3. PICK x \in S : u = n - x
    OBVIOUS
  <2>4. \A y \in S : n - x <= n - y
    BY <2>2, <2>3
  <2> HIDE DEF U
  <2>5. ASSUME NEW y \in S PROVE x >= y
    <3>1. y \in 1..n /\ x \in 1..n
      OBVIOUS
    <3>2. y \in Int /\ x \in Int
      BY <3>1
    <3> QED BY <2>4, <3>2
  <2>6. \A y \in S : x >= y
    BY <2>5
  <2> QED BY <2>6
<1> QED BY <1>1 DEF Highest

(* What each step keeps within T, the fold is in.                           *)
LEMMA FoldStays ==
  ASSUME NEW n \in Nat, NEW T, NEW base \in T, NEW step \in [1..n -> [T -> T]],
         NEW g, FoldsLeft(n, T, base, step, g)
  PROVE  g[1..n] \in T
<1> DEFINE D == 1..n
           Bad == {S \in SUBSET D : g[S] \notin T}
<1>1. ASSUME Bad # {} PROVE FALSE
  <2>1. PICK S \in Bad : \A U \in Bad : ~(U \subseteq S /\ U # S)
    <3>1. Bad \subseteq SUBSET D /\ IsFiniteSet(D)
      BY FS_Interval
    <3> HIDE DEF Bad, D
    <3> QED BY <1>1, <3>1, SmallestSet
  <2>2. S \in SUBSET D /\ S # {} /\ g[S] \notin T
    BY DEF FoldsLeft
  <2>3. Highest(S) \in S
    BY <2>2, HighestIsIn
  <2>4. g[S \ {Highest(S)}] \in T
    <3>1. S \ {Highest(S)} \in SUBSET D
      BY <2>2
    <3>2. S \ {Highest(S)} \subseteq S /\ S \ {Highest(S)} # S
      BY <2>3
    <3> QED BY <2>1, <3>1, <3>2
  <2>5. g[S] = step[Highest(S)][g[S \ {Highest(S)}]]
    BY <2>2, <2>4 DEF FoldsLeft
  <2>6. step[Highest(S)] \in [T -> T]
    BY <2>2, <2>3
  <2> QED BY <2>2, <2>4, <2>5, <2>6
<1>2. 1..n \in SUBSET D
  OBVIOUS
<1> QED BY <1>1, <1>2

(* The recursive function behind such a fold exists.                        *)
FoldsExactly(n, base, step, g) ==
  g = [S \in SUBSET (1..n) |->
         IF S = {} THEN base ELSE step[Highest(S)][g[S \ {Highest(S)}]]]
LEMMA FoldLeftExists ==
  ASSUME NEW n \in Nat, NEW T, NEW base \in T, NEW step \in [1..n -> [T -> T]]
  PROVE  \E g : g \in [SUBSET (1..n) -> T] /\ FoldsExactly(n, base, step, g)
<1> DEFINE D == 1..n
           c == [S \in SUBSET D |-> Highest(S)]
           Below(m) == {S \in SUBSET D : Cardinality(S) <= m}
           Good(m, f) == f = [S \in Below(m) |->
                                IF S = {} THEN base ELSE step[c[S]][f[S \ {c[S]}]]]
           Bad == {m \in Nat : ~\E f : Good(m, f)}
<1>a. IsFiniteSet(D)
  BY FS_Interval
<1>b. \A S \in SUBSET D : c[S] = Highest(S) /\ (S # {} => c[S] \in S)
  BY HighestIsIn
<1>c. DOMAIN step = D
  OBVIOUS
<1> HIDE DEF D, c
<1>0. \A S \in SUBSET D : IsFiniteSet(S) /\ Cardinality(S) \in Nat
  BY <1>a, FS_Subset, FS_CardinalityType
<1>1. ASSUME Bad # {} PROVE FALSE
  <2>1. PICK m \in Bad : \A k \in Bad : m <= k
    <3> HIDE DEF Good
    <3> QED BY <1>1, LeastNumber
  <2>2. m # 0
    <3>1. \A S \in Below(0) : S = {}
      BY <1>0, FS_EmptySet
    <3>2. Good(0, [S \in Below(0) |-> base])
      BY <3>1
    <3> QED BY <3>2
  <2>3. PICK f : Good(m - 1, f)
    <3>1. m - 1 \in Nat /\ ~(m <= m - 1)
      BY <2>2
    <3> HIDE DEF Good
    <3> QED BY <2>1, <3>1
  <2> DEFINE h == [S \in Below(m) |-> IF S = {} THEN base ELSE step[c[S]][f[S \ {c[S]}]]]
  <2>4. \A S \in Below(m) : S # {} => S \ {c[S]} \in Below(m - 1) /\ S \ {c[S]} \in Below(m)
    <3> SUFFICES ASSUME NEW S \in Below(m), S # {}
                 PROVE  S \ {c[S]} \in Below(m - 1) /\ S \ {c[S]} \in Below(m)
      OBVIOUS
    <3>1. c[S] \in S
      BY <1>b
    <3>2. Cardinality(S \ {c[S]}) = Cardinality(S) - 1
      BY <1>0, <3>1, FS_RemoveElement
    <3>3. Cardinality(S) \in Nat /\ Cardinality(S) <= m /\ m \in Nat
      BY <1>0
    <3>4. S \ {c[S]} \in SUBSET D
      OBVIOUS
    <3> QED BY <3>2, <3>3, <3>4
  <2>5. \A S \in Below(m - 1) : S \in Below(m) /\ f[S] = h[S]
    <3>1. \A S \in Below(m - 1) : S \in Below(m)
      BY <1>0
    <3>2. \A S \in Below(m - 1) :
            f[S] = IF S = {} THEN base ELSE step[c[S]][f[S \ {c[S]}]]
      BY <2>3
    <3> QED BY <3>1, <3>2
  <2>6. \A S \in Below(m) : h[S] = IF S = {} THEN base ELSE step[c[S]][h[S \ {c[S]}]]
    BY <2>4, <2>5
  <2>7. Good(m, h)
    BY <2>6
  <2> QED BY <2>7
<1>2. PICK f : Good(Cardinality(D), f)
  <2>1. Cardinality(D) \in Nat
    BY <1>a, FS_CardinalityType
  <2> HIDE DEF Good
  <2> QED BY <1>1, <2>1
<1>3. Below(Cardinality(D)) = SUBSET D
  BY <1>a, FS_Subset
<1>4. f = [S \in SUBSET D |-> IF S = {} THEN base ELSE step[c[S]][f[S \ {c[S]}]]]
  BY <1>2, <1>3
<1>5. f = [S \in SUBSET D |-> IF S = {} THEN base ELSE step[Highest(S)][f[S \ {Highest(S)}]]]
  BY <1>4, <1>b
<1>6. f \in [SUBSET D -> T]
  <2> DEFINE Off == {S \in SUBSET D : f[S] \notin T}
  <2>1. ASSUME Off # {} PROVE FALSE
    <3>1. PICK S \in Off : \A U \in Off : ~(U \subseteq S /\ U # S)
      <4>1. Off \subseteq SUBSET D
        OBVIOUS
      <4> HIDE DEF Off
      <4> QED BY <1>a, <2>1, <4>1, SmallestSet
    <3>2. S \in SUBSET D /\ f[S] \notin T /\ S # {}
      BY <1>4
    <3>3. c[S] \in S /\ S \ {c[S]} \in SUBSET D
      BY <1>b, <3>2
    <3>4. f[S \ {c[S]}] \in T
      BY <3>1, <3>3
    <3>5. step[c[S]] \in [T -> T]
      BY <1>c, <3>2, <3>3
    <3>6. f[S] = step[c[S]][f[S \ {c[S]}]]
      BY <1>4, <3>2
    <3> QED BY <3>2, <3>4, <3>5, <3>6
  <2>2. DOMAIN f = SUBSET D /\ f = [S \in DOMAIN f |-> f[S]]
    BY <1>4
  <2> QED BY <2>1, <2>2
<1> QED BY <1>5, <1>6 DEF D, FoldsExactly
(* A finite set of numbers has a greatest, and one of each rank.            *)
Numbers(S) == S \subseteq Int
LEMMA GreatestIs ==
  ASSUME NEW S, IsFiniteSet(S), Numbers(S), S # {}
  PROVE  \E m \in S : \A d \in S : d <= m
<1> DEFINE up(c) == {d \in S : d >= c}
           Kind == {up(c) : c \in S}
<1>2. PICK T \in Kind : \A U \in Kind : ~(U \subseteq T /\ U # T)
  <2>1. Kind \subseteq SUBSET S /\ Kind # {}
    OBVIOUS
  <2> HIDE DEF Kind
  <2> QED BY <2>1, SmallestSet
<1>3. PICK m \in S : T = up(m)
  OBVIOUS
<1>4. ASSUME NEW d \in S, ~(d <= m) PROVE FALSE
  <2>1. d \in Int /\ m \in Int
    BY DEF Numbers
  <2>2. up(d) \subseteq up(m)
    <3>1. ASSUME NEW x \in S, x >= d PROVE x >= m
      <4>1. x \in Int
        BY DEF Numbers
      <4> QED BY <1>4, <2>1, <3>1, <4>1
    <3> QED BY <3>1
  <2>3. m \in up(m) /\ m \notin up(d)
    BY <1>4, <2>1
  <2> QED BY <1>2, <1>3, <2>2, <2>3
<1> QED BY <1>4

LEMMA EachRank ==
  ASSUME NEW S, IsFiniteSet(S), Numbers(S)
  PROVE  \A i \in 1..Cardinality(S) : \E c \in S : Cardinality({d \in S : d <= c}) = i
<1> DEFINE Ranked(T) == \A i \in 1..Cardinality(T) : \E c \in T : Cardinality({d \in T : d <= c}) = i
           Kind == {T \in SUBSET S : ~Ranked(T)}
<1>1. SUFFICES ASSUME Kind # {} PROVE FALSE
  OBVIOUS
<1>2. PICK T \in Kind : \A U \in Kind : ~(U \subseteq T /\ U # T)
  <2>1. Kind \subseteq SUBSET S
    OBVIOUS
  <2> HIDE DEF Kind
  <2> QED BY <1>1, <2>1, SmallestSet
<1>3. T \subseteq S /\ ~Ranked(T)
  OBVIOUS
<1>4. IsFiniteSet(T)
  BY <1>3, FS_Subset
<1>5. Cardinality(T) \in Nat
  BY <1>4, FS_CardinalityType
<1>6. T # {}
  <2> SUFFICES ASSUME T = {} PROVE FALSE
    OBVIOUS
  <2>1. Cardinality(T) = 0
    BY FS_EmptySet
  <2> QED BY <1>3, <2>1
<1>7. PICK m \in T : \A d \in T : d <= m
  BY <1>3, <1>4, <1>6, GreatestIs DEF Numbers
<1> DEFINE U == T \ {m}
<1>8. Cardinality(U) = Cardinality(T) - 1
  BY <1>4, <1>7, FS_RemoveElement
<1>9. Ranked(U)
  <2>1. U \subseteq T /\ U # T /\ U \in SUBSET S
    BY <1>3, <1>7
  <2> QED BY <1>2, <2>1
<1>10. ASSUME NEW i \in 1..Cardinality(T) PROVE \E c \in T : Cardinality({d \in T : d <= c}) = i
  <2>1. CASE i = Cardinality(T)
    <3>1. {d \in T : d <= m} = T
      BY <1>7
    <3> QED BY <2>1, <3>1
  <2>2. CASE i # Cardinality(T)
    <3>1. i \in 1..Cardinality(U)
      BY <1>5, <1>8, <2>2
    <3>2. PICK c \in U : Cardinality({d \in U : d <= c}) = i
      BY <1>9, <3>1
    <3>3. c \in T /\ c # m /\ c \in Int /\ m \in Int /\ c <= m
      BY <1>3, <1>7 DEF Numbers
    <3>4. {d \in T : d <= c} = {d \in U : d <= c}
      BY <3>3
    <3> QED BY <3>2, <3>3, <3>4
  <2> QED BY <2>1, <2>2
<1> QED BY <1>3, <1>10
=============================================================================
