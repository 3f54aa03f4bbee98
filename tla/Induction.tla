----------------------------- MODULE Induction -----------------------------
(***************************************************************************)
(* Induction over the natural numbers, for a set in the place of a         *)
(* predicate, and what the recursive functions of the models compute: the  *)
(* sum and the concatenation of a list.                                    *)
(***************************************************************************)
EXTENDS Integers, Sequences, FiniteSetTheorems, TLAPS

(* Every set of numbers has a least one: among the sets 0 .. x, x a number *)
(* of the set, one has no other inside it.                                 *)
LEMMA MinNat ==
  ASSUME NEW T, T \subseteq Nat, T # {}
  PROVE  \E x \in T : \A y \in T : x <= y
<1>1. PICK m \in T : TRUE
  OBVIOUS
<1> DEFINE S == 0 .. m
           F == { U \in SUBSET S : \E x \in T : U = 0 .. x }
<1>2. IsFiniteSet(S)
  BY FS_Interval
<1>3. IsWellFoundedOn(StrictSubsetOrdering(S), FiniteSubsetsOf(S))
  BY FS_StrictSubsetOrderingWellFounded
<1>4. FiniteSubsetsOf(S) = SUBSET S
  BY <1>2, FS_FiniteSubsetsOfFinite
<1>5. F \subseteq SUBSET S /\ S \in F
  BY <1>1
<1>6. F # {}
  BY <1>5
<1>7. PICK U \in F : \A V \in F : ~ (<< V, U >> \in StrictSubsetOrdering(S))
  <2> DEFINE SS == SUBSET S  R == StrictSubsetOrdering(S)
  <2>1. IsWellFoundedOn(R, SS) /\ F \subseteq SS
    BY <1>3, <1>4, <1>5
  <2> HIDE DEF F, SS, R
  <2>2. \E U \in F : \A V \in F : ~ (<< V, U >> \in R)
    BY <1>6, <2>1, WFMin
  <2> QED BY <2>2 DEF R
<1>8. PICK x \in T : U = 0 .. x
  BY <1>7
<1>9. ASSUME NEW y \in T PROVE x <= y
  <2>1. x \in Nat /\ y \in Nat
    BY <1>8, <1>9
  <2>2. SUFFICES ASSUME y < x PROVE FALSE
    BY <2>1
  <2>3. U \subseteq S /\ 0 .. y \subseteq U
    BY <1>7, <1>8, <2>1, <2>2
  <2>4. 0 .. y \in F
    BY <2>3
  <2>5. x \in U /\ x \notin 0 .. y
    BY <1>8, <2>1, <2>2
  <2>6. << 0 .. y, U >> \in StrictSubsetOrdering(S)
    BY <1>7, <2>3, <2>5 DEF StrictSubsetOrdering
  <2> QED BY <1>7, <2>4, <2>6
<1> QED BY <1>8, <1>9

(* Induction.                                                              *)
LEMMA NatInd ==
  ASSUME NEW T, T \subseteq Nat, 0 \in T, \A k \in T : k + 1 \in T
  PROVE  T = Nat
<1> SUFFICES ASSUME Nat \ T # {} PROVE FALSE
  OBVIOUS
<1>1. PICK x \in Nat \ T : \A y \in Nat \ T : x <= y
  BY MinNat
<1>2. x # 0 /\ x - 1 \in Nat
  BY <1>1
<1>3. x - 1 \in T
  BY <1>1, <1>2
<1> QED BY <1>1, <1>2, <1>3

(* Induction up to a bound.                                                *)
LEMMA UpTo ==
  ASSUME NEW m \in Nat, NEW T, 0 \in T, \A k \in 0 .. m - 1 : k \in T => k + 1 \in T
  PROVE  0 .. m \subseteq T
<1> DEFINE U == { k \in Nat : k <= m => k \in T }
<1>1. 0 \in U /\ \A k \in U : k + 1 \in U
  OBVIOUS
<1>2. U = Nat
  <2> HIDE DEF U
  <2> QED BY <1>1, NatInd DEF U
<1> QED BY <1>2

-----------------------------------------------------------------------------
(* Sums.                                                                   *)

Total(g, m) ==
  LET sum[j \in 0 .. m] == IF j = 0 THEN 0 ELSE sum[j - 1] + g[j]
  IN sum[m]

Sums(f, g, m) == f = [ j \in 0 .. m |-> IF j = 0 THEN 0 ELSE f[j - 1] + g[j] ]

LEMMA SumsAt ==
  ASSUME NEW f, NEW g, NEW m \in Nat, Sums(f, g, m)
  PROVE  f[0] = 0 /\ \A k \in 0 .. m - 1 : f[k + 1] = f[k] + g[k + 1]
<1>1. f = [ j \in 0 .. m |-> IF j = 0 THEN 0 ELSE f[j - 1] + g[j] ]
  BY DEF Sums
<1>2. ASSUME NEW k \in 0 .. m - 1 PROVE f[k + 1] = f[k] + g[k + 1]
  <2> DEFINE j == k + 1
  <2>1. j \in 0 .. m /\ j # 0 /\ j - 1 = k
    OBVIOUS
  <2> HIDE DEF j
  <2>2. f[j] = f[j - 1] + g[j]
    BY <1>1, <2>1
  <2> QED BY <2>1, <2>2 DEF j
<1>3. f[0] = 0
  BY <1>1
<1> QED BY <1>2, <1>3

LEMMA SumExists ==
  ASSUME NEW g, NEW m \in Nat
  PROVE  \E f : Sums(f, g, m)
<1> DEFINE T == { k \in Nat : \E f : Sums(f, g, k) }
<1>1. 0 \in T
  <2> DEFINE f == [ j \in 0 .. 0 |-> 0 ]
  <2>1. Sums(f, g, 0)
    BY DEF Sums
  <2> QED BY <2>1
<1>2. ASSUME NEW k \in T PROVE k + 1 \in T
  <2>1. PICK f : Sums(f, g, k)
    OBVIOUS
  <2> DEFINE h == [ j \in 0 .. k + 1 |-> IF j = k + 1 THEN f[k] + g[k + 1] ELSE f[j] ]
  <2>2. k \in Nat /\ DOMAIN h = 0 .. k + 1
    OBVIOUS
  <2>3. ASSUME NEW j \in 0 .. k + 1
        PROVE  h[j] = IF j = 0 THEN 0 ELSE h[j - 1] + g[j]
    <3>1. CASE j = k + 1
      <4>1. j # 0 /\ j - 1 = k /\ h[k] = f[k] /\ h[j] = f[k] + g[k + 1]
        BY <2>2, <3>1
      <4> QED BY <3>1, <4>1
    <3>2. CASE j # k + 1
      <4>1. j \in 0 .. k /\ h[j] = f[j] /\ (j # 0 => h[j - 1] = f[j - 1])
        BY <2>2, <3>2
      <4>2. f[j] = IF j = 0 THEN 0 ELSE f[j - 1] + g[j]
        BY <2>1, <4>1 DEF Sums
      <4> QED BY <4>1, <4>2
    <3> QED BY <3>1, <3>2
  <2>4. Sums(h, g, k + 1)
    <3> HIDE DEF h
    <3>1. h = [ j \in 0 .. k + 1 |-> h[j] ]
      BY DEF h
    <3> QED BY <2>3, <3>1 DEF Sums
  <2> QED BY <2>2, <2>4
<1>3. T = Nat
  <2> HIDE DEF T
  <2> QED BY <1>1, <1>2, NatInd DEF T
<1> QED BY <1>3

(* What a sum is, in a bigger one or by itself.                            *)
LEMMA SumUnique ==
  ASSUME NEW g, NEW m \in Nat, NEW l \in Nat, NEW f, NEW h,
         Sums(f, g, m), Sums(h, g, l), m <= l
  PROVE  \A k \in 0 .. m : f[k] = h[k]
<1> DEFINE T == { k \in 0 .. m : f[k] = h[k] }
<1>1. 0 \in T
  BY SumsAt
<1>2. ASSUME NEW k \in 0 .. m - 1, k \in T PROVE k + 1 \in T
  <2>1. k + 1 \in 0 .. m /\ k \in 0 .. l - 1
    OBVIOUS
  <2>2. f[k + 1] = f[k] + g[k + 1] /\ h[k + 1] = h[k] + g[k + 1]
    BY <2>1, SumsAt
  <2> QED BY <1>2, <2>1, <2>2
<1>3. 0 .. m \subseteq T
  <2> HIDE DEF T
  <2> QED BY <1>1, <1>2, UpTo
<1> QED BY <1>3

LEMMA TotalUnfold ==
  ASSUME NEW g, NEW m \in Nat
  PROVE  \E f : Sums(f, g, m) /\ Total(g, m) = f[m]
<1> DEFINE E(f) == [ j \in 0 .. m |-> IF j = 0 THEN 0 ELSE f[j - 1] + g[j] ]
           s == CHOOSE f : f = E(f)
<1>1. \E f : f = E(f)
  BY SumExists DEF Sums
<1>2. s = E(s)
  <2> HIDE DEF E
  <2> QED BY <1>1
<1>3. Total(g, m) = s[m]
  BY DEF Total
<1> HIDE DEF s
<1> QED BY <1>2, <1>3 DEF Sums

LEMMA TotalIs ==
  ASSUME NEW g, NEW m \in Nat, NEW l \in Nat, NEW f, m <= l, Sums(f, g, l)
  PROVE  f[m] = Total(g, m)
<1>1. PICK h : Sums(h, g, m) /\ Total(g, m) = h[m]
  BY TotalUnfold
<1>2. \A k \in 0 .. m : h[k] = f[k]
  BY <1>1, SumUnique
<1> QED BY <1>1, <1>2

LEMMA TotalZero == ASSUME NEW g PROVE Total(g, 0) = 0
  BY TotalUnfold, SumsAt

LEMMA TotalStep ==
  ASSUME NEW g, NEW m \in Nat
  PROVE  Total(g, m + 1) = Total(g, m) + g[m + 1]
<1>1. m + 1 \in Nat /\ m <= m + 1 /\ m \in 0 .. (m + 1) - 1
  OBVIOUS
<1>2. PICK f : Sums(f, g, m + 1) /\ Total(g, m + 1) = f[m + 1]
  BY <1>1, TotalUnfold
<1>3. f[m] = Total(g, m)
  BY <1>1, <1>2, TotalIs
<1>4. f[m + 1] = f[m] + g[m + 1]
  BY <1>1, <1>2, SumsAt
<1> QED BY <1>2, <1>3, <1>4

(* Equal lists have equal sums.                                            *)
LEMMA TotalAgree ==
  ASSUME NEW g, NEW h, NEW m \in Nat, \A j \in 1 .. m : g[j] = h[j]
  PROVE  Total(g, m) = Total(h, m)
<1> DEFINE T == { k \in 0 .. m : Total(g, k) = Total(h, k) }
<1>1. 0 \in T
  BY TotalZero
<1>2. ASSUME NEW k \in 0 .. m - 1, k \in T PROVE k + 1 \in T
  <2>1. k \in Nat /\ k + 1 \in 1 .. m
    OBVIOUS
  <2> QED BY <1>2, <2>1, TotalStep
<1>3. 0 .. m \subseteq T
  <2> HIDE DEF T
  <2> QED BY <1>1, <1>2, UpTo
<1> QED BY <1>3

(* Sums of natural numbers grow.                                           *)
LEMMA TotalGrows ==
  ASSUME NEW g, NEW m \in Nat, \A j \in 1 .. m : g[j] \in Nat
  PROVE  \A k \in 0 .. m : Total(g, k) \in Nat /\ Total(g, k) <= Total(g, m)
<1> DEFINE T == { k \in 0 .. m : /\ Total(g, k) \in Nat
                                 /\ \A j \in 0 .. k : Total(g, j) \in Nat /\ Total(g, j) <= Total(g, k) }
<1>1. 0 \in T
  BY TotalZero
<1>2. ASSUME NEW k \in 0 .. m - 1, k \in T PROVE k + 1 \in T
  <2>1. k \in Nat /\ k + 1 \in 1 .. m /\ g[k + 1] \in Nat
    OBVIOUS
  <2>2. Total(g, k + 1) = Total(g, k) + g[k + 1]
    BY <2>1, TotalStep
  <2>3. Total(g, k) \in Nat /\ \A j \in 0 .. k : Total(g, j) \in Nat /\ Total(g, j) <= Total(g, k)
    BY <1>2
  <2>4. ASSUME NEW j \in 0 .. k + 1
        PROVE  Total(g, j) \in Nat /\ Total(g, j) <= Total(g, k + 1)
    <3>1. CASE j = k + 1
      BY <2>1, <2>2, <2>3, <3>1
    <3>2. CASE j # k + 1
      <4>1. j \in 0 .. k
        BY <3>2
      <4> QED BY <2>1, <2>2, <2>3, <4>1
    <3> QED BY <3>1, <3>2
  <2> QED BY <2>1, <2>2, <2>3, <2>4
<1>3. 0 .. m \subseteq T
  <2> HIDE DEF T
  <2> QED BY <1>1, <1>2, UpTo
<1> QED BY <1>3

-----------------------------------------------------------------------------
(* Concatenations.                                                         *)

Cat(g, m) ==
  LET data[j \in 0 .. m] == IF j = 0 THEN << >> ELSE data[j - 1] \o g[j]
  IN data[m]

Cats(f, g, m) == f = [ j \in 0 .. m |-> IF j = 0 THEN << >> ELSE f[j - 1] \o g[j] ]

LEMMA CatsAt ==
  ASSUME NEW f, NEW g, NEW m \in Nat, Cats(f, g, m)
  PROVE  f[0] = << >> /\ \A k \in 0 .. m - 1 : f[k + 1] = f[k] \o g[k + 1]
<1>1. f = [ j \in 0 .. m |-> IF j = 0 THEN << >> ELSE f[j - 1] \o g[j] ]
  BY DEF Cats
<1>2. ASSUME NEW k \in 0 .. m - 1 PROVE f[k + 1] = f[k] \o g[k + 1]
  <2> DEFINE j == k + 1
  <2>1. j \in 0 .. m /\ j # 0 /\ j - 1 = k
    OBVIOUS
  <2> HIDE DEF j
  <2>2. f[j] = f[j - 1] \o g[j]
    BY <1>1, <2>1
  <2> QED BY <2>1, <2>2 DEF j
<1>3. f[0] = << >>
  BY <1>1
<1> QED BY <1>2, <1>3

LEMMA CatExists ==
  ASSUME NEW g, NEW m \in Nat
  PROVE  \E f : Cats(f, g, m)
<1> DEFINE T == { k \in Nat : \E f : Cats(f, g, k) }
<1>1. 0 \in T
  <2> DEFINE f == [ j \in 0 .. 0 |-> << >> ]
  <2>1. Cats(f, g, 0)
    BY DEF Cats
  <2> QED BY <2>1
<1>2. ASSUME NEW k \in T PROVE k + 1 \in T
  <2>1. PICK f : Cats(f, g, k)
    OBVIOUS
  <2> DEFINE h == [ j \in 0 .. k + 1 |-> IF j = k + 1 THEN f[k] \o g[k + 1] ELSE f[j] ]
  <2>2. k \in Nat /\ DOMAIN h = 0 .. k + 1
    OBVIOUS
  <2>3. ASSUME NEW j \in 0 .. k + 1
        PROVE  h[j] = IF j = 0 THEN << >> ELSE h[j - 1] \o g[j]
    <3>1. CASE j = k + 1
      <4>1. j # 0 /\ j - 1 = k /\ h[k] = f[k] /\ h[j] = f[k] \o g[k + 1]
        BY <2>2, <3>1
      <4> QED BY <3>1, <4>1
    <3>2. CASE j # k + 1
      <4>1. j \in 0 .. k /\ h[j] = f[j] /\ (j # 0 => h[j - 1] = f[j - 1])
        BY <2>2, <3>2
      <4>2. f[j] = IF j = 0 THEN << >> ELSE f[j - 1] \o g[j]
        BY <2>1, <4>1 DEF Cats
      <4> QED BY <4>1, <4>2
    <3> QED BY <3>1, <3>2
  <2>4. Cats(h, g, k + 1)
    <3> HIDE DEF h
    <3>1. h = [ j \in 0 .. k + 1 |-> h[j] ]
      BY DEF h
    <3> QED BY <2>3, <3>1 DEF Cats
  <2> QED BY <2>2, <2>4
<1>3. T = Nat
  <2> HIDE DEF T
  <2> QED BY <1>1, <1>2, NatInd DEF T
<1> QED BY <1>3

(* What a concatenation is, in a longer one or by itself.                  *)
LEMMA CatUnique ==
  ASSUME NEW g, NEW m \in Nat, NEW l \in Nat, NEW f, NEW h,
         Cats(f, g, m), Cats(h, g, l), m <= l
  PROVE  \A k \in 0 .. m : f[k] = h[k]
<1> DEFINE T == { k \in 0 .. m : f[k] = h[k] }
<1>1. 0 \in T
  <2>1. f[0] = << >> /\ h[0] = << >>
    BY CatsAt
  <2> QED BY <2>1
<1>2. ASSUME NEW k \in 0 .. m - 1, k \in T PROVE k + 1 \in T
  <2>1. k + 1 \in 0 .. m /\ k \in 0 .. l - 1
    OBVIOUS
  <2>2. f[k + 1] = f[k] \o g[k + 1] /\ h[k + 1] = h[k] \o g[k + 1]
    BY ZenonT(30), <2>1, CatsAt
  <2> QED BY <1>2, <2>1, <2>2
<1>3. 0 .. m \subseteq T
  <2> HIDE DEF T
  <2> QED BY <1>1, <1>2, UpTo
<1> QED BY <1>3

LEMMA CatUnfold ==
  ASSUME NEW g, NEW m \in Nat
  PROVE  \E f : Cats(f, g, m) /\ Cat(g, m) = f[m]
<1> DEFINE E(f) == [ j \in 0 .. m |-> IF j = 0 THEN << >> ELSE f[j - 1] \o g[j] ]
           s == CHOOSE f : f = E(f)
<1>1. \E f : f = E(f)
  BY CatExists DEF Cats
<1>2. s = E(s)
  <2> HIDE DEF E
  <2> QED BY <1>1
<1>3. Cat(g, m) = s[m]
  BY DEF Cat
<1> HIDE DEF s
<1> QED BY <1>2, <1>3 DEF Cats

LEMMA CatIs ==
  ASSUME NEW g, NEW m \in Nat, NEW l \in Nat, NEW f, m <= l, Cats(f, g, l)
  PROVE  f[m] = Cat(g, m)
<1>1. PICK h : Cats(h, g, m) /\ Cat(g, m) = h[m]
  BY CatUnfold
<1>2. \A k \in 0 .. m : h[k] = f[k]
  BY <1>1, CatUnique
<1> QED BY <1>1, <1>2

LEMMA CatZero == ASSUME NEW g PROVE Cat(g, 0) = << >>
  BY CatUnfold, CatsAt

LEMMA CatStep ==
  ASSUME NEW g, NEW m \in Nat
  PROVE  Cat(g, m + 1) = Cat(g, m) \o g[m + 1]
<1>1. m + 1 \in Nat /\ m <= m + 1 /\ m \in 0 .. (m + 1) - 1
  OBVIOUS
<1>2. PICK f : Cats(f, g, m + 1) /\ Cat(g, m + 1) = f[m + 1]
  BY <1>1, CatUnfold
<1>3. f[m] = Cat(g, m)
  BY <1>1, <1>2, CatIs
<1>4. f[m + 1] = f[m] \o g[m + 1]
  BY <1>1, <1>2, CatsAt
<1> QED BY <1>2, <1>3, <1>4

(* k numbers from a + 1 on.                                                *)
Run(a, k) == [ i \in 1 .. k |-> a + i ]

LEMMA RunConcat ==
  ASSUME NEW a \in Nat, NEW k \in Nat, NEW l \in Nat
  PROVE  Run(a, k) \o Run(a + k, l) = Run(a, k + l)
  BY DEF Run

(* Runs, each of which begins where the one before it ends, make a run.    *)
RunsOn(g, w, a, m) ==
  \A j \in 1 .. m : w[j] \in Nat /\ g[j] = Run(a + Total(w, j - 1), w[j])

LEMMA CatRuns ==
  ASSUME NEW m \in Nat, NEW a \in Nat, NEW g, NEW w, RunsOn(g, w, a, m)
  PROVE  Cat(g, m) = Run(a, Total(w, m))
<1>0. \A j \in 1 .. m : w[j] \in Nat /\ g[j] = Run(a + Total(w, j - 1), w[j])
  BY DEF RunsOn
<1> DEFINE T == { k \in 0 .. m : Cat(g, k) = Run(a, Total(w, k)) }
<1>1. 0 \in T
  <2>1. Run(a, 0) = << >>
    BY DEF Run
  <2> QED BY <2>1, CatZero, TotalZero
<1>2. ASSUME NEW k \in 0 .. m - 1, k \in T PROVE k + 1 \in T
  <2>1. k \in Nat /\ k + 1 \in 1 .. m /\ (k + 1) - 1 = k
    OBVIOUS
  <2>2. Total(w, k) \in Nat
    BY <1>0, TotalGrows
  <2>3. w[k + 1] \in Nat /\ g[k + 1] = Run(a + Total(w, k), w[k + 1])
    BY <1>0, <2>1
  <2>4. Cat(g, k + 1) = Run(a, Total(w, k)) \o Run(a + Total(w, k), w[k + 1])
    BY <1>2, <2>1, <2>3, CatStep
  <2>5. Cat(g, k + 1) = Run(a, Total(w, k) + w[k + 1])
    BY <2>2, <2>3, <2>4, RunConcat
  <2>6. Total(w, k + 1) = Total(w, k) + w[k + 1]
    BY <2>1, TotalStep
  <2> QED BY <2>1, <2>5, <2>6
<1>3. 0 .. m \subseteq T
  <2> HIDE DEF T
  <2> QED BY <1>1, <1>2, UpTo
<1> QED BY <1>3

-----------------------------------------------------------------------------
(* What is computed step by step from the number of the step and the value *)
(* before it.                                                              *)
LEMMA StepsExist ==
  \A G \in [ Nat -> [ Nat -> Nat ] ] : \A m \in Nat :
    \E f \in [ 0 .. m -> Nat ] :
      f[0] = 0 /\ \A k \in 0 .. m - 1 : f[k + 1] = G[k][f[k]]
<1> TAKE G \in [ Nat -> [ Nat -> Nat ] ]
<1> TAKE m \in Nat
<1> DEFINE F(f, l) == /\ f \in [ 0 .. l -> Nat ] /\ f[0] = 0
                      /\ \A k \in 0 .. l - 1 : f[k + 1] = G[k][f[k]]
           T == { l \in Nat : \E f : F(f, l) }
<1>1. 0 \in T
  <2> DEFINE f == [ j \in 0 .. 0 |-> 0 ]
  <2>1. F(f, 0)
    OBVIOUS
  <2> QED BY <2>1
<1>2. ASSUME NEW l \in T PROVE l + 1 \in T
  <2>1. l \in Nat
    OBVIOUS
  <2>2. PICK f : F(f, l)
    OBVIOUS
  <2> DEFINE h == [ j \in 0 .. l + 1 |-> IF j = l + 1 THEN G[l][f[l]] ELSE f[j] ]
  <2>3. l \in 0 .. l /\ f[l] \in Nat /\ G[l][f[l]] \in Nat
    BY <2>1, <2>2
  <2>4. ASSUME NEW j \in 0 .. l + 1 PROVE h[j] \in Nat
    <3>1. CASE j = l + 1
      BY <2>3, <3>1
    <3>2. CASE j # l + 1
      <4>1. j \in 0 .. l
        BY <2>1, <3>2
      <4> QED BY <2>2, <3>2, <4>1
    <3> QED BY <3>1, <3>2
  <2>5. h \in [ 0 .. l + 1 -> Nat ] /\ h[0] = 0
    <3>1. 0 \in 0 .. l + 1 /\ 0 # l + 1
      BY <2>1
    <3>2. h[0] = 0
      BY <2>2, <3>1
    <3>3. h \in [ 0 .. l + 1 -> Nat ]
      BY <2>4
    <3> QED BY <3>2, <3>3
  <2>6. ASSUME NEW k \in 0 .. (l + 1) - 1 PROVE h[k + 1] = G[k][h[k]]
    <3>1. k \in 0 .. l /\ k + 1 \in 0 .. l + 1 /\ h[k] = f[k]
      BY <2>1
    <3>2. CASE k = l
      BY <3>1, <3>2
    <3>3. CASE k # l
      <4>1. k \in 0 .. l - 1 /\ k + 1 # l + 1
        BY <2>1, <3>1, <3>3
      <4>2. f[k + 1] = G[k][f[k]]
        BY <2>2, <4>1
      <4> QED BY <3>1, <4>1, <4>2
    <3> QED BY <3>2, <3>3
  <2>7. F(h, l + 1)
    <3> HIDE DEF h
    <3> QED BY <2>5, <2>6
  <2> HIDE DEF h, F
  <2>8. \E g : F(g, l + 1)
    BY <2>7
  <2> QED BY <2>1, <2>8
<1>3. T = Nat
  <2> HIDE DEF T
  <2> QED BY <1>1, <1>2, NatInd DEF T
<1> QED BY <1>3

-----------------------------------------------------------------------------
(* A loop, as the recursive function that says where it is left: there is  *)
(* one, whether or not the loop ends everywhere.                           *)
Leaves(f, N, step, T) ==
  f = [ i \in N |-> IF i \in T THEN i ELSE f[step[i]] ]

LEMMA LoopExists ==
  ASSUME NEW N, NEW T, NEW step, \A i \in N \ T : step[i] \in N
  PROVE  \E f : Leaves(f, N, step, T)
<1> DEFINE Closed(R) ==
      /\ \A i \in N : i \in T => << i, i >> \in R
      /\ \A i \in N \ T : \A s \in N : << step[i], s >> \in R => << i, s >> \in R
    L == { p \in N \X N : \A R \in SUBSET (N \X N) : Closed(R) => p \in R }
<1>1. L \subseteq N \X N /\ \A R \in SUBSET (N \X N) : Closed(R) => L \subseteq R
  OBVIOUS
<1>2. Closed(L)
  <2>1. ASSUME NEW i \in N, i \in T PROVE << i, i >> \in L
    <3>1. \A R \in SUBSET (N \X N) : Closed(R) => << i, i >> \in R
      BY <2>1
    <3> QED BY <3>1
  <2>2. ASSUME NEW i \in N \ T, NEW s \in N, << step[i], s >> \in L PROVE << i, s >> \in L
    <3>1. \A R \in SUBSET (N \X N) : Closed(R) => << i, s >> \in R
      <4> SUFFICES ASSUME NEW R \in SUBSET (N \X N), Closed(R) PROVE << i, s >> \in R
        OBVIOUS
      <4>1. << step[i], s >> \in R
        BY <2>2
      <4> QED BY <2>2, <4>1
    <3>2. << i, s >> \in N \X N
      OBVIOUS
    <3> QED BY <3>1, <3>2
  <2> HIDE DEF L
  <2> QED BY <2>1, <2>2
<1>3. ASSUME NEW i \in N, i \in T, NEW s \in N, << i, s >> \in L PROVE s = i
  <2> DEFINE R == { p \in N \X N : p[1] \in T => p[2] = p[1] }
  <2>1. R \in SUBSET (N \X N)
    OBVIOUS
  <2>2. Closed(R)
    OBVIOUS
  <2> HIDE DEF Closed, L
  <2>3. << i, s >> \in R
    BY <1>1, <1>3, <2>1, <2>2
  <2> QED BY <1>3, <2>3
<1>4. ASSUME NEW i \in N \ T, NEW s \in N, << i, s >> \in L PROVE << step[i], s >> \in L
  <2> DEFINE R == { p \in L : p[1] \notin T => << step[p[1]], p[2] >> \in L }
  <2>1. R \in SUBSET (N \X N)
    BY <1>1
  <2>2. Closed(R)
    <3> HIDE DEF L
    <3>1. \A j \in N : j \in T => << j, j >> \in R
      BY <1>2
    <3>2. ASSUME NEW j \in N \ T, NEW t \in N, << step[j], t >> \in R PROVE << j, t >> \in R
      <4>1. << step[j], t >> \in L
        BY <3>2
      <4>2. << j, t >> \in L
        BY <1>2, <4>1
      <4> QED BY <4>1, <4>2
    <3> QED BY <3>1, <3>2
  <2> HIDE DEF Closed, L
  <2>3. << i, s >> \in R
    BY <1>1, <1>4, <2>1, <2>2
  <2> QED BY <1>4, <2>3
<1> HIDE DEF L
<1> DEFINE Ends(i) == { s \in N : << i, s >> \in L }
           Out(i) == CHOOSE s : s \in Ends(i)
           f == [ i \in N |-> Out(i) ]
<1>5. ASSUME NEW i \in N, i \in T PROVE f[i] = i
  <2>1. Ends(i) = { i }
    BY <1>2, <1>3, <1>5
  <2> HIDE DEF Ends
  <2> QED BY <2>1
<1>6. ASSUME NEW i \in N, i \notin T PROVE f[i] = f[step[i]]
  <2>1. step[i] \in N
    BY <1>6
  <2>2. Ends(i) = Ends(step[i])
    BY <1>2, <1>4, <1>6
  <2> HIDE DEF Ends
  <2> QED BY <2>1, <2>2
<1>7. f = [ i \in N |-> IF i \in T THEN i ELSE f[step[i]] ]
  <2>1. f = [ i \in N |-> f[i] ]
    <3> HIDE DEF Out
    <3> QED OBVIOUS
  <2> HIDE DEF f
  <2> QED BY <1>5, <1>6, <2>1
<1> QED
  <2> HIDE DEF f
  <2> QED BY <1>7 DEF Leaves

(* Where it ends: after as many turns as a number says that each turn       *)
(* makes smaller.                                                          *)
LEMMA LoopEnds ==
  ASSUME NEW N, NEW T, NEW step, NEW f, Leaves(f, N, step, T),
         NEW left \in [ N -> Nat ],
         \A i \in N \ T : step[i] \in N /\ left[step[i]] < left[i]
  PROVE  \A i \in N : f[i] \in N \cap T
<1> DEFINE S == { k \in Nat : \A i \in N : left[i] < k => f[i] \in N \cap T }
<1>0. \A i \in N : f[i] = IF i \in T THEN i ELSE f[step[i]]
  BY DEF Leaves
<1>1. 0 \in S
  OBVIOUS
<1>2. ASSUME NEW k \in S PROVE k + 1 \in S
  <2>1. k \in Nat /\ \A i \in N : left[i] < k => f[i] \in N \cap T
    OBVIOUS
  <2>2. ASSUME NEW i \in N, left[i] < k + 1 PROVE f[i] \in N \cap T
    <3>1. CASE i \in T
      BY <1>0, <3>1
    <3>2. CASE i \notin T
      <4>1. step[i] \in N /\ left[step[i]] < left[i]
        BY <3>2
      <4>2. left[step[i]] < k
        BY <2>1, <2>2, <4>1
      <4>3. f[step[i]] \in N \cap T
        BY <2>1, <4>1, <4>2
      <4> QED BY <1>0, <3>2, <4>3
    <3> QED BY <3>1, <3>2
  <2> QED BY <2>1, <2>2
<1>3. S = Nat
  <2> HIDE DEF S
  <2> QED BY <1>1, <1>2, NatInd DEF S
<1> SUFFICES ASSUME NEW i \in N PROVE f[i] \in N \cap T
  OBVIOUS
<1>4. left[i] + 1 \in S /\ left[i] < left[i] + 1
  <2>1. left[i] \in Nat
    OBVIOUS
  <2> QED BY <1>3, <2>1
<1> QED BY <1>4

=============================================================================
