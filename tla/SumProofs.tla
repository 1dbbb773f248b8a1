------------------------------ MODULE SumProofs ------------------------------
(***************************************************************************)
(* Facts about SumFunction of the community module Functions, which adds   *)
(* up the values of a function.  SumFunction takes the elements of its     *)
(* domain in an order it chooses, by a recursive function on the subsets.  *)
(* The library's induction theorems have an operator as their parameter    *)
(* and cannot be cited; a smallest counterexample does instead of them.    *)
(***************************************************************************)
EXTENDS Functions, FiniteSetTheorems, TLAPS

(* A set of subsets of a finite set has a smallest one.                    *)
LEMMA Smallest ==
  ASSUME NEW S, IsFiniteSet(S), NEW T \in SUBSET (SUBSET S), T # {}
  PROVE  \E s \in T : \A u \in T : u \subseteq s => u = s
<1> DEFINE R == StrictSubsetOrdering(S)
<1>1. IsWellFoundedOn(R, SUBSET S)
  BY FS_StrictSubsetOrderingWellFounded, FS_FiniteSubsetsOfFinite
<1>2. \A u, s \in SUBSET S : u \subseteq s /\ u # s => <<u, s>> \in R
  BY DEF StrictSubsetOrdering
<1> HIDE DEF R
<1>3. PICK s \in T : \A u \in T : ~ (<<u, s>> \in R)
  BY <1>1, WFMin
<1>4. QED
  BY <1>2, <1>3

-----------------------------------------------------------------------------
(* The recursive function behind SumFunction.                              *)
Pick(s) == CHOOSE x \in s : TRUE

LEMMA Picked == \A s : s # {} => Pick(s) \in s
BY DEF Pick

SumStep(f, g, s) == IF s = {} THEN 0 ELSE f[Pick(s)] + g[s \ {Pick(s)}]

IsSumming(g, f, S) == g = [s \in SUBSET S |-> SumStep(f, g, s)]

Summing(f, S) == CHOOSE g : IsSumming(g, f, S)

(* SumFunctionOnSet is the value of such a function at the whole set ...   *)
LEMMA SumIs ==
  ASSUME NEW f, NEW S
  PROVE  SumFunctionOnSet(f, S) = Summing(f, S)[S]
BY DEF SumFunctionOnSet, FoldFunctionOnSet, MapThenFoldSet, Summing, IsSumming, SumStep, Pick

(* A set of natural numbers has a least one.                               *)
LEMMA Least ==
  ASSUME NEW T \in SUBSET Nat, T # {}
  PROVE  \E n \in T : \A m \in T : n <= m
<1> DEFINE R == {p \in Nat \X Nat : p[1] < p[2]}
<1>1. IsWellFoundedOn(R, Nat)
  BY NatLessThanWellFounded DEF OpToRel
<1>2. \A m \in Nat, n \in Nat : m < n => <<m, n>> \in R
  OBVIOUS
<1> HIDE DEF R
<1>3. PICK n \in T : \A m \in T : ~ (<<m, n>> \in R)
  BY <1>1, WFMin
<1>4. ASSUME NEW m \in T PROVE n <= m
  <2>1. m \in Nat /\ n \in Nat
    OBVIOUS
  <2>2. ~ (m < n)
    BY <1>2, <1>3, <2>1
  <2>3. QED
    BY <2>1, <2>2
<1>5. QED
  BY <1>4

(* ... and there is one: a function right on the sets with less than n     *)
(* elements yields one that is right on those with n.                      *)
LEMMA SummingExists ==
  ASSUME NEW f, NEW S, IsFiniteSet(S)
  PROVE  \E g : IsSumming(g, f, S)
<1> DEFINE Value(g, s) == IF s = {} THEN 0 ELSE f[Pick(s)] + g[s \ {Pick(s)}]
           Upto(g, n)  == \A s \in SUBSET S : Cardinality(s) < n => g[s] = Value(g, s)
           Bad         == {n \in Nat : ~\E g : Upto(g, n)}
<1>1. \A s \in SUBSET S : /\ Cardinality(s) \in Nat
                          /\ s # {} => /\ s \ {Pick(s)} \in SUBSET S
                                       /\ Cardinality(s \ {Pick(s)}) = Cardinality(s) - 1
  <2> TAKE s \in SUBSET S
  <2>1. IsFiniteSet(s)
    BY FS_Subset
  <2>2. Cardinality(s) \in Nat
    BY <2>1, FS_CardinalityType
  <2>3. s # {} => Cardinality(s \ {Pick(s)}) = Cardinality(s) - 1
    BY <2>1, FS_RemoveElement, Picked
  <2>4. QED
    BY <2>2, <2>3
<1>2. Bad = {}
  <2> SUFFICES ASSUME Bad # {} PROVE FALSE
    OBVIOUS
  <2>1. Bad \in SUBSET Nat
    OBVIOUS
  <2>2. PICK n \in Bad : \A m \in Bad : n <= m
    <3> HIDE DEF Bad
    <3> QED BY <2>1, Least
  <2>3. n \in Nat
    OBVIOUS
  <2>4. n # 0
    <3>a. ASSUME NEW s \in SUBSET S PROVE ~ (Cardinality(s) < 0)
      <4>1. Cardinality(s) \in Nat
        BY <1>1
      <4>2. QED
        BY <4>1
    <3>1. Upto(S, 0)
      BY <3>a
    <3> HIDE DEF Upto
    <3>2. QED
      BY <2>2, <3>1
  <2>5. n - 1 \in Nat /\ n - 1 \notin Bad
    <3>1. n - 1 \in Nat /\ ~ (n <= n - 1)
      BY <2>3, <2>4
    <3> HIDE DEF Bad
    <3>2. QED
      BY <2>2, <3>1
  <2>6. PICK g : Upto(g, n - 1)
    <3> HIDE DEF Upto
    <3> QED BY <2>5
  <2>7. PICK h : h = [s \in SUBSET S |-> Value(g, s)]
    OBVIOUS
  <2>8. Upto(h, n)
    <3> SUFFICES ASSUME NEW s \in SUBSET S, Cardinality(s) < n PROVE h[s] = Value(h, s)
      OBVIOUS
    <3>1. CASE s = {}
      BY <2>7, <3>1
    <3>2. CASE s # {}
      <4> PICK u : u = s \ {Pick(s)}
        OBVIOUS
      <4>1. u \in SUBSET S /\ Cardinality(u) < n - 1
        BY <1>1, <2>3, <3>2
      <4>2. g[u] = Value(g, u)
        BY <2>6, <4>1
      <4>3. h[u] = g[u]
        BY <2>7, <4>1, <4>2
      <4>4. QED
        BY <2>7, <3>2, <4>3
    <3>3. QED
      BY <3>1, <3>2
  <2>9. QED
    <3> HIDE DEF Upto
    <3> QED BY <2>8
<1>3. PICK g : Upto(g, Cardinality(S) + 1)
  <2>1. Cardinality(S) + 1 \in Nat
    <3>1. Cardinality(S) \in Nat
      BY FS_CardinalityType
    <3>2. QED
      BY <3>1
  <2> HIDE DEF Upto
  <2>2. QED
    BY <1>2, <2>1
<1>4. PICK h : h = [s \in SUBSET S |-> Value(g, s)]
  OBVIOUS
<1>5. ASSUME NEW s \in SUBSET S PROVE h[s] = g[s]
  <2>1. Cardinality(s) < Cardinality(S) + 1
    <3>1. Cardinality(s) <= Cardinality(S) /\ Cardinality(S) \in Nat /\ Cardinality(s) \in Nat
      BY <1>1, FS_Subset, FS_CardinalityType
    <3>2. QED
      BY <3>1
  <2>2. g[s] = Value(g, s)
    BY <1>3, <2>1
  <2>3. QED
    BY <1>4, <2>2
<1>6. ASSUME NEW s \in SUBSET S PROVE Value(h, s) = Value(g, s)
  BY <1>5
<1>7. h = [s \in SUBSET S |-> Value(h, s)]
  BY <1>4, <1>6
<1>8. QED
  BY <1>7 DEF IsSumming, SumStep

LEMMA SummingEquation ==
  ASSUME NEW f, NEW F, NEW S, IsSumming(F, f, S)
  PROVE  \A s \in SUBSET S : F[s] = SumStep(f, F, s)
BY DEF IsSumming

(* Two of them agree where the functions they add up do.                   *)
LEMMA SummingAgrees ==
  ASSUME NEW f, NEW g, NEW F, NEW G, NEW S, NEW T, IsSumming(F, f, S), IsSumming(G, g, T),
         NEW w \in SUBSET (S \cap T), IsFiniteSet(w), \A x \in w : f[x] = g[x]
  PROVE  F[w] = G[w]
<1>1. \A s \in SUBSET w : F[s] = SumStep(f, F, s)
  <2>1. SUBSET w \subseteq SUBSET S
    OBVIOUS
  <2>2. QED
    BY <2>1, SummingEquation
<1>2. \A s \in SUBSET w : G[s] = SumStep(g, G, s)
  <2>1. SUBSET w \subseteq SUBSET T
    OBVIOUS
  <2>2. QED
    BY <2>1, SummingEquation
<1> DEFINE Bad == {s \in SUBSET w : F[s] # G[s]}
<1>3. SUFFICES ASSUME Bad # {} PROVE FALSE
  OBVIOUS
<1>4. PICK s \in Bad : \A u \in Bad : u \subseteq s => u = s
  <2>1. Bad \in SUBSET (SUBSET w)
    OBVIOUS
  <2> HIDE DEF Bad
  <2>2. QED
    BY <1>3, <2>1, Smallest
<1>5. s \in SUBSET w /\ F[s] # G[s]
  OBVIOUS
<1>6. s # {}
  BY <1>1, <1>2, <1>5 DEF SumStep
<1>7. PICK y : y = Pick(s)
  OBVIOUS
<1>8. y \in s
  BY <1>6, <1>7, Picked
<1>9. s \ {y} \in SUBSET w /\ s \ {y} \notin Bad
  BY <1>4, <1>5, <1>8
<1>10. F[s \ {y}] = G[s \ {y}] /\ f[y] = g[y]
  BY <1>5, <1>8, <1>9
<1>11. F[s] = f[y] + F[s \ {y}] /\ G[s] = g[y] + G[s \ {y}]
  BY <1>1, <1>2, <1>5, <1>6, <1>7 DEF SumStep
<1>12. QED
  BY <1>5, <1>10, <1>11

LEMMA SummingType ==
  ASSUME NEW f, NEW F, NEW S, IsFiniteSet(S), IsSumming(F, f, S), \A x \in S : f[x] \in Int
  PROVE  \A s \in SUBSET S : F[s] \in Int /\ ((\A x \in s : f[x] >= 0) => F[s] >= 0)
<1>1. \A s \in SUBSET S : F[s] = SumStep(f, F, s)
  BY SummingEquation
<1> DEFINE Good(s) == F[s] \in Int /\ ((\A x \in s : f[x] >= 0) => F[s] >= 0)
           Bad     == {s \in SUBSET S : ~Good(s)}
<1>2. SUFFICES ASSUME Bad # {} PROVE FALSE
  OBVIOUS
<1>3. PICK s \in Bad : \A u \in Bad : u \subseteq s => u = s
  <2>1. Bad \in SUBSET (SUBSET S)
    OBVIOUS
  <2> HIDE DEF Bad
  <2>2. QED
    BY <1>2, <2>1, Smallest
<1>4. s \in SUBSET S /\ ~Good(s)
  OBVIOUS
<1>5. s # {}
  <2>1. ASSUME s = {} PROVE FALSE
    <3>1. F[s] = 0
      BY <1>1, <1>4, <2>1 DEF SumStep
    <3>2. QED
      BY <1>4, <2>1, <3>1
  <2>2. QED
    BY <2>1
<1>6. PICK y : y = Pick(s)
  OBVIOUS
<1>7. y \in s
  BY <1>5, <1>6, Picked
<1>8. s \ {y} \in SUBSET S /\ s \ {y} \notin Bad
  BY <1>3, <1>4, <1>7
<1>9. Good(s \ {y}) /\ f[y] \in Int
  BY <1>4, <1>7, <1>8
<1>10. F[s] = f[y] + F[s \ {y}]
  BY <1>1, <1>4, <1>5, <1>6 DEF SumStep
<1>11. QED
  BY <1>4, <1>7, <1>9, <1>10

(* Whichever element is taken first, the sum is the same.                  *)
LEMMA SummingRemove ==
  ASSUME NEW f, NEW F, NEW S, IsFiniteSet(S), IsSumming(F, f, S), \A x \in S : f[x] \in Int
  PROVE  \A s \in SUBSET S : \A x \in s : F[s] = f[x] + F[s \ {x}]
<1>1. \A s \in SUBSET S : F[s] = SumStep(f, F, s)
  BY SummingEquation
<1> DEFINE Bad == {s \in SUBSET S : \E x \in s : F[s] # f[x] + F[s \ {x}]}
<1>2. SUFFICES ASSUME Bad # {} PROVE FALSE
  <2>1. ASSUME NEW s \in SUBSET S, NEW x \in s, F[s] # f[x] + F[s \ {x}] PROVE Bad # {}
    <3>a. \E y \in s : F[s] # f[y] + F[s \ {y}]
      BY <2>1
    <3>1. s \in Bad
      BY <3>a
    <3> HIDE DEF Bad
    <3>2. QED
      BY <3>1
  <2> HIDE DEF Bad
  <2>2. QED
    BY <2>1
<1>3. PICK s \in Bad : \A u \in Bad : u \subseteq s => u = s
  <2>1. Bad \in SUBSET (SUBSET S)
    OBVIOUS
  <2> HIDE DEF Bad
  <2>2. QED
    BY <1>2, <2>1, Smallest
<1>4. PICK x \in s : F[s] # f[x] + F[s \ {x}]
  OBVIOUS
<1>5. PICK y : y = Pick(s)
  OBVIOUS
<1>6. s \in SUBSET S /\ y \in s
  BY <1>4, <1>5, Picked
<1>7. F[s] = f[y] + F[s \ {y}]
  BY <1>1, <1>4, <1>5, <1>6 DEF SumStep
<1>8. x # y
  BY <1>4, <1>7
<1>9. s \ {x} \in SUBSET S /\ s \ {y} \in SUBSET S /\ s \ {x} \notin Bad /\ s \ {y} \notin Bad
  BY <1>3, <1>6
<1>10. PICK t : t = (s \ {x}) \ {y}
  OBVIOUS
<1>11. (s \ {y}) \ {x} = t
  BY <1>10
<1>12. F[s \ {x}] = f[y] + F[t]
  BY <1>6, <1>8, <1>9, <1>10
<1>13. F[s \ {y}] = f[x] + F[t]
  BY <1>8, <1>9, <1>11
<1>14. F[t] \in Int /\ f[x] \in Int /\ f[y] \in Int
  <2>1. t \in SUBSET S
    BY <1>6, <1>10
  <2>2. QED
    BY <1>6, <2>1, SummingType
<1>15. F[s] = f[y] + (f[x] + F[t])
  BY <1>7, <1>13
<1>16. f[x] + (f[y] + F[t]) = f[y] + (f[x] + F[t])
  BY <1>14
<1>17. QED
  BY <1>4, <1>12, <1>15, <1>16

-----------------------------------------------------------------------------
(* Sums over a finite set.                                                 *)
LEMMA SumIsSumming ==
  ASSUME NEW f, NEW S, IsFiniteSet(S)
  PROVE  \E F : IsSumming(F, f, S) /\ SumFunctionOnSet(f, S) = F[S]
<1>1. IsSumming(Summing(f, S), f, S)
  BY SummingExists DEF Summing
<1>2. QED
  BY <1>1, SumIs

LEMMA SumEmpty == ASSUME NEW f PROVE SumFunctionOnSet(f, {}) = 0
<1>1. PICK F : IsSumming(F, f, {}) /\ SumFunctionOnSet(f, {}) = F[{}]
  BY FS_EmptySet, SumIsSumming
<1>2. QED
  <2>1. {} \in SUBSET {}
    OBVIOUS
  <2>2. F[{}] = SumStep(f, F, {})
    BY <1>1, <2>1, SummingEquation
  <2>3. QED
    BY <1>1, <2>2 DEF SumStep

LEMMA SumType ==
  ASSUME NEW f, NEW S, IsFiniteSet(S), \A x \in S : f[x] \in Int
  PROVE  SumFunctionOnSet(f, S) \in Int
<1>1. PICK F : IsSumming(F, f, S) /\ SumFunctionOnSet(f, S) = F[S]
  BY SumIsSumming
<1>2. QED
  BY <1>1, SummingType

LEMMA SumNonNegative ==
  ASSUME NEW f, NEW S, IsFiniteSet(S), \A x \in S : f[x] \in Nat
  PROVE  SumFunctionOnSet(f, S) >= 0
<1>1. PICK F : IsSumming(F, f, S) /\ SumFunctionOnSet(f, S) = F[S]
  BY SumIsSumming
<1>2. \A x \in S : f[x] \in Int /\ f[x] >= 0
  OBVIOUS
<1>3. QED
  BY <1>1, <1>2, SummingType

LEMMA SumSame ==
  ASSUME NEW f, NEW g, NEW S, IsFiniteSet(S), \A x \in S : f[x] = g[x]
  PROVE  SumFunctionOnSet(f, S) = SumFunctionOnSet(g, S)
<1>1. PICK F : IsSumming(F, f, S) /\ SumFunctionOnSet(f, S) = F[S]
  BY SumIsSumming
<1>2. PICK G : IsSumming(G, g, S) /\ SumFunctionOnSet(g, S) = G[S]
  BY SumIsSumming
<1>3. S \in SUBSET (S \cap S)
  OBVIOUS
<1>4. QED
  BY <1>1, <1>2, <1>3, SummingAgrees

LEMMA SumRemove ==
  ASSUME NEW f, NEW S, NEW x \in S, IsFiniteSet(S), \A y \in S : f[y] \in Int
  PROVE  SumFunctionOnSet(f, S) = f[x] + SumFunctionOnSet(f, S \ {x})
<1>1. PICK F : IsSumming(F, f, S) /\ SumFunctionOnSet(f, S) = F[S]
  BY SumIsSumming
<1>2. IsFiniteSet(S \ {x})
  BY FS_RemoveElement
<1>3. PICK G : IsSumming(G, f, S \ {x}) /\ SumFunctionOnSet(f, S \ {x}) = G[S \ {x}]
  BY <1>2, SumIsSumming
<1>4. F[S \ {x}] = G[S \ {x}]
  <2>1. S \ {x} \in SUBSET (S \cap (S \ {x}))
    OBVIOUS
  <2>2. QED
    BY <1>1, <1>2, <1>3, <2>1, SummingAgrees
<1>5. S \in SUBSET S
  OBVIOUS
<1>6. F[S] = f[x] + F[S \ {x}]
  BY <1>1, <1>5, SummingRemove
<1>7. QED
  BY <1>1, <1>3, <1>4, <1>6

(* One element more.                                                       *)
LEMMA SumAdd ==
  ASSUME NEW f, NEW S, NEW x, x \notin S, IsFiniteSet(S), f[x] \in Int, \A y \in S : f[y] \in Int
  PROVE  SumFunctionOnSet(f, S \cup {x}) = f[x] + SumFunctionOnSet(f, S)
<1>1. IsFiniteSet(S \cup {x})
  BY FS_AddElement
<1>2. (S \cup {x}) \ {x} = S
  OBVIOUS
<1>3. x \in S \cup {x} /\ \A y \in S \cup {x} : f[y] \in Int
  OBVIOUS
<1>4. PICK T : T = S \cup {x}
  OBVIOUS
<1>5. SumFunctionOnSet(f, T) = f[x] + SumFunctionOnSet(f, T \ {x})
  BY <1>1, <1>3, <1>4, SumRemove
<1>6. QED
  BY <1>2, <1>4, <1>5

(* One value changed.                                                      *)
LEMMA SumChange ==
  ASSUME NEW f, NEW g, NEW S, NEW x \in S, IsFiniteSet(S),
         \A y \in S : f[y] \in Int /\ g[y] \in Int,
         \A y \in S \ {x} : f[y] = g[y]
  PROVE  SumFunctionOnSet(g, S) = SumFunctionOnSet(f, S) + (g[x] - f[x])
<1>1. IsFiniteSet(S \ {x})
  BY FS_RemoveElement
<1>2. (\A y \in S : f[y] \in Int) /\ (\A y \in S : g[y] \in Int)
  OBVIOUS
<1>3. SumFunctionOnSet(f, S) = f[x] + SumFunctionOnSet(f, S \ {x})
  BY <1>2, SumRemove
<1>4. SumFunctionOnSet(g, S) = g[x] + SumFunctionOnSet(g, S \ {x})
  BY <1>2, SumRemove
<1>5. SumFunctionOnSet(f, S \ {x}) = SumFunctionOnSet(g, S \ {x})
  BY <1>1, SumSame
<1>6. SumFunctionOnSet(f, S \ {x}) \in Int
  BY <1>1, <1>2, SumType
<1>7. QED
  BY <1>2, <1>3, <1>4, <1>5, <1>6

-----------------------------------------------------------------------------
(* Sums of functions: what the other modules cite.                         *)

LEMMA TotalType ==
  ASSUME NEW f, IsFiniteSet(DOMAIN f), \A x \in DOMAIN f : f[x] \in Int
  PROVE  SumFunction(f) \in Int
BY SumType DEF SumFunction

LEMMA TotalNonNegative ==
  ASSUME NEW f, IsFiniteSet(DOMAIN f), \A x \in DOMAIN f : f[x] \in Nat
  PROVE  SumFunction(f) \in Nat
<1>1. \A x \in DOMAIN f : f[x] \in Int
  OBVIOUS
<1>2. SumFunction(f) \in Int
  BY <1>1, SumType DEF SumFunction
<1>3. SumFunction(f) >= 0
  BY SumNonNegative DEF SumFunction
<1>4. QED
  BY <1>2, <1>3

LEMMA TotalSame ==
  ASSUME NEW f, NEW g, IsFiniteSet(DOMAIN f), DOMAIN g = DOMAIN f, \A x \in DOMAIN f : f[x] = g[x]
  PROVE  SumFunction(g) = SumFunction(f)
BY SumSame DEF SumFunction

(* Every value is zero.                                                    *)
LEMMA TotalZero ==
  ASSUME NEW f, IsFiniteSet(DOMAIN f), \A x \in DOMAIN f : f[x] = 0
  PROVE  SumFunction(f) = 0
<1>1. PICK F : IsSumming(F, f, DOMAIN f) /\ SumFunctionOnSet(f, DOMAIN f) = F[DOMAIN f]
  BY SumIsSumming
<1>2. PICK g : g = [s \in SUBSET DOMAIN f |-> 0]
  OBVIOUS
<1>3. g = [s \in SUBSET DOMAIN f |-> SumStep(f, g, s)]
  <2>1. ASSUME NEW s \in SUBSET DOMAIN f PROVE SumStep(f, g, s) = 0
    <3>1. CASE s = {}
      BY <3>1 DEF SumStep
    <3>2. CASE s # {}
      <4>1. Pick(s) \in s /\ s \ {Pick(s)} \in SUBSET DOMAIN f
        BY <3>2, Picked
      <4>2. f[Pick(s)] = 0 /\ g[s \ {Pick(s)}] = 0
        BY <1>2, <4>1
      <4>3. QED
        BY <3>2, <4>2 DEF SumStep
    <3>3. QED
      BY <3>1, <3>2
  <2>2. QED
    BY <1>2, <2>1
<1>4. IsSumming(g, f, DOMAIN f)
  BY <1>3 DEF IsSumming
<1>5. F[DOMAIN f] = g[DOMAIN f]
  <2>1. DOMAIN f \in SUBSET (DOMAIN f \cap DOMAIN f)
    OBVIOUS
  <2>2. QED
    BY <1>1, <1>4, <2>1, SummingAgrees
<1>6. QED
  BY <1>1, <1>2, <1>5 DEF SumFunction

(* One element more.                                                       *)
LEMMA TotalAdd ==
  ASSUME NEW f, NEW g, NEW x, x \notin DOMAIN f, IsFiniteSet(DOMAIN f),
         DOMAIN g = DOMAIN f \cup {x}, g[x] \in Int,
         \A y \in DOMAIN f : f[y] \in Int /\ g[y] = f[y]
  PROVE  SumFunction(g) = SumFunction(f) + g[x]
<1>1. \A y \in DOMAIN f : g[y] \in Int
  OBVIOUS
<1>2. SumFunctionOnSet(g, DOMAIN f \cup {x}) = g[x] + SumFunctionOnSet(g, DOMAIN f)
  BY <1>1, SumAdd
<1>3. \A y \in DOMAIN f : g[y] = f[y]
  OBVIOUS
<1>4. SumFunctionOnSet(g, DOMAIN f) = SumFunctionOnSet(f, DOMAIN f)
  BY <1>3, SumSame
<1>5. SumFunctionOnSet(f, DOMAIN f) \in Int
  BY SumType
<1>6. SumFunction(g) = g[x] + SumFunction(f) /\ SumFunction(f) \in Int
  BY <1>2, <1>4, <1>5 DEF SumFunction
<1>7. QED
  BY <1>6

(* Elements of value zero left out.                                        *)
LEMMA TotalDrop ==
  ASSUME NEW f, NEW g, IsFiniteSet(DOMAIN f), DOMAIN g \subseteq DOMAIN f,
         \A x \in DOMAIN f : f[x] \in Int,
         \A x \in DOMAIN g : g[x] = f[x],
         \A x \in DOMAIN f \ DOMAIN g : f[x] = 0
  PROVE  SumFunction(g) = SumFunction(f)
<1> PICK S, T : S = DOMAIN f /\ T = DOMAIN g
  OBVIOUS
<1>1. T \subseteq S /\ IsFiniteSet(S) /\ IsFiniteSet(T)
  BY FS_Subset
<1>2. PICK F : IsSumming(F, f, S) /\ SumFunctionOnSet(f, S) = F[S]
  BY <1>1, SumIsSumming
<1>3. PICK G : IsSumming(G, g, T) /\ SumFunctionOnSet(g, T) = G[T]
  BY <1>1, SumIsSumming
<1>4. G[T] = F[T]
  <2>1. T \in SUBSET (T \cap S) /\ \A x \in T : g[x] = f[x]
    BY <1>1
  <2>2. QED
    BY <1>1, <1>2, <1>3, <2>1, SummingAgrees
<1>5. \A x \in S : f[x] \in Int
  OBVIOUS
<1>6. /\ \A s \in SUBSET S : F[s] \in Int
      /\ \A s \in SUBSET S : \A x \in s : F[s] = f[x] + F[s \ {x}]
  BY <1>1, <1>2, <1>5, SummingType, SummingRemove
<1> DEFINE Bad == {s \in SUBSET S : F[s] # F[s \cap T]}
<1>7. ASSUME Bad # {} PROVE FALSE
  <2>1. PICK s \in Bad : \A u \in Bad : u \subseteq s => u = s
    <3>1. Bad \in SUBSET (SUBSET S)
      OBVIOUS
    <3> HIDE DEF Bad
    <3>2. QED
      BY <1>1, <1>7, <3>1, Smallest
  <2>2. s \in SUBSET S /\ F[s] # F[s \cap T]
    OBVIOUS
  <2>3. PICK x \in s : x \notin T
    <3>1. ASSUME \A x \in s : x \in T PROVE FALSE
      <4>1. s \cap T = s
        BY <3>1
      <4>2. QED
        BY <2>2, <4>1
    <3>2. QED
      BY <3>1
  <2>4. s \ {x} \in SUBSET S /\ s \ {x} \notin Bad
    BY <2>1, <2>2
  <2>5. (s \ {x}) \cap T = s \cap T
    BY <2>3
  <2>6. F[s \ {x}] = F[s \cap T]
    BY <2>4, <2>5
  <2>7. f[x] = 0 /\ F[s] = f[x] + F[s \ {x}] /\ F[s \ {x}] \in Int
    BY <1>6, <2>2, <2>3, <2>4
  <2>8. QED
    BY <2>2, <2>6, <2>7
<1>8. F[S] = F[T]
  <2>1. S \cap T = T /\ S \in SUBSET S
    BY <1>1
  <2>2. ASSUME F[S] # F[S \cap T] PROVE FALSE
    <3>1. S \in Bad
      BY <2>1, <2>2
    <3> HIDE DEF Bad
    <3>2. QED
      BY <1>7, <3>1
  <2>3. QED
    BY <2>1, <2>2
<1>9. QED
  BY <1>2, <1>3, <1>4, <1>8 DEF SumFunction

(* One value changed.                                                      *)
LEMMA TotalChange ==
  ASSUME NEW f, NEW g, NEW x \in DOMAIN f, IsFiniteSet(DOMAIN f), DOMAIN g = DOMAIN f,
         \A y \in DOMAIN f : f[y] \in Int /\ g[y] \in Int,
         \A y \in DOMAIN f \ {x} : f[y] = g[y]
  PROVE  SumFunction(g) = SumFunction(f) + (g[x] - f[x])
BY SumChange DEF SumFunction

(* Every value at least as large.                                          *)
LEMMA TotalGrows ==
  ASSUME NEW f, NEW g, IsFiniteSet(DOMAIN f), DOMAIN g = DOMAIN f,
         \A y \in DOMAIN f : f[y] \in Int /\ g[y] \in Int /\ f[y] <= g[y]
  PROVE  SumFunction(f) <= SumFunction(g)
<1> DEFINE S == DOMAIN f
<1>1. PICK F : IsSumming(F, f, S) /\ SumFunctionOnSet(f, S) = F[S]
  BY SumIsSumming
<1>2. PICK G : IsSumming(G, g, S) /\ SumFunctionOnSet(g, S) = G[S]
  BY SumIsSumming
<1>3. /\ \A s \in SUBSET S : F[s] = SumStep(f, F, s)
      /\ \A s \in SUBSET S : G[s] = SumStep(g, G, s)
  BY <1>1, <1>2, SummingEquation
<1>4. \A s \in SUBSET S : F[s] \in Int /\ G[s] \in Int
  <2>1. (\A y \in S : f[y] \in Int) /\ (\A y \in S : g[y] \in Int)
    OBVIOUS
  <2>2. QED
    BY <1>1, <1>2, <2>1, SummingType
<1> DEFINE Bad == {s \in SUBSET S : ~ (F[s] <= G[s])}
<1>5. ASSUME Bad # {} PROVE FALSE
  <2>1. PICK s \in Bad : \A u \in Bad : u \subseteq s => u = s
    <3>1. Bad \in SUBSET (SUBSET S)
      OBVIOUS
    <3> HIDE DEF Bad
    <3>2. QED
      BY <1>5, <3>1, Smallest
  <2>2. s \in SUBSET S /\ ~ (F[s] <= G[s])
    OBVIOUS
  <2>3. s # {}
    <3>1. ASSUME s = {} PROVE FALSE
      <4>1. F[s] = 0 /\ G[s] = 0
        BY <1>3, <2>2, <3>1 DEF SumStep
      <4>2. QED
        BY <2>2, <4>1
    <3>2. QED
      BY <3>1
  <2>4. PICK y : y = Pick(s)
    OBVIOUS
  <2>5. y \in s
    BY <2>3, <2>4, Picked
  <2>6. s \ {y} \in SUBSET S /\ s \ {y} \notin Bad
    BY <2>1, <2>2, <2>5
  <2>7. F[s] = f[y] + F[s \ {y}] /\ G[s] = g[y] + G[s \ {y}]
    BY <1>3, <2>2, <2>3, <2>4 DEF SumStep
  <2>8. F[s \ {y}] <= G[s \ {y}] /\ F[s \ {y}] \in Int /\ G[s \ {y}] \in Int
    BY <1>4, <2>6
  <2>9. f[y] <= g[y] /\ f[y] \in Int /\ g[y] \in Int
    BY <2>2, <2>5
  <2>10. QED
    BY <2>2, <2>7, <2>8, <2>9
<1>6. F[S] <= G[S]
  <2>1. ASSUME ~ (F[S] <= G[S]) PROVE FALSE
    <3>1. S \in Bad
      BY <2>1
    <3> HIDE DEF Bad
    <3>2. QED
      BY <1>5, <3>1
  <2>2. QED
    BY <2>1
<1>7. QED
  BY <1>1, <1>2, <1>6 DEF SumFunction
=============================================================================
