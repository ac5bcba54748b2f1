----------------------------- MODULE FoldProofs -----------------------------
(***************************************************************************)
(* What sums of amounts over finite sets obey, and folds whose step is a   *)
(* function: the operators behind them are recursive, and these lemmas     *)
(* unfold them.                                                            *)
(***************************************************************************)
EXTENDS Integers, Sequences, FiniteSetsExt, FiniteSetTheorems, WellFoundedInduction, TLAPS

-----------------------------------------------------------------------------
(* Sums.  SumFunctionOnSet is recursive: that there is a function which    *)
(* obeys its equation, and only one, comes first.                          *)

Pick(s) == CHOOSE x \in s : TRUE

IsSum(g, f, S) ==
    g = [s \in SUBSET S |-> IF s = {} THEN 0 ELSE f[Pick(s)] + g[s \ {Pick(s)}]]

(* The recursive function behind a sum.                                    *)
LEMMA SumDef ==
    ASSUME NEW f, NEW S
    PROVE  SumFunctionOnSet(f, S) = (CHOOSE g : IsSum(g, f, S))[S]
BY DEF IsSum, SumFunctionOnSet, FoldFunctionOnSet, MapThenFoldSet, Pick

(* What holds of a set when it holds of its proper subsets holds of every  *)
(* finite set; T is the set of those for which it holds.                   *)
LEMMA SubsetInduction ==
    ASSUME NEW S, IsFiniteSet(S), NEW T,
           \A s \in SUBSET S : (\A u \in SUBSET s : u # s => u \in T) => s \in T
    PROVE  SUBSET S \subseteq T
<1> DEFINE B == (SUBSET S) \ T
<1>1. SUFFICES ASSUME B # {} PROVE FALSE
  OBVIOUS
<1>2. B \subseteq FiniteSubsetsOf(S)
  BY FS_Subset DEF FiniteSubsetsOf
<1>4. IsWellFoundedOn(StrictSubsetOrdering(S), FiniteSubsetsOf(S))
  BY FS_StrictSubsetOrderingWellFounded
<1> HIDE DEF B
<1>5. \E x \in B : \A y \in B : ~ (<<y, x>> \in StrictSubsetOrdering(S))
  BY <1>1, <1>2, <1>4, WFMin
<1>6. PICK x \in B : \A y \in B : ~ (<<y, x>> \in StrictSubsetOrdering(S))
  BY <1>5
<1> QED BY <1>6 DEF StrictSubsetOrdering, B

(* What is picked from a set is in it.                                     *)
LEMMA PickIn == ASSUME NEW s, s # {} PROVE Pick(s) \in s
BY DEF Pick

(* Two functions that obey the equation agree, also on the subsets of a    *)
(* smaller set.                                                            *)
LEMMA SumUnique ==
    ASSUME NEW S, IsFiniteSet(S), NEW R \in SUBSET S, NEW f, NEW g, NEW h,
           IsSum(g, f, S), IsSum(h, f, R)
    PROVE  \A s \in SUBSET R : g[s] = h[s]
<1> DEFINE T == {s \in SUBSET R : g[s] = h[s]}
<1>1. IsFiniteSet(R)
  BY FS_Subset
<1>2. ASSUME NEW s \in SUBSET R, \A u \in SUBSET s : u # s => u \in T
      PROVE  s \in T
  <2>1. g[s] = IF s = {} THEN 0 ELSE f[Pick(s)] + g[s \ {Pick(s)}]
    <3> s \in SUBSET S
      OBVIOUS
    <3> QED BY DEF IsSum
  <2>2. h[s] = IF s = {} THEN 0 ELSE f[Pick(s)] + h[s \ {Pick(s)}]
    BY DEF IsSum
  <2>3. CASE s = {}
    BY <2>1, <2>2, <2>3
  <2>4. CASE s # {}
    <3>1. s \ {Pick(s)} \in T
      BY <1>2, <2>4, PickIn
    <3> QED BY <2>1, <2>2, <2>4, <3>1
  <2> QED BY <2>3, <2>4
<1> HIDE DEF T
<1>3. SUBSET R \subseteq T
  BY <1>1, <1>2, SubsetInduction
<1> QED BY <1>3 DEF T

(* There is a function that obeys the equation.                            *)
LEMMA SumExists ==
    ASSUME NEW S, IsFiniteSet(S), NEW f
    PROVE  \E g : IsSum(g, f, S)
<1> DEFINE T == {s \in SUBSET S : \E g : IsSum(g, f, s)}
           G(s) == CHOOSE g : IsSum(g, f, s)
<1>1. ASSUME NEW s \in SUBSET S, \A u \in SUBSET s : u # s => u \in T
      PROVE  s \in T
  <2>1. \A u \in SUBSET s : u # s => IsSum(G(u), f, u)
    BY <1>1
  <2>2. \A u \in SUBSET s : IsFiniteSet(u)
    BY FS_Subset
  <2> DEFINE g == [u \in SUBSET s |->
                      IF u = {} THEN 0 ELSE f[Pick(u)] + G(u \ {Pick(u)})[u \ {Pick(u)}]]
  <2>3. ASSUME NEW u \in SUBSET s, u # s
        PROVE  g[u] = G(u)[u]
    <3>1. IsSum(G(u), f, u)
      BY <2>1, <2>3
    <3>2. G(u)[u] = IF u = {} THEN 0 ELSE f[Pick(u)] + G(u)[u \ {Pick(u)}]
      <4> HIDE DEF G
      <4> QED BY <3>1 DEF IsSum
    <3>3. CASE u = {}
      BY <3>2, <3>3
    <3>4. CASE u # {}
      <4> DEFINE v == u \ {Pick(u)}
      <4>1. v \in SUBSET u /\ v \in SUBSET s /\ v # s
        BY <3>4, PickIn
      <4>2. IsSum(G(v), f, v)
        BY <4>1, <2>1
      <4>3. IsFiniteSet(u)
        BY <2>2
      <4> HIDE DEF G, v
      <4>4. \A w \in SUBSET v : G(u)[w] = G(v)[w]
        BY <3>1, <4>1, <4>2, <4>3, SumUnique
      <4>5. G(u)[v] = G(v)[v]
        BY <4>4
      <4> QED BY <3>2, <3>4, <4>5 DEF v
    <3> QED BY <3>3, <3>4
  <2> HIDE DEF G
  <2>4. g = [u \in SUBSET s |-> IF u = {} THEN 0 ELSE f[Pick(u)] + g[u \ {Pick(u)}]]
    <3>1. \A u \in SUBSET s : u # {} =>
             g[u \ {Pick(u)}] = G(u \ {Pick(u)})[u \ {Pick(u)}]
      BY <2>3, PickIn
    <3> QED BY <3>1
  <2>5. IsSum(g, f, s)
    BY <2>4 DEF IsSum
  <2> HIDE DEF g
  <2> QED BY <2>5
<1> HIDE DEF T
<1>2. SUBSET S \subseteq T
  BY <1>1, SubsetInduction
<1> QED BY <1>2 DEF T

(* The sum of nothing.                                                     *)
LEMMA SumEmpty == ASSUME NEW f PROVE SumFunctionOnSet(f, {}) = 0
<1>1. IsFiniteSet({})
  BY FS_EmptySet
<1>2. PICK g : IsSum(g, f, {})
  BY <1>1, SumExists
<1>3. IsSum(CHOOSE h : IsSum(h, f, {}), f, {})
  BY <1>2
<1> QED BY <1>3, SumDef DEF IsSum

(* The equation of a sum: one number and the sum of the others.            *)
LEMMA SumPick ==
    ASSUME NEW S, IsFiniteSet(S), S # {}, NEW f
    PROVE  SumFunctionOnSet(f, S) = f[Pick(S)] + SumFunctionOnSet(f, S \ {Pick(S)})
<1> DEFINE R == S \ {Pick(S)}
           g == CHOOSE h : IsSum(h, f, S)
           k == CHOOSE h : IsSum(h, f, R)
<1>1. IsFiniteSet(R) /\ R \in SUBSET S
  BY FS_Subset
<1> HIDE DEF R
<1>2. IsSum(g, f, S) /\ IsSum(k, f, R)
  BY <1>1, SumExists
<1>3. SumFunctionOnSet(f, S) = g[S] /\ SumFunctionOnSet(f, R) = k[R]
  BY SumDef
<1> HIDE DEF g, k
<1>4. \A s \in SUBSET R : g[s] = k[s]
  BY <1>1, <1>2, SumUnique
<1>5. g[S] = f[Pick(S)] + g[R]
  BY <1>2 DEF IsSum, R
<1> QED BY <1>3, <1>4, <1>5 DEF R

(* A sum of integers is an integer, and of naturals a natural.             *)
LEMMA SumType ==
    ASSUME NEW S, IsFiniteSet(S), NEW f,
           NEW N, 0 \in N, \A x \in S : f[x] \in N, \A m, n \in N : m + n \in N
    PROVE  SumFunctionOnSet(f, S) \in N
<1> DEFINE T == {s \in SUBSET S : SumFunctionOnSet(f, s) \in N}
<1>1. ASSUME NEW s \in SUBSET S, \A u \in SUBSET s : u # s => u \in T
      PROVE  s \in T
  <2>1. CASE s = {}
    BY <2>1, SumEmpty
  <2>2. CASE s # {}
    <3>1. IsFiniteSet(s)
      BY FS_Subset
    <3>2. s \ {Pick(s)} \in T /\ Pick(s) \in S
      BY <1>1, <2>2, PickIn
    <3>3. SumFunctionOnSet(f, s) = f[Pick(s)] + SumFunctionOnSet(f, s \ {Pick(s)})
      BY <2>2, <3>1, SumPick
    <3>4. f[Pick(s)] \in N /\ SumFunctionOnSet(f, s \ {Pick(s)}) \in N
      BY <3>2
    <3> QED BY <3>3, <3>4
  <2> QED BY <2>1, <2>2
<1> HIDE DEF T
<1>2. SUBSET S \subseteq T
  BY <1>1, SubsetInduction
<1> QED BY <1>2 DEF T

(* The same for integers.                                                  *)
LEMMA SumInt ==
    ASSUME NEW S, IsFiniteSet(S), NEW f, \A x \in S : f[x] \in Int
    PROVE  SumFunctionOnSet(f, S) \in Int
<1>1. 0 \in Int /\ \A m, n \in Int : m + n \in Int
  OBVIOUS
<1> QED BY <1>1, SumType

(* The same for natural numbers.                                           *)
LEMMA SumNat ==
    ASSUME NEW S, IsFiniteSet(S), NEW f, \A x \in S : f[x] \in Nat
    PROVE  SumFunctionOnSet(f, S) \in Nat
<1>1. 0 \in Nat /\ \A m, n \in Nat : m + n \in Nat
  OBVIOUS
<1> QED BY <1>1, SumType

(* Any member of the set may be the first to be added.                     *)
LEMMA SumTake ==
    ASSUME NEW S, IsFiniteSet(S), NEW f, \A x \in S : f[x] \in Int, NEW x \in S
    PROVE  SumFunctionOnSet(f, S) = f[x] + SumFunctionOnSet(f, S \ {x})
<1> DEFINE T == {s \in SUBSET S :
                    \A y \in s : SumFunctionOnSet(f, s) = f[y] + SumFunctionOnSet(f, s \ {y})}
<1>1. ASSUME NEW s \in SUBSET S, \A u \in SUBSET s : u # s => u \in T
      PROVE  s \in T
  <2> SUFFICES ASSUME NEW y \in s
               PROVE  SumFunctionOnSet(f, s) = f[y] + SumFunctionOnSet(f, s \ {y})
    OBVIOUS
  <2> DEFINE p == Pick(s)
  <2>1. p \in s /\ IsFiniteSet(s)
    BY PickIn, FS_Subset
  <2>2. SumFunctionOnSet(f, s) = f[p] + SumFunctionOnSet(f, s \ {p})
    BY <2>1, SumPick
  <2> HIDE DEF p
  <2>3. CASE y = p
    BY <2>2, <2>3
  <2>4. CASE y # p
    <3>1. s \ {p} \in T /\ s \ {y} \in T
      BY <1>1, <2>1
    <3>2. SumFunctionOnSet(f, s \ {p}) = f[y] + SumFunctionOnSet(f, (s \ {p}) \ {y})
      BY <2>4, <3>1
    <3>3. SumFunctionOnSet(f, s \ {y}) = f[p] + SumFunctionOnSet(f, (s \ {y}) \ {p})
      BY <2>1, <2>4, <3>1
    <3>4. (s \ {p}) \ {y} = (s \ {y}) \ {p}
      OBVIOUS
    <3>5. SumFunctionOnSet(f, (s \ {p}) \ {y}) \in Int
      <4>1. IsFiniteSet((s \ {p}) \ {y})
        BY <2>1, FS_Subset
      <4> QED BY <4>1, SumInt
    <3>6. f[y] \in Int /\ f[p] \in Int
      BY <2>1
    <3> DEFINE a == SumFunctionOnSet(f, s \ {p})
               b == SumFunctionOnSet(f, s \ {y})
               c == SumFunctionOnSet(f, (s \ {p}) \ {y})
    <3>7. a = f[y] + c /\ b = f[p] + c /\ c \in Int
      BY <3>2, <3>3, <3>4, <3>5
    <3> HIDE DEF a, b, c
    <3>8. f[p] + a = f[y] + b
      BY <3>6, <3>7
    <3> QED BY <2>2, <3>8 DEF a, b
  <2> QED BY <2>3, <2>4
<1> HIDE DEF T
<1>2. SUBSET S \subseteq T
  BY <1>1, SubsetInduction
<1> QED BY <1>2 DEF T

(* Sums of the same numbers are equal.                                     *)
LEMMA SumSame ==
    ASSUME NEW S, IsFiniteSet(S), NEW f, NEW g, \A x \in S : f[x] = g[x]
    PROVE  SumFunctionOnSet(f, S) = SumFunctionOnSet(g, S)
<1> DEFINE T == {s \in SUBSET S : SumFunctionOnSet(f, s) = SumFunctionOnSet(g, s)}
<1>1. ASSUME NEW s \in SUBSET S, \A u \in SUBSET s : u # s => u \in T
      PROVE  s \in T
  <2>1. CASE s = {}
    BY <2>1, SumEmpty
  <2>2. CASE s # {}
    <3>1. IsFiniteSet(s)
      BY FS_Subset
    <3>2. s \ {Pick(s)} \in T /\ Pick(s) \in S
      BY <1>1, <2>2, PickIn
    <3> QED BY <2>2, <3>1, <3>2, SumPick
  <2> QED BY <2>1, <2>2
<1> HIDE DEF T
<1>2. SUBSET S \subseteq T
  BY <1>1, SubsetInduction
<1> QED BY <1>2 DEF T

(* A change of one of the numbers changes the sum by as much.              *)
LEMMA SumChange ==
    ASSUME NEW S, IsFiniteSet(S), NEW f, NEW g, NEW x \in S,
           \A y \in S : f[y] \in Int /\ g[y] \in Int, \A y \in S \ {x} : g[y] = f[y]
    PROVE  SumFunctionOnSet(g, S) = SumFunctionOnSet(f, S) + g[x] - f[x]
<1>1. IsFiniteSet(S \ {x})
  BY FS_Subset
<1>2. SumFunctionOnSet(f, S) = f[x] + SumFunctionOnSet(f, S \ {x})
  BY SumTake
<1>3. SumFunctionOnSet(g, S) = g[x] + SumFunctionOnSet(g, S \ {x})
  BY SumTake
<1>4. SumFunctionOnSet(f, S \ {x}) = SumFunctionOnSet(g, S \ {x})
  BY <1>1, SumSame
<1>5. SumFunctionOnSet(f, S \ {x}) \in Int
  BY <1>1, SumInt
<1> QED BY <1>2, <1>3, <1>4, <1>5

(* Sums are added number by number.                                        *)
LEMMA SumPlus ==
    ASSUME NEW S, IsFiniteSet(S), NEW f, NEW g, NEW h,
           \A x \in S : f[x] \in Int /\ g[x] \in Int /\ h[x] = f[x] + g[x]
    PROVE  SumFunctionOnSet(h, S) = SumFunctionOnSet(f, S) + SumFunctionOnSet(g, S)
<1> DEFINE T == {s \in SUBSET S :
                    SumFunctionOnSet(h, s) = SumFunctionOnSet(f, s) + SumFunctionOnSet(g, s)}
<1>1. ASSUME NEW s \in SUBSET S, \A u \in SUBSET s : u # s => u \in T
      PROVE  s \in T
  <2>1. CASE s = {}
    BY <2>1, SumEmpty
  <2>2. CASE s # {}
    <3> DEFINE p == Pick(s)
               u == s \ {p}
    <3>1. IsFiniteSet(s) /\ IsFiniteSet(u)
      BY FS_Subset
    <3>2. u \in T /\ p \in S
      BY <1>1, <2>2, PickIn
    <3>3. /\ SumFunctionOnSet(f, s) = f[p] + SumFunctionOnSet(f, u)
          /\ SumFunctionOnSet(g, s) = g[p] + SumFunctionOnSet(g, u)
          /\ SumFunctionOnSet(h, s) = h[p] + SumFunctionOnSet(h, u)
      BY <2>2, <3>1, SumPick
    <3> HIDE DEF p
    <3>4. SumFunctionOnSet(f, u) \in Int /\ SumFunctionOnSet(g, u) \in Int
      BY <3>1, SumInt
    <3> QED BY <3>2, <3>3, <3>4
  <2> QED BY <2>1, <2>2
<1> HIDE DEF T
<1>2. SUBSET S \subseteq T
  BY <1>1, SubsetInduction
<1> QED BY <1>2 DEF T

(* What is twice itself is nothing.                                        *)
LEMMA TwiceItself == ASSUME NEW n \in Int, n = n + n PROVE n = 0
OBVIOUS

(* A sum of zeros is zero.                                                 *)
LEMMA SumZero ==
    ASSUME NEW S, IsFiniteSet(S), NEW f, \A x \in S : f[x] = 0
    PROVE  SumFunctionOnSet(f, S) = 0
<1>1. SumFunctionOnSet(f, S) = SumFunctionOnSet(f, S) + SumFunctionOnSet(f, S)
  BY SumPlus
<1>2. SumFunctionOnSet(f, S) \in Int
  BY SumInt
<1> QED BY <1>1, <1>2, TwiceItself, Zenon

(* A sum of larger numbers is larger.                                      *)
LEMMA SumAtMost ==
    ASSUME NEW S, IsFiniteSet(S), NEW f, NEW g,
           \A x \in S : f[x] \in Int /\ g[x] \in Int /\ f[x] <= g[x]
    PROVE  SumFunctionOnSet(f, S) <= SumFunctionOnSet(g, S)
<1> DEFINE T == {s \in SUBSET S : SumFunctionOnSet(f, s) <= SumFunctionOnSet(g, s)}
<1>1. ASSUME NEW s \in SUBSET S, \A u \in SUBSET s : u # s => u \in T
      PROVE  s \in T
  <2>1. CASE s = {}
    BY <2>1, SumEmpty
  <2>2. CASE s # {}
    <3> DEFINE p == Pick(s)
               u == s \ {p}
    <3>1. IsFiniteSet(s) /\ IsFiniteSet(u)
      BY FS_Subset
    <3>2. u \in T /\ p \in S
      BY <1>1, <2>2, PickIn
    <3>3. /\ SumFunctionOnSet(f, s) = f[p] + SumFunctionOnSet(f, u)
          /\ SumFunctionOnSet(g, s) = g[p] + SumFunctionOnSet(g, u)
      BY <2>2, <3>1, SumPick
    <3> HIDE DEF p
    <3>4. SumFunctionOnSet(f, u) \in Int /\ SumFunctionOnSet(g, u) \in Int
      BY <3>1, SumInt
    <3> QED BY <3>2, <3>3, <3>4
  <2> QED BY <2>1, <2>2
<1> HIDE DEF T
<1>2. SUBSET S \subseteq T
  BY <1>1, SubsetInduction
<1> QED BY <1>2 DEF T

-----------------------------------------------------------------------------
(* Folds whose step is given by the function F, in the order of Pick. *)

IsIter(g, F, first, S) ==
    g = [s \in SUBSET S |-> IF s = {} THEN first ELSE F[<<Pick(s), g[s \ {Pick(s)}]>>]]

(* Two such functions agree on the subsets of the smaller set.             *)
LEMMA IterUnique ==
    ASSUME NEW S, IsFiniteSet(S), NEW R \in SUBSET S, NEW F, NEW first,
           NEW g, NEW h, IsIter(g, F, first, S), IsIter(h, F, first, R)
    PROVE  \A s \in SUBSET R : g[s] = h[s]
<1> DEFINE T == {s \in SUBSET R : g[s] = h[s]}
<1>1. IsFiniteSet(R)
  BY FS_Subset
<1>2. ASSUME NEW s \in SUBSET R, \A u \in SUBSET s : u # s => u \in T
      PROVE  s \in T
  <2>0. s \in SUBSET S
    OBVIOUS
  <2>2. g[s] = IF s = {} THEN first ELSE F[<<Pick(s), g[s \ {Pick(s)}]>>]
    BY <2>0 DEF IsIter
  <2>3. h[s] = IF s = {} THEN first ELSE F[<<Pick(s), h[s \ {Pick(s)}]>>]
    BY DEF IsIter
  <2>4. CASE s = {}
    BY <2>2, <2>3, <2>4
  <2>5. CASE s # {}
    <3>1. s \ {Pick(s)} \in T
      BY <1>2, <2>5, PickIn
    <3> QED BY <2>2, <2>3, <2>5, <3>1
  <2> QED BY <2>4, <2>5
<1> HIDE DEF T
<1>3. SUBSET R \subseteq T
  BY <1>1, <1>2, SubsetInduction
<1> QED BY <1>3 DEF T

(* There is such a function.                                               *)
LEMMA IterExists ==
    ASSUME NEW S, IsFiniteSet(S), NEW F, NEW first
    PROVE  \E g : IsIter(g, F, first, S)
<1> DEFINE T == {s \in SUBSET S : \E g : IsIter(g, F, first, s)}
           G(s) == CHOOSE g : IsIter(g, F, first, s)
<1>1. ASSUME NEW s \in SUBSET S, \A u \in SUBSET s : u # s => u \in T
      PROVE  s \in T
  <2>1. \A u \in SUBSET s : u # s => IsIter(G(u), F, first, u)
    BY <1>1
  <2>2. \A u \in SUBSET s : IsFiniteSet(u)
    BY FS_Subset
  <2> DEFINE g == [u \in SUBSET s |->
                      IF u = {} THEN first
                      ELSE F[<<Pick(u), G(u \ {Pick(u)})[u \ {Pick(u)}]>>]]
  <2>3. ASSUME NEW u \in SUBSET s, u # s
        PROVE  g[u] = G(u)[u]
    <3>1. IsIter(G(u), F, first, u)
      BY <2>1, <2>3
    <3>2. G(u)[u] = IF u = {} THEN first ELSE F[<<Pick(u), G(u)[u \ {Pick(u)}]>>]
      <4> HIDE DEF G
      <4> QED BY <3>1 DEF IsIter
    <3>3. CASE u = {}
      BY <3>2, <3>3
    <3>4. CASE u # {}
      <4> DEFINE v == u \ {Pick(u)}
      <4>1. v \in SUBSET u /\ v \in SUBSET s /\ v # s
        BY <3>4, PickIn
      <4>2. IsIter(G(v), F, first, v)
        BY <4>1, <2>1
      <4>3. IsFiniteSet(u)
        BY <2>2
      <4> HIDE DEF G, v
      <4>4. \A w \in SUBSET v : G(u)[w] = G(v)[w]
        BY <3>1, <4>1, <4>2, <4>3, IterUnique
      <4>5. G(u)[v] = G(v)[v]
        BY <4>4
      <4> QED BY <3>2, <3>4, <4>5 DEF v
    <3> QED BY <3>3, <3>4
  <2> HIDE DEF G
  <2>4. g = [u \in SUBSET s |-> IF u = {} THEN first ELSE F[<<Pick(u), g[u \ {Pick(u)}]>>]]
    <3>1. \A u \in SUBSET s : u # {} =>
             g[u \ {Pick(u)}] = G(u \ {Pick(u)})[u \ {Pick(u)}]
      BY <2>3, PickIn
    <3> QED BY <3>1
  <2>5. IsIter(g, F, first, s)
    BY <2>4 DEF IsIter
  <2> HIDE DEF g
  <2> QED BY <2>5
<1> HIDE DEF T
<1>2. SUBSET S \subseteq T
  BY <1>1, SubsetInduction
<1> QED BY <1>2 DEF T

(* If the steps stay within D, so does the function.                       *)
LEMMA IterIn ==
    ASSUME NEW S, IsFiniteSet(S), NEW D, NEW F \in [S \X D -> D], NEW first \in D,
           NEW g, IsIter(g, F, first, S)
    PROVE  \A s \in SUBSET S : g[s] \in D
<1> DEFINE T == {s \in SUBSET S : g[s] \in D}
<1>1. ASSUME NEW s \in SUBSET S, \A u \in SUBSET s : u # s => u \in T
      PROVE  s \in T
  <2>1. g[s] = IF s = {} THEN first ELSE F[<<Pick(s), g[s \ {Pick(s)}]>>]
    BY DEF IsIter
  <2>2. CASE s = {}
    BY <2>1, <2>2
  <2>3. CASE s # {}
    <3>1. Pick(s) \in s
      BY <2>3, PickIn
    <3>2. g[s \ {Pick(s)}] \in D
      BY <1>1, <3>1
    <3> QED BY <2>1, <2>3, <3>1, <3>2
  <2> QED BY <2>2, <2>3
<1> HIDE DEF T
<1>2. SUBSET S \subseteq T
  BY <1>1, SubsetInduction
<1> QED BY <1>2 DEF T

(* Let h fold the sets of S in the order of Pick, by Step.  What the step  *)
(* makes of Q, at a set without the element, is in Q at the set with it.   *)
LEMMA FoldReaches ==
    ASSUME NEW S, IsFiniteSet(S), NEW Q, NEW h, h[{}] \in Q[{}],
           \A s \in SUBSET S : s # {} =>
               (h[s \ {Pick(s)}] \in Q[s \ {Pick(s)}] => h[s] \in Q[s])
    PROVE  h[S] \in Q[S]
<1> DEFINE T == {s \in SUBSET S : h[s] \in Q[s]}
<1>1. ASSUME NEW s \in SUBSET S, \A u \in SUBSET s : u # s => u \in T
      PROVE  s \in T
  <2>1. CASE s = {}
    BY <2>1
  <2>2. CASE s # {}
    <3>1. s \ {Pick(s)} \in T
      BY <1>1, <2>2, PickIn
    <3> QED BY <2>2, <3>1
  <2> QED BY <2>1, <2>2
<1> HIDE DEF T
<1>2. SUBSET S \subseteq T
  BY <1>1, SubsetInduction
<1> QED BY <1>2 DEF T

-----------------------------------------------------------------------------
(* Finite sets of numbers, and folds over sequences. *)

(* A finite set of numbers has a greatest one.                             *)
LEMMA MaxIn ==
    ASSUME NEW S, IsFiniteSet(S), S \subseteq Nat, S # {}
    PROVE  Max(S) \in S /\ \A y \in S : Max(S) >= y
<1> DEFINE T == {s \in SUBSET S : s # {} => \E x \in s : \A y \in s : x >= y}
<1>1. ASSUME NEW s \in SUBSET S, \A u \in SUBSET s : u # s => u \in T
      PROVE  s \in T
  <2> SUFFICES ASSUME s # {} PROVE \E x \in s : \A y \in s : x >= y
    OBVIOUS
  <2>1. PICK a \in s : TRUE
    OBVIOUS
  <2>2. s \ {a} \in T
    BY <1>1
  <2>3. CASE s \ {a} = {}
    <3>1. \A y \in s : a >= y
      BY <2>3
    <3> QED BY <3>1
  <2>4. CASE s \ {a} # {}
    <3>1. PICK b \in s \ {a} : \A y \in s \ {a} : b >= y
      BY <2>2, <2>4
    <3>2. a \in Nat /\ b \in Nat /\ \A y \in s : y \in Nat
      OBVIOUS
    <3>3. CASE a >= b
      BY <3>1, <3>2, <3>3
    <3>4. CASE b >= a
      BY <3>1, <3>2, <3>4
    <3> QED BY <3>2, <3>3, <3>4
  <2> QED BY <2>3, <2>4
<1> HIDE DEF T
<1>2. S \in T
  BY <1>1, SubsetInduction
<1>3. \E x \in S : \A y \in S : x >= y
  BY <1>2 DEF T
<1> QED BY <1>3 DEF Max

(* A finite set of numbers.                                                *)
Finite(S) == IsFiniteSet(S) /\ S \subseteq Nat

(* The function behind a fold whose step is the function F: on the set s   *)
(* of indexes it has folded those of s, the greatest one last.             *)
IsFold(g, F, first, S) ==
    g = [s \in SUBSET S |-> IF s = {} THEN first ELSE F[<<g[s \ {Max(s)}], Max(s)>>]]

(* Two such functions agree on the subsets of the smaller set.             *)
LEMMA FoldUnique ==
    ASSUME NEW S, Finite(S), NEW R \in SUBSET S, NEW F, NEW first,
           NEW g, NEW h, IsFold(g, F, first, S), IsFold(h, F, first, R)
    PROVE  \A s \in SUBSET R : g[s] = h[s]
<1> DEFINE T == {s \in SUBSET R : g[s] = h[s]}
<1>1. IsFiniteSet(R)
  BY FS_Subset DEF Finite
<1>2. ASSUME NEW s \in SUBSET R, \A u \in SUBSET s : u # s => u \in T
      PROVE  s \in T
  <2>0. s \in SUBSET S /\ IsFiniteSet(s)
    BY FS_Subset DEF Finite
  <2>1. g[s] = IF s = {} THEN first ELSE F[<<g[s \ {Max(s)}], Max(s)>>]
    BY <2>0 DEF IsFold
  <2>2. h[s] = IF s = {} THEN first ELSE F[<<h[s \ {Max(s)}], Max(s)>>]
    BY DEF IsFold
  <2>3. CASE s = {}
    BY <2>1, <2>2, <2>3
  <2>4. CASE s # {}
    <3>1. s \ {Max(s)} \in T
      BY <1>2, <2>0, <2>4, MaxIn DEF Finite
    <3> QED BY <2>1, <2>2, <2>4, <3>1
  <2> QED BY <2>3, <2>4
<1> HIDE DEF T
<1>3. SUBSET R \subseteq T
  BY <1>1, <1>2, SubsetInduction
<1> QED BY <1>3 DEF T

(* There is such a function.                                               *)
LEMMA FoldExists ==
    ASSUME NEW S, Finite(S), NEW F, NEW first
    PROVE  \E g : IsFold(g, F, first, S)
<1> DEFINE T == {s \in SUBSET S : \E g : IsFold(g, F, first, s)}
           G(s) == CHOOSE g : IsFold(g, F, first, s)
<1>1. ASSUME NEW s \in SUBSET S, \A u \in SUBSET s : u # s => u \in T
      PROVE  s \in T
  <2>1. \A u \in SUBSET s : u # s => IsFold(G(u), F, first, u)
    BY <1>1
  <2>2. \A u \in SUBSET s : Finite(u)
    BY FS_Subset DEF Finite
  <2> DEFINE g == [u \in SUBSET s |->
                      IF u = {} THEN first
                      ELSE F[<<G(u \ {Max(u)})[u \ {Max(u)}], Max(u)>>]]
  <2>3. ASSUME NEW u \in SUBSET s, u # s
        PROVE  g[u] = G(u)[u]
    <3>1. IsFold(G(u), F, first, u)
      BY <2>1, <2>3
    <3>2. G(u)[u] = IF u = {} THEN first ELSE F[<<G(u)[u \ {Max(u)}], Max(u)>>]
      <4> HIDE DEF G
      <4> QED BY <3>1 DEF IsFold
    <3>3. CASE u = {}
      BY <3>2, <3>3
    <3>4. CASE u # {}
      <4> DEFINE v == u \ {Max(u)}
      <4>1. v \in SUBSET u /\ v \in SUBSET s /\ v # s
        BY <2>2, <3>4, MaxIn DEF Finite
      <4>2. IsFold(G(v), F, first, v)
        BY <4>1, <2>1
      <4>3. Finite(u)
        BY <2>2
      <4> HIDE DEF G, v
      <4>4. \A p, q : IsFold(p, F, first, u) /\ IsFold(q, F, first, v) =>
                \A w \in SUBSET v : p[w] = q[w]
        BY <4>1, <4>3, FoldUnique
      <4>5. G(u)[v] = G(v)[v]
        BY <3>1, <4>2, <4>4
      <4> QED BY <3>2, <3>4, <4>5 DEF v
    <3> QED BY <3>3, <3>4
  <2> HIDE DEF G
  <2>4. g = [u \in SUBSET s |-> IF u = {} THEN first ELSE F[<<g[u \ {Max(u)}], Max(u)>>]]
    <3>1. \A u \in SUBSET s : u # {} => g[u \ {Max(u)}] = G(u \ {Max(u)})[u \ {Max(u)}]
      BY <2>2, <2>3, MaxIn DEF Finite
    <3> QED BY <3>1
  <2>5. IsFold(g, F, first, s)
    BY <2>4 DEF IsFold
  <2> HIDE DEF g
  <2> QED BY <2>5
<1> HIDE DEF T
<1>2. SUBSET S \subseteq T
  BY <1>1, SubsetInduction DEF Finite
<1> QED BY <1>2 DEF T

(* If the steps stay within D, so does the function.                       *)
LEMMA FoldType ==
    ASSUME NEW S, Finite(S), NEW D, NEW F \in [D \X S -> D],
           NEW first \in D, NEW g, IsFold(g, F, first, S)
    PROVE  \A s \in SUBSET S : g[s] \in D
<1> DEFINE T == {s \in SUBSET S : g[s] \in D}
<1>1. ASSUME NEW s \in SUBSET S, \A u \in SUBSET s : u # s => u \in T
      PROVE  s \in T
  <2>1. g[s] = IF s = {} THEN first ELSE F[<<g[s \ {Max(s)}], Max(s)>>]
    BY DEF IsFold
  <2>2. CASE s = {}
    BY <2>1, <2>2
  <2>3. CASE s # {}
    <3>1. Max(s) \in s
      BY <2>3, MaxIn, FS_Subset DEF Finite
    <3>2. g[s \ {Max(s)}] \in D
      BY <1>1, <3>1
    <3> QED BY <2>1, <2>3, <3>1, <3>2
  <2> QED BY <2>2, <2>3
<1> HIDE DEF T
<1>2. SUBSET S \subseteq T
  BY <1>1, SubsetInduction DEF Finite
<1> QED BY <1>2 DEF T

(* What holds of 0, and of a number up to n if it holds of the one before, *)
(* holds of every number up to n.                                          *)
LEMMA PrefixInduction ==
    ASSUME NEW n \in Nat, NEW T, 0 \in T, \A i \in 1..n : i - 1 \in T => i \in T
    PROVE  0..n \subseteq T
<1> DEFINE N == 0..n
           R == {s \in SUBSET N : \A i \in N : s = 0..i => i \in T}
<1>1. ASSUME NEW s \in SUBSET N, \A u \in SUBSET s : u # s => u \in R
      PROVE  s \in R
  <2> SUFFICES ASSUME NEW i \in N, s = 0..i PROVE i \in T
    OBVIOUS
  <2>1. CASE i = 0
    BY <2>1
  <2>2. CASE i # 0
    <3>1. 0..(i - 1) \in SUBSET s /\ 0..(i - 1) # s /\ i - 1 \in N
      <4>1. i \in s /\ i \notin 0..(i - 1)
        BY <2>2
      <4> QED BY <2>2, <4>1
    <3>2. i - 1 \in T
      BY <1>1, <3>1
    <3> QED BY <2>2, <3>2
  <2> QED BY <2>1, <2>2
<1>2. IsFiniteSet(N)
  BY FS_Interval
<1>3. \A i \in N : 0..i \in SUBSET N
  OBVIOUS
<1> HIDE DEF R, N
<1>4. SUBSET N \subseteq R
  BY <1>1, <1>2, SubsetInduction
<1>5. N \subseteq T
  BY <1>3, <1>4 DEF R
<1> QED BY <1>5 DEF N

(* The greatest index of a prefix, and the prefix without it.              *)
LEMMA PrefixMax ==
    ASSUME NEW i \in Nat, i # 0
    PROVE  Max(1..i) = i /\ (1..i) \ {i} = 1..(i - 1) /\ 1..i # {}
<1>1. Finite(1..i) /\ i \in 1..i
  BY FS_Interval DEF Finite
<1>2. Max(1..i) \in 1..i /\ \A j \in 1..i : Max(1..i) >= j
  BY <1>1, MaxIn DEF Finite
<1> QED BY <1>1, <1>2

(* As many ones as a sequence without repetition has entries.              *)
LEMMA SumOfOnes ==
    ASSUME NEW n \in Nat, NEW s, NEW f, \A i \in 1..n : f[s[i]] = 1,
           \A i, k \in 1..n : s[i] = s[k] => i = k
    PROVE  SumFunctionOnSet(f, {s[i] : i \in 1..n}) = n
<1> DEFINE P(k) == {s[i] : i \in 1..k}
           T == {k \in 0..n : IsFiniteSet(P(k)) /\ SumFunctionOnSet(f, P(k)) = k}
<1>1. 0 \in T
  <2>1. P(0) = {}
    OBVIOUS
  <2> HIDE DEF P
  <2> QED BY <2>1, FS_EmptySet, SumEmpty
<1>2. ASSUME NEW k \in 1..n, k - 1 \in T PROVE k \in T
  <2>1. s[k] \in P(k) /\ P(k) \ {s[k]} = P(k - 1) /\ P(k) = P(k - 1) \cup {s[k]}
    OBVIOUS
  <2>2. \A x \in P(k) : f[x] = 1
    OBVIOUS
  <2> HIDE DEF P
  <2>3. IsFiniteSet(P(k))
    BY <1>2, <2>1, FS_AddElement
  <2>4. SumFunctionOnSet(f, P(k)) = f[s[k]] + SumFunctionOnSet(f, P(k) \ {s[k]})
    BY <2>1, <2>2, <2>3, SumTake
  <2>5. SumFunctionOnSet(f, P(k - 1)) = k - 1 /\ f[s[k]] = 1
    BY <1>2, <2>1, <2>2
  <2>6. SumFunctionOnSet(f, P(k)) = k
    BY <2>1, <2>4, <2>5
  <2> QED BY <2>3, <2>6
<1> HIDE DEF T
<1>3. 0..n \subseteq T
  BY <1>1, <1>2, PrefixInduction
<1> QED BY <1>3 DEF T

(* The greatest of some indexes.                                           *)
LEMMA MaxOfIndexes ==
    ASSUME NEW n \in Nat
    PROVE  \A s \in SUBSET (1..n) : s # {} => Max(s) \in 1..n /\ s \ {Max(s)} \in SUBSET (1..n)
<1> SUFFICES ASSUME NEW s \in SUBSET (1..n), s # {}
             PROVE  Max(s) \in s
  OBVIOUS
<1>1. IsFiniteSet(1..n) /\ 1..n \subseteq Nat
  BY FS_Interval
<1> QED BY <1>1, FS_Subset, MaxIn

(* A function that folds the indexes 1, ..., n by the steps F as long as   *)
(* it stays within D, and what it has made of the first i, h[i].           *)
FoldsBy(g, F, first, n, D) ==
    /\ g[{}] = first
    /\ \A s \in SUBSET (1..n) : s # {} /\ g[s \ {Max(s)}] \in D =>
          g[s] = F[<<g[s \ {Max(s)}], Max(s)>>]

Unfolds(h, g, F, first, n, D) ==
    /\ h \in [0..n -> D] /\ h[0] = first
    /\ \A i \in 1..n : h[i] = F[<<h[i - 1], i>>]
    /\ g[1..n] = h[n]

(* The function behind a fold over the indexes 1, ..., n takes one step    *)
(* for each.                                                               *)
LEMMA FoldSteps ==
    ASSUME NEW n \in Nat, NEW D, NEW first \in D, NEW F \in [D \X (1..n) -> D],
           NEW g, FoldsBy(g, F, first, n, D)
    PROVE  \E h : Unfolds(h, g, F, first, n, D)
<1> DEFINE h == [i \in 0..n |-> g[1..i]]
           T == {i \in 0..n : h[i] \in D}
<1>1. h[0] = first
  <2>1. 1..0 = {} /\ 0 \in 0..n
    OBVIOUS
  <2> QED BY <2>1 DEF FoldsBy
<1>2. ASSUME NEW i \in 1..n, h[i - 1] \in D
      PROVE  h[i] = F[<<h[i - 1], i>>] /\ h[i] \in D
  <2>1. /\ i \in Nat /\ i # 0 /\ 1..i \in SUBSET (1..n)
        /\ i - 1 \in 0..n /\ i \in 0..n
    OBVIOUS
  <2>2. Max(1..i) = i /\ (1..i) \ {i} = 1..(i - 1) /\ 1..i # {}
    BY <2>1, PrefixMax
  <2>3. h[i - 1] = g[1..(i - 1)] /\ h[i] = g[1..i]
    BY <2>1
  <2>4. g[1..i] = F[<<g[1..(i - 1)], i>>]
    BY <1>2, <2>1, <2>2, <2>3 DEF FoldsBy
  <2> QED BY <1>2, <2>3, <2>4
<1>3. 0 \in T
  BY <1>1
<1>4. ASSUME NEW i \in 1..n, i - 1 \in T PROVE i \in T
  <2>1. h[i - 1] \in D /\ i \in 0..n
    BY <1>4
  <2> HIDE DEF h
  <2> QED BY <1>2, <2>1
<1> HIDE DEF T
<1>5. 0..n \subseteq T
  BY <1>3, <1>4, PrefixInduction
<1>6. \A i \in 0..n : h[i] \in D
  BY <1>5 DEF T
<1>7. \A i \in 1..n : h[i] = F[<<h[i - 1], i>>]
  <2> SUFFICES ASSUME NEW i \in 1..n PROVE h[i] = F[<<h[i - 1], i>>]
    OBVIOUS
  <2>1. i - 1 \in 0..n
    OBVIOUS
  <2> HIDE DEF h
  <2> QED BY <1>2, <1>6, <2>1
<1>8. h \in [0..n -> D] /\ g[1..n] = h[n]
  BY <1>6
<1> HIDE DEF h
<1> QED BY <1>1, <1>7, <1>8 DEF Unfolds

(* Such a function exists, with steps that stay within D.                  *)
LEMMA FoldWithin ==
    ASSUME NEW n \in Nat, NEW D, NEW first \in D, NEW F \in [D \X (1..n) -> D]
    PROVE  \E k : IsFold(k, F, first, 1..n) /\ \A s \in SUBSET (1..n) : k[s] \in D
<1>1. Finite(1..n)
  BY FS_Interval DEF Finite
<1>2. PICK k : IsFold(k, F, first, 1..n)
  BY <1>1, FoldExists
<1> QED BY <1>1, <1>2, FoldType

(* Numbers that differ by a multiple of w.                                 *)
Congruent(a, b, w) == \E k \in Int : a = b + k * w

(* A remainder differs from its number by a multiple.                      *)
LEMMA RemainderCongruent ==
    ASSUME NEW a \in Int, NEW w \in Nat \ {0}
    PROVE  a % w \in 0..(w - 1) /\ Congruent(a % w, a, w)
<1> DEFINE q == a \div w
           r == a % w
<1>1. q \in Int /\ r \in 0..(w - 1) /\ a = w * q + r
  OBVIOUS
<1> HIDE DEF q, r
<1>2. -q \in Int /\ r = a + (-q) * w
  BY <1>1
<1> QED BY <1>1, <1>2 DEF Congruent, r

(* Adding keeps it.                                                        *)
LEMMA CongruentAdd ==
    ASSUME NEW a \in Int, NEW b \in Int, NEW c \in Int, NEW d \in Int, NEW w \in Nat,
           Congruent(a, b, w), Congruent(c, a + d, w)
    PROVE  Congruent(c, b + d, w)
<1>1. PICK k \in Int : a = b + k * w
  BY DEF Congruent
<1>2. PICK l \in Int : c = a + d + l * w
  BY DEF Congruent
<1>3. k + l \in Int /\ (k + l) * w = k * w + l * w /\ k * w \in Int /\ l * w \in Int
  OBVIOUS
<1>4. c = b + d + (k + l) * w
  BY <1>1, <1>2, <1>3
<1> QED BY <1>3, <1>4 DEF Congruent

(* Two remainders that differ by a multiple are equal.                     *)
LEMMA CongruentEqual ==
    ASSUME NEW w \in Nat, NEW a \in 0..(w - 1), NEW b \in 0..(w - 1), Congruent(a, b, w)
    PROVE  a = b
<1>1. PICK k \in Int : a = b + k * w
  BY DEF Congruent
<1>2. CASE k >= 1
  <2>1. k * w >= w
    BY <1>2
  <2> QED BY <1>1, <2>1
<1>3. CASE k <= -1
  <2>1. (-k) * w >= w
    BY <1>3
  <2>2. (-k) * w = -(k * w)
    OBVIOUS
  <2> QED BY <1>1, <2>1, <2>2
<1>4. CASE k = 0
  BY <1>1, <1>4
<1> QED BY <1>2, <1>3, <1>4

=============================================================================
