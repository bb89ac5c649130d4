---------------------------- MODULE SumTheorems ----------------------------
(***************************************************************************)
(* Sums over finite sets, and induction over a finite set in the form of a *)
(* smallest counterexample: the sum is a recursive function over subsets,  *)
(* and what it computes is proved for every finite set.                    *)
(***************************************************************************)
EXTENDS Functions, FiniteSetTheorems, TLAPS

(* A family of subsets of a finite set has a member none of the others is  *)
(* strictly inside of.                                                     *)
LEMMA SmallestSubset ==
  ASSUME NEW S, IsFiniteSet(S), NEW Family \in SUBSET SUBSET S, Family # {}
  PROVE  \E T \in Family : \A U \in Family : U \subseteq T => U = T
<1>1. FiniteSubsetsOf(S) = SUBSET S
  BY FS_FiniteSubsetsOfFinite
<1>2. IsWellFoundedOn(StrictSubsetOrdering(S), SUBSET S)
  BY <1>1, FS_StrictSubsetOrderingWellFounded
<1>3. PICK T \in Family : \A U \in Family : <<U, T>> \notin StrictSubsetOrdering(S)
  <2>1. Family \subseteq SUBSET S
    OBVIOUS
  <2> QED BY <1>2, <2>1, WFMin
<1>4. ASSUME NEW U \in Family, U \subseteq T PROVE U = T
  <2>1. <<U, T>> \in (SUBSET S) \X (SUBSET S)
    OBVIOUS
  <2> QED BY <1>3, <1>4, <2>1 DEF StrictSubsetOrdering
<1> QED BY <1>3, <1>4

(* A set of numbers with a member has a least one. *)
LEMMA LeastNumber ==
  ASSUME NEW W \in SUBSET Nat, NEW n \in W
  PROVE  \E m \in W : \A k \in W : m <= k
<1> DEFINE Family == {0 .. k : k \in {i \in W : i <= n}}
<1>1. PICK T \in Family : \A U \in Family : U \subseteq T => U = T
  <2>1. IsFiniteSet(0 .. n)
    BY FS_Interval
  <2>2. ASSUME NEW k \in W, k <= n PROVE 0 .. k \subseteq 0 .. n
    <3>1. k \in Nat /\ n \in Nat
      OBVIOUS
    <3> QED BY <2>2, <3>1
  <2>3. n \in Nat /\ n <= n
    OBVIOUS
  <2>4. Family \in SUBSET SUBSET (0 .. n) /\ Family # {}
    BY <2>2, <2>3
  <2>5. PICK S : S = 0 .. n
    OBVIOUS
  <2>6. IsFiniteSet(S) /\ Family \in SUBSET SUBSET S /\ Family # {}
    BY <2>1, <2>4, <2>5
  <2> HIDE DEF Family
  <2> QED BY <2>6, SmallestSubset
<1>2. PICK m \in {i \in W : i <= n} : T = 0 .. m
  OBVIOUS
<1>3. ASSUME NEW k \in W PROVE m <= k
  <2>1. k \in Nat /\ m \in Nat /\ n \in Nat /\ m <= n
    BY <1>2
  <2>2. SUFFICES ASSUME k < m PROVE FALSE
    BY <2>1
  <2>3. k <= n /\ 0 .. k \subseteq 0 .. m
    BY <2>1, <2>2
  <2>4. 0 .. k = 0 .. m
    BY <1>1, <1>2, <2>3
  <2>5. m \in 0 .. k
    BY <2>1, <2>4
  <2> QED BY <2>1, <2>2, <2>5
<1> QED BY <1>2, <1>3

(* The member of a set that a sum adds next, and the function that holds   *)
(* the sums over all the subsets.                                          *)
Some(s) == CHOOSE x \in s : TRUE
Adds(g, f, S) ==
  g = [s \in SUBSET S |-> IF s = {} THEN 0 ELSE f[Some(s)] + g[s \ {Some(s)}]]
AddsEach(g, f, S) ==
  \A s \in SUBSET S : g[s] = IF s = {} THEN 0 ELSE f[Some(s)] + g[s \ {Some(s)}]

LEMMA SumIsAdds ==
  ASSUME NEW f, NEW S
  PROVE  SumFunctionOnSet(f, S) = (CHOOSE g : Adds(g, f, S))[S]
BY DEF SumFunctionOnSet, FoldFunctionOnSet, MapThenFoldSet, Adds, Some

LEMMA SomeIsMember == ASSUME NEW s, s # {} PROVE Some(s) \in s
BY DEF Some

LEMMA AddsValue == \A g, f, S : Adds(g, f, S) => AddsEach(g, f, S)
<1> SUFFICES ASSUME NEW f, NEW S, NEW g, Adds(g, f, S), NEW s \in SUBSET S
             PROVE  g[s] = IF s = {} THEN 0 ELSE f[Some(s)] + g[s \ {Some(s)}]
  BY DEF AddsEach
<1> DEFINE value(t) == IF t = {} THEN 0 ELSE f[Some(t)] + g[t \ {Some(t)}]
<1>1. g = [t \in SUBSET S |-> value(t)]
  BY DEF Adds
<1>2. g[s] = value(s)
  <2> HIDE DEF value
  <2> QED BY <1>1
<1> QED BY <1>2

(* Two such functions agree where both are defined, whatever the sets they *)
(* are defined over and whichever summand outside of the common part.      *)
LEMMA AddsAgree ==
  ASSUME NEW f, NEW h, NEW S, NEW R, NEW g, NEW k, Adds(g, f, S), Adds(k, h, R),
         NEW T, IsFiniteSet(T), T \in SUBSET S, T \in SUBSET R, \A x \in T : f[x] = h[x]
  PROVE  g[T] = k[T]
<1>1. AddsEach(g, f, S) /\ AddsEach(k, h, R)
  BY AddsValue
<1> DEFINE Differ == {s \in SUBSET T : g[s] # k[s]}
<1> SUFFICES ASSUME Differ # {} PROVE FALSE
  OBVIOUS
<1>3. PICK s \in Differ : \A u \in Differ : u \subseteq s => u = s
  <2>1. Differ \in SUBSET SUBSET T
    OBVIOUS
  <2> HIDE DEF Differ
  <2> QED BY <2>1, SmallestSubset
<1>4. s \in SUBSET T /\ s \in SUBSET S /\ s \in SUBSET R /\ g[s] # k[s]
  BY <1>3
<1>5. s # {}
  BY <1>1, <1>4 DEF AddsEach
<1>6. Some(s) \in s /\ s \ {Some(s)} \in SUBSET T /\ s \ {Some(s)} # s
  BY <1>4, <1>5, SomeIsMember
<1>7. g[s \ {Some(s)}] = k[s \ {Some(s)}]
  BY <1>3, <1>6
<1> HIDE DEF Differ
<1>8. g[s] = f[Some(s)] + g[s \ {Some(s)}] /\ k[s] = h[Some(s)] + k[s \ {Some(s)}]
  BY <1>1, <1>4, <1>5 DEF AddsEach
<1> QED BY <1>4, <1>6, <1>7, <1>8

(* Such a function exists over every finite set. *)
LEMMA AddsExists ==
  ASSUME NEW f, NEW S, IsFiniteSet(S)
  PROVE  \E g : Adds(g, f, S)
<1> DEFINE Without == {T \in SUBSET S : ~ \E g : Adds(g, f, T)}
<1> SUFFICES ASSUME Without # {} PROVE FALSE
  OBVIOUS
<1>1. PICK T \in Without : \A U \in Without : U \subseteq T => U = T
  <2>1. Without \in SUBSET SUBSET S
    OBVIOUS
  <2> HIDE DEF Without
  <2> QED BY <2>1, SmallestSubset
<1>2. T \in SUBSET S /\ IsFiniteSet(T) /\ ~ \E g : Adds(g, f, T)
  BY <1>1, FS_Subset
<1>3. \A U \in SUBSET T : U # T => \E g : Adds(g, f, U)
  BY <1>1
<1> HIDE DEF Without
<1> DEFINE sub(U) == CHOOSE g : Adds(g, f, U)
           value(s) == IF s = {} THEN 0 ELSE f[Some(s)] + sub(s \ {Some(s)})[s \ {Some(s)}]
           whole == [s \in SUBSET T |-> value(s)]
<1>4. ASSUME NEW U \in SUBSET T, U # T PROVE Adds(sub(U), f, U)
  BY <1>3, <1>4
<1>5. ASSUME NEW s \in SUBSET T, s # T PROVE sub(s)[s] = value(s)
  <2>1. CASE s = {}
    <3>1. Adds(sub(s), f, s) /\ s \in SUBSET s
      BY <1>4, <1>5
    <3> HIDE DEF sub
    <3> QED BY <2>1, <3>1, AddsValue DEF AddsEach
  <2>2. CASE s # {}
    <3> DEFINE u == s \ {Some(s)}
    <3>1. u \in SUBSET s /\ u \in SUBSET T /\ u # T /\ s \in SUBSET s
      BY <2>2, SomeIsMember
    <3>2. Adds(sub(s), f, s) /\ Adds(sub(u), f, u)
      BY <1>4, <1>5, <3>1
    <3>3. IsFiniteSet(u) /\ u \subseteq u
      BY <1>2, <3>1, FS_Subset
    <3> HIDE DEF sub, u
    <3>4. sub(s)[u] = sub(u)[u]
      BY <3>1, <3>2, <3>3, AddsAgree
    <3>5. sub(s)[s] = f[Some(s)] + sub(s)[u]
      BY <2>2, <3>1, <3>2, AddsValue DEF u, AddsEach
    <3> QED BY <2>2, <3>4, <3>5 DEF u
  <2> QED BY <2>1, <2>2
<1>6. \A s \in SUBSET T : whole[s] = value(s)
  OBVIOUS
<1>7. ASSUME NEW s \in SUBSET T, s # {}
      PROVE  whole[s \ {Some(s)}] = sub(s \ {Some(s)})[s \ {Some(s)}]
  <2> DEFINE u == s \ {Some(s)}
  <2>1. u \in SUBSET T /\ u # T
    BY <1>7, SomeIsMember
  <2> HIDE DEF sub, value, whole, u
  <2>2. whole[u] = sub(u)[u]
    BY <1>5, <1>6, <2>1
  <2> QED BY <2>2 DEF u
<1>8. Adds(whole, f, T)
  <2> DEFINE next(s) == IF s = {} THEN 0 ELSE f[Some(s)] + whole[s \ {Some(s)}]
  <2> HIDE DEF sub, whole
  <2>1. \A s \in SUBSET T : value(s) = next(s)
    BY <1>7
  <2>2. whole = [s \in SUBSET T |-> next(s)]
    <3> HIDE DEF value, next
    <3> QED BY <2>1 DEF whole
  <2> QED BY <2>2 DEF Adds
<1> QED BY <1>2, <1>8

-----------------------------------------------------------------------------
(* What a sum is. *)

LEMMA SumOfEmpty == ASSUME NEW f PROVE SumFunctionOnSet(f, {}) = 0
<1>1. PICK g : Adds(g, f, {})
  BY AddsExists, FS_EmptySet
<1> DEFINE adds == CHOOSE h : Adds(h, f, {})
<1>2. Adds(adds, f, {})
  BY <1>1
<1> HIDE DEF adds
<1>3. adds[{}] = 0
  BY <1>2, AddsValue DEF AddsEach
<1> QED BY <1>3, SumIsAdds DEF adds

LEMMA SumUnfolds ==
  ASSUME NEW f, NEW S, IsFiniteSet(S), S # {}
  PROVE  SumFunctionOnSet(f, S) = f[Some(S)] + SumFunctionOnSet(f, S \ {Some(S)})
<1> DEFINE R == S \ {Some(S)}
           all == CHOOSE g : Adds(g, f, S)
           rest == CHOOSE g : Adds(g, f, R)
<1>1. R \subseteq S /\ R \subseteq R /\ IsFiniteSet(R) /\ S \in SUBSET S
  BY FS_RemoveElement
<1>2. \E g : Adds(g, f, S)
  BY AddsExists
<1>3. \E g : Adds(g, f, R)
  BY <1>1, AddsExists
<1>4. Adds(all, f, S) /\ Adds(rest, f, R)
  BY <1>2, <1>3
<1>5. SumFunctionOnSet(f, S) = all[S] /\ SumFunctionOnSet(f, R) = rest[R]
  BY SumIsAdds
<1> HIDE DEF all, rest
<1>6. all[S] = f[Some(S)] + all[R]
  BY <1>1, <1>4, AddsValue DEF AddsEach
<1> HIDE DEF R
<1>7. all[R] = rest[R]
  BY <1>1, <1>4, AddsAgree
<1> QED BY <1>5, <1>6, <1>7 DEF R

(* A sum depends on the summands of its members only. *)
LEMMA SumOfSame ==
  ASSUME NEW S, IsFiniteSet(S), NEW f, NEW g, \A x \in S : f[x] = g[x]
  PROVE  SumFunctionOnSet(f, S) = SumFunctionOnSet(g, S)
<1> DEFINE fs == CHOOSE h : Adds(h, f, S)
           gs == CHOOSE h : Adds(h, g, S)
<1>1. \E h : Adds(h, f, S)
  BY AddsExists
<1>2. \E h : Adds(h, g, S)
  BY AddsExists
<1>3. Adds(fs, f, S) /\ Adds(gs, g, S)
  BY <1>1, <1>2
<1>4. SumFunctionOnSet(f, S) = fs[S] /\ SumFunctionOnSet(g, S) = gs[S]
  BY SumIsAdds
<1> HIDE DEF fs, gs
<1>5. fs[S] = gs[S]
  <2>1. S \subseteq S
    OBVIOUS
  <2> QED BY <1>3, <2>1, AddsAgree
<1> QED BY <1>4, <1>5

LEMMA SumIsInt ==
  ASSUME NEW f, NEW S, IsFiniteSet(S), \A x \in S : f[x] \in Int
  PROVE  SumFunctionOnSet(f, S) \in Int
<1> DEFINE Family == {T \in SUBSET S : SumFunctionOnSet(f, T) \notin Int}
<1> SUFFICES ASSUME Family # {} PROVE FALSE
  OBVIOUS
<1>1. PICK T \in Family : \A U \in Family : U \subseteq T => U = T
  <2>1. Family \in SUBSET SUBSET S
    OBVIOUS
  <2> HIDE DEF Family
  <2> QED BY <2>1, SmallestSubset
<1>2. T \in SUBSET S /\ IsFiniteSet(T) /\ SumFunctionOnSet(f, T) \notin Int
  BY <1>1, FS_Subset
<1>3. T # {}
  BY <1>2, SumOfEmpty
<1>4. Some(T) \in T /\ T \ {Some(T)} \in SUBSET S /\ T \ {Some(T)} # T
  BY <1>2, <1>3, SomeIsMember
<1>5. SumFunctionOnSet(f, T \ {Some(T)}) \in Int
  BY <1>1, <1>4
<1>6. SumFunctionOnSet(f, T) = f[Some(T)] + SumFunctionOnSet(f, T \ {Some(T)})
  BY <1>2, <1>3, SumUnfolds
<1> QED BY <1>2, <1>4, <1>5, <1>6

(* Any member may be taken out first. *)
LEMMA SumWithout ==
  ASSUME NEW f, NEW S, IsFiniteSet(S), \A x \in S : f[x] \in Int, NEW e \in S
  PROVE  SumFunctionOnSet(f, S) = f[e] + SumFunctionOnSet(f, S \ {e})
<1> DEFINE sum(T) == SumFunctionOnSet(f, T)
           Family == {T \in SUBSET S : \E x \in T : sum(T) # f[x] + sum(T \ {x})}
<1> SUFFICES ASSUME Family # {} PROVE FALSE
  OBVIOUS
<1>1. PICK T \in Family : \A U \in Family : U \subseteq T => U = T
  <2>1. Family \in SUBSET SUBSET S
    OBVIOUS
  <2> HIDE DEF Family
  <2> QED BY <2>1, SmallestSubset
<1>2. T \in SUBSET S /\ IsFiniteSet(T) /\ T # {}
  BY <1>1, FS_Subset
<1>3. PICK x \in T : sum(T) # f[x] + sum(T \ {x})
  BY <1>1
<1> DEFINE c == Some(T)
           rest == T \ {c}
<1>4. c \in T /\ rest \in SUBSET S /\ IsFiniteSet(rest)
  BY <1>2, SomeIsMember, FS_RemoveElement
<1>5. sum(T) = f[c] + sum(rest)
  BY <1>2, SumUnfolds
<1>6. c # x
  BY <1>3, <1>5
<1>7. x \in rest /\ rest # T /\ rest \subseteq T
  BY <1>3, <1>4, <1>6
<1>8. sum(rest) = f[x] + sum(rest \ {x})
  BY <1>1, <1>4, <1>7
<1>9. c \in T \ {x} /\ T \ {x} # T /\ T \ {x} \in SUBSET S
  BY <1>2, <1>3, <1>4, <1>6
<1>10. sum(T \ {x}) = f[c] + sum((T \ {x}) \ {c})
  BY <1>1, <1>9
<1>11. (T \ {x}) \ {c} = rest \ {x}
  OBVIOUS
<1>12. f[c] \in Int /\ f[x] \in Int /\ sum(rest \ {x}) \in Int
  <2>1. IsFiniteSet(rest \ {x}) /\ \A y \in rest \ {x} : f[y] \in Int
    BY <1>4, FS_RemoveElement
  <2> QED BY <1>2, <1>3, <1>4, <2>1, SumIsInt
<1>13. sum(T) = f[c] + (f[x] + sum(rest \ {x})) /\ sum(T \ {x}) = f[c] + sum(rest \ {x})
  BY <1>5, <1>8, <1>10, <1>11, Zenon
<1> HIDE DEF sum, rest, c, Family
<1> QED BY <1>3, <1>12, <1>13

LEMMA SumWith ==
  ASSUME NEW f, NEW S, IsFiniteSet(S), NEW e, e \notin S, f[e] \in Int,
         \A x \in S : f[x] \in Int
  PROVE  SumFunctionOnSet(f, S \cup {e}) = SumFunctionOnSet(f, S) + f[e]
<1> DEFINE T == S \cup {e}
<1>1. IsFiniteSet(T) /\ e \in T /\ (\A x \in T : f[x] \in Int) /\ T \ {e} = S
  BY FS_AddElement
<1> HIDE DEF T
<1>2. SumFunctionOnSet(f, T) = f[e] + SumFunctionOnSet(f, T \ {e})
  BY <1>1, SumWithout
<1>3. SumFunctionOnSet(f, S) \in Int
  BY SumIsInt
<1>4. SumFunctionOnSet(f, T) = f[e] + SumFunctionOnSet(f, S)
  BY <1>1, <1>2, Zenon
<1>5. SumFunctionOnSet(f, T) = SumFunctionOnSet(f, S) + f[e]
  BY <1>3, <1>4
<1> QED BY <1>5 DEF T

(* The summand of one member changes. *)
LEMMA SumOfChanged ==
  ASSUME NEW f, NEW g, NEW S, IsFiniteSet(S), NEW e \in S,
         \A x \in S : f[x] \in Int /\ g[x] \in Int, \A x \in S \ {e} : g[x] = f[x]
  PROVE  SumFunctionOnSet(g, S) = SumFunctionOnSet(f, S) + (g[e] - f[e])
<1> DEFINE rest == S \ {e}
<1>1. IsFiniteSet(rest)
  BY FS_RemoveElement
<1>2. SumFunctionOnSet(f, S) = f[e] + SumFunctionOnSet(f, rest)
  BY SumWithout
<1>3. SumFunctionOnSet(g, S) = g[e] + SumFunctionOnSet(g, rest)
  BY SumWithout
<1>4. \A x \in rest : f[x] \in Int /\ f[x] = g[x]
  OBVIOUS
<1> HIDE DEF rest
<1>5. SumFunctionOnSet(f, rest) = SumFunctionOnSet(g, rest)
  BY <1>1, <1>4, SumOfSame
<1>6. SumFunctionOnSet(f, rest) \in Int
  BY <1>1, <1>4, SumIsInt
<1> QED BY <1>2, <1>3, <1>5, <1>6

(* Larger summands make no smaller sum. *)
LEMMA SumIsMonotonic ==
  ASSUME NEW f, NEW g, NEW S, IsFiniteSet(S),
         \A x \in S : f[x] \in Int /\ g[x] \in Int /\ f[x] <= g[x]
  PROVE  SumFunctionOnSet(f, S) <= SumFunctionOnSet(g, S)
<1> DEFINE Family == {T \in SUBSET S : ~(SumFunctionOnSet(f, T) <= SumFunctionOnSet(g, T))}
<1> SUFFICES ASSUME Family # {} PROVE FALSE
  OBVIOUS
<1>1. PICK T \in Family : \A U \in Family : U \subseteq T => U = T
  <2>1. Family \in SUBSET SUBSET S
    OBVIOUS
  <2> HIDE DEF Family
  <2> QED BY <2>1, SmallestSubset
<1>2. /\ T \in SUBSET S /\ IsFiniteSet(T)
      /\ ~(SumFunctionOnSet(f, T) <= SumFunctionOnSet(g, T))
  BY <1>1, FS_Subset
<1>3. T # {}
  BY <1>2, SumOfEmpty
<1> DEFINE rest == T \ {Some(T)}
<1>4. Some(T) \in T /\ rest \in SUBSET S /\ rest # T /\ rest \subseteq T /\ IsFiniteSet(rest)
  BY <1>2, <1>3, SomeIsMember, FS_RemoveElement
<1>5. SumFunctionOnSet(f, rest) <= SumFunctionOnSet(g, rest)
  BY <1>1, <1>4
<1>6. SumFunctionOnSet(f, T) = f[Some(T)] + SumFunctionOnSet(f, rest)
  BY <1>2, <1>3, SumUnfolds
<1>7. SumFunctionOnSet(g, T) = g[Some(T)] + SumFunctionOnSet(g, rest)
  BY <1>2, <1>3, SumUnfolds
<1>8. SumFunctionOnSet(f, rest) \in Int /\ SumFunctionOnSet(g, rest) \in Int
  <2>1. \A x \in rest : f[x] \in Int /\ g[x] \in Int
    BY <1>4
  <2> HIDE DEF rest
  <2> QED BY <1>4, <2>1, SumIsInt
<1>9. f[Some(T)] \in Int /\ g[Some(T)] \in Int /\ f[Some(T)] <= g[Some(T)]
  BY <1>2, <1>4
<1> HIDE DEF rest, Family
<1> QED BY <1>2, <1>5, <1>6, <1>7, <1>8, <1>9

-----------------------------------------------------------------------------
(* How a sum moves when the set and the summands change together. *)

LEMMA SumGains ==
  ASSUME NEW f, NEW g, NEW S, IsFiniteSet(S), NEW e, e \notin S, g[e] \in Int,
         \A x \in S : f[x] \in Int /\ g[x] = f[x]
  PROVE  SumFunctionOnSet(g, S \cup {e}) = SumFunctionOnSet(f, S) + g[e]
<1>1. SumFunctionOnSet(g, S \cup {e}) = SumFunctionOnSet(g, S) + g[e]
  BY SumWith
<1>2. SumFunctionOnSet(g, S) = SumFunctionOnSet(f, S)
  BY SumOfSame
<1> QED BY <1>1, <1>2

LEMMA SumLoses ==
  ASSUME NEW f, NEW g, NEW S, IsFiniteSet(S), NEW e \in S,
         \A x \in S : f[x] \in Int, \A x \in S \ {e} : g[x] = f[x]
  PROVE  SumFunctionOnSet(g, S \ {e}) = SumFunctionOnSet(f, S) - f[e]
<1> DEFINE rest == S \ {e}
<1>1. SumFunctionOnSet(f, S) = f[e] + SumFunctionOnSet(f, rest)
  BY SumWithout
<1>2. IsFiniteSet(rest) /\ (\A x \in rest : f[x] \in Int /\ f[x] = g[x]) /\ f[e] \in Int
  BY FS_RemoveElement
<1> HIDE DEF rest
<1>3. SumFunctionOnSet(f, rest) = SumFunctionOnSet(g, rest)
  BY <1>2, SumOfSame
<1>4. SumFunctionOnSet(f, rest) \in Int
  BY <1>2, SumIsInt
<1>5. SumFunctionOnSet(g, rest) = SumFunctionOnSet(f, S) - f[e]
  BY <1>1, <1>2, <1>3, <1>4
<1> QED BY <1>5 DEF rest

(* No member of a set of natural numbers is larger than their sum.          *)
LEMMA SumIsNat ==
  ASSUME NEW f, NEW S, IsFiniteSet(S), \A x \in S : f[x] \in Nat
  PROVE  /\ SumFunctionOnSet(f, S) \in Nat
         /\ \A e \in S : f[e] <= SumFunctionOnSet(f, S)
<1>1. ASSUME NEW T, IsFiniteSet(T), T \subseteq S PROVE SumFunctionOnSet(f, T) \in Nat
  <2> DEFINE Family == {U \in SUBSET T : SumFunctionOnSet(f, U) \notin Nat}
  <2> SUFFICES ASSUME Family # {} PROVE FALSE
    OBVIOUS
  <2>1. PICK U \in Family : \A V \in Family : V \subseteq U => V = U
    <3>1. Family \in SUBSET SUBSET T
      OBVIOUS
    <3> HIDE DEF Family
    <3> QED BY <1>1, <3>1, SmallestSubset
  <2>2. U \in SUBSET T /\ IsFiniteSet(U) /\ SumFunctionOnSet(f, U) \notin Nat
    BY <1>1, <2>1, FS_Subset
  <2>3. U # {}
    BY <2>2, SumOfEmpty
  <2>4. Some(U) \in U /\ U \ {Some(U)} \in SUBSET T /\ U \ {Some(U)} # U
    BY <2>2, <2>3, SomeIsMember
  <2>5. SumFunctionOnSet(f, U \ {Some(U)}) \in Nat
    BY <2>1, <2>4
  <2>6. SumFunctionOnSet(f, U) = f[Some(U)] + SumFunctionOnSet(f, U \ {Some(U)})
    BY <2>2, <2>3, SumUnfolds
  <2>7. f[Some(U)] \in Nat
    BY <1>1, <2>2, <2>4
  <2> QED BY <2>2, <2>5, <2>6, <2>7
<1>2. ASSUME NEW e \in S PROVE f[e] <= SumFunctionOnSet(f, S)
  <2> DEFINE rest == S \ {e}
  <2>1. IsFiniteSet(rest) /\ rest \subseteq S /\ \A x \in S : f[x] \in Int
    BY FS_RemoveElement
  <2>2. SumFunctionOnSet(f, S) = f[e] + SumFunctionOnSet(f, rest)
    BY <2>1, SumWithout
  <2>3. SumFunctionOnSet(f, rest) \in Nat
    <3> HIDE DEF rest
    <3> QED BY <1>1, <2>1
  <2> HIDE DEF rest
  <2>4. f[e] \in Nat
    OBVIOUS
  <2> QED BY <2>2, <2>3, <2>4
<1> QED BY <1>1, <1>2

LEMMA SumOfZeros ==
  ASSUME NEW f, NEW S, IsFiniteSet(S), \A x \in S : f[x] = 0
  PROVE  SumFunctionOnSet(f, S) = 0
<1> DEFINE Family == {T \in SUBSET S : SumFunctionOnSet(f, T) # 0}
<1> SUFFICES ASSUME Family # {} PROVE FALSE
  OBVIOUS
<1>1. PICK T \in Family : \A U \in Family : U \subseteq T => U = T
  <2>1. Family \in SUBSET SUBSET S
    OBVIOUS
  <2> HIDE DEF Family
  <2> QED BY <2>1, SmallestSubset
<1>2. T \in SUBSET S /\ IsFiniteSet(T) /\ SumFunctionOnSet(f, T) # 0
  BY <1>1, FS_Subset
<1>3. T # {}
  BY <1>2, SumOfEmpty
<1>4. Some(T) \in T /\ T \ {Some(T)} \in SUBSET S /\ T \ {Some(T)} # T
  BY <1>2, <1>3, SomeIsMember
<1>5. SumFunctionOnSet(f, T \ {Some(T)}) = 0
  BY <1>1, <1>4
<1>6. SumFunctionOnSet(f, T) = f[Some(T)] + SumFunctionOnSet(f, T \ {Some(T)})
  BY <1>2, <1>3, SumUnfolds
<1>7. f[Some(T)] = 0
  BY <1>2, <1>4
<1> QED BY <1>2, <1>5, <1>6, <1>7

(* A sum over two sets that are apart. *)
LEMMA SumOfUnion ==
  ASSUME NEW f, NEW S, NEW T, IsFiniteSet(S), IsFiniteSet(T), S \cap T = {},
         \A x \in S \cup T : f[x] \in Int
  PROVE  SumFunctionOnSet(f, S \cup T) = SumFunctionOnSet(f, S) + SumFunctionOnSet(f, T)
<1> DEFINE sum(U) == SumFunctionOnSet(f, U)
           Family == {U \in SUBSET T : sum(S \cup U) # sum(S) + sum(U)}
<1> SUFFICES ASSUME Family # {} PROVE FALSE
  OBVIOUS
<1>1. PICK U \in Family : \A V \in Family : V \subseteq U => V = U
  <2>1. Family \in SUBSET SUBSET T
    OBVIOUS
  <2> HIDE DEF Family
  <2> QED BY <2>1, SmallestSubset
<1>2. U \in SUBSET T /\ IsFiniteSet(U) /\ sum(S \cup U) # sum(S) + sum(U)
  BY <1>1, FS_Subset
<1>3. sum(S) \in Int
  BY SumIsInt
<1>4. U # {}
  <2> SUFFICES ASSUME U = {} PROVE FALSE
    OBVIOUS
  <2>1. S \cup U = S
    OBVIOUS
  <2>2. SumFunctionOnSet(f, U) = 0
    BY SumOfEmpty
  <2>3. sum(S) + 0 = sum(S)
    BY <1>3
  <2> QED BY <1>2, <2>1, <2>2, <2>3
<1> DEFINE x == Some(U)
           rest == U \ {x}
<1>5. x \in U /\ rest \in SUBSET T /\ rest # U /\ rest \subseteq U /\ f[x] \in Int
  BY <1>2, <1>4, SomeIsMember
<1>6. sum(S \cup rest) = sum(S) + sum(rest)
  BY <1>1, <1>5
<1>7. sum(U) = f[x] + sum(rest)
  BY <1>2, <1>4, SumUnfolds
<1>8. IsFiniteSet(S \cup rest) /\ x \notin S \cup rest /\ S \cup U = (S \cup rest) \cup {x}
  <2>1. S \cup U = (S \cup rest) \cup {x} /\ x \notin S \cup rest
    BY <1>2, <1>5
  <2>2. IsFiniteSet(rest)
    BY <1>2, <1>5, FS_Subset
  <2>3. IsFiniteSet(S \cup rest)
    <3> HIDE DEF rest, sum, Family
    <3> QED BY <2>2, FS_Union
  <2> QED BY <2>1, <2>3
<1> HIDE DEF x, Family
<1>9. sum((S \cup rest) \cup {x}) = sum(S \cup rest) + f[x]
  <2>1. \A y \in S \cup rest : f[y] \in Int
    BY <1>5
  <2> HIDE DEF rest
  <2> QED BY <1>5, <1>8, <2>1, SumWith
<1>10. sum(rest) \in Int
  <2>1. IsFiniteSet(rest) /\ \A y \in rest : f[y] \in Int
    BY <1>5, FS_Subset
  <2> HIDE DEF rest
  <2> QED BY <2>1, SumIsInt
<1>11. sum(S \cup U) = sum(S) + sum(U)
  <2>1. sum(S \cup U) = sum(S) + sum(rest) + f[x]
    BY <1>6, <1>8, <1>9
  <2> HIDE DEF rest
  <2> QED BY <1>3, <1>5, <1>7, <1>10, <2>1
<1> QED BY <1>2, <1>11

(* A sum told over another set, with the same summands. *)
LEMMA SumOfMoved ==
  ASSUME NEW S, NEW T, IsFiniteSet(S), IsFiniteSet(T), NEW f, NEW g, NEW h,
         \A x \in S : h[x] \in T /\ f[x] = g[h[x]],
         \A x, y \in S : h[x] = h[y] => x = y,
         \A z \in T : g[z] \in Int /\ \E x \in S : h[x] = z
  PROVE  SumFunctionOnSet(f, S) = SumFunctionOnSet(g, T)
<1> DEFINE img(U) == {h[x] : x \in U}
           Family == {U \in SUBSET S : SumFunctionOnSet(f, U) # SumFunctionOnSet(g, img(U))}
<1>1. img(S) = T
  OBVIOUS
<1> SUFFICES ASSUME Family # {} PROVE FALSE
  BY <1>1
<1>2. PICK U \in Family : \A V \in Family : V \subseteq U => V = U
  <2>1. Family \in SUBSET SUBSET S
    OBVIOUS
  <2> HIDE DEF Family
  <2> QED BY <2>1, SmallestSubset
<1>3. U \in SUBSET S /\ IsFiniteSet(U) /\ SumFunctionOnSet(f, U) # SumFunctionOnSet(g, img(U))
  BY <1>2, FS_Subset
<1>4. U # {}
  <2>1. img({}) = {}
    OBVIOUS
  <2> QED BY <1>3, <2>1, SumOfEmpty
<1> DEFINE x == Some(U)
           rest == U \ {x}
<1>5. x \in U /\ rest \in SUBSET S /\ rest # U /\ rest \subseteq U
  BY <1>3, <1>4, SomeIsMember
<1>6. SumFunctionOnSet(f, rest) = SumFunctionOnSet(g, img(rest))
  BY <1>2, <1>5
<1>7. SumFunctionOnSet(f, U) = f[x] + SumFunctionOnSet(f, rest)
  BY <1>3, <1>4, SumUnfolds
<1>8. img(U) = img(rest) \cup {h[x]} /\ h[x] \notin img(rest) /\ img(rest) \subseteq T
  BY <1>3, <1>5
<1>9. PICK V : V = img(rest)
  OBVIOUS
<1>10. IsFiniteSet(V) /\ h[x] \notin V /\ g[h[x]] \in Int /\ (\A z \in V : g[z] \in Int)
       /\ img(U) = V \cup {h[x]} /\ f[x] = g[h[x]]
  <2>1. V \subseteq T /\ h[x] \in T /\ f[x] = g[h[x]]
    BY <1>3, <1>5, <1>8, <1>9
  <2>2. IsFiniteSet(V)
    BY <2>1, FS_Subset
  <2>3. g[h[x]] \in Int /\ \A z \in V : g[z] \in Int
    BY <2>1
  <2>4. img(U) = V \cup {h[x]} /\ h[x] \notin V
    BY <1>8, <1>9
  <2> QED BY <2>1, <2>2, <2>3, <2>4
<1>11. SumFunctionOnSet(g, V \cup {h[x]}) = SumFunctionOnSet(g, V) + g[h[x]]
  BY <1>10, SumWith
<1>12. SumFunctionOnSet(g, V) \in Int
  BY <1>10, SumIsInt
<1>13. SumFunctionOnSet(f, U) = g[h[x]] + SumFunctionOnSet(g, V)
  BY <1>6, <1>7, <1>9, <1>10
<1>14. SumFunctionOnSet(g, img(U)) = SumFunctionOnSet(g, V) + g[h[x]]
  BY <1>10, <1>11
<1> HIDE DEF img, x, rest, Family
<1> QED BY <1>3, <1>10, <1>12, <1>13, <1>14
=============================================================================
