-------------------------------- MODULE Sums --------------------------------
(***************************************************************************)
(* Sums over a finite set: what SumFunctionOnSet of the community modules  *)
(* computes, for every finite set and every function.  It is defined by    *)
(* recursion on subsets, an element at a time in the order of CHOOSE; the  *)
(* lemmas show that the recursion has a solution and that the order does   *)
(* not matter.                                                             *)
(*                                                                         *)
(* Induction over the subsets of a finite set is by a smallest             *)
(* counterexample: the strict subset ordering is well founded.             *)
(***************************************************************************)
EXTENDS FiniteSetsExt, FiniteSetTheorems, TLAPS

Pick(s) == CHOOSE x \in s : TRUE

\* g is the recursion's solution on the subsets of S
Solves(g, f, S) ==
    g = [s \in SUBSET S |-> IF s = {} THEN 0 ELSE f[Pick(s)] + g[s \ {Pick(s)}]]

\* A set of subsets of a finite set has a smallest member, if any.
LEMMA SmallestSubset ==
  ASSUME NEW S, IsFiniteSet(S), NEW T \in SUBSET SUBSET S, T # {}
  PROVE  \E u \in T : \A v \in T : v \subseteq u => v = u
<1>1. FiniteSubsetsOf(S) = SUBSET S BY FS_FiniteSubsetsOfFinite
<1>2. IsWellFoundedOn(StrictSubsetOrdering(S), SUBSET S)
  BY <1>1, FS_StrictSubsetOrderingWellFounded
<1>3. \E u \in T : \A v \in T : ~(<<v, u>> \in StrictSubsetOrdering(S))
  BY <1>2, WFMin
<1>4. QED BY <1>3 DEF StrictSubsetOrdering

\* The element that is chosen next is one of the set.
LEMMA PickIsMember == ASSUME NEW s, s # {} PROVE Pick(s) \in s
  BY DEF Pick

\* What the recursion gives for one set.
LEMMA SolvesAt ==
  ASSUME NEW g, NEW f, NEW S, Solves(g, f, S), NEW s \in SUBSET S
  PROVE  g[s] = IF s = {} THEN 0 ELSE f[Pick(s)] + g[s \ {Pick(s)}]
  BY DEF Solves

\* Two solutions agree where both are defined.
LEMMA OneSolution ==
  ASSUME NEW f, NEW S, IsFiniteSet(S), NEW T \in SUBSET S, NEW g, NEW h,
         Solves(g, f, S), Solves(h, f, T)
  PROVE  \A s \in SUBSET T : g[s] = h[s]
<1> DEFINE bad == {s \in SUBSET T : g[s] # h[s]}
<1> SUFFICES ASSUME bad # {} PROVE FALSE OBVIOUS
<1>1. IsFiniteSet(T) BY FS_Subset
<1>2. PICK u \in bad : \A v \in bad : v \subseteq u => v = u
  <2>1. bad \in SUBSET SUBSET T OBVIOUS
  <2> HIDE DEF bad
  <2>2. QED BY <1>1, <2>1, SmallestSubset
<1>3. u \in SUBSET T /\ u \in SUBSET S /\ g[u] # h[u] BY <1>2
<1>4. u # {} BY <1>3, SolvesAt
<1> DEFINE rest == u \ {Pick(u)}
<1>5. rest \in SUBSET T /\ rest # u /\ rest \subseteq u BY <1>3, <1>4, PickIsMember
<1>6. rest \notin bad BY <1>2, <1>5
<1>7. g[rest] = h[rest] BY <1>5, <1>6
<1>8. QED BY <1>3, <1>4, <1>7, SolvesAt

\* The recursion has a solution on every finite set.
LEMMA SomeSolution ==
  ASSUME NEW f, NEW S, IsFiniteSet(S)
  PROVE  \E g : Solves(g, f, S)
<1> DEFINE bad == {u \in SUBSET S : ~ \E g : Solves(g, f, u)}
<1> SUFFICES ASSUME bad # {} PROVE FALSE OBVIOUS
<1>1. PICK u \in bad : \A v \in bad : v \subseteq u => v = u
  <2>1. bad \in SUBSET SUBSET S OBVIOUS
  <2> HIDE DEF bad
  <2>2. QED BY <2>1, SmallestSubset
<1>2. u \in SUBSET S /\ IsFiniteSet(u) /\ ~ \E g : Solves(g, f, u) BY <1>1, FS_Subset
<1> DEFINE G(v) == CHOOSE g : Solves(g, f, v)
<1>3. ASSUME NEW v \in SUBSET u, v # u PROVE Solves(G(v), f, v) /\ IsFiniteSet(v)
  <2>1. v \notin bad /\ v \in SUBSET S BY <1>1, <1>3
  <2>2. \E g : Solves(g, f, v) BY <2>1
  <2>3. Solves(G(v), f, v) BY <2>2
  <2>4. QED BY <1>2, <2>3, FS_Subset
<1> DEFINE val == [s \in SUBSET u |-> IF s = {} THEN 0
                                      ELSE f[Pick(s)] + G(s \ {Pick(s)})[s \ {Pick(s)}]]
<1> HIDE DEF G, bad
<1>4. ASSUME NEW t \in SUBSET u, t # u PROVE val[t] = G(t)[t]
  <2>0. Solves(G(t), f, t) /\ IsFiniteSet(t) BY <1>3, <1>4
  <2>1. CASE t = {} BY <2>0, <2>1, SolvesAt
  <2>2. CASE t # {}
    <3> DEFINE r == t \ {Pick(t)}
    <3>1. r \in SUBSET t /\ r \in SUBSET u /\ r # u BY <1>4, <2>2, PickIsMember
    <3>2. Solves(G(r), f, r) BY <1>3, <3>1
    <3>3. G(t)[r] = G(r)[r] BY <2>0, <3>1, <3>2, OneSolution
    <3>4. G(t)[t] = f[Pick(t)] + G(t)[r] BY <2>0, <2>2, SolvesAt
    <3>5. val[t] = f[Pick(t)] + G(r)[r] BY <2>2
    <3>6. QED BY <3>3, <3>4, <3>5
  <2>3. QED BY <2>1, <2>2
<1>5. ASSUME NEW s \in SUBSET u, s # {}
      PROVE  f[Pick(s)] + G(s \ {Pick(s)})[s \ {Pick(s)}] = f[Pick(s)] + val[s \ {Pick(s)}]
  <2> DEFINE t == s \ {Pick(s)}
  <2>1. t \in SUBSET u /\ t # u BY <1>5, PickIsMember
  <2>2. val[t] = G(t)[t] BY <1>4, <2>1
  <2>3. QED BY <2>2
<1>6. Solves(val, f, u)
  <2>1. val = [s \in SUBSET u |-> IF s = {} THEN 0 ELSE f[Pick(s)] + val[s \ {Pick(s)}]]
    BY <1>5
  <2> HIDE DEF val
  <2>2. QED BY <2>1 DEF Solves
<1>7. QED BY <1>2, <1>6

-----------------------------------------------------------------------------
(* What SumFunctionOnSet computes. *)

\* It is the solution's value for the whole set.
LEMMA SumIsSolution ==
  ASSUME NEW f, NEW S
  PROVE  SumFunctionOnSet(f, S) = (CHOOSE g : Solves(g, f, S))[S]
  BY DEF SumFunctionOnSet, FoldFunctionOnSet, MapThenFoldSet, Solves, Pick

\* Any solution gives it.
LEMMA SumOf ==
  ASSUME NEW f, NEW S, IsFiniteSet(S), NEW T \in SUBSET S, NEW g, Solves(g, f, S)
  PROVE  SumFunctionOnSet(f, T) = g[T]
<1> DEFINE h == CHOOSE k : Solves(k, f, T)
<1>1. IsFiniteSet(T) BY FS_Subset
<1>2. \E k : Solves(k, f, T) BY <1>1, SomeSolution
<1>3. Solves(h, f, T) BY <1>2
<1>4. SumFunctionOnSet(f, T) = h[T] BY SumIsSolution
<1> HIDE DEF h
<1>5. QED BY <1>3, <1>4, OneSolution

\* Nothing adds up to nothing.
LEMMA SumEmpty == ASSUME NEW f PROVE SumFunctionOnSet(f, {}) = 0
<1>1. IsFiniteSet({}) BY FS_EmptySet
<1>2. PICK g : Solves(g, f, {}) BY <1>1, SomeSolution
<1>3. QED BY <1>1, <1>2, SumOf, SolvesAt

\* One element is taken at a time.
LEMMA SumStep ==
  ASSUME NEW f, NEW S, IsFiniteSet(S), S # {}
  PROVE  SumFunctionOnSet(f, S) = f[Pick(S)] + SumFunctionOnSet(f, S \ {Pick(S)})
<1>1. PICK g : Solves(g, f, S) BY SomeSolution
<1>2. SumFunctionOnSet(f, S) = g[S] BY <1>1, SumOf
<1>3. SumFunctionOnSet(f, S \ {Pick(S)}) = g[S \ {Pick(S)}] BY <1>1, SumOf
<1>4. g[S] = f[Pick(S)] + g[S \ {Pick(S)}] BY <1>1, SolvesAt
<1>5. QED BY <1>2, <1>3, <1>4

\* Integers add up to an integer.
LEMMA SumInt ==
  ASSUME NEW f, NEW S, IsFiniteSet(S), \A x \in S : f[x] \in Int
  PROVE  SumFunctionOnSet(f, S) \in Int
<1> DEFINE bad == {u \in SUBSET S : SumFunctionOnSet(f, u) \notin Int}
<1> SUFFICES ASSUME bad # {} PROVE FALSE OBVIOUS
<1>1. PICK u \in bad : \A v \in bad : v \subseteq u => v = u
  <2>1. bad \in SUBSET SUBSET S OBVIOUS
  <2> HIDE DEF bad
  <2>2. QED BY <2>1, SmallestSubset
<1>2. IsFiniteSet(u) /\ u \in SUBSET S BY <1>1, FS_Subset
<1>3. u # {}
  <2>1. SumFunctionOnSet(f, {}) = 0 BY SumEmpty
  <2>2. SumFunctionOnSet(f, u) \notin Int BY <1>1
  <2>3. QED BY <2>1, <2>2
<1> DEFINE rest == u \ {Pick(u)}
<1>4. rest \in SUBSET S /\ rest # u /\ rest \subseteq u /\ Pick(u) \in S BY <1>2, <1>3, PickIsMember
<1>5. SumFunctionOnSet(f, rest) \in Int BY <1>1, <1>4
<1>6. f[Pick(u)] \in Int BY <1>4
<1>7. SumFunctionOnSet(f, u) = f[Pick(u)] + SumFunctionOnSet(f, rest) BY <1>2, <1>3, SumStep
<1> HIDE DEF rest
<1>8. SumFunctionOnSet(f, u) \in Int BY <1>5, <1>6, <1>7
<1>9. QED BY <1>1, <1>8

\* Any element may be taken first: the order does not matter.
LEMMA SumTake ==
  ASSUME NEW f, NEW S, IsFiniteSet(S), \A x \in S : f[x] \in Int, NEW e \in S
  PROVE  SumFunctionOnSet(f, S) = f[e] + SumFunctionOnSet(f, S \ {e})
<1> DEFINE Sm(u) == SumFunctionOnSet(f, u)
           bad == {u \in SUBSET S : \E x \in u : Sm(u) # f[x] + Sm(u \ {x})}
<1> SUFFICES ASSUME bad # {} PROVE FALSE OBVIOUS
<1>1. PICK u \in bad : \A v \in bad : v \subseteq u => v = u
  <2>1. bad \in SUBSET SUBSET S OBVIOUS
  <2> HIDE DEF bad
  <2>2. QED BY <2>1, SmallestSubset
<1>2. IsFiniteSet(u) /\ u \in SUBSET S BY <1>1, FS_Subset
<1>3. PICK x \in u : Sm(u) # f[x] + Sm(u \ {x}) BY <1>1
<1> DEFINE p == Pick(u)
<1>4. p \in u /\ Sm(u) = f[p] + Sm(u \ {p}) BY <1>2, <1>3, SumStep, PickIsMember
<1> HIDE DEF p
<1>5. p # x BY <1>3, <1>4
<1>6. u \ {p} \in SUBSET S /\ u \ {x} \in SUBSET S /\ u \ {p} # u /\ u \ {x} # u
      /\ x \in u \ {p} /\ p \in u \ {x}
  BY <1>2, <1>4, <1>5
<1>7. u \ {p} \notin bad /\ u \ {x} \notin bad BY <1>1, <1>6
<1>8. Sm(u \ {p}) = f[x] + Sm((u \ {p}) \ {x}) BY <1>6, <1>7
<1>9. Sm(u \ {x}) = f[p] + Sm((u \ {x}) \ {p}) BY <1>6, <1>7
<1>10. (u \ {p}) \ {x} = (u \ {x}) \ {p} OBVIOUS
<1>11. f[x] \in Int /\ f[p] \in Int BY <1>2, <1>4
<1>12. Sm((u \ {p}) \ {x}) \in Int
  <2>1. IsFiniteSet((u \ {p}) \ {x}) BY <1>2, FS_Subset
  <2>2. \A y \in (u \ {p}) \ {x} : f[y] \in Int BY <1>2
  <2>3. QED BY <2>1, <2>2, SumInt
<1> DEFINE rest == Sm((u \ {p}) \ {x})
<1>13. rest \in Int /\ Sm(u \ {p}) = f[x] + rest /\ Sm(u \ {x}) = f[p] + rest
  BY <1>8, <1>9, <1>10, <1>12
<1> HIDE DEF Sm, rest
<1>14. f[p] + (f[x] + rest) = f[x] + (f[p] + rest) BY <1>11, <1>13
<1>15. QED BY <1>3, <1>4, <1>13, <1>14

\* Functions that agree on a set have the same sum over it.
LEMMA SumSame ==
  ASSUME NEW f, NEW h, NEW S, IsFiniteSet(S), \A x \in S : f[x] = h[x]
  PROVE  SumFunctionOnSet(f, S) = SumFunctionOnSet(h, S)
<1> DEFINE bad == {u \in SUBSET S : SumFunctionOnSet(f, u) # SumFunctionOnSet(h, u)}
<1> SUFFICES ASSUME bad # {} PROVE FALSE OBVIOUS
<1>1. PICK u \in bad : \A v \in bad : v \subseteq u => v = u
  <2>1. bad \in SUBSET SUBSET S OBVIOUS
  <2> HIDE DEF bad
  <2>2. QED BY <2>1, SmallestSubset
<1>2. IsFiniteSet(u) /\ u \in SUBSET S BY <1>1, FS_Subset
<1>3. u # {} BY <1>1, SumEmpty
<1> DEFINE rest == u \ {Pick(u)}
<1>4. rest \in SUBSET S /\ rest # u /\ rest \subseteq u /\ Pick(u) \in S BY <1>2, <1>3, PickIsMember
<1>5. SumFunctionOnSet(f, rest) = SumFunctionOnSet(h, rest) BY <1>1, <1>4
<1>6. f[Pick(u)] = h[Pick(u)] BY <1>4
<1>7. SumFunctionOnSet(f, u) = f[Pick(u)] + SumFunctionOnSet(f, rest) BY <1>2, <1>3, SumStep
<1>8. SumFunctionOnSet(h, u) = h[Pick(u)] + SumFunctionOnSet(h, rest) BY <1>2, <1>3, SumStep
<1> HIDE DEF rest
<1>9. QED BY <1>1, <1>5, <1>6, <1>7, <1>8

\* Larger terms have a larger sum.
LEMMA SumMonotone ==
  ASSUME NEW f, NEW h, NEW S, IsFiniteSet(S),
         \A x \in S : f[x] \in Int /\ h[x] \in Int /\ f[x] <= h[x]
  PROVE  SumFunctionOnSet(f, S) <= SumFunctionOnSet(h, S)
<1> DEFINE bad == {u \in SUBSET S : ~(SumFunctionOnSet(f, u) <= SumFunctionOnSet(h, u))}
<1> SUFFICES ASSUME bad # {} PROVE FALSE OBVIOUS
<1>1. PICK u \in bad : \A v \in bad : v \subseteq u => v = u
  <2>1. bad \in SUBSET SUBSET S OBVIOUS
  <2> HIDE DEF bad
  <2>2. QED BY <2>1, SmallestSubset
<1>2. IsFiniteSet(u) /\ u \in SUBSET S BY <1>1, FS_Subset
<1>3. u # {}
  <2>1. SumFunctionOnSet(f, {}) = 0 /\ SumFunctionOnSet(h, {}) = 0 BY SumEmpty
  <2>2. ~(SumFunctionOnSet(f, u) <= SumFunctionOnSet(h, u)) BY <1>1
  <2>3. QED BY <2>1, <2>2
<1> DEFINE rest == u \ {Pick(u)}
<1>4. rest \in SUBSET S /\ rest # u /\ rest \subseteq u /\ Pick(u) \in S BY <1>2, <1>3, PickIsMember
<1>5. SumFunctionOnSet(f, rest) <= SumFunctionOnSet(h, rest) BY <1>1, <1>4
<1>6. f[Pick(u)] \in Int /\ h[Pick(u)] \in Int /\ f[Pick(u)] <= h[Pick(u)] BY <1>4
<1>7. SumFunctionOnSet(f, u) = f[Pick(u)] + SumFunctionOnSet(f, rest) BY <1>2, <1>3, SumStep
<1>8. SumFunctionOnSet(h, u) = h[Pick(u)] + SumFunctionOnSet(h, rest) BY <1>2, <1>3, SumStep
<1>9. IsFiniteSet(rest) BY <1>2, FS_Subset
<1>10. SumFunctionOnSet(f, rest) \in Int /\ SumFunctionOnSet(h, rest) \in Int BY <1>4, <1>9, SumInt
<1> HIDE DEF rest
<1>11. SumFunctionOnSet(f, u) <= SumFunctionOnSet(h, u) BY <1>5, <1>6, <1>7, <1>8, <1>10
<1>12. QED BY <1>1, <1>11

\* Terms of nothing add nothing.
LEMMA SumZero ==
  ASSUME NEW f, NEW S, IsFiniteSet(S), \A x \in S : f[x] = 0
  PROVE  SumFunctionOnSet(f, S) = 0
<1> DEFINE bad == {u \in SUBSET S : SumFunctionOnSet(f, u) # 0}
<1> SUFFICES ASSUME bad # {} PROVE FALSE OBVIOUS
<1>1. PICK u \in bad : \A v \in bad : v \subseteq u => v = u
  <2>1. bad \in SUBSET SUBSET S OBVIOUS
  <2> HIDE DEF bad
  <2>2. QED BY <2>1, SmallestSubset
<1>2. IsFiniteSet(u) /\ u \in SUBSET S BY <1>1, FS_Subset
<1>3. u # {} BY <1>1, SumEmpty
<1> DEFINE rest == u \ {Pick(u)}
<1>4. rest \in SUBSET S /\ rest # u /\ rest \subseteq u /\ Pick(u) \in S BY <1>2, <1>3, PickIsMember
<1>5. SumFunctionOnSet(f, rest) = 0 BY <1>1, <1>4
<1>7. SumFunctionOnSet(f, u) = f[Pick(u)] + SumFunctionOnSet(f, rest) BY <1>2, <1>3, SumStep
<1> HIDE DEF rest
<1>8. SumFunctionOnSet(f, u) = 0 BY <1>4, <1>5, <1>7
<1>9. QED BY <1>1, <1>8

\* Numbers add up to a number.
LEMMA SumNat ==
  ASSUME NEW f, NEW S, IsFiniteSet(S), \A x \in S : f[x] \in Nat
  PROVE  SumFunctionOnSet(f, S) \in Nat
<1> DEFINE z == [x \in S |-> 0]
<1>1. SumFunctionOnSet(f, S) \in Int BY SumInt
<1>2. \A x \in S : z[x] = 0 /\ z[x] <= f[x] OBVIOUS
<1>3. SumFunctionOnSet(z, S) = 0 BY <1>2, SumZero
<1>4. SumFunctionOnSet(z, S) <= SumFunctionOnSet(f, S)
  <2>1. \A x \in S : z[x] \in Int /\ f[x] \in Int /\ z[x] <= f[x] BY <1>2
  <2> HIDE DEF z
  <2>2. QED BY <2>1, SumMonotone
<1> HIDE DEF z
<1>5. QED BY <1>1, <1>3, <1>4

-----------------------------------------------------------------------------
(* The same for the sum of a function over its own domain. *)

\* A function of integers has an integer sum, one of numbers a number.
LEMMA SumFunctionType ==
  ASSUME NEW f, IsFiniteSet(DOMAIN f)
  PROVE  /\ (\A x \in DOMAIN f : f[x] \in Int) => SumFunction(f) \in Int
         /\ (\A x \in DOMAIN f : f[x] \in Nat) => SumFunction(f) \in Nat
  BY SumInt, SumNat DEF SumFunction

\* One term more.
LEMMA SumExtended ==
  ASSUME NEW f, NEW h, NEW e, IsFiniteSet(DOMAIN h), e \notin DOMAIN h,
         DOMAIN f = DOMAIN h \cup {e}, f[e] \in Int,
         \A x \in DOMAIN h : f[x] = h[x] /\ h[x] \in Int
  PROVE  SumFunction(f) = f[e] + SumFunction(h) /\ SumFunction(h) \in Int
<1> DEFINE S == DOMAIN h
           D == DOMAIN f
<1>1. IsFiniteSet(D) BY FS_AddElement
<1>2. \A x \in D : f[x] \in Int OBVIOUS
<1>3. e \in D /\ D \ {e} = S OBVIOUS
<1>4. SumFunctionOnSet(f, D) = f[e] + SumFunctionOnSet(f, D \ {e}) BY <1>1, <1>2, <1>3, SumTake
<1>5. SumFunctionOnSet(f, S) = SumFunctionOnSet(h, S) BY SumSame
<1>6. SumFunctionOnSet(h, S) \in Int BY SumInt
<1>7. QED BY <1>3, <1>4, <1>5, <1>6 DEF SumFunction

\* One term changes.
LEMMA SumChanged ==
  ASSUME NEW f, NEW h, NEW e, IsFiniteSet(DOMAIN h), e \in DOMAIN h, DOMAIN f = DOMAIN h,
         f[e] \in Int, h[e] \in Int, \A x \in DOMAIN h : x # e => f[x] = h[x] /\ h[x] \in Int
  PROVE  SumFunction(f) = SumFunction(h) + (f[e] - h[e]) /\ SumFunction(h) \in Int
<1> DEFINE S == DOMAIN h \ {e}
           rest == SumFunctionOnSet(h, S)
<1>1. IsFiniteSet(S) BY FS_Subset
<1>2. \A x \in DOMAIN h : f[x] \in Int /\ h[x] \in Int OBVIOUS
<1>3. SumFunctionOnSet(h, DOMAIN h) = h[e] + rest BY <1>2, SumTake
<1>4. SumFunctionOnSet(f, DOMAIN h) = f[e] + SumFunctionOnSet(f, S) BY <1>2, SumTake
<1>5. SumFunctionOnSet(f, S) = rest BY <1>1, SumSame
<1>6. rest \in Int BY <1>1, SumInt
<1> HIDE DEF rest, S
<1>7. SumFunction(f) = f[e] + rest /\ SumFunction(h) = h[e] + rest BY <1>3, <1>4, <1>5 DEF SumFunction
<1>8. QED BY <1>6, <1>7

\* A set of numbers has a smallest member, if any.
LEMMA SmallestNumber ==
  ASSUME NEW S \in SUBSET Nat, S # {}
  PROVE  \E n \in S : \A m \in S : n <= m
<1>1. PICK top \in S : TRUE OBVIOUS
<1> DEFINE D == 0 .. top
           T == {0 .. n : n \in S \cap D}
<1>2. IsFiniteSet(D) BY FS_Interval
<1>3. T \in SUBSET SUBSET D /\ T # {} BY <1>1
<1>4. PICK u \in T : \A v \in T : v \subseteq u => v = u
  <2> HIDE DEF T, D
  <2>1. QED BY <1>2, <1>3, SmallestSubset
<1>5. PICK n \in S \cap D : u = 0 .. n BY <1>4
<1>6. ASSUME NEW m \in S, m < n PROVE FALSE
  <2>1. m \in D BY <1>5, <1>6
  <2>2. 0 .. m \in T BY <2>1
  <2>3. 0 .. m \subseteq 0 .. n BY <1>5, <1>6
  <2>4. 0 .. m = 0 .. n BY <1>4, <1>5, <2>2, <2>3
  <2>5. n \in 0 .. n /\ n \notin 0 .. m BY <1>5, <1>6
  <2>6. QED BY <2>4, <2>5
<1>7. QED BY <1>5, <1>6

\* A power of two is a number: it counts the subsets of a set.
LEMMA PowerOfTwo == ASSUME NEW n \in Nat PROVE 2 ^ n \in Nat
<1> DEFINE S == 1 .. n
<1>1. IsFiniteSet(S) /\ Cardinality(S) = n BY FS_Interval
<1> HIDE DEF S
<1>2. IsFiniteSet(SUBSET S) /\ Cardinality(SUBSET S) = 2 ^ Cardinality(S) BY <1>1, FS_SUBSET
<1>3. Cardinality(SUBSET S) \in Nat BY <1>2, FS_CardinalityType
<1>4. QED BY <1>1, <1>2, <1>3

\* The terms may be renumbered.
LEMMA SumRenumbered ==
  ASSUME NEW f, NEW h, NEW S, IsFiniteSet(S), NEW b,
         \A x, y \in S : b[x] = b[y] => x = y,
         \A x \in S : f[x] \in Int /\ h[b[x]] = f[x]
  PROVE  SumFunctionOnSet(f, S) = SumFunctionOnSet(h, {b[x] : x \in S})
<1> DEFINE Im(u) == {b[x] : x \in u}
           bad == {u \in SUBSET S : SumFunctionOnSet(f, u) # SumFunctionOnSet(h, Im(u))}
<1> SUFFICES ASSUME bad # {} PROVE FALSE OBVIOUS
<1>1. PICK u \in bad : \A v \in bad : v \subseteq u => v = u
  <2>1. bad \in SUBSET SUBSET S OBVIOUS
  <2> HIDE DEF bad
  <2>2. QED BY <2>1, SmallestSubset
<1>2. u \in SUBSET S /\ IsFiniteSet(u) BY <1>1, FS_Subset
<1>3. CASE u = {}
  <2>1. Im(u) = {} BY <1>3
  <2>2. SumFunctionOnSet(f, u) = 0 /\ SumFunctionOnSet(h, Im(u)) = 0 BY <1>3, <2>1, SumEmpty
  <2>3. QED BY <1>1, <2>2
<1>4. ASSUME NEW x \in u PROVE FALSE
  <2> DEFINE w == u \ {x}
  <2>1. w \notin bad /\ w \in SUBSET S BY <1>1, <1>2, <1>4
  <2>2. SumFunctionOnSet(f, w) = SumFunctionOnSet(h, Im(w)) BY <2>1
  <2>3. Im(w) = Im(u) \ {b[x]} /\ b[x] \in Im(u) BY <1>2, <1>4
  <2>4. IsFiniteSet(Im(u))
    <3> DEFINE g == [y \in u |-> b[y]]
    <3>1. g \in Surjection(u, Im(u)) BY DEF Surjection
    <3> HIDE DEF g, Im
    <3>2. QED BY <1>2, <3>1, FS_Surjection
  <2>5. \A y \in u : f[y] \in Int BY <1>2
  <2>6. \A y \in Im(u) : h[y] \in Int BY <1>2
  <2>7. SumFunctionOnSet(f, u) = f[x] + SumFunctionOnSet(f, w) BY <1>2, <1>4, <2>5, SumTake
  <2>8. SumFunctionOnSet(h, Im(u)) = h[b[x]] + SumFunctionOnSet(h, Im(u) \ {b[x]})
    <3> HIDE DEF Im
    <3>1. QED BY <2>3, <2>4, <2>6, SumTake
  <2>9. f[x] = h[b[x]] BY <1>2, <1>4
  <2>10. QED BY <1>1, <2>2, <2>3, <2>7, <2>8, <2>9
<1>5. QED BY <1>3, <1>4
=============================================================================
