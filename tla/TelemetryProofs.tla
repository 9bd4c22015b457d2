---------------------------- MODULE TelemetryProofs ----------------------------
(***************************************************************************)
(* What holds of the metrics for every value of the constants: the cap     *)
(* loses and misfiles nothing, the meta-counter tells of every fold, and   *)
(* metrics fed by one event agree.                                         *)
(*                                                                         *)
(* The provers have no induction over data, so the facts about sums come   *)
(* first, by a least counterexample; then what one observation does to a   *)
(* registry, what a run of them does, what each action observes, and the   *)
(* invariant.                                                              *)
(***************************************************************************)
EXTENDS Telemetry, TLAPS, FiniteSetTheorems, WellFoundedInduction

-------------------------------------------------------------------------------
(* Naturals and finite sets. Both kinds of induction are stated about a set of *)
(* the numbers, or of the subsets, for which the claim holds.                  *)

LEMMA Least ==
  ASSUME NEW T \in SUBSET Nat, T # {}
  PROVE  \E x \in T : \A y \in T : x <= y
<1> DEFINE R == OpToRel(<, Nat)
<1>1. IsWellFoundedOn(R, Nat)
  BY NatLessThanWellFounded
<1>2. PICK x \in T : \A y \in T : ~(<<y, x>> \in R)
  <2> HIDE DEF R
  <2> QED BY <1>1, WFMin
<1>3. ASSUME NEW y \in T PROVE x <= y
  <2>1. x \in Nat /\ y \in Nat
    OBVIOUS
  <2>2. y < x => <<y, x>> \in R
    BY <2>1 DEF OpToRel
  <2>3. ~(y < x)
    <3> HIDE DEF R
    <3> QED BY <1>2, <2>2
  <2> HIDE DEF R
  <2> QED BY <2>1, <2>3, SMT
<1> QED BY <1>3

LEMMA Induction ==
  ASSUME NEW A, 0 \in A, \A n \in Nat : n \in A => n + 1 \in A
  PROVE  Nat \subseteq A
<1> SUFFICES ASSUME Nat \ A # {} PROVE FALSE
  OBVIOUS
<1>1. PICK n \in Nat \ A : \A k \in Nat \ A : n <= k
  <2>1. Nat \ A \in SUBSET Nat
    OBVIOUS
  <2> QED  BY <2>1, Least
<1>2. n # 0
  BY <1>1
<1>3. n - 1 \in Nat /\ n - 1 \in A
  BY <1>1, <1>2
<1> QED  BY <1>1, <1>3

LEMMA SubsetInduction ==
  ASSUME NEW S, IsFiniteSet(S), NEW A,
         \A T \in SUBSET S : (\A U \in SUBSET T : U # T => U \in A) => T \in A
  PROVE  SUBSET S \subseteq A
<1> DEFINE Sizes == {Cardinality(T) : T \in (SUBSET S) \ A}
<1> SUFFICES ASSUME (SUBSET S) \ A # {} PROVE FALSE
  OBVIOUS
<1>1. \A T \in SUBSET S : IsFiniteSet(T) /\ Cardinality(T) \in Nat
  BY FS_Subset, FS_CardinalityType
<1>2. Sizes \in SUBSET Nat /\ Sizes # {}
  BY <1>1
<1>3. PICK n \in Sizes : \A k \in Sizes : n <= k
  <2> HIDE DEF Sizes
  <2> QED  BY <1>2, Least
<1>4. PICK T \in (SUBSET S) \ A : Cardinality(T) = n
  BY <1>3
<1>5. ASSUME NEW U \in SUBSET T, U # T PROVE U \in A
  <2>1. Cardinality(U) <= Cardinality(T) /\ Cardinality(U) # Cardinality(T)
    BY <1>1, <1>4, <1>5, FS_Subset
  <2>2. U \in SUBSET S
    BY <1>4
  <2>3. Cardinality(U) \in Nat /\ Cardinality(T) \in Nat
    BY <1>1, <1>4, <2>2
  <2>4. ~(n <= Cardinality(U))
    BY <2>1, <2>3, <1>4
  <2> QED  BY <2>2, <2>4, <1>3
<1> QED  BY <1>4, <1>5

-------------------------------------------------------------------------------
(* Sums. SumFunctionOnSet is a fold that picks an element at a time.          *)

Pick(s) == CHOOSE x \in s : TRUE

IsSum(g, f, S) ==
  g = [s \in SUBSET S |-> IF s = {} THEN 0 ELSE f[Pick(s)] + g[s \ {Pick(s)}]]

LEMMA SumChosen ==
  ASSUME NEW f, NEW S
  PROVE  SumFunctionOnSet(f, S) = (CHOOSE g : IsSum(g, f, S))[S]
BY Zenon DEF SumFunctionOnSet, FoldFunctionOnSet, MapThenFoldSet, IsSum, Pick

LEMMA PickIn == ASSUME NEW s, s # {} PROVE Pick(s) \in s
BY DEF Pick

(* What a sum gives for a set does not depend on the set around it, nor on    *)
(* what the function is outside.                                              *)
LEMMA SumUnique ==
  ASSUME NEW U, IsFiniteSet(U), NEW S, NEW T, U \subseteq S, U \subseteq T,
         NEW f, NEW e, \A x \in U : f[x] = e[x],
         NEW g, IsSum(g, f, S), NEW h, IsSum(h, e, T)
  PROVE  g[U] = h[U]
<1> DEFINE A == {s \in SUBSET U : g[s] = h[s]}
<1>1. ASSUME NEW s \in SUBSET U, \A u \in SUBSET s : u # s => u \in A
      PROVE  s \in A
  <2>1. g[s] = IF s = {} THEN 0 ELSE f[Pick(s)] + g[s \ {Pick(s)}]
    <3>1. s \in SUBSET S
      OBVIOUS
    <3> QED  BY <3>1, Zenon DEF IsSum
  <2>2. h[s] = IF s = {} THEN 0 ELSE e[Pick(s)] + h[s \ {Pick(s)}]
    <3>1. s \in SUBSET T
      OBVIOUS
    <3> QED  BY <3>1, Zenon DEF IsSum
  <2>3. CASE s = {}
    BY <2>1, <2>2, <2>3
  <2>4. CASE s # {}
    <3>1. Pick(s) \in s
      BY <2>4, PickIn
    <3>2. g[s \ {Pick(s)}] = h[s \ {Pick(s)}]
      BY <1>1, <3>1
    <3> QED  BY <2>1, <2>2, <2>4, <3>1, <3>2
  <2> QED  BY <2>3, <2>4
<1>2. SUBSET U \subseteq A
  <2> HIDE DEF A
  <2> QED  BY <1>1, SubsetInduction
<1> QED  BY <1>2

LEMMA SumExists ==
  ASSUME NEW S, IsFiniteSet(S), NEW f
  PROVE  \E g : IsSum(g, f, S)
<1> DEFINE A == {s \in SUBSET S : \E g : IsSum(g, f, s)}
           G(s) == CHOOSE g : IsSum(g, f, s)
<1>1. ASSUME NEW s \in SUBSET S, \A u \in SUBSET s : u # s => u \in A
      PROVE  s \in A
  <2> DEFINE Rest(t) == t \ {Pick(t)}
             H == [t \in SUBSET s |-> IF t = {} THEN 0 ELSE f[Pick(t)] + G(Rest(t))[Rest(t)]]
  <2>1. ASSUME NEW t \in SUBSET s, t # s PROVE IsSum(G(t), f, t)
    <3>1. \E g : IsSum(g, f, t)
      BY <1>1, <2>1
    <3> QED  BY <3>1
  <2>2. ASSUME NEW t \in SUBSET s, t # {}
        PROVE  /\ Rest(t) \in SUBSET s /\ Rest(t) # s
               /\ IsFiniteSet(Rest(t))
               /\ G(Rest(t))[Rest(t)] = H[Rest(t)]
    <3>1. Pick(t) \in t
      BY <2>2, PickIn
    <3>2. Rest(t) \in SUBSET s /\ Rest(t) # s
      BY <3>1
    <3>3. IsFiniteSet(Rest(t))
      BY <3>2, FS_Subset
    <3> DEFINE u == Rest(t)
    <3>4. IsSum(G(u), f, u)
      BY <2>1, <3>2
    <3>5. G(u)[u] = IF u = {} THEN 0 ELSE f[Pick(u)] + G(u)[Rest(u)]
      <4>1. u \in SUBSET u
        OBVIOUS
      <4> HIDE DEF G, u
      <4> QED  BY <3>4, <4>1, Zenon DEF IsSum
    <3>6. H[u] = IF u = {} THEN 0 ELSE f[Pick(u)] + G(Rest(u))[Rest(u)]
      BY <3>2
    <3>7. CASE u = {}
      BY <3>2, <3>3, <3>5, <3>6, <3>7
    <3>8. CASE u # {}
      <4>1. Pick(u) \in u
        BY <3>8, PickIn
      <4>2. Rest(u) \in SUBSET s /\ Rest(u) # s /\ Rest(u) \subseteq u
        BY <4>1, <3>2
      <4>3. IsFiniteSet(Rest(u))
        BY <4>2, FS_Subset
      <4>4. IsSum(G(Rest(u)), f, Rest(u))
        BY <2>1, <4>2
      <4>5. G(u)[Rest(u)] = G(Rest(u))[Rest(u)]
        <5> DEFINE w == Rest(u)
        <5>1. w \subseteq u /\ w \subseteq w /\ IsFiniteSet(w) /\ IsSum(G(w), f, w)
          BY <4>2, <4>3, <4>4
        <5> HIDE DEF w, u, G
        <5> SUFFICES G(u)[w] = G(w)[w]
          BY DEF w
        <5> QED  BY <3>4, <5>1, SumUnique
      <4> QED  BY <3>2, <3>3, <3>5, <3>6, <3>8, <4>5
    <3> QED  BY <3>7, <3>8
  <2>3. H = [t \in SUBSET s |-> IF t = {} THEN 0 ELSE f[Pick(t)] + H[Rest(t)]]
    <3> HIDE DEF Rest, G
    <3> QED  BY <2>2
  <2>4. IsSum(H, f, s)
    <3> HIDE DEF H
    <3> QED  BY <2>3, Zenon DEF IsSum
  <2> QED  BY <2>4
<1>2. SUBSET S \subseteq A
  <2> HIDE DEF A
  <2> QED  BY <1>1, SubsetInduction
<1> QED  BY <1>2

LEMMA SumIs ==
  ASSUME NEW S, IsFiniteSet(S), NEW f
  PROVE  \E g : IsSum(g, f, S) /\ g[S] = SumFunctionOnSet(f, S)
BY SumExists, SumChosen, Zenon

LEMMA SumSame ==
  ASSUME NEW S, IsFiniteSet(S), NEW f, NEW e, \A x \in S : f[x] = e[x]
  PROVE  SumFunctionOnSet(f, S) = SumFunctionOnSet(e, S)
<1>1. PICK g : IsSum(g, f, S) /\ g[S] = SumFunctionOnSet(f, S)
  BY SumIs
<1>2. PICK h : IsSum(h, e, S) /\ h[S] = SumFunctionOnSet(e, S)
  BY SumIs
<1> QED  BY <1>1, <1>2, SumUnique

LEMMA SumPicks ==
  ASSUME NEW S, IsFiniteSet(S), NEW f
  PROVE  SumFunctionOnSet(f, S) =
           IF S = {} THEN 0 ELSE f[Pick(S)] + SumFunctionOnSet(f, S \ {Pick(S)})
<1>1. PICK g : IsSum(g, f, S) /\ g[S] = SumFunctionOnSet(f, S)
  BY SumIs
<1>2. g[S] = IF S = {} THEN 0 ELSE f[Pick(S)] + g[S \ {Pick(S)}]
  <2>1. S \in SUBSET S
    OBVIOUS
  <2> QED  BY <1>1, <2>1, Zenon DEF IsSum
<1>3. CASE S = {}
  BY <1>1, <1>2, <1>3
<1>4. CASE S # {}
  <2> DEFINE R == S \ {Pick(S)}
  <2>1. R \subseteq S /\ R \subseteq R /\ IsFiniteSet(R)
    BY FS_Subset
  <2> HIDE DEF R
  <2>2. PICK h : IsSum(h, f, R) /\ h[R] = SumFunctionOnSet(f, R)
    BY <2>1, SumIs
  <2>3. g[R] = h[R]
    BY <1>1, <2>1, <2>2, SumUnique
  <2> USE DEF R
  <2> QED  BY <1>1, <1>2, <1>4, <2>2, <2>3
<1> QED  BY <1>3, <1>4

LEMMA SumOfNone == ASSUME NEW f PROVE SumFunctionOnSet(f, {}) = 0
<1>1. IsFiniteSet({})
  BY FS_EmptySet
<1> QED  BY <1>1, SumPicks

(* The sum of naturals is one, and any element may be taken out first.        *)
LEMMA SumNat ==
  ASSUME NEW S, IsFiniteSet(S), NEW f, \A x \in S : f[x] \in Nat
  PROVE  SumFunctionOnSet(f, S) \in Nat
<1> DEFINE A == {s \in SUBSET S : SumFunctionOnSet(f, s) \in Nat}
<1>1. ASSUME NEW s \in SUBSET S, \A u \in SUBSET s : u # s => u \in A
      PROVE  s \in A
  <2>1. IsFiniteSet(s)
    BY FS_Subset
  <2>2. CASE s = {}
    BY <2>2, SumOfNone
  <2>3. CASE s # {}
    <3>1. Pick(s) \in s
      BY <2>3, PickIn
    <3>2. SumFunctionOnSet(f, s \ {Pick(s)}) \in Nat
      BY <1>1, <3>1
    <3>3. f[Pick(s)] \in Nat
      BY <3>1
    <3>4. SumFunctionOnSet(f, s) = f[Pick(s)] + SumFunctionOnSet(f, s \ {Pick(s)})
      BY <2>1, <2>3, SumPicks
    <3> QED  BY <3>2, <3>3, <3>4
  <2> QED  BY <2>2, <2>3
<1>2. SUBSET S \subseteq A
  <2> HIDE DEF A
  <2> QED  BY <1>1, SubsetInduction
<1> QED  BY <1>2

LEMMA SumTakes ==
  ASSUME NEW S, IsFiniteSet(S), NEW f, \A y \in S : f[y] \in Nat, NEW x \in S
  PROVE  SumFunctionOnSet(f, S) = f[x] + SumFunctionOnSet(f, S \ {x})
<1> DEFINE A == {s \in SUBSET S :
                   \A y \in s : SumFunctionOnSet(f, s) = f[y] + SumFunctionOnSet(f, s \ {y})}
<1>1. ASSUME NEW s \in SUBSET S, \A u \in SUBSET s : u # s => u \in A
      PROVE  s \in A
  <2> SUFFICES ASSUME NEW y \in s
               PROVE  SumFunctionOnSet(f, s) = f[y] + SumFunctionOnSet(f, s \ {y})
    OBVIOUS
  <2> DEFINE p == Pick(s)
             t == (s \ {p}) \ {y}
  <2>1. p \in s
    BY PickIn
  <2>2. IsFiniteSet(s) /\ IsFiniteSet(t)
    BY FS_Subset
  <2>3. SumFunctionOnSet(f, s) = f[p] + SumFunctionOnSet(f, s \ {p})
    BY <2>1, <2>2, SumPicks
  <2>4. CASE p = y
    BY <2>3, <2>4
  <2>5. CASE p # y
    <3>1. SumFunctionOnSet(f, s \ {p}) = f[y] + SumFunctionOnSet(f, t)
      <4>1. s \ {p} \in A /\ y \in s \ {p}
        BY <1>1, <2>1, <2>5
      <4> QED  BY <4>1
    <3>2. SumFunctionOnSet(f, s \ {y}) = f[p] + SumFunctionOnSet(f, t)
      <4>1. s \ {y} \in A /\ p \in s \ {y} /\ (s \ {y}) \ {p} = t
        BY <1>1, <2>1, <2>5
      <4> HIDE DEF t, p
      <4> QED  BY <4>1
    <3>3. f[p] \in Nat /\ f[y] \in Nat /\ SumFunctionOnSet(f, t) \in Nat
      <4>1. t \subseteq S
        OBVIOUS
      <4>2. SumFunctionOnSet(f, t) \in Nat
        <5> HIDE DEF t
        <5> QED  BY <2>2, <4>1, SumNat
      <4> QED  BY <4>2, <2>1
    <3> HIDE DEF t, p
    <3> QED  BY <2>3, <3>1, <3>2, <3>3
  <2> QED  BY <2>4, <2>5
<1>2. SUBSET S \subseteq A
  <2> HIDE DEF A
  <2> QED  BY <1>1, SubsetInduction
<1> QED  BY <1>2

LEMMA SumOfZeros ==
  ASSUME NEW S, IsFiniteSet(S), NEW f, \A x \in S : f[x] = 0
  PROVE  SumFunctionOnSet(f, S) = 0
<1> DEFINE A == {s \in SUBSET S : SumFunctionOnSet(f, s) = 0}
<1>1. ASSUME NEW s \in SUBSET S, \A u \in SUBSET s : u # s => u \in A
      PROVE  s \in A
  <2>1. IsFiniteSet(s)
    BY FS_Subset
  <2>2. CASE s = {}
    BY <2>2, SumOfNone
  <2>3. CASE s # {}
    <3>1. Pick(s) \in s
      BY <2>3, PickIn
    <3>2. SumFunctionOnSet(f, s \ {Pick(s)}) = 0 /\ f[Pick(s)] = 0
      BY <1>1, <3>1
    <3>3. SumFunctionOnSet(f, s) = f[Pick(s)] + SumFunctionOnSet(f, s \ {Pick(s)})
      BY <2>1, <2>3, SumPicks
    <3> QED  BY <3>2, <3>3
  <2> QED  BY <2>2, <2>3
<1>2. SUBSET S \subseteq A
  <2> HIDE DEF A
  <2> QED  BY <1>1, SubsetInduction
<1> QED  BY <1>2

(* What changes when a function is given a value at one point, old or new.    *)
LEMMA SumPut ==
  ASSUME NEW f, IsFiniteSet(DOMAIN f), \A x \in DOMAIN f : f[x] \in Nat,
         NEW k, NEW g, DOMAIN g = DOMAIN f \cup {k}, g[k] \in Nat,
         \A x \in DOMAIN f \ {k} : g[x] = f[x]
  PROVE  /\ SumFunction(f) \in Nat /\ SumFunction(g) \in Nat
         /\ SumFunction(g) = SumFunction(f) + g[k] - (IF k \in DOMAIN f THEN f[k] ELSE 0)
<1> DEFINE D == DOMAIN f
           E == D \ {k}
           F == D \cup {k}
<1>1. IsFiniteSet(D) /\ IsFiniteSet(F) /\ IsFiniteSet(E) /\ k \in F /\ F \ {k} = E
  BY FS_AddElement, FS_RemoveElement
<1>2. \A x \in F : g[x] \in Nat
  OBVIOUS
<1>3. SumFunctionOnSet(g, E) = SumFunctionOnSet(f, E)
  <2>1. \A x \in E : g[x] = f[x]
    OBVIOUS
  <2> HIDE DEF E
  <2> QED  BY <1>1, <2>1, SumSame
<1>4. SumFunctionOnSet(f, E) \in Nat
  <2>1. \A x \in E : f[x] \in Nat
    OBVIOUS
  <2> HIDE DEF E
  <2> QED  BY <1>1, <2>1, SumNat
<1>5. SumFunctionOnSet(g, F) = g[k] + SumFunctionOnSet(g, E)
  <2> HIDE DEF E, F
  <2> QED  BY <1>1, <1>2, SumTakes
<1>6. k \in D => SumFunctionOnSet(f, D) = f[k] + SumFunctionOnSet(f, E)
  BY <1>1, SumTakes
<1>7. k \notin D => E = D
  OBVIOUS
<1>8. SumFunction(f) = SumFunctionOnSet(f, D) /\ SumFunction(g) = SumFunctionOnSet(g, F)
  BY DEF SumFunction
<1>9. SumFunctionOnSet(g, F) = SumFunctionOnSet(f, E) + g[k]
  BY <1>3, <1>4, <1>5
<1>10. CASE k \in D
  <2>1. f[k] \in Nat
    BY <1>10
  <2> HIDE DEF D, E, F
  <2> QED  BY <1>4, <1>6, <1>8, <1>9, <1>10, <2>1 DEF D
<1>11. CASE k \notin D
  <2> HIDE DEF E, F
  <2> QED  BY <1>4, <1>7, <1>8, <1>9, <1>11
<1> QED  BY <1>10, <1>11

-------------------------------------------------------------------------------
(* A run of observations, in order.                                           *)

Registry == [series |-> series, capped |-> capped, seen |-> seen]

IsRun(g, start, os, n) ==
  g = [i \in 0..n |-> IF i = 0 THEN start ELSE Noted(g[i - 1], os[i])]

LEMMA RunExists ==
  ASSUME NEW start, NEW os, NEW n \in Nat
  PROVE  \E g : IsRun(g, start, os, n)
<1> DEFINE A == {i \in Nat : \E g : IsRun(g, start, os, i)}
<1>1. 0 \in A
  <2> DEFINE g == [i \in 0..0 |-> start]
  <2>1. g = [i \in 0..0 |-> IF i = 0 THEN start ELSE Noted(g[i - 1], os[i])]
    OBVIOUS
  <2>2. IsRun(g, start, os, 0)
    <3> HIDE DEF g
    <3> QED  BY <2>1, Zenon DEF IsRun
  <2> QED  BY <2>2
<1>2. ASSUME NEW i \in Nat, i \in A PROVE i + 1 \in A
  <2>1. PICK g : IsRun(g, start, os, i)
    BY <1>2
  <2> DEFINE h == [j \in 0..(i + 1) |-> IF j <= i THEN g[j] ELSE Noted(g[i], os[i + 1])]
  <2>2. \A j \in 0..i : h[j] = IF j = 0 THEN start ELSE Noted(h[j - 1], os[j])
    <3>1. \A j \in 0..i : g[j] = IF j = 0 THEN start ELSE Noted(g[j - 1], os[j])
      BY <2>1, Zenon DEF IsRun
    <3>2. \A j \in 0..i : h[j] = g[j] /\ (j # 0 => h[j - 1] = g[j - 1])
      OBVIOUS
    <3> HIDE DEF h
    <3> QED  BY <3>1, <3>2
  <2>3. h[i + 1] = Noted(h[i], os[i + 1])
    OBVIOUS
  <2>4. h = [j \in 0..(i + 1) |-> IF j = 0 THEN start ELSE Noted(h[j - 1], os[j])]
    <3>1. \A j \in 0..(i + 1) : h[j] = IF j = 0 THEN start ELSE Noted(h[j - 1], os[j])
      <4> SUFFICES ASSUME NEW j \in 0..(i + 1)
                   PROVE  h[j] = IF j = 0 THEN start ELSE Noted(h[j - 1], os[j])
        OBVIOUS
      <4>1. j \in 0..i \/ j = i + 1
        OBVIOUS
      <4>2. j = i + 1 => j # 0 /\ j - 1 = i
        OBVIOUS
      <4> HIDE DEF h
      <4> QED  BY <2>2, <2>3, <4>1, <4>2
    <3>2. h = [j \in 0..(i + 1) |-> h[j]]
      OBVIOUS
    <3> HIDE DEF h
    <3> QED  BY <3>1, <3>2
  <2>5. IsRun(h, start, os, i + 1)
    <3> HIDE DEF h
    <3> QED  BY <2>4, Zenon DEF IsRun
  <2> QED  BY <2>5
<1>3. Nat \subseteq A
  <2> HIDE DEF A
  <2> QED  BY <1>1, <1>2, Induction
<1> QED  BY <1>3

(* The registry after each observation of a run.                              *)
LEMMA ObserveRuns ==
  ASSUME NEW os, Len(os) \in Nat, Observe(os)
  PROVE  \E g : /\ g[0] = Registry
                /\ \A i \in 1..Len(os) : g[i] = Noted(g[i - 1], os[i])
                /\ series' = g[Len(os)].series
                /\ capped' = g[Len(os)].capped
                /\ seen' = g[Len(os)].seen
<1> DEFINE g == CHOOSE g : IsRun(g, Registry, os, Len(os))
<1>1. IsRun(g, Registry, os, Len(os))
  BY RunExists
<1>2. series' = g[Len(os)].series /\ capped' = g[Len(os)].capped /\ seen' = g[Len(os)].seen
  BY Zenon DEF Observe, IsRun, Registry
<1>3. g[0] = Registry /\ \A i \in 1..Len(os) : g[i] = Noted(g[i - 1], os[i])
  <2>1. \A i \in 0..Len(os) : g[i] = IF i = 0 THEN Registry ELSE Noted(g[i - 1], os[i])
    <3> HIDE DEF g
    <3> QED  BY <1>1, Zenon DEF IsRun
  <2> HIDE DEF g
  <2> QED  BY <2>1
<1> HIDE DEF g
<1> QED  BY <1>2, <1>3
-------------------------------------------------------------------------------
(* One observation.                                                           *)

(* Labels are strings. The literals are named because no prover knows that a   *)
(* literal is one.                                                            *)
Labels ==
  STRING \cup Metrics
  \cup {"missing", "tool", "_unmatched", "exhausted", "ok", "timeout", "failed", "ports", "stage",
        "200", "201", "401", "404", "405", "429", "500",
        "pipeline.started", "pipeline.finished", "stage.finished", "lead.added",
        "fingerprint.confidence_changed"}

Observation ==
  {o \in [m : Metrics, key : Seq(Labels), amount : Nat, value : Nat] :
     o.m \in Histograms => o.amount = 1}

Outside == {o \in Observation : o.m # "cardinality"}

Tally(reg, m) == SumFunction([key \in DOMAIN reg.series[m] |-> reg.series[m][key].total])

Shaped(reg) ==
  /\ DOMAIN reg.series = Metrics /\ DOMAIN reg.capped = Metrics /\ DOMAIN reg.seen = Metrics
  /\ \A m \in Metrics :
       /\ IsFiniteSet(DOMAIN reg.series[m]) /\ IsFiniteSet(DOMAIN reg.seen[m])
       /\ \A key \in DOMAIN reg.series[m] : reg.series[m][key].total \in Nat
       /\ \A key \in DOMAIN reg.seen[m] : reg.seen[m][key] \in Nat
       /\ reg.capped[m] \in Nat

(* FoldingIsExact of one metric, and what it rests on: a series that has a    *)
(* place has had it from the first observation on, because a fold leaves no   *)
(* place to be had later.                                                     *)
Exact(reg, m) ==
  LET kept == DOMAIN reg.series[m] \ {OverflowKey(m)}
      rest == DOMAIN reg.seen[m] \ kept
  IN /\ kept \subseteq DOMAIN reg.seen[m]
     /\ Cardinality(kept) <= MaxSeries
     /\ \A key \in kept : reg.series[m][key].total = reg.seen[m][key]
     /\ Tally(reg, m) = SumFunction(reg.seen[m])
     /\ rest # {} <=> OverflowKey(m) \in DOMAIN reg.series[m]
     /\ rest \ {OverflowKey(m)} # {} => Cardinality(kept) >= MaxSeries

LEMMA WithAt ==
  ASSUME NEW f, NEW k, NEW v, NEW g, g = With(f, k, v)
  PROVE  g[k] = v
BY DEF With

LEMMA WithDomain ==
  ASSUME NEW f, NEW k, NEW v, NEW g, g = With(f, k, v)
  PROVE  DOMAIN g = DOMAIN f \cup {k}
BY DEF With

LEMMA WithElsewhere ==
  ASSUME NEW f, NEW k, NEW v, NEW g, g = With(f, k, v), NEW x \in DOMAIN f \ {k}
  PROVE  g[x] = f[x]
BY DEF With

(* What inc() and observe() touch. *)
LEMMA RecordedIs ==
  ASSUME NEW reg, Shaped(reg), NEW o \in Observation
  PROVE  LET new == Recorded(reg, o)
             k == Resolve(reg.series, o.m, o.key)
             old == IF k \in DOMAIN reg.series[o.m] THEN reg.series[o.m][k] ELSE Zero(o.m)
             was == IF o.key \in DOMAIN reg.seen[o.m] THEN reg.seen[o.m][o.key] ELSE 0
         IN /\ DOMAIN new.series = Metrics /\ DOMAIN new.capped = Metrics /\ DOMAIN new.seen = Metrics
            /\ new.series[o.m] = With(reg.series[o.m], k, Added(old, o))
            /\ new.seen[o.m] = With(reg.seen[o.m], o.key, was + o.amount)
            /\ new.capped[o.m] = reg.capped[o.m] + (IF Folded(reg.series, o.m, o.key) THEN 1 ELSE 0)
            /\ \A m \in Metrics \ {o.m} :
                 /\ new.series[m] = reg.series[m] /\ new.seen[m] = reg.seen[m]
                 /\ new.capped[m] = reg.capped[m]
<1>1. o.m \in Metrics
  BY DEF Observation
<1>2. reg.capped[o.m] \in Nat
  BY <1>1 DEF Shaped
<1> QED  BY <1>1, <1>2 DEF Recorded, Shaped

(* g is f with a value put at one key. *)
Put(g, f, k, v) ==
  /\ DOMAIN g = DOMAIN f \cup {k}
  /\ g[k] = v
  /\ \A x \in DOMAIN f \ {k} : g[x] = f[x]

LEMMA WithPuts ==
  ASSUME NEW f, NEW k, NEW v, NEW g, g = With(f, k, v)
  PROVE  Put(g, f, k, v)
<1>1. DOMAIN g = DOMAIN f \cup {k}
  BY WithDomain
<1>2. g[k] = v
  BY WithAt
<1>3. \A x \in DOMAIN f \ {k} : g[x] = f[x]
  BY WithElsewhere
<1> QED  BY <1>1, <1>2, <1>3 DEF Put

Key(reg, o) == Resolve(reg.series, o.m, o.key)
Old(reg, o) ==
  IF Key(reg, o) \in DOMAIN reg.series[o.m] THEN reg.series[o.m][Key(reg, o)] ELSE Zero(o.m)
Was(reg, o) == IF o.key \in DOMAIN reg.seen[o.m] THEN reg.seen[o.m][o.key] ELSE 0

LEMMA RecordedAt ==
  ASSUME NEW reg, Shaped(reg), NEW o \in Observation
  PROVE  /\ Put(Recorded(reg, o).series[o.m], reg.series[o.m], Key(reg, o), Added(Old(reg, o), o))
         /\ Put(Recorded(reg, o).seen[o.m], reg.seen[o.m], o.key, Was(reg, o) + o.amount)
<1>1. /\ Recorded(reg, o).series[o.m] = With(reg.series[o.m], Key(reg, o), Added(Old(reg, o), o))
      /\ Recorded(reg, o).seen[o.m] = With(reg.seen[o.m], o.key, Was(reg, o) + o.amount)
  BY RecordedIs DEF Key, Old, Was
<1> QED  BY <1>1, WithPuts

LEMMA RecordedShaped ==
  ASSUME NEW reg, Shaped(reg), NEW o \in Observation
  PROVE  /\ Shaped(Recorded(reg, o))
         /\ Tally(Recorded(reg, o), o.m) = Tally(reg, o.m) + o.amount
         /\ SumFunction(Recorded(reg, o).seen[o.m]) = SumFunction(reg.seen[o.m]) + o.amount
         /\ Tally(reg, o.m) \in Nat /\ SumFunction(reg.seen[o.m]) \in Nat
<1> DEFINE m == o.m
           new == Recorded(reg, o)
           f == reg.series[m]
           e == reg.seen[m]
           k == Key(reg, o)
           old == Old(reg, o)
           was == Was(reg, o)
           ft == [key \in DOMAIN f |-> f[key].total]
           gt == [key \in DOMAIN new.series[m] |-> new.series[m][key].total]
<1>1. m \in Metrics /\ o.amount \in Nat
  BY DEF Observation
<1>2. /\ DOMAIN new.series = Metrics /\ DOMAIN new.capped = Metrics /\ DOMAIN new.seen = Metrics
      /\ new.capped[m] = reg.capped[m] + (IF Folded(reg.series, m, o.key) THEN 1 ELSE 0)
      /\ \A n \in Metrics \ {m} :
           /\ new.series[n] = reg.series[n] /\ new.seen[n] = reg.seen[n]
           /\ new.capped[n] = reg.capped[n]
  BY RecordedIs
<1>3. /\ IsFiniteSet(DOMAIN f) /\ IsFiniteSet(DOMAIN e)
      /\ \A key \in DOMAIN f : f[key].total \in Nat
      /\ \A key \in DOMAIN e : e[key] \in Nat
      /\ reg.capped[m] \in Nat
  BY <1>1 DEF Shaped
<1>4. old.total \in Nat /\ was \in Nat /\ (k \notin DOMAIN f => old.total = 0)
  BY <1>3 DEF Zero, Old, Was
<1>5. /\ DOMAIN new.series[m] = DOMAIN f \cup {k}
      /\ new.series[m][k].total = old.total + o.amount
      /\ \A x \in DOMAIN f \ {k} : new.series[m][x] = f[x]
  <2>1. Put(new.series[m], f, k, Added(old, o))
    BY RecordedAt
  <2>2. Added(old, o).total = old.total + o.amount
    BY DEF Added
  <2> HIDE DEF f, k, old, new
  <2> QED  BY ONLY <2>1, <2>2 DEF Put
<1>6. /\ DOMAIN new.seen[m] = DOMAIN e \cup {o.key}
      /\ new.seen[m][o.key] = was + o.amount
      /\ \A x \in DOMAIN e \ {o.key} : new.seen[m][x] = e[x]
  BY RecordedAt DEF Put
<1>7. /\ IsFiniteSet(DOMAIN new.series[m]) /\ IsFiniteSet(DOMAIN new.seen[m])
      /\ \A key \in DOMAIN new.series[m] : new.series[m][key].total \in Nat
      /\ \A key \in DOMAIN new.seen[m] : new.seen[m][key] \in Nat
      /\ new.capped[m] \in Nat
  <2>1. IsFiniteSet(DOMAIN new.series[m]) /\ IsFiniteSet(DOMAIN new.seen[m])
    <3> HIDE DEF f, e, k, new
    <3> QED  BY ONLY <1>3, <1>5, <1>6, FS_AddElement
  <2> HIDE DEF f, e, k, new, old, was
  <2> QED  BY <2>1, <1>1, <1>2, <1>3, <1>4, <1>5, <1>6
<1>8. Shaped(new)
  <2> SUFFICES ASSUME NEW n \in Metrics
               PROVE  /\ IsFiniteSet(DOMAIN new.series[n]) /\ IsFiniteSet(DOMAIN new.seen[n])
                      /\ \A key \in DOMAIN new.series[n] : new.series[n][key].total \in Nat
                      /\ \A key \in DOMAIN new.seen[n] : new.seen[n][key] \in Nat
                      /\ new.capped[n] \in Nat
    BY <1>2 DEF Shaped
  <2>1. CASE n = m
    BY <1>7, <2>1
  <2>2. CASE n # m
    <3> HIDE DEF new
    <3> QED  BY <1>2, <2>2 DEF Shaped
  <2> QED  BY <2>1, <2>2
<1>9. /\ SumFunction(ft) \in Nat
      /\ SumFunction(gt) = SumFunction(ft) + (old.total + o.amount) - (IF k \in DOMAIN f THEN f[k].total ELSE 0)
  <2>1. /\ DOMAIN ft = DOMAIN f /\ DOMAIN gt = DOMAIN f \cup {k}
        /\ \A x \in DOMAIN ft : ft[x] \in Nat
        /\ gt[k] = old.total + o.amount /\ gt[k] \in Nat
        /\ \A x \in DOMAIN ft \ {k} : gt[x] = ft[x]
        /\ DOMAIN gt = DOMAIN ft \cup {k}
        /\ IsFiniteSet(DOMAIN ft)
        /\ (k \in DOMAIN f => ft[k] = f[k].total)
    <3> HIDE DEF f, k, new, old, was
    <3> QED  BY <1>1, <1>3, <1>4, <1>5
  <2> HIDE DEF f, k, new, old, was, ft, gt
  <2>2. /\ SumFunction(ft) \in Nat /\ SumFunction(gt) \in Nat
        /\ SumFunction(gt) = SumFunction(ft) + gt[k] - (IF k \in DOMAIN ft THEN ft[k] ELSE 0)
    <3> PICK a, b, c : a = ft /\ b = gt /\ c = k
      OBVIOUS
    <3>1. /\ IsFiniteSet(DOMAIN a) /\ \A x \in DOMAIN a : a[x] \in Nat
          /\ DOMAIN b = DOMAIN a \cup {c} /\ b[c] \in Nat
          /\ \A x \in DOMAIN a \ {c} : b[x] = a[x]
      BY <2>1
    <3>2. /\ SumFunction(a) \in Nat /\ SumFunction(b) \in Nat
          /\ SumFunction(b) = SumFunction(a) + b[c] - (IF c \in DOMAIN a THEN a[c] ELSE 0)
      BY ONLY <3>1, SumPut
    <3> QED  BY <3>2
  <2> QED  BY <2>1, <2>2
<1>10. /\ SumFunction(e) \in Nat
       /\ SumFunction(new.seen[m]) = SumFunction(e) + (was + o.amount) - was
  <2> DEFINE e2 == new.seen[m]
  <2>1. /\ DOMAIN e2 = DOMAIN e \cup {o.key} /\ e2[o.key] \in Nat
        /\ \A x \in DOMAIN e \ {o.key} : e2[x] = e[x]
    <3> HIDE DEF e, new, was
    <3> QED  BY <1>1, <1>4, <1>6
  <2>2. /\ SumFunction(e) \in Nat /\ SumFunction(e2) \in Nat
        /\ SumFunction(e2) = SumFunction(e) + e2[o.key] - (IF o.key \in DOMAIN e THEN e[o.key] ELSE 0)
    <3> HIDE DEF e, e2, was
    <3> QED  BY <2>1, <1>3, SumPut
  <2>3. was = IF o.key \in DOMAIN e THEN e[o.key] ELSE 0
    BY DEF Was
  <2> HIDE DEF e, new, was
  <2> QED  BY <2>2, <2>3, <1>6
<1>11. Tally(reg, m) = SumFunction(ft) /\ Tally(new, m) = SumFunction(gt)
  BY DEF Tally
<1>12. Tally(new, m) = Tally(reg, m) + o.amount /\ Tally(reg, m) \in Nat
  <2>1. old.total = IF k \in DOMAIN f THEN f[k].total ELSE 0
    BY <1>4 DEF Old
  <2> HIDE DEF f, k, new, old, was, ft, gt
  <2> QED  BY <1>1, <1>4, <1>9, <1>11, <2>1
<1>13. SumFunction(new.seen[m]) = SumFunction(e) + o.amount
  <2> HIDE DEF e, new, was
  <2> QED  BY <1>1, <1>4, <1>10
<1> QED  BY <1>8, <1>10, <1>12, <1>13

LEMMA RecordedExact ==
  ASSUME NEW reg, Shaped(reg), NEW o \in Observation, NEW m, m = o.m, Exact(reg, m)
  PROVE  Exact(Recorded(reg, o), m)
<1>0. m \in Metrics /\ o.amount \in Nat
  BY DEF Observation
<1> PICK f : f = reg.series[m]
  OBVIOUS
<1> PICK e : e = reg.seen[m]
  OBVIOUS
<1> PICK g : g = Recorded(reg, o).series[m]
  OBVIOUS
<1> PICK h : h = Recorded(reg, o).seen[m]
  OBVIOUS
<1> PICK k : k = Key(reg, o)
  OBVIOUS
<1> PICK key : key = o.key
  OBVIOUS
<1> PICK over : over = OverflowKey(m)
  OBVIOUS
<1> DEFINE K == DOMAIN f \ {over}
           L == DOMAIN g \ {over}
           rest == DOMAIN e \ K
           more == DOMAIN h \ L
<1>1. /\ DOMAIN g = DOMAIN f \cup {k}
      /\ g[k].total = (IF k \in DOMAIN f THEN f[k].total ELSE 0) + o.amount
      /\ \A x \in DOMAIN f \ {k} : g[x] = f[x]
      /\ DOMAIN h = DOMAIN e \cup {key}
      /\ h[key] = (IF key \in DOMAIN e THEN e[key] ELSE 0) + o.amount
      /\ \A x \in DOMAIN e \ {key} : h[x] = e[x]
  <2>1. Put(g, f, k, Added(Old(reg, o), o)) /\ Put(h, e, key, Was(reg, o) + o.amount)
    BY RecordedAt
  <2>2. Added(Old(reg, o), o).total = (IF k \in DOMAIN f THEN f[k].total ELSE 0) + o.amount
    BY DEF Added, Zero, Old
  <2>3. Was(reg, o) = IF key \in DOMAIN e THEN e[key] ELSE 0
    BY DEF Was
  <2> QED  BY ONLY <2>1, <2>2, <2>3 DEF Put
<1>2. /\ IsFiniteSet(DOMAIN f) /\ IsFiniteSet(K) /\ Cardinality(K) \in Nat
      /\ \A x \in DOMAIN f : f[x].total \in Nat
      /\ \A x \in DOMAIN e : e[x] \in Nat
  BY <1>0, FS_RemoveElement, FS_CardinalityType DEF Shaped
<1>3. /\ K \subseteq DOMAIN e
      /\ Cardinality(K) <= MaxSeries
      /\ \A x \in K : f[x].total = e[x]
      /\ rest # {} <=> over \in DOMAIN f
      /\ rest \ {over} # {} => Cardinality(K) >= MaxSeries
  BY DEF Exact
<1>4. k = IF key \in DOMAIN f \/ key = over \/ Cardinality(K) < MaxSeries THEN key ELSE over
  BY DEF Key, Resolve
<1>5. MaxSeries \in Nat
  BY TelemetryAssumption
<1>6. Tally(Recorded(reg, o), m) = SumFunction(h)
  <2>1. Tally(reg, m) = SumFunction(e)
    BY DEF Exact
  <2> QED  BY <2>1, RecordedShaped
<1> DEFINE Goal == /\ L \subseteq DOMAIN h
                   /\ Cardinality(L) <= MaxSeries
                   /\ \A x \in L : g[x].total = h[x]
                   /\ more # {} <=> over \in DOMAIN g
                   /\ more \ {over} # {} => Cardinality(L) >= MaxSeries
<1>7. ASSUME key = over PROVE Goal
  <2>1. k = over
    BY ONLY <1>4, <1>7
  <2>2. L = K /\ more = rest \cup {over}
    BY ONLY <1>1, <1>3, <1>7, <2>1
  <2>3. \A x \in L : g[x].total = h[x]
    BY ONLY <1>1, <1>3, <1>7, <2>1, <2>2
  <2> QED  BY ONLY <1>1, <1>3, <2>1, <2>2, <2>3
<1>8. ASSUME key # over /\ key \in DOMAIN f
      PROVE  Goal
  <2>1. k = key /\ key \in K
    BY ONLY <1>4, <1>8
  <2>2. L = K /\ more = rest /\ DOMAIN g = DOMAIN f /\ DOMAIN h = DOMAIN e
    BY ONLY <1>1, <1>3, <1>8, <2>1
  <2>3. \A x \in L : g[x].total = h[x]
    <3>1. g[key].total = h[key]
      BY ONLY <1>1, <1>2, <1>3, <1>8, <2>1
    <3> QED  BY ONLY <1>1, <1>3, <2>1, <2>2, <3>1
  <2> QED  BY ONLY <1>3, <2>2, <2>3
<1>9. ASSUME key # over /\ key \notin DOMAIN f /\ Cardinality(K) < MaxSeries
      PROVE  Goal
  <2>1. k = key /\ key \notin K
    BY ONLY <1>4, <1>9
  <2>2. key \notin DOMAIN e
    BY ONLY <1>2, <1>3, <1>5, <1>9, <2>1
  <2>3. L = K \cup {key} /\ more = rest
    BY ONLY <1>1, <1>3, <1>9, <2>1, <2>2
  <2>4. Cardinality(L) = Cardinality(K) + 1
    <3> HIDE DEF K, L
    <3> QED  BY ONLY <1>2, <2>1, <2>3, FS_AddElement
  <2>5. \A x \in L : g[x].total = h[x]
    <3>1. g[key].total = h[key]
      BY ONLY <1>0, <1>1, <1>9, <2>1, <2>2
    <3> QED  BY ONLY <1>1, <1>3, <2>1, <2>2, <2>3, <3>1
  <2>6. Cardinality(L) <= MaxSeries /\ ~(Cardinality(K) >= MaxSeries)
    <3> HIDE DEF K, L
    <3> QED  BY ONLY <1>2, <1>5, <1>9, <2>4
  <2>7. L \subseteq DOMAIN h
    BY ONLY <1>1, <1>3, <2>3
  <2>8. over \in DOMAIN g <=> over \in DOMAIN f
    BY ONLY <1>1, <1>9, <2>1
  <2> QED  BY ONLY <1>3, <2>3, <2>5, <2>6, <2>7, <2>8
<1>10. ASSUME key # over /\ key \notin DOMAIN f /\ ~(Cardinality(K) < MaxSeries)
      PROVE  Goal
  <2>1. k = over /\ key \notin K
    BY ONLY <1>4, <1>10
  <2>2. L = K /\ more = rest \cup {key} /\ over \in DOMAIN g
    BY ONLY <1>1, <1>3, <1>10, <2>1
  <2>3. \A x \in L : g[x].total = h[x]
    BY ONLY <1>1, <1>3, <1>10, <2>1, <2>2
  <2>4. Cardinality(L) >= MaxSeries
    <3> HIDE DEF K, L
    <3> QED  BY ONLY <1>2, <1>5, <1>10, <2>2
  <2> QED  BY ONLY <1>1, <1>3, <2>2, <2>3, <2>4
<1>11. Goal
  <2> HIDE DEF Goal
  <2> QED  BY <1>7, <1>8, <1>9, <1>10
<1> QED  BY <1>6, <1>11 DEF Exact

(* Metrics other than the one an observation is of. *)
LEMMA RecordedElsewhere ==
  ASSUME NEW reg, Shaped(reg), NEW o \in Observation, NEW m \in Metrics, m # o.m
  PROVE  /\ Recorded(reg, o).series[m] = reg.series[m]
         /\ Recorded(reg, o).seen[m] = reg.seen[m]
         /\ Recorded(reg, o).capped[m] = reg.capped[m]
BY RecordedIs

LEMMA ElsewhereExact ==
  ASSUME NEW reg, Shaped(reg), NEW o \in Observation, NEW m \in Metrics, m # o.m
  PROVE  /\ Exact(reg, m) => Exact(Recorded(reg, o), m)
         /\ Tally(Recorded(reg, o), m) = Tally(reg, m)
<1> PICK new : new = Recorded(reg, o)
  OBVIOUS
<1>1. new.series[m] = reg.series[m] /\ new.seen[m] = reg.seen[m]
  BY RecordedElsewhere
<1>2. Tally(new, m) = Tally(reg, m)
  BY <1>1, Zenon DEF Tally
<1>3. Exact(reg, m) => Exact(new, m)
  BY <1>1, <1>2, Zenon DEF Exact
<1> QED  BY <1>2, <1>3

-------------------------------------------------------------------------------
(* Histograms.                                                                *)

Slotted == 1..(Len(Bounds) + 1)

Bucketed(x) == x.counts \in [Slotted -> Nat] /\ SumFunctionOnSet(x.counts, Slotted) = x.total

Buckets(reg) ==
  \A m \in Histograms : \A key \in DOMAIN reg.series[m] : Bucketed(reg.series[m][key])

(* observe() finds exactly one bucket. *)
LEMMA OneSlot ==
  ASSUME NEW v \in Nat
  PROVE  \E s \in Slotted : Slots(v) = {s}
<1> DEFINE Fits == {i \in Slotted : i > Len(Bounds) \/ v <= Bounds[i]}
<1>1. Len(Bounds) \in Nat /\ \A i \in 1..Len(Bounds) : Bounds[i] \in Nat
  BY TelemetryAssumption
<1>2. Len(Bounds) + 1 \in Fits /\ Fits \in SUBSET Nat
  BY <1>1 DEF Slotted
<1>3. PICK s \in Fits : \A i \in Fits : s <= i
  <2> HIDE DEF Fits
  <2> QED  BY <1>2, Least
<1>4. \A i \in Slotted : i > Len(Bounds) <=> i = Len(Bounds) + 1
  BY <1>1 DEF Slotted
<1>5. \A i \in Slotted : i \in Nat /\ i >= 1 /\ i <= Len(Bounds) + 1
  BY <1>1 DEF Slotted
<1>6. s \in Slots(v)
  <2>1. ASSUME NEW j \in 1..(s - 1) PROVE v > Bounds[j]
    <3>1. j \in Slotted /\ j \in 1..Len(Bounds) /\ j < s
      BY <1>1, <1>3, <1>5 DEF Slotted
    <3>2. j \notin Fits
      BY <1>3, <1>5, <3>1
    <3> QED  BY <1>1, <3>1, <3>2
  <2> QED  BY <1>3, <2>1 DEF Slots, Slotted
<1>7. ASSUME NEW t \in Slots(v) PROVE t = s
  <2>1. t \in Fits /\ \A j \in 1..(t - 1) : v > Bounds[j]
    BY DEF Slots, Slotted
  <2>2. s <= t
    BY <1>3, <2>1
  <2>3. CASE s < t
    <3>1. s \in 1..(t - 1) /\ s \in 1..Len(Bounds)
      BY <1>1, <1>3, <1>5, <2>1, <2>3
    <3>2. v > Bounds[s] /\ Bounds[s] \in Nat
      BY <1>1, <2>1, <3>1
    <3>3. v <= Bounds[s]
      BY <1>3, <1>1, <3>1
    <3> QED  BY <3>2, <3>3
  <2> QED  BY <1>3, <1>5, <2>1, <2>2, <2>3
<1> QED  BY <1>3, <1>6, <1>7

LEMMA SlottedFinite == IsFiniteSet(Slotted)
<1>1. Len(Bounds) + 1 \in Int
  BY TelemetryAssumption
<1> QED  BY <1>1, FS_Interval DEF Slotted

LEMMA AddedBucketed ==
  ASSUME NEW x, Bucketed(x), NEW o, o.value \in Nat, o.amount = 1
  PROVE  Bucketed(Added(x, o))
<1> DEFINE f == x.counts
           g == Added(x, o).counts
<1>1. PICK s \in Slotted : Slots(o.value) = {s}
  BY OneSlot
<1>2. g = [i \in Slotted |-> IF i = s THEN f[i] + 1 ELSE f[i]]
  BY <1>1 DEF Added, Bucketed
<1>3. f \in [Slotted -> Nat]
  BY DEF Bucketed
<1>4. g \in [Slotted -> Nat] /\ g[s] = f[s] + 1 /\ \A i \in Slotted \ {s} : g[i] = f[i]
  <2> HIDE DEF f, g
  <2> QED  BY <1>2, <1>3
<1> HIDE DEF f, g
<1>5. /\ SumFunction(f) \in Nat /\ SumFunction(g) \in Nat
      /\ SumFunction(g) = SumFunction(f) + g[s] - (IF s \in DOMAIN f THEN f[s] ELSE 0)
  <2>1. DOMAIN f = Slotted /\ DOMAIN g = DOMAIN f \cup {s} /\ IsFiniteSet(DOMAIN f)
    BY <1>3, <1>4, SlottedFinite
  <2>2. g[s] \in Nat /\ (\A i \in DOMAIN f : f[i] \in Nat) /\ \A i \in DOMAIN f \ {s} : g[i] = f[i]
    BY <1>3, <1>4, <2>1
  <2> QED  BY ONLY <2>1, <2>2, SumPut
<1>6. SumFunction(g) = SumFunction(f) + 1
  <2>1. f[s] \in Nat /\ s \in DOMAIN f
    BY <1>3
  <2> QED  BY <1>4, <1>5, <2>1
<1>7. SumFunctionOnSet(g, Slotted) = SumFunctionOnSet(f, Slotted) + 1
  BY <1>3, <1>4, <1>6 DEF SumFunction
<1> USE DEF f, g
<1>8. Added(x, o).total = x.total + 1
  BY DEF Added
<1> QED  BY <1>4, <1>7, <1>8 DEF Bucketed

LEMMA ZeroBucketed ==
  ASSUME NEW m \in Histograms
  PROVE  Bucketed(Zero(m))
<1> DEFINE f == [i \in Slotted |-> 0]
<1>1. Zero(m).counts = f /\ Zero(m).total = 0
  BY DEF Zero, Histograms, Counters, Slotted
<1>2. SumFunctionOnSet(f, Slotted) = 0
  <2>1. \A x \in Slotted : f[x] = 0
    OBVIOUS
  <2> HIDE DEF f
  <2> QED  BY <2>1, SlottedFinite, SumOfZeros
<1> QED  BY <1>1, <1>2 DEF Bucketed

LEMMA RecordedBuckets ==
  ASSUME NEW reg, Shaped(reg), Buckets(reg), NEW o \in Observation
  PROVE  Buckets(Recorded(reg, o))
<1> SUFFICES ASSUME NEW m \in Histograms, NEW key \in DOMAIN Recorded(reg, o).series[m]
             PROVE  Bucketed(Recorded(reg, o).series[m][key])
  BY DEF Buckets
<1>1. m \in Metrics
  BY DEF Metrics
<1>2. CASE m # o.m
  BY <1>1, <1>2, RecordedElsewhere DEF Buckets
<1>3. CASE m = o.m
  <2> DEFINE f == reg.series[m]
             g == Recorded(reg, o).series[m]
             k == Key(reg, o)
  <2>1. o.amount = 1 /\ o.value \in Nat
    BY <1>3 DEF Observation
  <2>2. Bucketed(Old(reg, o))
    BY <1>3, ZeroBucketed DEF Old, Buckets
  <2>3. Bucketed(Added(Old(reg, o), o))
    BY <2>1, <2>2, AddedBucketed
  <2>4. Put(g, f, k, Added(Old(reg, o), o))
    BY <1>3, RecordedAt
  <2>5. \A x \in DOMAIN f : Bucketed(f[x])
    BY DEF Buckets
  <2>6. \A x \in DOMAIN g : Bucketed(g[x])
    <3> HIDE DEF f, g, k
    <3> QED  BY ONLY <2>3, <2>4, <2>5 DEF Put
  <2> QED  BY <2>6
<1> QED  BY <1>2, <1>3
-------------------------------------------------------------------------------
(* The meta-counter.                                                          *)

Others == Metrics \ {"cardinality"}

(* FoldsAreReported of the shadow, which folds nothing. *)
NamedFolds(reg) ==
  LET told == reg.seen["cardinality"]
  IN /\ Tally(reg, "cardinality") = SumFunctionOnSet(reg.capped, Others)
     /\ \A m \in Others :
          /\ <<m>> \in DOMAIN told => told[<<m>>] = reg.capped[m]
          /\ <<m>> \notin DOMAIN told => reg.capped[m] = 0

Sound(reg) ==
  /\ Shaped(reg)
  /\ \A m \in Metrics : Exact(reg, m)
  /\ Buckets(reg)
  /\ NamedFolds(reg)

LEMMA FourMore ==
  ASSUME NEW S, IsFiniteSet(S), NEW a, NEW b, NEW c, NEW d
  PROVE  IsFiniteSet(S \cup {a, b, c, d})
<1>1. IsFiniteSet(S \cup {a})
  BY FS_AddElement
<1>2. IsFiniteSet((S \cup {a}) \cup {b})
  BY <1>1, FS_AddElement
<1>3. IsFiniteSet(((S \cup {a}) \cup {b}) \cup {c})
  BY <1>2, FS_AddElement
<1>4. IsFiniteSet((((S \cup {a}) \cup {b}) \cup {c}) \cup {d})
  BY <1>3, FS_AddElement
<1>5. (((S \cup {a}) \cup {b}) \cup {c}) \cup {d} = S \cup {a, b, c, d}
  OBVIOUS
<1> QED  BY <1>4, <1>5

LEMMA MetricsFinite == IsFiniteSet(Metrics) /\ IsFiniteSet(Others)
<1> DEFINE A == {} \cup {"scans_started", "scans_finished", "stage_outcomes", "stage_fallbacks"}
           B == A \cup {"rejected", "leads", "leads_disputed", "downgrades"}
           C == B \cup {"change_events", "evidence", "ratelimited", "auth_failures"}
           D == C \cup {"http_requests", "cardinality", "http_requests", "cardinality"}
           E == D \cup {"stage_duration", "scan_duration", "http_duration", "http_duration"}
<1>1. IsFiniteSet(A)
  BY FS_EmptySet, FourMore
<1>2. IsFiniteSet(B)
  BY ONLY <1>1, FourMore
<1>3. IsFiniteSet(C)
  BY ONLY <1>2, FourMore
<1>4. IsFiniteSet(D)
  BY ONLY <1>3, FourMore
<1>5. IsFiniteSet(E)
  BY ONLY <1>4, FourMore
<1>6. Metrics = E
  BY DEF Metrics, Counters, Histograms
<1>7. Others \in SUBSET Metrics
  BY DEF Others
<1> HIDE DEF E
<1> QED  BY <1>5, <1>6, <1>7, FS_Subset

(* An observation that does not fold leaves the meta-counter true; so does the *)
(* report of one that does. *)
LEMMA FoldCounted ==
  ASSUME NEW reg, Shaped(reg), NEW o \in Outside
  PROVE  LET more == IF Folded(reg.series, o.m, o.key) THEN 1 ELSE 0
         IN /\ SumFunctionOnSet(Recorded(reg, o).capped, Others) = SumFunctionOnSet(reg.capped, Others) + more
            /\ SumFunctionOnSet(reg.capped, Others) \in Nat
<1> PICK new : new = Recorded(reg, o)
  OBVIOUS
<1> DEFINE more == IF Folded(reg.series, o.m, o.key) THEN 1 ELSE 0
           Rest == Others \ {o.m}
<1>1. o \in Observation /\ o.m \in Others /\ o.m \in Metrics /\ Others \subseteq Metrics
  BY DEF Outside, Observation, Others
<1>2. \A m \in Others : reg.capped[m] \in Nat
  BY <1>1 DEF Shaped
<1>3. new.capped[o.m] = reg.capped[o.m] + more
  BY <1>1, RecordedIs
<1>4. \A m \in Rest : new.capped[m] = reg.capped[m]
  BY <1>1, RecordedElsewhere
<1>5. \A m \in Others : new.capped[m] \in Nat
  BY <1>2, <1>3, <1>4
<1> HIDE DEF more
<1>6. SumFunctionOnSet(reg.capped, Others) = reg.capped[o.m] + SumFunctionOnSet(reg.capped, Rest)
  BY <1>1, <1>2, MetricsFinite, SumTakes
<1>7. SumFunctionOnSet(new.capped, Others) = new.capped[o.m] + SumFunctionOnSet(new.capped, Rest)
  BY <1>1, <1>5, MetricsFinite, SumTakes
<1>8. SumFunctionOnSet(new.capped, Rest) = SumFunctionOnSet(reg.capped, Rest)
  <2>1. IsFiniteSet(Rest)
    BY MetricsFinite, FS_RemoveElement
  <2> HIDE DEF Rest
  <2> QED  BY <1>4, <2>1, SumSame
<1>9. SumFunctionOnSet(reg.capped, Others) \in Nat /\ SumFunctionOnSet(reg.capped, Rest) \in Nat
  <2>1. IsFiniteSet(Rest) /\ \A m \in Rest : reg.capped[m] \in Nat
    BY <1>2, MetricsFinite, FS_RemoveElement
  <2>2. SumFunctionOnSet(reg.capped, Rest) \in Nat
    <3> HIDE DEF Rest
    <3> QED  BY <2>1, SumNat
  <2> QED  BY <1>2, <2>2, MetricsFinite, SumNat
<1>10. reg.capped[o.m] \in Nat /\ more \in Nat
  BY <1>1, <1>2 DEF more
<1>11. SumFunctionOnSet(new.capped, Others) = SumFunctionOnSet(reg.capped, Others) + more
  <2> HIDE DEF Rest
  <2> QED  BY <1>3, <1>6, <1>7, <1>8, <1>9, <1>10
<1> QED  BY <1>9, <1>11 DEF more

Report(o) == Obs("cardinality", <<o.m>>)

LEMMA NotedIs ==
  ASSUME NEW reg, NEW o \in Outside
  PROVE  /\ ~Folded(reg.series, o.m, o.key) => Noted(reg, o) = Recorded(reg, o)
         /\ Folded(reg.series, o.m, o.key) => Noted(reg, o) = Recorded(Recorded(reg, o), Report(o))
BY DEF Noted, Report, Outside

LEMMA ReportObserved ==
  ASSUME NEW o \in Outside
  PROVE  /\ Report(o) \in Observation /\ Report(o).m = "cardinality"
         /\ Report(o).key = <<o.m>> /\ Report(o).amount = 1
<1>1. o.m \in Labels
  BY DEF Outside, Observation, Labels
<1>2. "cardinality" \in Metrics /\ "cardinality" \notin Histograms
  BY DEF Metrics, Counters, Histograms
<1>3. <<o.m>> \in Seq(Labels)
  BY <1>1
<1> QED  BY <1>2, <1>3 DEF Report, Obs, Observation

LEMMA TallyNat ==
  ASSUME NEW reg, Shaped(reg), NEW m \in Metrics
  PROVE  Tally(reg, m) \in Nat
<1> DEFINE f == [key \in DOMAIN reg.series[m] |-> reg.series[m][key].total]
<1>1. IsFiniteSet(DOMAIN f) /\ \A x \in DOMAIN f : f[x] \in Nat
  BY DEF Shaped
<1>2. SumFunctionOnSet(f, DOMAIN f) \in Nat
  <2> HIDE DEF f
  <2> QED  BY <1>1, SumNat
<1> QED  BY <1>2 DEF Tally, SumFunction

LEMMA NotedSound ==
  ASSUME NEW reg, Sound(reg), NEW o \in Outside
  PROVE  /\ Sound(Noted(reg, o))
         /\ \A m \in Others :
              /\ Tally(Noted(reg, o), m) = Tally(reg, m) + (IF m = o.m THEN o.amount ELSE 0)
              /\ Noted(reg, o).seen[m] = Recorded(reg, o).seen[m]
<1> PICK mid : mid = Recorded(reg, o)
  OBVIOUS
<1> PICK fin : fin = Noted(reg, o)
  OBVIOUS
<1> DEFINE co == Report(o)
           card == "cardinality"
<1>1. /\ o \in Observation /\ o.m \in Others /\ o.m \in Metrics /\ o.amount \in Nat
      /\ Others \subseteq Metrics /\ card \in Metrics \ Others /\ o.m # card
  BY DEF Outside, Observation, Others, Metrics, Counters
<1>2. Shaped(reg) /\ (\A m \in Metrics : Exact(reg, m)) /\ Buckets(reg) /\ NamedFolds(reg)
  BY DEF Sound
<1>3. Shaped(mid) /\ Tally(mid, o.m) = Tally(reg, o.m) + o.amount
  BY <1>1, <1>2, RecordedShaped
<1>4. \A m \in Metrics \ {o.m} : Tally(mid, m) = Tally(reg, m) /\ Exact(mid, m)
  BY <1>1, <1>2, ElsewhereExact
<1>5. Exact(mid, o.m)
  BY <1>1, <1>2, RecordedExact
<1>6. \A m \in Metrics : Exact(mid, m)
  BY <1>4, <1>5
<1>7. Buckets(mid)
  BY <1>1, <1>2, RecordedBuckets
<1>8. \A m \in Others : Tally(reg, m) \in Nat
  BY <1>1, <1>2, TallyNat
<1>9. \A m \in Others : Tally(mid, m) = Tally(reg, m) + (IF m = o.m THEN o.amount ELSE 0)
  BY <1>1, <1>3, <1>4, <1>8
<1>10. /\ mid.seen[card] = reg.seen[card] /\ Tally(mid, card) = Tally(reg, card)
       /\ \A m \in Others \ {o.m} : mid.capped[m] = reg.capped[m]
  BY <1>1, <1>2, <1>4, RecordedElsewhere
<1>11. /\ reg.capped[o.m] \in Nat
       /\ \A m \in Others : reg.capped[m] \in Nat
  BY <1>1, <1>2 DEF Shaped
<1>12. /\ Tally(reg, card) = SumFunctionOnSet(reg.capped, Others)
       /\ \A m \in Others :
            /\ <<m>> \in DOMAIN reg.seen[card] => reg.seen[card][<<m>>] = reg.capped[m]
            /\ <<m>> \notin DOMAIN reg.seen[card] => reg.capped[m] = 0
  BY <1>2 DEF NamedFolds
<1>13. ASSUME ~Folded(reg.series, o.m, o.key)
       PROVE  Sound(fin) /\ \A m \in Others :
                /\ Tally(fin, m) = Tally(reg, m) + (IF m = o.m THEN o.amount ELSE 0)
                /\ fin.seen[m] = mid.seen[m]
  <2>1. fin = mid
    BY <1>13, NotedIs
  <2>2. mid.capped[o.m] = reg.capped[o.m]
    BY <1>1, <1>2, <1>11, <1>13, RecordedIs
  <2>3. SumFunctionOnSet(mid.capped, Others) = SumFunctionOnSet(reg.capped, Others)
    BY <1>2, <1>13, FoldCounted
  <2>4. \A m \in Others : mid.capped[m] = reg.capped[m]
    BY <1>10, <2>2
  <2>5. NamedFolds(mid)
    BY <1>10, <1>12, <2>3, <2>4 DEF NamedFolds
  <2> QED  BY <1>3, <1>6, <1>7, <1>9, <2>1, <2>5 DEF Sound
<1>14. ASSUME Folded(reg.series, o.m, o.key)
       PROVE  Sound(fin) /\ \A m \in Others :
                /\ Tally(fin, m) = Tally(reg, m) + (IF m = o.m THEN o.amount ELSE 0)
                /\ fin.seen[m] = mid.seen[m]
  <2>1. fin = Recorded(mid, co)
    BY <1>14, NotedIs
  <2>2. co \in Observation /\ co.m = card /\ co.key = <<o.m>> /\ co.amount = 1
    BY ReportObserved
  <2> HIDE DEF co
  <2>3. Shaped(fin) /\ Tally(fin, card) = Tally(mid, card) + 1
    BY <1>3, <2>1, <2>2, RecordedShaped
  <2>4. \A m \in Metrics \ {card} : Exact(fin, m) /\ Tally(fin, m) = Tally(mid, m)
    BY <1>3, <1>6, <2>1, <2>2, ElsewhereExact
  <2>5. Exact(fin, card)
    BY <1>1, <1>3, <1>6, <2>1, <2>2, RecordedExact
  <2>6. Buckets(fin)
    BY <1>3, <1>7, <2>1, <2>2, RecordedBuckets
  <2>7. \A m \in Others : fin.capped[m] = mid.capped[m] /\ fin.seen[m] = mid.seen[m]
    <3> SUFFICES ASSUME NEW m \in Others
                 PROVE  fin.capped[m] = mid.capped[m] /\ fin.seen[m] = mid.seen[m]
      OBVIOUS
    <3>1. m \in Metrics /\ m # co.m
      BY <1>1, <2>2
    <3> QED  BY <1>3, <2>1, <2>2, <3>1, RecordedElsewhere
  <2>8. mid.capped[o.m] = reg.capped[o.m] + 1
    BY <1>1, <1>2, <1>14, RecordedIs
  <2>9. /\ SumFunctionOnSet(mid.capped, Others) = SumFunctionOnSet(reg.capped, Others) + 1
        /\ SumFunctionOnSet(fin.capped, Others) = SumFunctionOnSet(mid.capped, Others)
    BY <1>2, <1>14, <2>7, FoldCounted, MetricsFinite, SumSame
  <2>10. Tally(fin, card) = SumFunctionOnSet(fin.capped, Others)
    BY <1>10, <1>12, <2>3, <2>9
  <2>11. Put(fin.seen[card], reg.seen[card], <<o.m>>, Was(mid, co) + 1)
    BY <1>3, <1>10, <2>1, <2>2, RecordedAt
  <2>12. Was(mid, co) = reg.capped[o.m]
    BY <1>1, <1>10, <1>12, <2>2 DEF Was
  <2>13. \A m \in Others :
           /\ <<m>> \in DOMAIN fin.seen[card] => fin.seen[card][<<m>>] = fin.capped[m]
           /\ <<m>> \notin DOMAIN fin.seen[card] => fin.capped[m] = 0
    <3> SUFFICES ASSUME NEW m \in Others
                 PROVE  /\ <<m>> \in DOMAIN fin.seen[card] => fin.seen[card][<<m>>] = fin.capped[m]
                        /\ <<m>> \notin DOMAIN fin.seen[card] => fin.capped[m] = 0
      OBVIOUS
    <3>1. CASE m = o.m
      BY <1>1, <2>7, <2>8, <2>11, <2>12, <3>1 DEF Put
    <3>2. CASE m # o.m
      <4>1. fin.capped[m] = reg.capped[m]
        BY <1>10, <2>7, <3>2
      <4>2. <<m>> # <<o.m>>
        BY <3>2
      <4>3. /\ <<m>> \in DOMAIN fin.seen[card] <=> <<m>> \in DOMAIN reg.seen[card]
            /\ <<m>> \in DOMAIN reg.seen[card] => fin.seen[card][<<m>>] = reg.seen[card][<<m>>]
        BY <2>11, <4>2 DEF Put
      <4> QED  BY <1>12, <4>1, <4>3
    <3> QED  BY <3>1, <3>2
  <2>14. NamedFolds(fin)
    BY <2>10, <2>13 DEF NamedFolds
  <2>15. \A m \in Metrics : Exact(fin, m)
    BY <2>4, <2>5
  <2>16. \A m \in Others : Tally(fin, m) = Tally(reg, m) + (IF m = o.m THEN o.amount ELSE 0)
    BY <1>1, <1>9, <2>4
  <2> QED  BY <2>3, <2>6, <2>7, <2>14, <2>15, <2>16 DEF Sound
<1> QED  BY <1>13, <1>14
-------------------------------------------------------------------------------
(* What a run of observations adds up to.                                     *)

Of(m) == {o \in Outside : o.m = m}
Failed == {o \in Of("http_requests") : Broken(o.key)}

Gains(os, O) == [i \in 1..Len(os) |-> IF os[i] \in O THEN os[i].amount ELSE 0]
Gained(os, O) == SumFunction(Gains(os, O))

Fails(e) == [key \in DOMAIN e |-> IF Broken(key) THEN e[key] ELSE 0]
Failures(reg) == SumFunction(Fails(reg.seen["http_requests"]))

LEMMA FailuresNat ==
  ASSUME NEW reg, Shaped(reg)
  PROVE  Failures(reg) \in Nat
<1> DEFINE f == Fails(reg.seen["http_requests"])
<1>1. "http_requests" \in Metrics
  BY DEF Metrics, Counters
<1>2. IsFiniteSet(DOMAIN f) /\ \A x \in DOMAIN f : f[x] \in Nat
  BY <1>1 DEF Shaped, Fails
<1>3. SumFunctionOnSet(f, DOMAIN f) \in Nat
  <2> HIDE DEF f
  <2> QED  BY <1>2, SumNat
<1> QED  BY <1>3 DEF Failures, SumFunction

LEMMA NotedFails ==
  ASSUME NEW reg, Sound(reg), NEW o \in Outside
  PROVE  Failures(Noted(reg, o)) = Failures(reg) + (IF o \in Failed THEN o.amount ELSE 0)
<1> DEFINE m == "http_requests"
           e == reg.seen[m]
           h == Noted(reg, o).seen[m]
           f == Fails(e)
           g == Fails(h)
<1>1. /\ m \in Others /\ m \in Metrics /\ Shaped(reg)
      /\ o \in Observation /\ o.amount \in Nat
  BY DEF Others, Metrics, Counters, Sound, Outside, Observation
<1>2. h = Recorded(reg, o).seen[m]
  BY <1>1, NotedSound
<1>3. IsFiniteSet(DOMAIN e) /\ \A key \in DOMAIN e : e[key] \in Nat
  BY <1>1 DEF Shaped
<1>4. DOMAIN f = DOMAIN e /\ \A x \in DOMAIN e : f[x] = IF Broken(x) THEN e[x] ELSE 0
  BY DEF Fails
<1>5. DOMAIN g = DOMAIN h /\ \A x \in DOMAIN h : g[x] = IF Broken(x) THEN h[x] ELSE 0
  BY DEF Fails
<1>6. IsFiniteSet(DOMAIN f) /\ \A x \in DOMAIN f : f[x] \in Nat
  <2> HIDE DEF e, f
  <2> QED  BY <1>3, <1>4
<1>7. CASE o.m # m
  <2>1. h = e /\ o \notin Failed
    BY <1>1, <1>2, <1>7, RecordedElsewhere DEF Failed, Of
  <2>2. SumFunction(f) \in Nat
    <3> HIDE DEF f
    <3> QED  BY <1>6, SumNat DEF SumFunction
  <2> QED  BY <2>1, <2>2 DEF Failures
<1>8. CASE o.m = m
  <2> DEFINE k == o.key
             was == Was(reg, o)
  <2>1. Put(h, e, k, was + o.amount)
    BY <1>1, <1>2, <1>8, RecordedAt
  <2>2. was = IF k \in DOMAIN e THEN e[k] ELSE 0
    BY <1>8 DEF Was
  <2>3. was \in Nat /\ o \in Failed <=> Broken(k)
    BY <1>8, <1>3, <2>2 DEF Failed, Of
  <2> HIDE DEF e, h, f, g, k, was
  <2>4. DOMAIN h = DOMAIN e \cup {k} /\ h[k] = was + o.amount /\ \A x \in DOMAIN e \ {k} : h[x] = e[x]
    BY ONLY <2>1 DEF Put
  <2>5. was \in Nat
    BY <1>3, <2>2
  <2>6. /\ DOMAIN g = DOMAIN f \cup {k}
        /\ g[k] = (IF Broken(k) THEN was + o.amount ELSE 0) /\ g[k] \in Nat
        /\ \A x \in DOMAIN f \ {k} : g[x] = f[x]
        /\ k \in DOMAIN f => f[k] = IF Broken(k) THEN was ELSE 0
    BY <1>1, <1>4, <1>5, <2>2, <2>4, <2>5
  <2>7. /\ SumFunction(f) \in Nat /\ SumFunction(g) \in Nat
        /\ SumFunction(g) = SumFunction(f) + g[k] - (IF k \in DOMAIN f THEN f[k] ELSE 0)
    <3>1. DOMAIN g = DOMAIN f \cup {k} /\ g[k] \in Nat /\ \A x \in DOMAIN f \ {k} : g[x] = f[x]
      BY <2>6
    <3> QED  BY ONLY <1>6, <3>1, SumPut
  <2>8. k \notin DOMAIN f => was = 0
    BY <1>4, <2>2
  <2>9. SumFunction(g) = SumFunction(f) + (IF Broken(k) THEN o.amount ELSE 0)
    BY <1>1, <2>5, <2>6, <2>7, <2>8
  <2>10. o \in Failed <=> Broken(k)
    BY <1>8 DEF Failed, Of, k
  <2> QED  BY <2>7, <2>9, <2>10 DEF Failures, f, g, e, h
<1> QED  BY <1>7, <1>8

LEMMA GainsTo ==
  ASSUME NEW os \in Seq(Outside), NEW O, NEW n \in Nat, n + 1 <= Len(os)
  PROVE  /\ SumFunctionOnSet(Gains(os, O), 1..(n + 1)) =
              SumFunctionOnSet(Gains(os, O), 1..n)
              + (IF os[n + 1] \in O THEN os[n + 1].amount ELSE 0)
         /\ SumFunctionOnSet(Gains(os, O), 1..n) \in Nat
         /\ (IF os[n + 1] \in O THEN os[n + 1].amount ELSE 0) \in Nat
<1> DEFINE f == Gains(os, O)
           S == 1..(n + 1)
           T == 1..n
<1>1. IsFiniteSet(S) /\ IsFiniteSet(T) /\ n + 1 \in S /\ S \ {n + 1} = T
  <2>1. n + 1 \in S /\ S \ {n + 1} = T
    OBVIOUS
  <2>2. IsFiniteSet(1..(n + 1)) /\ IsFiniteSet(1..n)
    BY FS_Interval
  <2> QED  BY <2>1, <2>2
<1>2. \A i \in 1..Len(os) : os[i] \in Outside /\ os[i].amount \in Nat
  BY SMTT(30) DEF Outside, Observation
<1>3. \A i \in S : f[i] \in Nat
  BY <1>2 DEF Gains
<1>4. f[n + 1] = IF os[n + 1] \in O THEN os[n + 1].amount ELSE 0
  BY DEF Gains
<1>5. f[n + 1] \in Nat /\ \A i \in T : f[i] \in Nat
  BY <1>1, <1>3
<1> HIDE DEF f, S, T
<1>6. SumFunctionOnSet(f, S) = f[n + 1] + SumFunctionOnSet(f, T)
  BY <1>1, <1>3, SumTakes
<1>7. SumFunctionOnSet(f, T) \in Nat
  BY <1>1, <1>5, SumNat
<1> QED  BY <1>4, <1>5, <1>6, <1>7 DEF f, S, T

Written(reg) == reg = [series |-> reg.series, capped |-> reg.capped, seen |-> reg.seen]

LEMMA NotedWritten ==
  ASSUME NEW reg, NEW o
  PROVE  Written(Noted(reg, o))
BY DEF Noted, Recorded, Written

LEMMA RunSound ==
  ASSUME NEW os \in Seq(Outside), NEW g, Sound(g[0]), Written(g[0]),
         \A i \in 1..Len(os) : g[i] = Noted(g[i - 1], os[i])
  PROVE  /\ Sound(g[Len(os)]) /\ Written(g[Len(os)])
         /\ \A m \in Others : Tally(g[Len(os)], m) = Tally(g[0], m) + Gained(os, Of(m))
         /\ Failures(g[Len(os)]) = Failures(g[0]) + Gained(os, Failed)
<1> DEFINE Up(n, O) == SumFunctionOnSet(Gains(os, O), 1..n)
           Holds(n) == /\ Sound(g[n]) /\ Written(g[n])
                       /\ \A m \in Others : Tally(g[n], m) = Tally(g[0], m) + Up(n, Of(m))
                       /\ Failures(g[n]) = Failures(g[0]) + Up(n, Failed)
           A == {n \in Nat : n <= Len(os) => Holds(n)}
<1>1. /\ \A m \in Others : Tally(g[0], m) \in Nat
      /\ Failures(g[0]) \in Nat
  BY TallyNat, FailuresNat DEF Sound, Others
<1>2. 0 \in A
  <2>1. \A O : Up(0, O) = 0
    <3>1. 1..0 = {}
      OBVIOUS
    <3> QED  BY <3>1, SumOfNone
  <2> HIDE DEF Up
  <2>2. Holds(0)
    BY <1>1, <2>1
  <2> QED  BY <2>2
<1>3. ASSUME NEW n \in Nat, n \in A PROVE n + 1 \in A
  <2> SUFFICES ASSUME n + 1 <= Len(os) PROVE Holds(n + 1)
    OBVIOUS
  <2> DEFINE o == os[n + 1]
             more(O) == IF o \in O THEN o.amount ELSE 0
  <2>1. Len(os) \in Nat /\ n + 1 \in 1..Len(os) /\ o \in Outside
    OBVIOUS
  <2>2. Holds(n)
    <3>1. n <= Len(os)
      BY <2>1
    <3> HIDE DEF Holds
    <3> QED  BY <1>3, <3>1
  <2>3. g[n + 1] = Noted(g[n], o)
    <3>1. (n + 1) - 1 = n
      OBVIOUS
    <3>2. g[n + 1] = Noted(g[(n + 1) - 1], os[n + 1])
      BY <2>1
    <3> QED  BY <3>1, <3>2
  <2>4. \A O : Up(n + 1, O) = Up(n, O) + more(O) /\ Up(n, O) \in Nat /\ more(O) \in Nat
    BY GainsTo
  <2> HIDE DEF Up
  <2>5. /\ Sound(g[n]) /\ \A m \in Others : Tally(g[n], m) = Tally(g[0], m) + Up(n, Of(m))
        /\ Failures(g[n]) = Failures(g[0]) + Up(n, Failed)
    BY <2>2
  <2>6. \A m \in Others : (o.m = m) <=> (o \in Of(m))
    BY <2>1 DEF Of
  <2> HIDE DEF o
  <2>7. /\ Sound(Noted(g[n], o)) /\ Written(Noted(g[n], o))
        /\ \A m \in Others : Tally(Noted(g[n], o), m) = Tally(g[n], m) + (IF m = o.m THEN o.amount ELSE 0)
        /\ Failures(Noted(g[n], o)) = Failures(g[n]) + (IF o \in Failed THEN o.amount ELSE 0)
    BY <2>1, <2>5, NotedSound, NotedWritten, NotedFails
  <2>8. \A m \in Others : Tally(g[n + 1], m) = Tally(g[0], m) + Up(n + 1, Of(m))
    <3> SUFFICES ASSUME NEW m \in Others
                 PROVE  Tally(g[n + 1], m) = Tally(g[0], m) + Up(n + 1, Of(m))
      OBVIOUS
    <3>1. Tally(g[n + 1], m) = Tally(g[n], m) + more(Of(m))
      BY <2>3, <2>6, <2>7
    <3>2. Up(n + 1, Of(m)) = Up(n, Of(m)) + more(Of(m)) /\ Up(n, Of(m)) \in Nat /\ more(Of(m)) \in Nat
      BY <2>4
    <3>3. Tally(g[n], m) = Tally(g[0], m) + Up(n, Of(m)) /\ Tally(g[0], m) \in Nat
      BY <1>1, <2>5
    <3> HIDE DEF more
    <3> QED  BY <3>1, <3>2, <3>3
  <2>9. Failures(g[n + 1]) = Failures(g[0]) + Up(n + 1, Failed)
    <3>1. Failures(g[n + 1]) = Failures(g[n]) + more(Failed)
      BY <2>3, <2>7
    <3>2. Up(n + 1, Failed) = Up(n, Failed) + more(Failed) /\ Up(n, Failed) \in Nat /\ more(Failed) \in Nat
      BY <2>4
    <3> HIDE DEF more
    <3> QED  BY <1>1, <2>5, <3>1, <3>2
  <2> QED  BY <2>3, <2>7, <2>8, <2>9
<1>4. Nat \subseteq A
  <2> HIDE DEF A
  <2> QED  BY <1>2, <1>3, Induction
<1>5. Holds(Len(os))
  <2>1. Len(os) \in Nat
    OBVIOUS
  <2> HIDE DEF Holds
  <2> QED  BY <1>4, <2>1
<1>6. \A O : Gained(os, O) = Up(Len(os), O)
  BY DEF Gained, Gains, SumFunction
<1> HIDE DEF Up
<1> QED  BY <1>5, <1>6
LEMMA ObserveSound ==
  ASSUME Sound(Registry), NEW os \in Seq(Outside), Observe(os)
  PROVE  /\ Sound(Registry')
         /\ \A m \in Others : Tally(Registry', m) = Tally(Registry, m) + Gained(os, Of(m))
         /\ Failures(Registry') = Failures(Registry) + Gained(os, Failed)
<1>1. Len(os) \in Nat
  OBVIOUS
<1>2. PICK g : /\ g[0] = Registry
               /\ \A i \in 1..Len(os) : g[i] = Noted(g[i - 1], os[i])
               /\ series' = g[Len(os)].series
               /\ capped' = g[Len(os)].capped
               /\ seen' = g[Len(os)].seen
  BY <1>1, ObserveRuns
<1>3. Sound(g[0]) /\ Written(g[0])
  BY <1>2 DEF Registry, Written
<1>4. /\ Sound(g[Len(os)]) /\ Written(g[Len(os)])
      /\ \A m \in Others : Tally(g[Len(os)], m) = Tally(g[0], m) + Gained(os, Of(m))
      /\ Failures(g[Len(os)]) = Failures(g[0]) + Gained(os, Failed)
  BY <1>2, <1>3, RunSound
<1>5. g[Len(os)] = Registry'
  BY <1>2, <1>4 DEF Written, Registry
<1> QED  BY <1>2, <1>4, <1>5

LEMMA InitSound ==
  ASSUME Init
  PROVE  /\ Sound(Registry) /\ Failures(Registry) = 0
         /\ \A m \in Metrics : Tally(Registry, m) = 0
<1> PICK reg : reg = Registry
  OBVIOUS
<1>1. /\ DOMAIN reg.series = Metrics /\ DOMAIN reg.capped = Metrics /\ DOMAIN reg.seen = Metrics
      /\ \A m \in Metrics : reg.series[m] = <<>> /\ reg.capped[m] = 0 /\ reg.seen[m] = <<>>
  BY DEF Init, Registry
<1>2. DOMAIN <<>> = {} /\ IsFiniteSet({}) /\ Cardinality({}) = 0
  BY FS_EmptySet
<1>3. Shaped(reg)
  BY <1>1, <1>2 DEF Shaped
<1>4. ASSUME NEW m \in Metrics PROVE Tally(reg, m) = 0 /\ SumFunction(reg.seen[m]) = 0
  <2>1. DOMAIN [key \in DOMAIN reg.series[m] |-> reg.series[m][key].total] = {} /\ DOMAIN reg.seen[m] = {}
    BY <1>1, <1>2
  <2> QED  BY <2>1, SumOfNone DEF Tally, SumFunction
<1>5. ASSUME NEW m \in Metrics PROVE Exact(reg, m)
  <2>1. DOMAIN reg.series[m] = {} /\ DOMAIN reg.seen[m] = {}
    BY <1>1, <1>2
  <2>2. DOMAIN reg.series[m] \ {OverflowKey(m)} = {}
    BY <2>1
  <2>3. MaxSeries \in Nat
    BY TelemetryAssumption
  <2> QED  BY <1>2, <1>4, <2>1, <2>2, <2>3 DEF Exact
<1>6. Buckets(reg)
  BY <1>1, <1>2 DEF Buckets, Metrics
<1>7. NamedFolds(reg)
  <2>1. "cardinality" \in Metrics /\ Others \subseteq Metrics
    BY DEF Others, Metrics, Counters
  <2>2. SumFunctionOnSet(reg.capped, Others) = 0
    BY <1>1, <2>1, MetricsFinite, SumOfZeros
  <2> QED  BY <1>1, <1>2, <1>4, <2>1, <2>2 DEF NamedFolds
<1>8. Failures(reg) = 0
  <2>1. DOMAIN reg.seen["http_requests"] = {}
    BY <1>1, <1>2 DEF Metrics, Counters
  <2>2. DOMAIN Fails(reg.seen["http_requests"]) = {}
    BY <2>1 DEF Fails
  <2> QED  BY <2>2, SumOfNone DEF Failures, SumFunction
<1> QED  BY <1>3, <1>4, <1>5, <1>6, <1>7, <1>8 DEF Sound

-------------------------------------------------------------------------------
(* What FoldingIsExact and FoldsAreReported say follows from Sound.           *)

LEMMA SoundIsExact ==
  ASSUME Sound(Registry)
  PROVE  FoldingIsExact
<1> SUFFICES ASSUME NEW m \in Metrics
             PROVE  LET kept == DOMAIN series[m] \ {OverflowKey(m)}
                        rest == DOMAIN seen[m] \ kept
                    IN /\ Cardinality(kept) <= MaxSeries
                       /\ \A key \in kept : series[m][key].total = seen[m][key]
                       /\ Total(m) = SumFunction(seen[m])
                       /\ rest # {} <=> OverflowKey(m) \in DOMAIN series[m]
  BY DEF FoldingIsExact
<1>1. Exact(Registry, m)
  BY DEF Sound
<1>2. Registry.series = series /\ Registry.seen = seen
  BY DEF Registry
<1>3. Tally(Registry, m) = Total(m)
  BY <1>2 DEF Tally, Total
<1> HIDE DEF Registry
<1> QED  BY <1>1, <1>2, <1>3 DEF Exact

LEMMA SoundIsReported ==
  ASSUME Sound(Registry)
  PROVE  FoldsAreReported
<1> DEFINE card == "cardinality"
<1>1. card \in Metrics /\ Others \subseteq Metrics
  BY DEF Others, Metrics, Counters
<1>2. Exact(Registry, card) /\ NamedFolds(Registry)
  BY <1>1 DEF Sound
<1>3. Registry.series = series /\ Registry.seen = seen /\ Registry.capped = capped
  BY DEF Registry
<1>4. Tally(Registry, card) = Total(card)
  BY <1>3 DEF Tally, Total
<1>5. ASSUME NEW m \in Others, <<m>> \in DOMAIN series[card]
      PROVE  series[card][<<m>>].total = capped[m]
  <2>1. <<m>> # OverflowKey(card)
    <3>1. m # Other
      BY DEF Others, Metrics, Counters, Histograms, Other
    <3>2. OverflowKey(card)[1] = Other
      BY DEF OverflowKey, Width
    <3>3. <<m>>[1] = m
      OBVIOUS
    <3> QED  BY <3>1, <3>2, <3>3
  <2>2. /\ <<m>> \in DOMAIN seen[card]
        /\ series[card][<<m>>].total = seen[card][<<m>>]
    <3> HIDE DEF Registry
    <3> QED  BY <1>2, <1>3, <1>5, <2>1 DEF Exact
  <2>3. seen[card][<<m>>] = capped[m]
    <3> HIDE DEF Registry
    <3> QED  BY <1>2, <1>3, <2>2 DEF NamedFolds
  <2> QED  BY <2>2, <2>3
<1>6. Total(card) = SumFunctionOnSet(capped, Others)
  <2> HIDE DEF Registry
  <2> QED  BY <1>2, <1>3, <1>4 DEF NamedFolds
<1> QED  BY <1>5, <1>6 DEF FoldsAreReported, Others
-------------------------------------------------------------------------------
(* Runs put together.                                                         *)

Weight(o, O) == IF o \in O THEN o.amount ELSE 0

LEMMA GainsAt ==
  ASSUME NEW os \in Seq(Outside), NEW O, NEW n \in Nat, NEW k, k = n + 1, k <= Len(os)
  PROVE  /\ SumFunctionOnSet(Gains(os, O), 1..k) = SumFunctionOnSet(Gains(os, O), 1..n) + Weight(os[k], O)
         /\ Weight(os[k], O) \in Nat
BY GainsTo DEF Weight

LEMMA GainedFirst ==
  ASSUME NEW os \in Seq(Outside), NEW O, 1 <= Len(os)
  PROVE  SumFunctionOnSet(Gains(os, O), 1..1) = Weight(os[1], O) /\ Weight(os[1], O) \in Nat
<1>1. /\ SumFunctionOnSet(Gains(os, O), 1..1) = SumFunctionOnSet(Gains(os, O), 1..0) + Weight(os[1], O)
      /\ Weight(os[1], O) \in Nat
  <2>1. 0 \in Nat /\ 1 = 0 + 1
    OBVIOUS
  <2> QED  BY <2>1, GainsAt
<1>2. SumFunctionOnSet(Gains(os, O), 1..0) = 0
  <2>1. 1..0 = {}
    OBVIOUS
  <2> QED  BY <2>1, SumOfNone
<1> QED  BY <1>1, <1>2

LEMMA GainedOne ==
  ASSUME NEW o \in Outside, NEW O
  PROVE  /\ <<o>> \in Seq(Outside) /\ Gained(<<o>>, O) = Weight(o, O)
         /\ Weight(o, O) \in Nat
<1> DEFINE os == <<o>>
<1>1. os \in Seq(Outside) /\ Len(os) = 1 /\ os[1] = o /\ 1 <= Len(os)
  OBVIOUS
<1> HIDE DEF os
<1>2. SumFunctionOnSet(Gains(os, O), 1..1) = Weight(o, O) /\ Weight(o, O) \in Nat
  BY <1>1, GainedFirst
<1>3. Gained(os, O) = SumFunctionOnSet(Gains(os, O), 1..1)
  BY <1>1 DEF Gained, Gains, SumFunction
<1> QED  BY <1>1, <1>2, <1>3 DEF os

LEMMA GainedTwo ==
  ASSUME NEW o \in Outside, NEW q \in Outside, NEW O
  PROVE  /\ <<o, q>> \in Seq(Outside)
         /\ Gained(<<o, q>>, O) = Weight(o, O) + Weight(q, O)
<1> DEFINE os == <<o, q>>
<1>1. os \in Seq(Outside) /\ Len(os) = 2 /\ os[1] = o /\ os[2] = q /\ 1 <= Len(os) /\ 1 + 1 <= Len(os)
  OBVIOUS
<1> HIDE DEF os
<1>2. SumFunctionOnSet(Gains(os, O), 1..1) = Weight(o, O)
  BY <1>1, GainedFirst
<1>3. SumFunctionOnSet(Gains(os, O), 1..2) = SumFunctionOnSet(Gains(os, O), 1..1) + Weight(q, O)
  <2>1. 1 \in Nat /\ 2 = 1 + 1 /\ 2 <= Len(os)
    BY <1>1
  <2> QED  BY <1>1, <2>1, GainsAt
<1>5. SumFunctionOnSet(Gains(os, O), 1..2) = Weight(o, O) + Weight(q, O)
  BY <1>2, <1>3
<1>6. Gained(os, O) = SumFunctionOnSet(Gains(os, O), 1..2)
  BY <1>1 DEF Gained, Gains, SumFunction
<1> QED  BY <1>1, <1>5, <1>6 DEF os

LEMMA GainedNat ==
  ASSUME NEW os \in Seq(Outside), NEW O
  PROVE  Gained(os, O) \in Nat
<1> DEFINE f == Gains(os, O)
           S == 1..Len(os)
<1>1. \A i \in S : os[i] \in Outside /\ os[i].amount \in Nat
  BY DEF Outside, Observation
<1>2. DOMAIN f = S /\ \A i \in S : f[i] \in Nat
  BY <1>1 DEF Gains
<1>3. IsFiniteSet(S)
  BY FS_Interval
<1> HIDE DEF f, S
<1>4. SumFunctionOnSet(f, S) \in Nat
  BY <1>2, <1>3, SumNat
<1> QED  BY <1>2, <1>4 DEF Gained, SumFunction, f

LEMMA GainedConcat ==
  ASSUME NEW a \in Seq(Outside), NEW b \in Seq(Outside), NEW O
  PROVE  a \o b \in Seq(Outside) /\ Gained(a \o b, O) = Gained(a, O) + Gained(b, O)
<1> DEFINE c == a \o b
           Up(n) == SumFunctionOnSet(Gains(c, O), 1..n)
           Ua(n) == SumFunctionOnSet(Gains(a, O), 1..n)
           Ub(n) == SumFunctionOnSet(Gains(b, O), 1..n)
           k == Len(a)
<1>1. /\ c \in Seq(Outside) /\ Len(c) = Len(a) + Len(b) /\ Len(a) \in Nat /\ Len(b) \in Nat
      /\ \A i \in 1..Len(a) : c[i] = a[i]
      /\ \A i \in 1..Len(b) : c[Len(a) + i] = b[i]
  OBVIOUS
<1>2. Up(k) = Gained(a, O)
  <2> DEFINE S == 1..Len(a)
             f == Gains(c, O)
             g == Gains(a, O)
  <2>1. \A i \in S : f[i] = g[i]
    BY <1>1 DEF Gains
  <2>2. IsFiniteSet(S) /\ DOMAIN g = S
    BY FS_Interval DEF Gains
  <2> HIDE DEF S, f, g
  <2>3. SumFunctionOnSet(f, S) = SumFunctionOnSet(g, S)
    BY <2>1, <2>2, SumSame
  <2> QED  BY <2>2, <2>3 DEF Gained, SumFunction, S, f, g
<1> DEFINE A == {n \in Nat : n <= Len(b) => Up(k + n) = Up(k) + Ub(n)}
<1> HIDE DEF c
<1>3. 0 \in A
  <2>1. Ub(0) = 0
    <3>1. 1..0 = {}
      OBVIOUS
    <3> QED  BY <3>1, SumOfNone
  <2>2. Up(k) \in Nat
    BY <1>2, GainedNat
  <2>3. k + 0 = k
    BY <1>1
  <2> HIDE DEF Up, Ub
  <2> QED  BY <2>1, <2>2, <2>3
<1>4. ASSUME NEW n \in Nat, n \in A PROVE n + 1 \in A
  <2> SUFFICES ASSUME n + 1 <= Len(b) PROVE Up(k + (n + 1)) = Up(k) + Ub(n + 1)
    OBVIOUS
  <2> DEFINE more == IF b[n + 1] \in O THEN b[n + 1].amount ELSE 0
  <2>1. Ub(n + 1) = Ub(n) + more /\ Ub(n) \in Nat /\ more \in Nat
    BY GainsTo
  <2>2. c[(k + n) + 1] = b[n + 1]
    <3>1. n + 1 \in 1..Len(b)
      BY <1>1
    <3>2. c[Len(a) + (n + 1)] = b[n + 1]
      BY <1>1, <3>1
    <3>3. Len(a) + (n + 1) = (k + n) + 1
      BY <1>1
    <3> QED  BY <3>2, <3>3
  <2>3. Up((k + n) + 1) = Up(k + n) + more
    <3>1. k + n \in Nat /\ (k + n) + 1 <= Len(c)
      BY <1>1
    <3>2. Up((k + n) + 1) = Up(k + n) + (IF c[(k + n) + 1] \in O THEN c[(k + n) + 1].amount ELSE 0)
      <4> HIDE DEF k
      <4> QED  BY SMTT(30), <1>1, <3>1, GainsTo
    <3> HIDE DEF Up
    <3> QED  BY <2>2, <3>2
  <2>4. Up(k + n) = Up(k) + Ub(n)
    <3>1. n <= Len(b)
      BY <1>1
    <3> HIDE DEF Up, Ub
    <3> QED  BY <1>4, <3>1
  <2>5. Up(k) \in Nat
    BY <1>2, GainedNat
  <2>6. k + (n + 1) = (k + n) + 1
    BY <1>1
  <2> HIDE DEF Up, Ub, more
  <2> QED  BY <2>1, <2>3, <2>4, <2>5, <2>6
<1>5. Nat \subseteq A
  <2> HIDE DEF A
  <2> QED  BY <1>3, <1>4, Induction
<1>6. Up(k + Len(b)) = Up(k) + Ub(Len(b))
  <2> HIDE DEF Up, Ub
  <2> QED  BY <1>1, <1>5
<1>7. Gained(b, O) = Ub(Len(b)) /\ Gained(c, O) = Up(Len(c))
  BY DEF Gained, Gains, SumFunction
<1> HIDE DEF Up, Ub
<1> QED  BY <1>1, <1>2, <1>6, <1>7 DEF c

LEMMA GainedNothing ==
  ASSUME NEW os \in Seq(Outside), NEW O, \A i \in 1..Len(os) : os[i] \notin O
  PROVE  Gained(os, O) = 0
<1> DEFINE f == Gains(os, O)
           S == 1..Len(os)
<1>1. DOMAIN f = S /\ \A i \in S : f[i] = 0
  BY DEF Gains
<1>2. IsFiniteSet(S)
  BY FS_Interval
<1> HIDE DEF f, S
<1> QED  BY <1>1, <1>2, SumOfZeros DEF Gained, SumFunction, f

(* What an observation weighs in each metric, and among the failed requests.   *)
LEMMA Weights ==
  ASSUME NEW o \in Outside
  PROVE  /\ \A m \in Others : Weight(o, Of(m)) = IF o.m = m THEN o.amount ELSE 0
         /\ o.m # "http_requests" => Weight(o, Failed) = 0
         /\ o.m = "http_requests" => Weight(o, Failed) = IF Broken(o.key) THEN o.amount ELSE 0
BY DEF Weight, Of, Failed
Watched ==
  {"stage_outcomes", "stage_duration", "leads", "leads_disputed", "scans_started",
   "scans_finished", "scan_duration", "http_requests", "http_duration"}

(* Metrics that one event feeds gain alike; what those fed along the way of   *)
(* a scan gain, the failures of its route included.                           *)
Balanced(os, started, finished, timed, failed, served) ==
  /\ os \in Seq(Outside)
  /\ Gained(os, Of("stage_outcomes")) = Gained(os, Of("stage_duration"))
  /\ Gained(os, Of("leads_disputed")) <= Gained(os, Of("leads"))
  /\ Gained(os, Of("scans_started")) = started
  /\ Gained(os, Of("scans_finished")) = finished
  /\ Gained(os, Of("scan_duration")) = timed
  /\ Gained(os, Of("http_requests")) = served
  /\ Gained(os, Of("http_duration")) = served
  /\ Gained(os, Failed) = failed

LEMMA WatchedOthers == Watched \subseteq Others
BY DEF Watched, Others, Metrics, Counters, Histograms

LEMMA BalancedConcat ==
  ASSUME NEW a, NEW s \in Nat, NEW f \in Nat, NEW z \in Nat, NEW x \in Nat, NEW d \in Nat,
         Balanced(a, s, f, z, x, d),
         NEW b, NEW t \in Nat, NEW g \in Nat, NEW w \in Nat, NEW y \in Nat, NEW e \in Nat,
         Balanced(b, t, g, w, y, e)
  PROVE  Balanced(a \o b, s + t, f + g, z + w, x + y, d + e)
<1>1. a \in Seq(Outside) /\ b \in Seq(Outside)
  BY DEF Balanced
<1>2. a \o b \in Seq(Outside) /\ \A O : Gained(a \o b, O) = Gained(a, O) + Gained(b, O)
  BY <1>1, GainedConcat
<1>3. \A O : Gained(a, O) \in Nat /\ Gained(b, O) \in Nat
  BY <1>1, GainedNat
<1> PICK c : c = a \o b
  OBVIOUS
<1>4. Gained(c, Of("stage_outcomes")) = Gained(c, Of("stage_duration"))
  BY <1>2, <1>3 DEF Balanced
<1>7. Gained(c, Of("leads_disputed")) <= Gained(c, Of("leads"))
  <2>1. /\ Gained(a, Of("leads_disputed")) <= Gained(a, Of("leads"))
        /\ Gained(b, Of("leads_disputed")) <= Gained(b, Of("leads"))
    BY DEF Balanced
  <2>2. /\ Gained(c, Of("leads")) = Gained(a, Of("leads")) + Gained(b, Of("leads"))
        /\ Gained(c, Of("leads_disputed")) = Gained(a, Of("leads_disputed")) + Gained(b, Of("leads_disputed"))
    BY <1>2
  <2>3. /\ Gained(a, Of("leads")) \in Nat /\ Gained(b, Of("leads")) \in Nat
        /\ Gained(a, Of("leads_disputed")) \in Nat /\ Gained(b, Of("leads_disputed")) \in Nat
    BY <1>3
  <2> QED  BY ONLY <2>1, <2>2, <2>3
<1>5. /\ Gained(c, Of("scans_started")) = s + t
      /\ Gained(c, Of("scans_finished")) = f + g
      /\ Gained(c, Of("scan_duration")) = z + w
  BY <1>2, <1>3 DEF Balanced
<1>6. /\ Gained(c, Of("http_requests")) = d + e
      /\ Gained(c, Of("http_duration")) = d + e
      /\ Gained(c, Failed) = x + y
  BY <1>2, <1>3 DEF Balanced
<1> QED  BY <1>2, <1>4, <1>5, <1>6, <1>7 DEF Balanced

LEMMA BalancedThen ==
  ASSUME NEW a, Balanced(a, 0, 0, 0, 0, 0),
         NEW b, NEW s \in Nat, NEW f \in Nat, NEW z \in Nat, NEW x \in Nat, NEW d \in Nat,
         Balanced(b, s, f, z, x, d)
  PROVE  Balanced(a \o b, s, f, z, x, d) /\ Balanced(b \o a, s, f, z, x, d)
<1>1. /\ Balanced(a \o b, 0 + s, 0 + f, 0 + z, 0 + x, 0 + d)
      /\ Balanced(b \o a, s + 0, f + 0, z + 0, x + 0, d + 0)
  BY BalancedConcat
<1>2. /\ 0 + s = s /\ 0 + f = f /\ 0 + z = z /\ 0 + x = x /\ 0 + d = d
      /\ s + 0 = s /\ f + 0 = f /\ z + 0 = z /\ x + 0 = x /\ d + 0 = d
  OBVIOUS
<1> QED  BY <1>1, <1>2

LEMMA UnwatchedBalanced ==
  ASSUME NEW os \in Seq(Outside), \A i \in 1..Len(os) : os[i].m \notin Watched
  PROVE  Balanced(os, 0, 0, 0, 0, 0)
<1>1. \A m \in Watched : \A i \in 1..Len(os) : os[i] \notin Of(m)
  BY DEF Of
<1>2. \A i \in 1..Len(os) : os[i] \notin Failed
  BY DEF Failed, Of, Watched
<1>3. Gained(os, Failed) = 0 /\ \A m \in Watched : Gained(os, Of(m)) = 0
  BY <1>1, <1>2, GainedNothing
<1> QED  BY <1>3 DEF Balanced, Watched

LEMMA EmptyBalanced == Balanced(<<>>, 0, 0, 0, 0, 0)
<1>1. <<>> \in Seq(Outside) /\ Len(<<>>) = 0 /\ 1..0 = {}
  OBVIOUS
<1> QED  BY <1>1, UnwatchedBalanced

LEMMA OneBalanced ==
  ASSUME NEW o \in Outside, o.m \notin Watched
  PROVE  Balanced(<<o>>, 0, 0, 0, 0, 0)
<1> DEFINE os == <<o>>
<1>1. os \in Seq(Outside) /\ Len(os) = 1 /\ os[1] = o
  OBVIOUS
<1> HIDE DEF os
<1>2. \A i \in 1..Len(os) : os[i].m \notin Watched
  BY <1>1
<1>3. Balanced(os, 0, 0, 0, 0, 0)
  BY <1>1, <1>2, UnwatchedBalanced
<1> QED  BY <1>3 DEF os

(* The observations are of metrics and labels of the program.                 *)
LEMMA ObsOutside ==
  ASSUME NEW m \in Others \ Histograms, NEW key \in Seq(Labels)
  PROVE  /\ Obs(m, key) \in Outside /\ Obs(m, key).m = m /\ Obs(m, key).key = key
         /\ Obs(m, key).amount = 1
BY DEF Obs, Outside, Observation, Others

LEMMA ObsOfOutside ==
  ASSUME NEW m \in Others \ Histograms, NEW key \in Seq(Labels), NEW n \in Nat
  PROVE  ObsOf(m, key, n) \in Outside /\ ObsOf(m, key, n).m = m
BY DEF ObsOf, Outside, Observation, Others

LEMMA TimingOutside ==
  ASSUME NEW m \in Others, NEW key \in Seq(Labels), NEW v \in Nat
  PROVE  /\ Timing(m, key, v) \in Outside /\ Timing(m, key, v).m = m
         /\ Timing(m, key, v).amount = 1
BY DEF Timing, Outside, Observation, Others

LEMMA CallLabels ==
  ASSUME NEW r \in Requests
  PROVE  /\ Call[r].template \in Labels /\ Call[r].path \in Labels /\ Call[r].method \in Labels
         /\ Call[r].target \in Labels /\ Principal(r) \in Labels
<1>1. /\ Call[r].template \in STRING /\ Call[r].path \in STRING /\ Call[r].method \in STRING
      /\ Call[r].target \in Targets /\ Call[r].principal \in Raw
  BY TelemetryAssumption
<1>2. Call[r].target \in STRING /\ Clean[Call[r].principal] \in STRING
  BY <1>1, TelemetryAssumption
<1> QED  BY <1>1, <1>2 DEF Labels, Principal

Statuses == {"200", "201", "401", "404", "405", "429", "500"}

LEMMA ServedBalanced ==
  ASSUME NEW r \in Requests, NEW status \in Statuses, NEW took \in Nat
  PROVE  \E failed \in {0, 1} :
           /\ Balanced(Served(r, status, took), 0, 0, 0, failed, 1)
           /\ status = "500" /\ Call[r].template = ScanRoute => failed = 1
<1> DEFINE route == RouteLabel(r, status)
           k == <<Call[r].method, route, status>>
           l == <<Call[r].method, route>>
           o == Obs("http_requests", k)
           q == Timing("http_duration", l, took)
           failed == IF Broken(k) THEN 1 ELSE 0
<1>1. route \in Labels /\ status \in Labels /\ Call[r].method \in Labels
  BY CallLabels DEF RouteLabel, Labels, Statuses
<1>2. k \in Seq(Labels) /\ l \in Seq(Labels)
  <2> HIDE DEF route
  <2> QED  BY <1>1
<1>a. status = "500" /\ Call[r].template = ScanRoute => failed = 1
  BY DEF Broken, RouteLabel, ScanRoute
<1>3. "http_requests" \in Others \ Histograms /\ "http_duration" \in Others
  BY DEF Others, Metrics, Counters, Histograms
<1>4. /\ o \in Outside /\ o.m = "http_requests" /\ o.key = k /\ o.amount = 1
      /\ q \in Outside /\ q.m = "http_duration" /\ q.amount = 1
  <2> HIDE DEF k, l
  <2> QED  BY <1>2, <1>3, ObsOutside, TimingOutside
<1>5. Served(r, status, took) = <<o, q>>
  BY DEF Served
<1> HIDE DEF o, q, k
<1>6. /\ <<o, q>> \in Seq(Outside)
      /\ \A O : Gained(<<o, q>>, O) = Weight(o, O) + Weight(q, O)
  BY <1>4, GainedTwo
<1>7. /\ \A m \in Watched : Weight(o, Of(m)) = (IF m = "http_requests" THEN 1 ELSE 0)
      /\ \A m \in Watched : Weight(q, Of(m)) = (IF m = "http_duration" THEN 1 ELSE 0)
      /\ Weight(o, Failed) = failed
      /\ Weight(q, Failed) = 0
  BY <1>2, <1>4, Weights, WatchedOthers
<1>8. failed \in {0, 1}
  OBVIOUS
<1> HIDE DEF failed
<1>9. /\ \A m \in Watched : Gained(<<o, q>>, Of(m)) = (IF m \in {"http_requests", "http_duration"} THEN 1 ELSE 0)
      /\ Gained(<<o, q>>, Failed) = failed
  BY <1>6, <1>7, <1>8
<1>10. Balanced(Served(r, status, took), 0, 0, 0, failed, 1)
  BY <1>5, <1>6, <1>9 DEF Balanced, Watched
<1> QED  BY <1>a, <1>8, <1>10

(* A request that ends with its answer, or without one. *)
LEMMA EndsBalanced ==
  ASSUME NEW r \in Requests, NEW took \in Nat, NEW status \in Statuses,
         NEW os, NEW f \in Nat, NEW z \in Nat, Balanced(os, 0, f, z, 0, 0)
  PROVE  \E x \in {0, 1} :
           /\ Balanced(os \o Served(r, status, took), 0, f, z, x, 1)
           /\ status = "500" /\ Call[r].template = ScanRoute => x = 1
<1>1. PICK x \in {0, 1} : /\ Balanced(Served(r, status, took), 0, 0, 0, x, 1)
                          /\ status = "500" /\ Call[r].template = ScanRoute => x = 1
  BY ServedBalanced
<1>2. Balanced(os \o Served(r, status, took), 0 + 0, f + 0, z + 0, 0 + x, 0 + 1)
  <2>1. x \in Nat /\ 0 \in Nat /\ 1 \in Nat
    OBVIOUS
  <2> QED  BY <1>1, <2>1, BalancedConcat
<1>3. 0 + 0 = 0 /\ f + 0 = f /\ z + 0 = z /\ 0 + x = x /\ 0 + 1 = 1
  OBVIOUS
<1> QED  BY <1>1, <1>2, <1>3

Kinds ==
  {"pipeline.started", "pipeline.finished", "stage.finished", "lead.added",
   "fingerprint.confidence_changed"}

LEMMA ChangedObserves ==
  ASSUME NEW kind \in Kinds
  PROVE  Balanced(<<Changed(kind)>>, 0, 0, 0, 0, 0)
<1>1. <<kind>> \in Seq(Labels)
  BY DEF Kinds, Labels
<1>2. "change_events" \in Others \ Histograms /\ "change_events" \notin Watched
  BY DEF Others, Metrics, Counters, Histograms, Watched
<1> QED  BY <1>1, <1>2, ObsOutside, OneBalanced DEF Changed

LEMMA StartObserves ==
  ASSUME NEW target \in Labels, NEW e
  PROVE  Balanced(Handle("pipeline.started", target, e), 1, 0, 0, 0, 0)
<1> DEFINE o == Obs("scans_started", <<target>>)
           m == "scans_started"
<1>1. <<target>> \in Seq(Labels) /\ m \in Others \ Histograms
  BY DEF Others, Metrics, Counters, Histograms
<1>2. o \in Outside /\ o.m = m /\ o.amount = 1
  BY <1>1, ObsOutside
<1> HIDE DEF o
<1>3. <<o>> \in Seq(Outside) /\ \A O : Gained(<<o>>, O) = Weight(o, O)
  BY <1>2, GainedOne
<1>4. (\A n \in Watched : Weight(o, Of(n)) = (IF n = m THEN 1 ELSE 0)) /\ Weight(o, Failed) = 0
  BY <1>2, Weights, WatchedOthers
<1>5. Balanced(<<o>>, 1, 0, 0, 0, 0)
  BY <1>3, <1>4 DEF Balanced, Watched
<1>6. Handle("pipeline.started", target, e) = <<Changed("pipeline.started")>> \o <<o>>
  BY DEF Handle, o
<1>7. Balanced(<<Changed("pipeline.started")>>, 0, 0, 0, 0, 0)
  BY ChangedObserves DEF Kinds
<1>8. Balanced(<<Changed("pipeline.started")>> \o <<o>>, 1, 0, 0, 0, 0)
  BY <1>5, <1>7, BalancedThen
<1> QED  BY <1>6, <1>8

LEMMA StageObserves ==
  ASSUME NEW target, NEW took \in Nat, NEW e \in StagePayload(took)
  PROVE  Balanced(Handle("stage.finished", target, e), 0, 0, 0, 0, 0)
<1>1. /\ e.slot = "ports" /\ e.outcome \in {"ok", "timeout"} /\ e.rejected \in Nat /\ e.took \in Nat
  BY DEF StagePayload
<1>2. Balanced(StageFinished("stage", e), 0, 0, 0, 0, 0)
  <2>1. CASE e.rejected > 0
    <3> DEFINE o == ObsOf("rejected", <<"stage">>, e.rejected)
    <3>1. <<"stage">> \in Seq(Labels)
      BY DEF Labels
    <3>2. "rejected" \in Others \ Histograms /\ "rejected" \notin Watched
      BY DEF Others, Metrics, Counters, Histograms, Watched
    <3>3. o \in Outside /\ o.m = "rejected"
      BY <1>1, <3>1, <3>2, ObsOfOutside
    <3> HIDE DEF o
    <3>4. Balanced(<<o>>, 0, 0, 0, 0, 0)
      BY <3>2, <3>3, OneBalanced
    <3> QED  BY <2>1, <3>4 DEF StageFinished, o
  <2>2. CASE ~(e.rejected > 0)
    <3> DEFINE o == Obs("stage_outcomes", <<e.slot, "stage", e.outcome>>)
               q == Timing("stage_duration", <<e.slot, "stage">>, e.took)
    <3>1. e.slot \in Labels /\ "stage" \in Labels /\ e.outcome \in Labels
      BY <1>1 DEF Labels
    <3>2. <<e.slot, "stage", e.outcome>> \in Seq(Labels) /\ <<e.slot, "stage">> \in Seq(Labels)
      BY <3>1
    <3>3. "stage_outcomes" \in Others \ Histograms /\ "stage_duration" \in Others
      BY DEF Others, Metrics, Counters, Histograms
    <3>4. /\ o \in Outside /\ o.m = "stage_outcomes" /\ o.amount = 1
          /\ q \in Outside /\ q.m = "stage_duration" /\ q.amount = 1
      <4>1. o \in Outside /\ o.m = "stage_outcomes" /\ o.amount = 1
        BY <3>2, <3>3, ObsOutside
      <4>2. q \in Outside /\ q.m = "stage_duration" /\ q.amount = 1
        <5> DEFINE k == <<e.slot, "stage">>
        <5>1. k \in Seq(Labels) /\ e.took \in Nat
          BY <1>1, <3>2
        <5> HIDE DEF k
        <5>2. Timing("stage_duration", k, e.took) \in Outside
              /\ Timing("stage_duration", k, e.took).m = "stage_duration"
              /\ Timing("stage_duration", k, e.took).amount = 1
          BY <3>3, <5>1, TimingOutside
        <5> QED  BY <5>2 DEF k
      <4> QED  BY <4>1, <4>2
    <3> HIDE DEF o, q
    <3>5. <<o, q>> \in Seq(Outside) /\ \A O : Gained(<<o, q>>, O) = Weight(o, O) + Weight(q, O)
      BY <3>4, GainedTwo
    <3>6. /\ \A m \in Watched : Weight(o, Of(m)) = (IF m = "stage_outcomes" THEN 1 ELSE 0)
          /\ \A m \in Watched : Weight(q, Of(m)) = (IF m = "stage_duration" THEN 1 ELSE 0)
          /\ Weight(o, Failed) = 0 /\ Weight(q, Failed) = 0
      BY <3>4, Weights, WatchedOthers
    <3>7. Balanced(<<o, q>>, 0, 0, 0, 0, 0)
      BY <3>5, <3>6 DEF Balanced, Watched
    <3> QED  BY <2>2, <3>7 DEF StageFinished, o, q
  <2> QED  BY <2>1, <2>2
<1>3. Balanced(<<Changed("stage.finished")>>, 0, 0, 0, 0, 0)
  BY ChangedObserves DEF Kinds
<1>4. Handle("stage.finished", target, e) = <<Changed("stage.finished")>> \o StageFinished("stage", e)
  BY DEF Handle
<1> QED  BY <1>2, <1>3, <1>4, BalancedThen
LEMMA LeadObserves ==
  ASSUME NEW target \in Labels, NEW disputed \in BOOLEAN
  PROVE  Balanced(Handle("lead.added", target, [disputed |-> disputed]), 0, 0, 0, 0, 0)
<1> DEFINE o == Obs("leads", <<target>>)
           q == Obs("leads_disputed", <<target>>)
           a == <<Changed("lead.added")>>
           b == <<o>>
           c == IF disputed THEN <<q>> ELSE <<>>
<1>1. <<target>> \in Seq(Labels) /\ "leads" \in Others \ Histograms /\ "leads_disputed" \in Others \ Histograms
  BY DEF Others, Metrics, Counters, Histograms
<1>2. /\ o \in Outside /\ o.m = "leads" /\ o.amount = 1
      /\ q \in Outside /\ q.m = "leads_disputed" /\ q.amount = 1
  BY <1>1, ObsOutside
<1>3. Handle("lead.added", target, [disputed |-> disputed]) = a \o (b \o c)
  BY DEF Handle
<1> HIDE DEF o, q
<1>4. b \in Seq(Outside) /\ \A O : Gained(b, O) = Weight(o, O)
  BY <1>2, GainedOne
<1>5. /\ \A m \in Watched : Weight(o, Of(m)) = (IF m = "leads" THEN 1 ELSE 0)
      /\ \A m \in Watched : Weight(q, Of(m)) = (IF m = "leads_disputed" THEN 1 ELSE 0)
      /\ Weight(o, Failed) = 0 /\ Weight(q, Failed) = 0
  BY <1>2, Weights, WatchedOthers
<1>6. /\ c \in Seq(Outside)
      /\ \A m \in Watched : Gained(c, Of(m)) = IF disputed /\ m = "leads_disputed" THEN 1 ELSE 0
      /\ Gained(c, Failed) = 0
  <2>1. CASE disputed
    <3>1. <<q>> \in Seq(Outside) /\ \A O : Gained(<<q>>, O) = Weight(q, O)
      BY <1>2, GainedOne
    <3> QED  BY <1>5, <2>1, <3>1
  <2>2. CASE ~disputed
    <3>1. <<>> \in Seq(Outside) /\ \A i \in 1..Len(<<>>) : FALSE
      OBVIOUS
    <3>2. \A O : Gained(<<>>, O) = 0
      BY <3>1, GainedNothing
    <3> QED  BY <2>2, <3>1, <3>2
  <2> QED  BY <2>1, <2>2
<1> HIDE DEF b, c
<1>7. b \o c \in Seq(Outside) /\ \A O : Gained(b \o c, O) = Gained(b, O) + Gained(c, O)
  BY <1>4, <1>6, GainedConcat
<1>8. /\ \A m \in Watched : Gained(b \o c, Of(m)) =
           (IF m = "leads" THEN 1 ELSE 0) + (IF disputed /\ m = "leads_disputed" THEN 1 ELSE 0)
      /\ Gained(b \o c, Failed) = 0
  BY <1>4, <1>5, <1>6, <1>7
<1>9. Balanced(b \o c, 0, 0, 0, 0, 0)
  BY <1>7, <1>8 DEF Balanced, Watched
<1>10. Balanced(a, 0, 0, 0, 0, 0)
  BY ChangedObserves DEF Kinds
<1> HIDE DEF a
<1> QED  BY <1>3, <1>9, <1>10, BalancedThen

LEMMA DowngradeObserves ==
  ASSUME NEW target \in Labels, NEW down \in BOOLEAN
  PROVE  Balanced(Handle("fingerprint.confidence_changed", target, [down |-> down]), 0, 0, 0, 0, 0)
<1> DEFINE o == Obs("downgrades", <<target, "failed">>)
           a == <<Changed("fingerprint.confidence_changed")>>
           b == IF down THEN <<o>> ELSE <<>>
<1>1. "failed" \in Labels
  BY DEF Labels
<1>2. <<target, "failed">> \in Seq(Labels)
  BY <1>1
<1>3. "downgrades" \in Others \ Histograms /\ "downgrades" \notin Watched
  BY DEF Others, Metrics, Counters, Histograms, Watched
<1>4. o \in Outside /\ o.m = "downgrades"
  BY <1>2, <1>3, ObsOutside
<1>5. Handle("fingerprint.confidence_changed", target, [down |-> down]) = a \o b
  BY DEF Handle
<1> HIDE DEF o
<1>6. Balanced(b, 0, 0, 0, 0, 0)
  BY <1>3, <1>4, OneBalanced, EmptyBalanced
<1>7. Balanced(a, 0, 0, 0, 0, 0)
  BY ChangedObserves DEF Kinds
<1> HIDE DEF a, b
<1> QED  BY <1>5, <1>6, <1>7, BalancedThen

(* The end of a pipeline, and the report of it that record_scan_report() reads. *)
LEMMA FinishObserves ==
  ASSUME NEW r \in Requests, NEW exhausted \in BOOLEAN
  PROVE  Balanced(Finished(r, exhausted), 0, 1, 0, 0, 0)
<1> DEFINE target == Call[r].target
           how == IF exhausted THEN "exhausted" ELSE "ok"
           k == <<target, how>>
           o == Obs("scans_finished", k)
           a == <<Changed("pipeline.finished")>>
           b == <<o>>
<1>1. how \in Labels /\ target \in Labels
  BY CallLabels DEF Labels
<1>2. k \in Seq(Labels)
  <2> HIDE DEF how, target
  <2> QED  BY <1>1
<1>3. "scans_finished" \in Others \ Histograms
  BY DEF Others, Metrics, Counters, Histograms
<1>4. Finished(r, exhausted) = a \o b
  BY DEF Finished, Handle
<1> HIDE DEF k
<1>5. o \in Outside /\ o.m = "scans_finished" /\ o.amount = 1
  BY <1>2, <1>3, ObsOutside
<1> HIDE DEF o
<1>6. b \in Seq(Outside) /\ \A O : Gained(b, O) = Weight(o, O)
  BY <1>5, GainedOne
<1>7. /\ \A m \in Watched : Weight(o, Of(m)) = (IF m = "scans_finished" THEN 1 ELSE 0)
      /\ Weight(o, Failed) = 0
  BY <1>5, Weights, WatchedOthers
<1>8. Balanced(b, 0, 1, 0, 0, 0)
  BY <1>6, <1>7 DEF Balanced, Watched
<1>9. Balanced(a, 0, 0, 0, 0, 0)
  BY ChangedObserves DEF Kinds
<1> HIDE DEF a, b
<1>10. Balanced(a \o b, 0, 1, 0, 0, 0)
  BY <1>8, <1>9, BalancedThen
<1> QED  BY <1>4, <1>10

LEMMA FallbacksObserve ==
  ASSUME NEW n \in Nat
  PROVE  Balanced([i \in 1..n |-> Obs("stage_fallbacks", <<"ports">>)], 0, 0, 0, 0, 0)
<1> DEFINE o == Obs("stage_fallbacks", <<"ports">>)
           os == [i \in 1..n |-> o]
<1>1. "ports" \in Labels
  BY DEF Labels
<1>2. <<"ports">> \in Seq(Labels)
  BY <1>1
<1>3. "stage_fallbacks" \in Others \ Histograms /\ "stage_fallbacks" \notin Watched
  BY DEF Others, Metrics, Counters, Histograms, Watched
<1>4. o \in Outside /\ o.m = "stage_fallbacks"
  BY <1>2, <1>3, ObsOutside
<1> HIDE DEF o
<1>5. os \in Seq(Outside) /\ Len(os) = n /\ \A i \in 1..Len(os) : os[i] = o
  BY <1>4
<1> HIDE DEF os
<1>6. Balanced(os, 0, 0, 0, 0, 0)
  BY <1>3, <1>4, <1>5, UnwatchedBalanced
<1> QED  BY <1>6 DEF os, o

Times(n) == IF n = 0 THEN 0 ELSE 1

LEMMA ReportObserves ==
  ASSUME NEW r \in Requests, NEW n \in Nat, NEW took \in Nat
  PROVE  Balanced(Reported(r, n, took), 0, 0, Times(n), 0, 0)
<1>1. CASE n = 0
  <2>1. Reported(r, n, took) = <<>> /\ Times(n) = 0
    BY <1>1 DEF Reported, Times
  <2> QED  BY <2>1, EmptyBalanced
<1>2. CASE n # 0
  <2> DEFINE target == Call[r].target
             q == Timing("scan_duration", <<target>>, took)
             a == <<q>>
             b == [i \in 1..(n - 1) |-> Obs("stage_fallbacks", <<"ports">>)]
  <2>1. target \in Labels
    BY CallLabels
  <2>2. <<target>> \in Seq(Labels)
    <3> HIDE DEF target
    <3> QED  BY <2>1
  <2>3. "scan_duration" \in Others
    BY DEF Others, Metrics, Counters, Histograms
  <2>4. Reported(r, n, took) = a \o b /\ Times(n) = 1
    BY <1>2 DEF Reported, Times
  <2>5. q \in Outside /\ q.m = "scan_duration" /\ q.amount = 1
    <3> DEFINE k == <<target>>
    <3>1. k \in Seq(Labels)
      BY <2>2
    <3> HIDE DEF k
    <3>2. /\ Timing("scan_duration", k, took) \in Outside
          /\ Timing("scan_duration", k, took).m = "scan_duration"
          /\ Timing("scan_duration", k, took).amount = 1
      BY <2>3, <3>1, TimingOutside
    <3> QED  BY <3>2 DEF k
  <2> HIDE DEF q
  <2>6. a \in Seq(Outside) /\ \A O : Gained(a, O) = Weight(q, O)
    BY <2>5, GainedOne
  <2>7. /\ \A m \in Watched : Weight(q, Of(m)) = (IF m = "scan_duration" THEN 1 ELSE 0)
        /\ Weight(q, Failed) = 0
    BY <2>5, Weights, WatchedOthers
  <2>8. Balanced(a, 0, 0, 1, 0, 0)
    BY <2>6, <2>7 DEF Balanced, Watched
  <2>9. Balanced(b, 0, 0, 0, 0, 0)
    <3>1. n - 1 \in Nat
      BY <1>2
    <3> QED  BY <3>1, FallbacksObserve
  <2> HIDE DEF a, b
  <2>10. Balanced(a \o b, 0, 0, 1, 0, 0)
    BY <2>8, <2>9, BalancedThen
  <2> QED  BY <2>4, <2>10
<1> QED  BY <1>1, <1>2

LEMMA ScanEndObserves ==
  ASSUME NEW r \in Requests, NEW exhausted \in BOOLEAN, NEW n \in Nat, NEW took \in Nat
  PROVE  Balanced(Finished(r, exhausted) \o Reported(r, n, took), 0, 1, Times(n), 0, 0)
<1>1. Times(n) \in Nat
  BY DEF Times
<1>2. Balanced(Finished(r, exhausted) \o Reported(r, n, took), 0 + 0, 1 + 0, 0 + Times(n), 0 + 0, 0 + 0)
  <2>1. 0 \in Nat /\ 1 \in Nat
    OBVIOUS
  <2> QED  BY <1>1, <2>1, FinishObserves, ReportObserves, BalancedConcat
<1>3. 0 + 0 = 0 /\ 1 + 0 = 1 /\ 0 + Times(n) = Times(n)
  BY <1>1
<1> QED  BY <1>2, <1>3
-------------------------------------------------------------------------------
(* The requests. Every step notes a balanced run, and moves a request as the   *)
(* run says: what ends a scan finishes it or not, times it or not, and leaves  *)
(* a 500 if it does not time it.                                               *)

Tasks(what) == {r \in Requests : task[r] = what}

TasksOK ==
  /\ DOMAIN task = Requests
  /\ IsFiniteSet(Tasks("scanning")) /\ IsFiniteSet(Tasks("done"))
  /\ \A r \in Requests : task[r] \in {"queued", "scanning"} => Call[r].template = ScanRoute

Moves(os, started, ended, finished, timed, failed, served) ==
  /\ Balanced(os, started, finished, timed, failed, served) /\ Observe(os)
  /\ timed <= finished /\ finished <= ended /\ ended <= timed + failed
  /\ TasksOK'
  /\ Cardinality(Tasks("scanning")') = Cardinality(Tasks("scanning")) + started - ended
  /\ Cardinality(Tasks("done")') = Cardinality(Tasks("done")) + served

LEMMA RequestEnds ==
  ASSUME TasksOK, NEW r \in Requests, task[r] \in {"new", "queued"},
         task' = [task EXCEPT ![r] = "done"],
         NEW x \in {0, 1}, NEW os, Balanced(os, 0, 0, 0, x, 1), Observe(os)
  PROVE  Moves(os, 0, 0, 0, 0, x, 1)
<1>1. DOMAIN task' = Requests /\ Tasks("scanning")' = Tasks("scanning")
  BY DEF Tasks, TasksOK
<1>2. Tasks("done")' = Tasks("done") \cup {r} /\ r \notin Tasks("done")
  BY DEF Tasks, TasksOK
<1>3. /\ IsFiniteSet(Tasks("done")') /\ Cardinality(Tasks("done")') = Cardinality(Tasks("done")) + 1
  BY <1>2, FS_AddElement DEF TasksOK
<1>4. Cardinality(Tasks("scanning")) \in Nat
  BY FS_CardinalityType DEF TasksOK
<1>5. TasksOK'
  BY <1>1, <1>3 DEF TasksOK
<1> QED  BY <1>1, <1>3, <1>4, <1>5 DEF Moves

LEMMA ScanningBegins ==
  ASSUME TasksOK, NEW r \in Requests, task[r] = "queued", task' = [task EXCEPT ![r] = "scanning"],
         NEW os, Balanced(os, 1, 0, 0, 0, 0), Observe(os)
  PROVE  Moves(os, 1, 0, 0, 0, 0, 0)
<1>1. DOMAIN task' = Requests /\ Tasks("done")' = Tasks("done")
  BY DEF Tasks, TasksOK
<1>2. Tasks("scanning")' = Tasks("scanning") \cup {r} /\ r \notin Tasks("scanning")
  BY DEF Tasks, TasksOK
<1>3. /\ IsFiniteSet(Tasks("scanning")')
      /\ Cardinality(Tasks("scanning")') = Cardinality(Tasks("scanning")) + 1
  BY <1>2, FS_AddElement DEF TasksOK
<1>4. Cardinality(Tasks("scanning")) \in Nat /\ Cardinality(Tasks("done")) \in Nat
  BY FS_CardinalityType DEF TasksOK
<1>5. TasksOK'
  BY <1>1, <1>3 DEF TasksOK
<1> QED  BY <1>1, <1>3, <1>4, <1>5 DEF Moves

LEMMA ScanningEnds ==
  ASSUME TasksOK, NEW r \in Requests, task[r] = "scanning", task' = [task EXCEPT ![r] = "done"],
         NEW f \in {0, 1}, NEW t \in {0, 1}, NEW x \in {0, 1}, t <= f, 1 <= t + x,
         NEW os, Balanced(os, 0, f, t, x, 1), Observe(os)
  PROVE  Moves(os, 0, 1, f, t, x, 1)
<1>1. DOMAIN task' = Requests /\ Tasks("scanning")' = Tasks("scanning") \ {r} /\ r \in Tasks("scanning")
  BY DEF Tasks, TasksOK
<1>2. Tasks("done")' = Tasks("done") \cup {r} /\ r \notin Tasks("done")
  BY DEF Tasks, TasksOK
<1>3. /\ IsFiniteSet(Tasks("done")') /\ Cardinality(Tasks("done")') = Cardinality(Tasks("done")) + 1
  BY <1>2, FS_AddElement DEF TasksOK
<1>4. /\ IsFiniteSet(Tasks("scanning")')
      /\ Cardinality(Tasks("scanning")') = Cardinality(Tasks("scanning")) - 1
  BY <1>1, FS_RemoveElement DEF TasksOK
<1>5. Cardinality(Tasks("scanning")) \in Nat
  BY FS_CardinalityType DEF TasksOK
<1>6. TasksOK'
  BY <1>1, <1>3, <1>4 DEF TasksOK
<1>7. f <= 1
  OBVIOUS
<1> QED  BY <1>1, <1>3, <1>4, <1>5, <1>6, <1>7 DEF Moves

LEMMA ScanningGoesOn ==
  ASSUME TasksOK, UNCHANGED task, NEW os, Balanced(os, 0, 0, 0, 0, 0), Observe(os)
  PROVE  Moves(os, 0, 0, 0, 0, 0, 0)
<1>1. DOMAIN task' = Requests /\ \A what : Tasks(what)' = Tasks(what)
  BY DEF Tasks, TasksOK
<1>2. Cardinality(Tasks("scanning")) \in Nat /\ Cardinality(Tasks("done")) \in Nat
  BY FS_CardinalityType DEF TasksOK
<1>3. TasksOK'
  BY <1>1 DEF TasksOK
<1> QED  BY <1>1, <1>2, <1>3 DEF Moves

Move ==
  \E os, s, e, f, t, x, d :
    /\ s \in Nat /\ e \in Nat /\ f \in Nat /\ t \in Nat /\ x \in Nat /\ d \in Nat
    /\ Moves(os, s, e, f, t, x, d)

(* A request that is not scanning ends, with one observation of its own or none. *)
LEMMA RequestMove ==
  ASSUME TasksOK, NEW r \in Requests, NEW took \in Nat, NEW status \in Statuses,
         NEW os, Balanced(os, 0, 0, 0, 0, 0), task[r] \in {"new", "queued"},
         Ends(r, os, status, took)
  PROVE  Move
<1> PICK all : all = os \o Served(r, status, took)
  OBVIOUS
<1>1. task' = [task EXCEPT ![r] = "done"] /\ Observe(all)
  BY DEF Ends, Emits
<1>2. PICK x \in {0, 1} : Balanced(all, 0, 0, 0, x, 1)
  <2>1. 0 \in Nat
    OBVIOUS
  <2> QED  BY <2>1, EndsBalanced
<1>3. Moves(all, 0, 0, 0, 0, x, 1)
  BY <1>1, <1>2, RequestEnds
<1>4. x \in Nat /\ 0 \in Nat /\ 1 \in Nat
  OBVIOUS
<1> QED  BY <1>3, <1>4 DEF Move

(* A scan ends: what did not time it leaves a 500. *)
LEMMA ScanMove ==
  ASSUME TasksOK, NEW r \in Requests, NEW took \in Nat, NEW status \in Statuses,
         NEW f \in {0, 1}, NEW t \in {0, 1}, t <= f, t = 0 => status = "500",
         NEW os, Balanced(os, 0, f, t, 0, 0), task[r] = "scanning",
         Ends(r, os, status, took)
  PROVE  Move
<1> PICK all : all = os \o Served(r, status, took)
  OBVIOUS
<1>1. task' = [task EXCEPT ![r] = "done"] /\ Observe(all)
  BY DEF Ends, Emits
<1>2. f \in Nat /\ t \in Nat
  OBVIOUS
<1>3. PICK x \in {0, 1} : /\ Balanced(all, 0, f, t, x, 1)
                          /\ status = "500" /\ Call[r].template = ScanRoute => x = 1
  BY <1>2, EndsBalanced
<1>4. Call[r].template = ScanRoute
  BY DEF TasksOK
<1>5. 1 <= t + x
  BY <1>3, <1>4
<1>6. Moves(all, 0, 1, f, t, x, 1)
  BY <1>1, <1>3, <1>5, ScanningEnds
<1>7. x \in Nat /\ 0 \in Nat /\ 1 \in Nat
  OBVIOUS
<1> QED  BY <1>2, <1>6, <1>7 DEF Move

LEMMA NextMoves ==
  ASSUME TasksOK, Next, \A r \in Requests : ~ScanQueues(r)
  PROVE  Move
<1>0. \A os : /\ Moves(os, 1, 0, 0, 0, 0, 0) => Move
              /\ Moves(os, 0, 0, 0, 0, 0, 0) => Move
  <2>1. 0 \in Nat /\ 1 \in Nat
    OBVIOUS
  <2> QED  BY <2>1 DEF Move
<1> PICK r \in Requests, took \in {0, 2} :
      \/ Unmatched(r, took) \/ Unauthenticated(r, took) \/ RateLimited(r, took)
      \/ PutEvidence(r, took)
      \/ ScanStarts(r)
      \/ \E e \in StagePayload(took) : ScanEmits(r, "stage.finished", e)
      \/ \E disputed \in BOOLEAN : ScanEmits(r, "lead.added", [disputed |-> disputed])
      \/ \E down \in BOOLEAN : ScanEmits(r, "fingerprint.confidence_changed", [down |-> down])
      \/ \E exhausted \in BOOLEAN, fallbacks \in {0, 2} : ScanEnds(r, exhausted, fallbacks, took)
      \/ \E exhausted \in BOOLEAN, n \in {0, 1, 3} : ReportBreaks(r, exhausted, n, took)
      \/ Breaks(r, took)
  BY DEF Next
<1>a. took \in Nat
  OBVIOUS
<1>b. {"401", "404", "405", "429", "201", "200", "500"} \subseteq Statuses
  BY DEF Statuses
<1>1. CASE Unmatched(r, took)
  <2>1. PICK status \in {"404", "405"} : task[r] = "new" /\ Ends(r, <<>>, status, took)
    BY <1>1 DEF Unmatched
  <2> QED  BY <1>a, <1>b, <2>1, EmptyBalanced, RequestMove
<1>2. CASE Unauthenticated(r, took)
  <2> DEFINE o == Obs("auth_failures", <<"missing">>)
  <2>1. task[r] = "new" /\ Ends(r, <<o>>, "401", took)
    BY <1>2 DEF Unauthenticated
  <2>2. "missing" \in Labels
    BY DEF Labels
  <2>3. <<"missing">> \in Seq(Labels)
    BY <2>2
  <2>4. "auth_failures" \in Others \ Histograms /\ "auth_failures" \notin Watched
    BY DEF Others, Metrics, Counters, Histograms, Watched
  <2>5. o \in Outside /\ o.m \notin Watched
    BY <2>3, <2>4, ObsOutside
  <2> HIDE DEF o
  <2> QED  BY <1>a, <1>b, <2>1, <2>5, OneBalanced, RequestMove
<1>3. CASE RateLimited(r, took)
  <2> DEFINE k == <<Principal(r), Call[r].template>>
             o == Obs("ratelimited", k)
  <2>1. task[r] = "new" /\ Ends(r, <<o>>, "429", took)
    BY <1>3 DEF RateLimited
  <2>2. Principal(r) \in Labels /\ Call[r].template \in Labels
    BY CallLabels
  <2>3. k \in Seq(Labels)
    BY <2>2
  <2>4. "ratelimited" \in Others \ Histograms /\ "ratelimited" \notin Watched
    BY DEF Others, Metrics, Counters, Histograms, Watched
  <2> HIDE DEF k
  <2>5. o \in Outside /\ o.m \notin Watched
    BY <2>3, <2>4, ObsOutside
  <2> HIDE DEF o
  <2> QED  BY <1>a, <1>b, <2>1, <2>5, OneBalanced, RequestMove
<1>4. CASE PutEvidence(r, took)
  <2> DEFINE k == <<Principal(r), "tool">>
             o == Obs("evidence", k)
  <2>1. PICK status \in {"201", "500"} : task[r] = "new" /\ Ends(r, <<o>>, status, took)
    BY <1>4 DEF PutEvidence
  <2>2. Principal(r) \in Labels /\ "tool" \in Labels
    BY CallLabels DEF Labels
  <2>3. k \in Seq(Labels)
    BY <2>2
  <2>4. "evidence" \in Others \ Histograms /\ "evidence" \notin Watched
    BY DEF Others, Metrics, Counters, Histograms, Watched
  <2> HIDE DEF k
  <2>5. o \in Outside /\ o.m \notin Watched
    BY <2>3, <2>4, ObsOutside
  <2> HIDE DEF o
  <2> QED  BY <1>a, <1>b, <2>1, <2>5, OneBalanced, RequestMove
<1>5. CASE ScanStarts(r)
  <2> PICK os : os = Handle("pipeline.started", Call[r].target, <<>>)
    OBVIOUS
  <2>1. task[r] = "queued" /\ Observe(os) /\ task' = [task EXCEPT ![r] = "scanning"]
    BY <1>5 DEF ScanStarts, Emits
  <2>2. Balanced(os, 1, 0, 0, 0, 0)
    BY CallLabels, StartObserves
  <2> QED  BY <1>0, <2>1, <2>2, ScanningBegins
<1>6. CASE \E e \in StagePayload(took) : ScanEmits(r, "stage.finished", e)
  <2> PICK e \in StagePayload(took) : ScanEmits(r, "stage.finished", e)
    BY <1>6
  <2> PICK os : os = Handle("stage.finished", Call[r].target, e)
    OBVIOUS
  <2>1. Observe(os) /\ UNCHANGED task
    BY DEF ScanEmits, Emits
  <2>2. Balanced(os, 0, 0, 0, 0, 0)
    BY <1>a, StageObserves
  <2> QED  BY <1>0, <2>1, <2>2, ScanningGoesOn
<1>7. CASE \E disputed \in BOOLEAN : ScanEmits(r, "lead.added", [disputed |-> disputed])
  <2> PICK disputed \in BOOLEAN : ScanEmits(r, "lead.added", [disputed |-> disputed])
    BY <1>7
  <2> PICK os : os = Handle("lead.added", Call[r].target, [disputed |-> disputed])
    OBVIOUS
  <2>1. Observe(os) /\ UNCHANGED task
    BY DEF ScanEmits, Emits
  <2>2. Balanced(os, 0, 0, 0, 0, 0)
    BY CallLabels, LeadObserves
  <2> QED  BY <1>0, <2>1, <2>2, ScanningGoesOn
<1>8. CASE \E down \in BOOLEAN : ScanEmits(r, "fingerprint.confidence_changed", [down |-> down])
  <2> PICK down \in BOOLEAN : ScanEmits(r, "fingerprint.confidence_changed", [down |-> down])
    BY <1>8
  <2> PICK os : os = Handle("fingerprint.confidence_changed", Call[r].target, [down |-> down])
    OBVIOUS
  <2>1. Observe(os) /\ UNCHANGED task
    BY DEF ScanEmits, Emits
  <2>2. Balanced(os, 0, 0, 0, 0, 0)
    BY CallLabels, DowngradeObserves
  <2> QED  BY <1>0, <2>1, <2>2, ScanningGoesOn
<1>9. CASE \E exhausted \in BOOLEAN, fallbacks \in {0, 2} : ScanEnds(r, exhausted, fallbacks, took)
  <2> PICK exhausted \in BOOLEAN, n \in {0, 2} : ScanEnds(r, exhausted, n, took)
    BY <1>9
  <2> PICK os : os = Finished(r, exhausted) \o Reported(r, n + 1, took)
    OBVIOUS
  <2>1. task[r] = "scanning" /\ Ends(r, os, "200", took)
    BY DEF ScanEnds
  <2>2. n + 1 \in Nat /\ Times(n + 1) = 1
    BY DEF Times
  <2>3. Balanced(os, 0, 1, Times(n + 1), 0, 0)
    <3> PICK k : k = n + 1
      OBVIOUS
    <3>1. k \in Nat /\ os = Finished(r, exhausted) \o Reported(r, k, took)
      BY <2>2
    <3> QED  BY <1>a, <3>1, ScanEndObserves
  <2>4. Balanced(os, 0, 1, 1, 0, 0)
    BY <2>2, <2>3
  <2>5. 1 \in {0, 1} /\ 1 <= 1 /\ "200" \in Statuses
    BY <1>b
  <2> QED  BY <1>a, <2>1, <2>4, <2>5, ScanMove
<1>10. CASE \E exhausted \in BOOLEAN, n \in {0, 1, 3} : ReportBreaks(r, exhausted, n, took)
  <2> PICK exhausted \in BOOLEAN, n \in {0, 1, 3} : ReportBreaks(r, exhausted, n, took)
    BY <1>10
  <2> PICK os : os = Finished(r, exhausted) \o Reported(r, n, took)
    OBVIOUS
  <2>1. task[r] = "scanning" /\ Ends(r, os, "500", took)
    BY DEF ReportBreaks
  <2>2. Balanced(os, 0, 1, Times(n), 0, 0)
    <3>1. n \in Nat
      OBVIOUS
    <3> QED  BY <1>a, <3>1, ScanEndObserves
  <2>3. 1 \in {0, 1} /\ Times(n) \in {0, 1} /\ Times(n) <= 1 /\ "500" \in Statuses
    BY <1>b DEF Times
  <2> QED  BY <1>a, <2>1, <2>2, <2>3, ScanMove
<1>11. CASE Breaks(r, took)
  <2>1. task[r] \in {"new", "queued", "scanning"} /\ Ends(r, <<>>, "500", took)
    BY <1>11 DEF Breaks
  <2>2. 0 \in {0, 1} /\ 0 <= 0
    OBVIOUS
  <2>3. CASE task[r] \in {"new", "queued"}
    BY <1>a, <1>b, <2>1, <2>3, EmptyBalanced, RequestMove
  <2>4. CASE task[r] = "scanning"
    BY <1>a, <1>b, <2>1, <2>2, <2>4, EmptyBalanced, ScanMove
  <2> QED  BY <2>1, <2>3, <2>4
<1> QED  BY <1>1, <1>2, <1>3, <1>4, <1>5, <1>6, <1>7, <1>8, <1>9, <1>10, <1>11

-------------------------------------------------------------------------------
(* The inductive invariant.                                                   *)

Kept ==
  /\ Tally(Registry, "stage_outcomes") = Tally(Registry, "stage_duration")
  /\ Tally(Registry, "leads_disputed") <= Tally(Registry, "leads")
  /\ Tally(Registry, "scan_duration") <= Tally(Registry, "scans_finished")
  /\ Tally(Registry, "scans_finished") + Cardinality(Tasks("scanning"))
       <= Tally(Registry, "scans_started")
  /\ Tally(Registry, "scans_started")
       <= Tally(Registry, "scan_duration") + Cardinality(Tasks("scanning")) + Failures(Registry)
  /\ Tally(Registry, "http_requests") = Tally(Registry, "http_duration")
  /\ Tally(Registry, "http_requests") = Cardinality(Tasks("done"))

IInv == Sound(Registry) /\ TasksOK /\ Kept

LEMMA InitInvariant == Init => IInv
<1> SUFFICES ASSUME Init PROVE IInv
  OBVIOUS
<1>1. Sound(Registry) /\ Failures(Registry) = 0 /\ \A m \in Metrics : Tally(Registry, m) = 0
  BY InitSound
<1>2. Tasks("scanning") = {} /\ Tasks("done") = {} /\ DOMAIN task = Requests
  BY DEF Init, Tasks
<1>3. IsFiniteSet({}) /\ Cardinality({}) = 0
  BY FS_EmptySet
<1>4. TasksOK
  BY <1>2, <1>3 DEF TasksOK, Init
<1>5. \A m \in Watched : Tally(Registry, m) = 0
  BY <1>1, WatchedOthers DEF Others
<1>6. Kept
  BY <1>1, <1>2, <1>3, <1>5 DEF Kept, Watched
<1> QED  BY <1>1, <1>4, <1>6 DEF IInv

LEMMA NextInvariant == IInv /\ [Next]_vars => IInv'
<1> SUFFICES ASSUME IInv, [Next]_vars PROVE IInv'
  OBVIOUS
<1>1. CASE UNCHANGED vars
  BY <1>1 DEF vars, IInv, TasksOK, Tasks, Kept, Registry
<1>2. ASSUME NEW r \in Requests, ScanQueues(r)
      PROVE  IInv'
  <2>1. TasksOK /\ task[r] = "new" /\ task' = [task EXCEPT ![r] = "queued"]
        /\ Call[r].template = ScanRoute /\ UNCHANGED <<series, capped, seen>>
    BY <1>2 DEF ScanQueues, IInv
  <2>2. DOMAIN task' = Requests /\ Tasks("scanning")' = Tasks("scanning") /\ Tasks("done")' = Tasks("done")
    BY <2>1 DEF Tasks, TasksOK
  <2>3. TasksOK'
    BY <2>1, <2>2 DEF TasksOK
  <2>4. Registry' = Registry
    BY <2>1 DEF Registry
  <2> QED  BY <2>2, <2>3, <2>4 DEF IInv, Kept
<1>3. CASE Next /\ \A r \in Requests : ~ScanQueues(r)
  <2>1. Sound(Registry) /\ TasksOK /\ Kept
    BY DEF IInv
  <2>2. PICK os, s, e, f, t, x, d :
          /\ s \in Nat /\ e \in Nat /\ f \in Nat /\ t \in Nat /\ x \in Nat /\ d \in Nat
          /\ Moves(os, s, e, f, t, x, d)
    BY <1>3, <2>1, NextMoves DEF Move
  <2>3. Balanced(os, s, f, t, x, d) /\ Observe(os) /\ os \in Seq(Outside)
    BY <2>2 DEF Moves, Balanced
  <2> PICK old : old = Registry
    OBVIOUS
  <2> PICK new : new = Registry'
    OBVIOUS
  <2>4. /\ Sound(new)
        /\ \A m \in Others : Tally(new, m) = Tally(old, m) + Gained(os, Of(m))
        /\ Failures(new) = Failures(old) + Gained(os, Failed)
    BY <2>1, <2>3, ObserveSound
  <2>5. TasksOK'
    BY <2>2 DEF Moves
  <2>6. /\ \A m \in Watched : Tally(old, m) \in Nat /\ Gained(os, Of(m)) \in Nat
        /\ Failures(old) \in Nat
    BY <2>1, <2>3, TallyNat, FailuresNat, GainedNat, WatchedOthers DEF Sound, Others
  <2>7. \A m \in Watched : Tally(new, m) = Tally(old, m) + Gained(os, Of(m))
    BY <2>4, WatchedOthers
  <2>8. /\ Cardinality(Tasks("scanning")) \in Nat /\ Cardinality(Tasks("done")) \in Nat
        /\ Cardinality(Tasks("scanning")') = Cardinality(Tasks("scanning")) + s - e
        /\ Cardinality(Tasks("done")') = Cardinality(Tasks("done")) + d
        /\ t <= f /\ f <= e /\ e <= t + x
    BY <2>1, <2>2, FS_CardinalityType DEF Moves, TasksOK
  <2> DEFINE T(m) == Tally(old, m)
             U(m) == Tally(new, m)
             G(m) == Gained(os, Of(m))
             C == Cardinality(Tasks("scanning"))
             D == Cardinality(Tasks("scanning")')
             F == Failures(old)
             H == Failures(new)
  <2>a. \A m \in Watched : U(m) = T(m) + G(m) /\ T(m) \in Nat /\ G(m) \in Nat
    BY <2>6, <2>7
  <2>b. /\ T("stage_outcomes") = T("stage_duration") /\ T("leads_disputed") <= T("leads")
        /\ T("http_requests") = T("http_duration")
        /\ T("scan_duration") <= T("scans_finished")
        /\ T("scans_finished") + C <= T("scans_started")
        /\ T("scans_started") <= T("scan_duration") + C + F
    BY <2>1 DEF Kept
  <2>c. /\ G("stage_outcomes") = G("stage_duration") /\ G("leads_disputed") <= G("leads")
        /\ G("scans_finished") = f /\ G("scan_duration") = t
        /\ G("http_requests") = d /\ G("http_duration") = d
        /\ G("scans_started") = s /\ Gained(os, Failed) = x
    BY <2>3 DEF Balanced
  <2>d. D = C + s - e /\ C \in Nat
    BY <2>8
  <2>e. /\ "stage_outcomes" \in Watched /\ "stage_duration" \in Watched /\ "leads" \in Watched
        /\ "leads_disputed" \in Watched /\ "scans_started" \in Watched /\ "scans_finished" \in Watched
        /\ "scan_duration" \in Watched /\ "http_requests" \in Watched /\ "http_duration" \in Watched
    BY DEF Watched
  <2>f. H = F + x /\ F \in Nat
    BY <2>4, <2>6, <2>c
  <2>9. /\ U("stage_outcomes") = U("stage_duration") /\ U("leads_disputed") <= U("leads")
        /\ U("http_requests") = U("http_duration")
    <3> HIDE DEF T, U, G, C, F
    <3>1. U("stage_outcomes") = U("stage_duration")
      BY ONLY <2>a, <2>b, <2>c, <2>e
    <3>2. U("leads_disputed") <= U("leads")
      BY ONLY <2>a, <2>b, <2>c, <2>e
    <3>3. U("http_requests") = U("http_duration")
      BY ONLY <2>a, <2>b, <2>c, <2>e
    <3> QED  BY <3>1, <3>2, <3>3
  <2>10. /\ U("scan_duration") <= U("scans_finished")
         /\ U("scans_finished") + D <= U("scans_started")
         /\ U("scans_started") <= U("scan_duration") + D + H
    <3> HIDE DEF T, U, G, C, D, F, H
    <3>1. /\ U("scan_duration") = T("scan_duration") + t /\ T("scan_duration") \in Nat
          /\ U("scans_finished") = T("scans_finished") + f /\ T("scans_finished") \in Nat
          /\ U("scans_started") = T("scans_started") + s /\ T("scans_started") \in Nat
      BY <2>a, <2>c, <2>e
    <3>2. U("scan_duration") <= U("scans_finished")
      BY <2>2, <2>8, <2>b, <3>1
    <3>3. U("scans_finished") + D <= U("scans_started")
      BY <2>2, <2>8, <2>b, <2>d, <3>1
    <3>4. U("scans_started") <= U("scan_duration") + D + H
      BY <2>2, <2>8, <2>b, <2>d, <2>f, <3>1
    <3> QED  BY <3>2, <3>3, <3>4
  <2>11. Tally(new, "http_requests") = Cardinality(Tasks("done")')
    BY <2>1, <2>2, <2>3, <2>6, <2>7, <2>8 DEF Balanced, Kept, Watched
  <2>12. Kept'
    BY <2>9, <2>10, <2>11 DEF Kept
  <2> QED  BY <2>4, <2>5, <2>12 DEF IInv
<1> QED  BY <1>1, <1>2, <1>3 DEF vars

(* The invariant the rest rests on: every registry a run of the routes and the *)
(* subscriber can leave is sound, and requests are counted once.               *)
THEOREM Invariance == Spec => []IInv
BY InitInvariant, NextInvariant, PTL DEF Spec

(* The cap of a metric loses and misfiles nothing: a series that has a place   *)
(* counts all that was observed under its labels, and _other the rest.         *)
THEOREM FoldingIsExactAlways == Spec => []FoldingIsExact
<1>1. IInv => FoldingIsExact
  BY SoundIsExact DEF IInv
<1> QED  BY <1>1, Invariance, PTL

(* The meta-counter says how often each metric was folded.                     *)
THEOREM FoldsAreReportedAlways == Spec => []FoldsAreReported
<1>1. IInv => FoldsAreReported
  BY SoundIsReported DEF IInv
<1> QED  BY <1>1, Invariance, PTL

LEMMA BucketsGrow ==
  ASSUME Sound(Registry), NEW m \in Histograms, NEW key \in DOMAIN series[m]
  PROVE  /\ \A i \in 1..Len(Bounds) : Cumulative(m, key)[i] <= Cumulative(m, key)[i + 1]
         /\ Cumulative(m, key)[Len(Bounds) + 1] = series[m][key].total
<1> DEFINE f == series[m][key].counts
           c == Cumulative(m, key)
<1>1. Bucketed(series[m][key])
  <2>1. Buckets(Registry) /\ Registry.series = series
    BY DEF Sound, Registry
  <2> QED  BY <2>1 DEF Buckets
<1>2. (\A i \in Slotted : f[i] \in Nat) /\ SumFunctionOnSet(f, Slotted) = series[m][key].total
  BY <1>1 DEF Bucketed
<1>3. Len(Bounds) \in Nat
  BY TelemetryAssumption
<1>4. \A i \in Slotted : c[i] = SumFunctionOnSet(f, 1..i)
  BY DEF Cumulative, Slotted
<1>5. c[Len(Bounds) + 1] = series[m][key].total
  <2>1. Len(Bounds) + 1 \in Slotted
    BY <1>3 DEF Slotted
  <2>2. c[Len(Bounds) + 1] = SumFunctionOnSet(f, 1..(Len(Bounds) + 1))
    BY <1>4, <2>1
  <2> QED  BY <1>2, <2>2 DEF Slotted
<1>6. ASSUME NEW i \in 1..Len(Bounds) PROVE c[i] <= c[i + 1]
  <2> DEFINE S == 1..(i + 1)
             R == 1..i
  <2>1. i \in Nat /\ i \in Slotted /\ i + 1 \in Slotted /\ i + 1 \in S /\ S \ {i + 1} = R
        /\ S \subseteq Slotted /\ R \subseteq Slotted
    BY <1>3 DEF Slotted
  <2>2. IsFiniteSet(1..(i + 1)) /\ IsFiniteSet(1..i)
    BY <2>1, FS_Interval
  <2>3. (\A j \in S : f[j] \in Nat) /\ (\A j \in R : f[j] \in Nat) /\ f[i + 1] \in Nat
    BY <1>2, <2>1
  <2>4. c[i] = SumFunctionOnSet(f, R) /\ c[i + 1] = SumFunctionOnSet(f, S)
    BY <1>4, <2>1
  <2>5. IsFiniteSet(S) /\ IsFiniteSet(R)
    BY <2>2
  <2> HIDE DEF f, S, R, c
  <2>6. SumFunctionOnSet(f, S) = f[i + 1] + SumFunctionOnSet(f, R)
    BY <2>1, <2>3, <2>5, SumTakes
  <2>7. SumFunctionOnSet(f, R) \in Nat
    BY <2>3, <2>5, SumNat
  <2> QED  BY <2>3, <2>4, <2>6, <2>7
<1> QED  BY <1>5, <1>6

(* Metrics one event feeds agree, whatever is folded in each; those fed along   *)
(* the way of a scan account for it wherever requests break off; and the        *)
(* buckets of a histogram grow up to its count.                                 *)
THEOREM FamiliesAgreeAlways == Spec => []FamiliesAgree
<1>1. ASSUME IInv PROVE FamiliesAgree
  <2>1. Sound(Registry) /\ Kept
    BY <1>1 DEF IInv
  <2>2. Registry.series = series /\ Registry.seen = seen
    BY DEF Registry
  <2>3. \A m : Tally(Registry, m) = Total(m)
    BY <2>2 DEF Tally, Total
  <2>4. Failures(Registry) = ScansBroken
    BY <2>2, Zenon DEF Failures, Fails, ScansBroken
  <2>5. \A m \in Histograms : \A key \in DOMAIN series[m] :
          LET c == Cumulative(m, key)
          IN /\ \A i \in 1..Len(Bounds) : c[i] <= c[i + 1]
             /\ c[Len(Bounds) + 1] = series[m][key].total
    BY <2>1, BucketsGrow
  <2>6. /\ Total("stage_outcomes") = Total("stage_duration")
        /\ Total("leads_disputed") <= Total("leads")
        /\ Total("scan_duration") <= Total("scans_finished")
        /\ Total("scans_finished") + Cardinality(Tasks("scanning")) <= Total("scans_started")
        /\ Total("scans_started")
             <= Total("scan_duration") + Cardinality(Tasks("scanning")) + Failures(Registry)
        /\ Total("http_requests") = Total("http_duration")
        /\ Total("http_requests") = Cardinality({r \in Requests : task[r] = "done"})
    BY <2>1, <2>3 DEF Kept, Tasks
  <2> QED  BY <2>4, <2>5, <2>6 DEF FamiliesAgree, Tasks
<1>2. IInv => FamiliesAgree
  BY <1>1
<1> QED  BY <1>2, Invariance, PTL
================================================================================
