----------------------- MODULE RequestHistory_proofs -----------------------
(***************************************************************************)
(* Theorems about RequestHistory, for every configuration of the policy    *)
(* and every set of results: every request is well formed and within its   *)
(* budgets, nothing is dropped that would have fitted, and an image leaves *)
(* the history only for newer ones.                                        *)
(***************************************************************************)
EXTENDS RequestHistory, FiniteSetTheorems, SequenceTheorems, TLAPS

-----------------------------------------------------------------------------
(* A set of numbers has a least one. *)
LEMMA Least ==
  ASSUME NEW T \in SUBSET Nat, T # {}
  PROVE  \E n \in T : \A m \in T : n <= m
<1> DEFINE U == {1 .. n : n \in T}
<1>1. IsWellFoundedOn(StrictSubsetOrdering(Nat), FiniteSubsetsOf(Nat))
  BY FS_StrictSubsetOrderingWellFounded
<1>2. U \subseteq FiniteSubsetsOf(Nat) /\ U # {}
  <2>1. \A n \in T : IsFiniteSet(1 .. n) /\ 1 .. n \in SUBSET Nat
    BY FS_Interval
  <2>2. U \subseteq FiniteSubsetsOf(Nat)
    BY <2>1 DEF FiniteSubsetsOf
  <2>3. QED
    BY <2>2
<1>3. PICK u \in U : \A v \in U : ~ (<<v, u>> \in StrictSubsetOrdering(Nat))
  BY <1>1, <1>2, WFMin
<1>4. PICK n \in T : u = 1 .. n
  OBVIOUS
<1>5. ASSUME NEW m \in T, m < n PROVE FALSE
  <2>1. 1 .. m \in U /\ 1 .. m \subseteq 1 .. n /\ n \in 1 .. n /\ n \notin 1 .. m
    BY <1>5
  <2>2. <<1 .. m, 1 .. n>> \in StrictSubsetOrdering(Nat)
    BY <2>1 DEF StrictSubsetOrdering
  <2>3. QED
    BY <1>3, <1>4, <2>1, <2>2
<1>6. QED
  BY <1>5

(* A bounded set of numbers has a greatest one. *)
LEMMA Greatest ==
  ASSUME NEW T \in SUBSET Nat, T # {}, NEW b \in Nat, \A m \in T : m <= b
  PROVE  \E n \in T : \A m \in T : m <= n
<1> DEFINE U == {b - m : m \in T}
<1>1. U \in SUBSET Nat /\ U # {}
  <2>1. \A m \in T : b - m \in Nat
    OBVIOUS
  <2>2. QED
    BY <2>1
<1>2. PICK u \in U : \A v \in U : u <= v
  BY <1>1, Least
<1>3. PICK n \in T : u = b - n
  OBVIOUS
<1>4. \A m \in T : b - n <= b - m
  BY <1>2, <1>3
<1>5. QED
  BY <1>4

(* Of the finite sets of a family one is minimal. *)
LEMMA Minimal ==
  ASSUME NEW S, IsFiniteSet(S), NEW F \in SUBSET (SUBSET S), F # {}
  PROVE  \E u \in F : \A v \in F : v \subseteq u => v = u
<1>1. IsWellFoundedOn(StrictSubsetOrdering(S), FiniteSubsetsOf(S))
  BY FS_StrictSubsetOrderingWellFounded
<1>2. F \subseteq FiniteSubsetsOf(S)
  BY FS_FiniteSubsetsOfFinite
<1>3. PICK u \in F : \A v \in F : ~ (<<v, u>> \in StrictSubsetOrdering(S))
  BY <1>1, <1>2, WFMin
<1>4. QED
  BY <1>3 DEF StrictSubsetOrdering

(***************************************************************************)
(* The sum of a function over a finite set, as the fold of the community   *)
(* modules computes it: a number is picked and the rest is summed.  Each   *)
(* lemma is proved by a minimal counterexample.                            *)
(***************************************************************************)
Pick(s) == CHOOSE x \in s : TRUE
Rest(s) == s \ {Pick(s)}
Sums(f, T, g) == g = [s \in SUBSET T |-> IF s = {} THEN 0 ELSE f[Pick(s)] + g[Rest(s)]]
Sum(f, S) == (CHOOSE g : Sums(f, S, g))[S]
(* SumFunction is the sum over the domain. *)
LEMMA SumFunctionIsSum ==
  ASSUME NEW f PROVE SumFunction(f) = Sum(f, DOMAIN f)
BY DEF SumFunction, SumFunctionOnSet, FoldFunctionOnSet, MapThenFoldSet, Sum, Sums, Pick, Rest

(* What is picked is in the set, and the rest is smaller. *)
LEMMA PickOne ==
  ASSUME NEW s, s # {}
  PROVE  Pick(s) \in s /\ Rest(s) \subseteq s /\ Rest(s) # s
BY DEF Pick, Rest

(* Two functions that sum in this way agree where both are defined. *)
LEMMA Agree ==
  ASSUME NEW f, NEW T, NEW U, NEW g, NEW h, Sums(f, T, g), Sums(f, U, h),
         NEW S, IsFiniteSet(S), S \subseteq T, S \subseteq U
  PROVE  g[S] = h[S]
<1> DEFINE F == {s \in SUBSET S : g[s] # h[s]}
<1> SUFFICES ASSUME F # {} PROVE FALSE
  OBVIOUS
<1>1. PICK s \in F : \A v \in F : v \subseteq s => v = s
  <2>1. F \in SUBSET (SUBSET S) /\ F # {}
    OBVIOUS
  <2> HIDE DEF F
  <2>2. QED
    BY <2>1, Minimal
<1>2. /\ g[s] = IF s = {} THEN 0 ELSE f[Pick(s)] + g[Rest(s)]
      /\ h[s] = IF s = {} THEN 0 ELSE f[Pick(s)] + h[Rest(s)]
  BY DEF Sums
<1>3. s # {}
  BY <1>2
<1>4. Rest(s) \in SUBSET S /\ Rest(s) \subseteq s /\ Rest(s) # s
  BY <1>3, PickOne
<1>5. g[Rest(s)] = h[Rest(s)]
  BY <1>1, <1>4
<1>6. QED
  BY <1>2, <1>3, <1>5

(* There is a function that sums over the subsets of a finite set. *)
LEMMA Exist ==
  ASSUME NEW f, NEW S, IsFiniteSet(S)
  PROVE  \E g : Sums(f, S, g)
<1> DEFINE F == {T \in SUBSET S : ~ \E g : Sums(f, T, g)}
<1> SUFFICES ASSUME F # {} PROVE FALSE
  OBVIOUS
<1>1. PICK T \in F : \A v \in F : v \subseteq T => v = T
  <2>1. F \in SUBSET (SUBSET S) /\ F # {}
    OBVIOUS
  <2> HIDE DEF F
  <2>2. QED
    BY <2>1, Minimal
<1> DEFINE G(u) == CHOOSE g : Sums(f, u, g)
           h == [s \in SUBSET T |-> IF s = {} THEN 0 ELSE f[Pick(s)] + G(Rest(s))[Rest(s)]]
<1>2. \A u \in SUBSET T : u # T => Sums(f, u, G(u))
  <2> SUFFICES ASSUME NEW u \in SUBSET T, u # T PROVE Sums(f, u, G(u))
    OBVIOUS
  <2>1. \E g : Sums(f, u, g)
    BY <1>1
  <2>2. QED
    BY <2>1
<1>3. ASSUME NEW u \in SUBSET T, u # T
      PROVE  G(u)[u] = h[u]
  <2>1. G(u)[u] = IF u = {} THEN 0 ELSE f[Pick(u)] + G(u)[Rest(u)]
    <3>1. Sums(f, u, G(u))
      BY <1>2, <1>3
    <3> HIDE DEF G
    <3>2. QED
      BY <3>1 DEF Sums
  <2>2. CASE u = {}
    <3> HIDE DEF G
    <3> QED BY <2>1, <2>2
  <2>3. CASE u # {}
    <3>1. Rest(u) \in SUBSET T /\ Rest(u) # T /\ Rest(u) \subseteq u
      BY <1>3, <2>3, PickOne
    <3>2. IsFiniteSet(Rest(u))
      BY <3>1, FS_Subset
    <3>3. Sums(f, u, G(u)) /\ Sums(f, Rest(u), G(Rest(u)))
      BY <1>2, <1>3, <3>1
    <3> HIDE DEF G
    <3>4. G(u)[Rest(u)] = G(Rest(u))[Rest(u)]
      BY <3>1, <3>2, <3>3, Agree
    <3>5. h[u] = f[Pick(u)] + G(Rest(u))[Rest(u)]
      BY <2>3
    <3>6. QED
      BY <2>1, <2>3, <3>4, <3>5
  <2>4. QED
    BY <2>2, <2>3
<1>4. \A s \in SUBSET T : s # {} => h[s] = f[Pick(s)] + h[Rest(s)]
  <2> SUFFICES ASSUME NEW s \in SUBSET T, s # {} PROVE h[s] = f[Pick(s)] + h[Rest(s)]
    OBVIOUS
  <2>1. Rest(s) \in SUBSET T /\ Rest(s) # T
    BY PickOne
  <2>2. G(Rest(s))[Rest(s)] = h[Rest(s)]
    BY <1>3, <2>1
  <2> HIDE DEF G
  <2>3. QED
    BY <2>2
<1>5. {} \in SUBSET T /\ h[{}] = 0
  OBVIOUS
<1>6. Sums(f, T, h)
  <2> DEFINE k == [s \in SUBSET T |-> IF s = {} THEN 0 ELSE f[Pick(s)] + h[Rest(s)]]
  <2>1. \A s \in SUBSET T : h[s] = k[s]
    <3>1. \A s \in SUBSET T : k[s] = IF s = {} THEN 0 ELSE f[Pick(s)] + h[Rest(s)]
      OBVIOUS
    <3> HIDE DEF h, k
    <3>2. QED
      BY <1>4, <1>5, <3>1
  <2>2. h = [s \in SUBSET T |-> h[s]] /\ k = [s \in SUBSET T |-> k[s]]
    OBVIOUS
  <2>3. h = k
    <3> HIDE DEF h, k
    <3> QED BY <2>1, <2>2
  <2> HIDE DEF h
  <2>4. QED
    BY <2>3 DEF Sums
<1>7. QED
  BY <1>1, <1>6

(* The empty sum. *)
LEMMA SumEmpty ==
  ASSUME NEW f PROVE Sum(f, {}) = 0
<1>1. PICK g : Sums(f, {}, g)
  BY Exist, FS_EmptySet
<1>2. Sums(f, {}, CHOOSE h : Sums(f, {}, h))
  BY <1>1
<1>3. QED
  BY <1>2 DEF Sum, Sums

(* The sum is what is picked and the sum of the rest. *)
LEMMA SumStep ==
  ASSUME NEW f, NEW S, IsFiniteSet(S), S # {}
  PROVE  Sum(f, S) = f[Pick(S)] + Sum(f, Rest(S))
<1> DEFINE G(u) == CHOOSE g : Sums(f, u, g)
<1>1. IsFiniteSet(Rest(S)) /\ Rest(S) \subseteq S
  BY PickOne, FS_Subset
<1>2. Sums(f, S, G(S)) /\ Sums(f, Rest(S), G(Rest(S)))
  BY <1>1, Exist
<1>3. Sum(f, S) = G(S)[S] /\ Sum(f, Rest(S)) = G(Rest(S))[Rest(S)]
  BY DEF Sum
<1> HIDE DEF G
<1>4. G(S)[S] = f[Pick(S)] + G(S)[Rest(S)]
  BY <1>2 DEF Sums
<1>5. G(S)[Rest(S)] = G(Rest(S))[Rest(S)]
  BY <1>1, <1>2, Agree
<1>6. QED
  BY <1>3, <1>4, <1>5

(* A sum of numbers is a number. *)
LEMMA SumNat ==
  ASSUME NEW f, NEW S, IsFiniteSet(S), \A x \in S : f[x] \in Nat
  PROVE  Sum(f, S) \in Nat
<1> DEFINE F == {T \in SUBSET S : Sum(f, T) \notin Nat}
<1> SUFFICES ASSUME F # {} PROVE FALSE
  OBVIOUS
<1>1. PICK T \in F : \A v \in F : v \subseteq T => v = T
  <2>1. F \in SUBSET (SUBSET S) /\ F # {}
    OBVIOUS
  <2> HIDE DEF F
  <2>2. QED
    BY <2>1, Minimal
<1>2. T # {}
  <2>1. Sum(f, T) \notin Nat /\ Sum(f, {}) \in Nat
    BY <1>1, SumEmpty
  <2>2. QED
    BY <2>1
<1>3. Rest(T) \subseteq T /\ Rest(T) # T /\ Pick(T) \in S
  BY <1>2, PickOne
<1>4. Sum(f, Rest(T)) \in Nat
  BY <1>1, <1>3
<1>5. Sum(f, T) = f[Pick(T)] + Sum(f, Rest(T))
  BY <1>2, SumStep, FS_Subset
<1>6. QED
  BY <1>3, <1>4, <1>5

(* Any one number may be taken out of the sum. *)
LEMMA SumWithout ==
  ASSUME NEW f, NEW S, IsFiniteSet(S), \A x \in S : f[x] \in Nat, NEW y \in S
  PROVE  Sum(f, S) = f[y] + Sum(f, S \ {y})
<1> DEFINE F == {T \in SUBSET S : \E x \in T : Sum(f, T) # f[x] + Sum(f, T \ {x})}
<1> SUFFICES ASSUME F # {} PROVE FALSE
  OBVIOUS
<1>1. PICK T \in F : \A v \in F : v \subseteq T => v = T
  <2>1. F \in SUBSET (SUBSET S) /\ F # {}
    OBVIOUS
  <2> HIDE DEF F
  <2>2. QED
    BY <2>1, Minimal
<1>2. PICK x \in T : Sum(f, T) # f[x] + Sum(f, T \ {x})
  BY <1>1
<1> DEFINE p == Pick(T)
<1>3. p \in T /\ Sum(f, T) = f[p] + Sum(f, T \ {p})
  BY PickOne, SumStep, FS_Subset DEF Rest
<1>4. x # p
  BY <1>2, <1>3
<1> HIDE DEF p
<1>5. /\ Sum(f, T \ {p}) = f[x] + Sum(f, (T \ {p}) \ {x})
      /\ Sum(f, T \ {x}) = f[p] + Sum(f, (T \ {x}) \ {p})
  <2>1. T \ {p} \in SUBSET S /\ T \ {p} # T /\ x \in T \ {p}
    BY <1>3, <1>4
  <2>2. T \ {x} \in SUBSET S /\ T \ {x} # T /\ p \in T \ {x}
    BY <1>3, <1>4
  <2>3. QED
    BY <1>1, <2>1, <2>2
<1>6. (T \ {p}) \ {x} = (T \ {x}) \ {p}
  OBVIOUS
<1>7. Sum(f, (T \ {p}) \ {x}) \in Nat
  BY SumNat, FS_Subset
<1>8. f[x] \in Nat /\ f[p] \in Nat
  BY <1>3
<1>9. QED
  BY <1>2, <1>3, <1>5, <1>6, <1>7, <1>8

(* The sum over a part is at most the sum. *)
LEMMA SumWithin ==
  ASSUME NEW g, NEW T, IsFiniteSet(T), \A x \in T : g[x] \in Nat, NEW U \in SUBSET T
  PROVE  Sum(g, U) <= Sum(g, T)
<1> DEFINE F == {W \in SUBSET T : U \subseteq W /\ ~ (Sum(g, U) <= Sum(g, W))}
<1> SUFFICES ASSUME F # {} PROVE FALSE
  OBVIOUS
<1>1. PICK W \in F : \A v \in F : v \subseteq W => v = W
  <2>1. F \in SUBSET (SUBSET T) /\ F # {}
    OBVIOUS
  <2> HIDE DEF F
  <2>2. QED
    BY <2>1, Minimal
<1>2. \A V \in SUBSET T : Sum(g, V) \in Nat
  BY SumNat, FS_Subset
<1>3. PICK x \in W : x \notin U
  <2>1. U \subseteq W /\ ~ (Sum(g, U) <= Sum(g, W)) /\ Sum(g, U) \in Nat
    BY <1>1, <1>2
  <2>2. W # U
    BY <2>1
  <2>3. QED
    BY <2>1, <2>2
<1>4. Sum(g, U) <= Sum(g, W \ {x})
  BY <1>1, <1>3
<1>5. Sum(g, W) = g[x] + Sum(g, W \ {x})
  BY <1>3, SumWithout, FS_Subset
<1>6. QED
  BY <1>1, <1>2, <1>3, <1>4, <1>5

(* A one-to-one map into a set under which the numbers are the same: the   *)
(* sum over what is mapped is at most the sum over the set.                *)
LEMMA SumInto ==
  ASSUME NEW f, NEW g, NEW S, NEW T, IsFiniteSet(T), NEW b \in Injection(S, T),
         \A x \in T : g[x] \in Nat, \A x \in S : f[x] = g[b[x]]
  PROVE  Sum(f, S) <= Sum(g, T)
<1> DEFINE Reached(U) == {b[x] : x \in U}
           F == {U \in SUBSET S : Sum(f, U) # Sum(g, Reached(U))}
<1>0. /\ b \in [S -> T] /\ \A x, y \in S : b[x] = b[y] => x = y
      /\ IsFiniteSet(S)
  BY FS_Injection DEF Injection, IsInjective
<1>1. Sum(f, S) = Sum(g, Reached(S))
  <2> SUFFICES ASSUME F # {} PROVE FALSE
    OBVIOUS
  <2>1. PICK U \in F : \A v \in F : v \subseteq U => v = U
    <3>1. F \in SUBSET (SUBSET S) /\ F # {}
      OBVIOUS
    <3> HIDE DEF F
    <3>2. QED
      BY <1>0, <3>1, Minimal
  <2>2. U # {}
    <3>1. Reached({}) = {}
      OBVIOUS
    <3>2. QED
      BY <2>1, <3>1, SumEmpty
  <2>3. PICK x \in U : TRUE
    BY <2>2
  <2>4. /\ IsFiniteSet(U) /\ IsFiniteSet(Reached(U)) /\ Reached(U) \subseteq T
        /\ b[x] \in Reached(U) /\ Reached(U) \ {b[x]} = Reached(U \ {x})
    <3>1. Reached(U) \subseteq T /\ b[x] \in Reached(U)
      BY <1>0, <2>3
    <3>2. Reached(U) \ {b[x]} = Reached(U \ {x})
      BY <1>0, <2>3
    <3>3. IsFiniteSet(U) /\ IsFiniteSet(Reached(U))
      BY <1>0, <3>1, FS_Subset
    <3>4. QED
      BY <3>1, <3>2, <3>3
  <2>5. Sum(f, U \ {x}) = Sum(g, Reached(U \ {x}))
    BY <2>1, <2>3
  <2>6. Sum(f, U) = f[x] + Sum(f, U \ {x})
    BY <1>0, <2>3, <2>4, SumWithout
  <2>7. Sum(g, Reached(U)) = g[b[x]] + Sum(g, Reached(U) \ {b[x]})
    BY <2>4, SumWithout
  <2>8. f[x] = g[b[x]]
    BY <2>3
  <2>9. QED
    BY <2>1, <2>4, <2>5, <2>6, <2>7, <2>8
<1>2. Reached(S) \subseteq T
  BY <1>0
<1>3. \A U \in SUBSET T : Sum(g, U) <= Sum(g, T)
  BY SumWithin
<1>4. QED
  BY <1>1, <1>2, <1>3

-----------------------------------------------------------------------------
(* The concatenation of sequences, as the community modules compute it.    *)

Flattens(ss, n, f) == f = [i \in 1 .. n |-> IF i = 1 THEN ss[i] ELSE f[i - 1] \o ss[i]]

(* There is a function that concatenates the first n sequences.            *)
LEMMA FlattenExists ==
  ASSUME NEW ss, NEW n \in Nat
  PROVE  \E f : Flattens(ss, n, f)
<1> DEFINE T == {k \in Nat : ~ \E f : Flattens(ss, k, f)}
<1> SUFFICES ASSUME T # {} PROVE FALSE
  OBVIOUS
<1>1. PICK k \in T : \A m \in T : k <= m
  <2>1. T \in SUBSET Nat /\ T # {}
    OBVIOUS
  <2> HIDE DEF T
  <2>2. QED
    BY <2>1, Least
<1>2. k # 0
  <2>1. Flattens(ss, 0, <<>>)
    BY DEF Flattens
  <2>2. QED
    BY <1>1, <2>1
<1>3. k - 1 \in Nat /\ k - 1 \notin T
  BY <1>1, <1>2
<1>4. PICK g : Flattens(ss, k - 1, g)
  BY <1>3
<1> DEFINE h == [i \in 1 .. k |-> IF i = 1 THEN ss[i] ELSE g[i - 1] \o ss[i]]
<1>5. \A i \in 1 .. k - 1 : h[i] = g[i]
  <2>1. \A i \in 1 .. k - 1 : g[i] = IF i = 1 THEN ss[i] ELSE g[i - 1] \o ss[i]
    BY <1>4 DEF Flattens
  <2>2. \A i \in 1 .. k - 1 : h[i] = IF i = 1 THEN ss[i] ELSE g[i - 1] \o ss[i]
    BY <1>1
  <2>3. QED
    BY <2>1, <2>2
<1> DEFINE e == [i \in 1 .. k |-> IF i = 1 THEN ss[i] ELSE h[i - 1] \o ss[i]]
<1>6. \A i \in 1 .. k : h[i] = e[i]
  <2> SUFFICES ASSUME NEW i \in 1 .. k PROVE h[i] = e[i]
    OBVIOUS
  <2>1. CASE i = 1
    BY <2>1
  <2>2. CASE i # 1
    <3>1. i - 1 \in 1 .. k - 1
      BY <2>2, <1>1
    <3>2. h[i - 1] = g[i - 1]
      BY <3>1, <1>5
    <3>3. h[i] = g[i - 1] \o ss[i]
      BY <2>2
    <3>4. e[i] = h[i - 1] \o ss[i]
      <4> HIDE DEF h
      <4> QED BY <2>2
    <3>5. QED
      BY <3>2, <3>3, <3>4
  <2>3. QED
    BY <2>1, <2>2
<1>7. h = e
  <2>1. h = [i \in 1 .. k |-> h[i]] /\ e = [i \in 1 .. k |-> e[i]]
    OBVIOUS
  <2> HIDE DEF h, e
  <2>2. QED
    BY <1>6, <2>1
<1>8. Flattens(ss, k, h)
  <2> HIDE DEF h
  <2> QED BY <1>7 DEF Flattens
<1>9. QED
  BY <1>1, <1>8

(* What the concatenation of sequences is made of.                         *)
LEMMA FlattenRange ==
  ASSUME NEW S, NEW ss \in Seq(Seq(S))
  PROVE  /\ FlattenSeq(ss) \in Seq(S)
         /\ Range(FlattenSeq(ss)) = UNION {Range(ss[i]) : i \in DOMAIN ss}
<1>1. CASE Len(ss) = 0
  <2>1. ss = <<>> /\ DOMAIN ss = {}
    BY <1>1
  <2>2. FlattenSeq(ss) = <<>>
    BY <1>1, <2>1 DEF FlattenSeq
  <2>3. Range(<<>>) = {}
    BY DEF Range
  <2>4. UNION {Range(ss[i]) : i \in DOMAIN ss} = {}
    BY <2>1, Zenon
  <2>5. QED
    BY <2>2, <2>3, <2>4
<1>2. CASE Len(ss) # 0
  <2> DEFINE n == Len(ss)
             f == CHOOSE g : Flattens(ss, n, g)
  <2>1. n \in Nat /\ n >= 1 /\ DOMAIN ss = 1 .. n /\ \A j \in 1 .. n : ss[j] \in Seq(S)
    BY <1>2
  <2>2. Flattens(ss, n, f)
    BY <2>1, FlattenExists
  <2>3. FlattenSeq(ss) = f[n]
    BY <1>2 DEF FlattenSeq, Flattens
  <2> DEFINE pieces(i) == UNION {Range(ss[j]) : j \in 1 .. i}
             good(i) == f[i] \in Seq(S) /\ Range(f[i]) = pieces(i)
             T == {i \in 1 .. n : ~ good(i)}
  <2> HIDE DEF f, n
  <2>4. \A i \in 1 .. n : f[i] = IF i = 1 THEN ss[i] ELSE f[i - 1] \o ss[i]
    BY <2>2 DEF Flattens
  <2>5. good(1)
    <3>1. f[1] = ss[1] /\ ss[1] \in Seq(S)
      BY <2>1, <2>4
    <3>2. {Range(ss[j]) : j \in 1 .. 1} = {Range(ss[1])}
      OBVIOUS
    <3>3. QED
      BY <3>1, <3>2
  <2>6. ASSUME NEW i \in 1 .. n, i # 1, good(i - 1)
        PROVE  good(i)
    <3>1. f[i] = f[i - 1] \o ss[i] /\ ss[i] \in Seq(S) /\ f[i - 1] \in Seq(S)
      BY <2>1, <2>4, <2>6, Zenon
    <3>2. f[i] \in Seq(S)
      BY <3>1
    <3>3. Range(f[i]) = Range(f[i - 1]) \cup Range(ss[i])
      BY <3>1, RangeConcatenation
    <3>4. 1 .. i = (1 .. i - 1) \cup {i}
      BY <2>1
    <3>5. pieces(i) = pieces(i - 1) \cup Range(ss[i])
      BY <3>4, Zenon
    <3> HIDE DEF pieces
    <3>6. QED
      BY <2>6, <3>2, <3>3, <3>5
  <2> HIDE DEF good
  <2>7. T = {}
    <3> SUFFICES ASSUME T # {} PROVE FALSE
      OBVIOUS
    <3>1. PICK i \in T : \A m \in T : i <= m
      <4>1. T \in SUBSET Nat /\ T # {}
        BY <2>1
      <4> HIDE DEF T
      <4>2. QED
        BY <4>1, Least
    <3>2. i \in 1 .. n /\ ~ good(i)
      OBVIOUS
    <3>3. i # 1
      BY <2>5, <3>2
    <3>4. i - 1 \in 1 .. n /\ i - 1 \notin T
      BY <2>1, <3>1, <3>2, <3>3
    <3>5. good(i - 1)
      BY <3>4
    <3>6. QED
      BY <2>6, <3>2, <3>3, <3>5
  <2>8. good(n)
    BY <2>1, <2>7
  <2> USE DEF good
  <2>9. QED
    BY <2>1, <2>3, <2>8
<1>3. QED
  BY <1>1, <1>2

-----------------------------------------------------------------------------
(* Messages and their images.                                              *)

ImageRecord == [size : Nat, shown : BOOLEAN]
Kinds == {"system", "task", "user", "feedback", "assistant", "tool", "images", "summary"}
Message == [kind : Kinds, size : Nat, core : Nat, fills : BOOLEAN, images : Seq(ImageRecord)]

(* What a message consists of.                                             *)
LEMMA MessageFields ==
  ASSUME NEW request \in Seq(Message), NEW i \in DOMAIN request
  PROVE  /\ i \in 1 .. Len(request) /\ request[i] \in Message
         /\ request[i].size \in Nat /\ request[i].images \in Seq(ImageRecord)
         /\ DOMAIN request[i].images = 1 .. Len(request[i].images)
         /\ Len(request[i].images) \in Nat
         /\ \A j \in DOMAIN request[i].images : request[i].images[j] \in ImageRecord
<1>1. i \in 1 .. Len(request) /\ request[i] \in Message
  OBVIOUS
<1>2. request[i].size \in Nat /\ request[i].images \in Seq(ImageRecord)
  BY <1>1 DEF Message
<1>3. QED
  BY <1>1, <1>2

(* What a place is.                                                        *)
LEMMA PlaceForm ==
  ASSUME NEW request \in Seq(Message), NEW p
  PROVE  p \in Places(request) <=> /\ p = <<p[1], p[2]>>
                                   /\ p[1] \in DOMAIN request
                                   /\ p[2] \in DOMAIN request[p[1]].images
<1>1. p \in Places(request) <=>
        \E i \in DOMAIN request : \E j \in DOMAIN request[i].images : p = <<i, j>>
  BY DEF Places
<1>2. QED
  BY <1>1

(* A place is a pair of numbers with an image.                             *)
LEMMA PlaceFacts ==
  ASSUME NEW request \in Seq(Message), NEW p \in Places(request)
  PROVE  /\ p = <<p[1], p[2]>> /\ p[1] \in Nat /\ p[2] \in Nat
         /\ Image(request, p) \in ImageRecord /\ Image(request, p).size \in Nat
<1>1. p = <<p[1], p[2]>> /\ p[1] \in DOMAIN request /\ p[2] \in DOMAIN request[p[1]].images
  BY PlaceForm
<1>2. Image(request, p) \in ImageRecord /\ p[1] \in Nat /\ p[2] \in Nat
  BY <1>1, MessageFields DEF Image
<1>3. QED
  BY <1>1, <1>2 DEF ImageRecord

(* A request has finitely many images.                                     *)
LEMMA PlacesFinite ==
  ASSUME NEW request \in Seq(Message)
  PROVE  IsFiniteSet(Places(request))
<1> DEFINE D == DOMAIN request
           f == [i \in D |-> {i} \X DOMAIN request[i].images]
           R == {{i} \X DOMAIN request[i].images : i \in D}
<1>1. IsFiniteSet(D)
  BY FS_Interval
<1>2. f \in Surjection(D, R)
  BY DEF Surjection
<1>3. IsFiniteSet(R)
  <2> HIDE DEF D, f, R
  <2> QED BY <1>1, <1>2, FS_Surjection
<1>4. \A i \in D : IsFiniteSet({i} \X DOMAIN request[i].images)
  <2> SUFFICES ASSUME NEW i \in D PROVE IsFiniteSet({i} \X DOMAIN request[i].images)
    OBVIOUS
  <2>1. DOMAIN request[i].images = 1 .. Len(request[i].images) /\ Len(request[i].images) \in Nat
    BY MessageFields
  <2>2. IsFiniteSet(DOMAIN request[i].images)
    BY <2>1, FS_Interval
  <2>3. QED
    BY <2>2, FS_Singleton, FS_Product
<1>5. IsFiniteSet(UNION R)
  <2>1. \A T \in R : IsFiniteSet(T)
    BY <1>4
  <2> HIDE DEF R
  <2>2. QED
    BY <1>3, <2>1, FS_UNION
<1>6. QED
  BY <1>5 DEF Places

(* Images that go one to one into the images of another request, each to   *)
(* one of its size, weigh at most as much.                                 *)
LEMMA BytesInto ==
  ASSUME NEW first, NEW S, NEW second \in Seq(Message), NEW T \in SUBSET Places(second),
         NEW b \in Injection(S, T),
         \A p \in S : Image(first, p).size = Image(second, b[p]).size
  PROVE  Bytes(first, S) <= Bytes(second, T)
<1> DEFINE f == [p \in S |-> Image(first, p).size]
           g == [p \in T |-> Image(second, p).size]
<1>1. IsFiniteSet(T) /\ b \in [S -> T]
  BY PlacesFinite, FS_Subset DEF Injection
<1>2. \A p \in T : g[p] \in Nat
  BY PlaceFacts
<1>3. \A p \in S : f[p] = g[b[p]]
  BY <1>1
<1>4. Sum(f, S) <= Sum(g, T)
  <2> HIDE DEF f, g
  <2> QED BY <1>1, <1>2, <1>3, SumInto
<1>5. Bytes(first, S) = Sum(f, S) /\ Bytes(second, T) = Sum(g, T)
  <2>1. DOMAIN f = S /\ DOMAIN g = T
    OBVIOUS
  <2>2. Bytes(first, S) = SumFunction(f) /\ Bytes(second, T) = SumFunction(g)
    BY DEF Bytes
  <2> HIDE DEF f, g
  <2>3. QED
    BY <2>1, <2>2, SumFunctionIsSum
<1>6. QED
  BY <1>4, <1>5

(* Images weigh a number of bytes, and a part of them at most as much,     *)
(* also in a request that differs only in other things.                    *)
LEMMA BytesWithin ==
  ASSUME NEW first, NEW second \in Seq(Message), NEW T \in SUBSET Places(second),
         NEW S \in SUBSET T, \A p \in S : Image(first, p).size = Image(second, p).size
  PROVE  Bytes(first, S) <= Bytes(second, T) /\ Cardinality(S) <= Cardinality(T)
<1> DEFINE b == [p \in S |-> p]
<1>1. b \in Injection(S, T) /\ \A p \in S : Image(first, p).size = Image(second, b[p]).size
  BY DEF Injection, IsInjective
<1>2. IsFiniteSet(T)
  BY PlacesFinite, FS_Subset
<1>3. Bytes(first, S) <= Bytes(second, T)
  <2> HIDE DEF b
  <2> QED BY <1>1, BytesInto
<1>4. QED
  BY <1>2, <1>3, FS_Subset

(* The sizes and their comparison are those of numbers.                    *)
LEMMA BytesNat ==
  ASSUME NEW request \in Seq(Message), NEW T \in SUBSET Places(request)
  PROVE  /\ Bytes(request, T) \in Nat /\ Cardinality(T) \in Nat /\ IsFiniteSet(T)
<1> DEFINE g == [p \in T |-> Image(request, p).size]
<1>1. IsFiniteSet(T)
  BY PlacesFinite, FS_Subset
<1>2. DOMAIN g = T /\ \A p \in T : g[p] \in Nat
  BY PlaceFacts
<1>3. Bytes(request, T) = SumFunction(g)
  BY DEF Bytes
<1> HIDE DEF g
<1>4. Bytes(request, T) \in Nat
  BY <1>1, <1>2, <1>3, SumFunctionIsSum, SumNat
<1>5. QED
  BY <1>1, <1>4, FS_CardinalityType

-----------------------------------------------------------------------------
(* What pruning and growing do to the images.                              *)

(* The images since one are among those there are.                         *)
LEMMA SinceWithin ==
  ASSUME NEW p, NEW T, NEW S \in SUBSET T
  PROVE  Since(p, S) \subseteq S /\ Since(p, S) \subseteq Since(p, T)
BY DEF Since

(* An image is among those since it.                                       *)
LEMMA SinceItself ==
  ASSUME NEW request \in Seq(Message), NEW S \in SUBSET Places(request), NEW p \in S
  PROVE  p \in Since(p, S)
<1>1. p[2] \in Nat
  BY PlaceFacts
<1>2. QED
  BY <1>1 DEF Since

(* Pruning changes which images are shown, and nothing else.               *)
LEMMA PrunedMessage ==
  ASSUME NEW request \in Seq(Message), NEW max, NEW i \in DOMAIN request
  PROVE  LET m == Pruned(request, max)[i]
         IN  /\ m \in Message
             /\ m.kind = request[i].kind /\ m.size = request[i].size
             /\ m.core = request[i].core /\ m.fills = request[i].fills
             /\ DOMAIN m.images = DOMAIN request[i].images
             /\ \A j \in DOMAIN request[i].images :
                  m.images[j] = [size  |-> request[i].images[j].size,
                                 shown |-> <<i, j>> \in Kept(request, max)]
<1> DEFINE old == request[i]
           kept == Kept(request, max)
           new == [old EXCEPT !.images =
                     [j \in DOMAIN @ |-> [@[j] EXCEPT !.shown = <<i, j>> \in kept]]]
<1>1. Pruned(request, max)[i] = new
  BY DEF Pruned
<1>2. /\ old \in Message /\ DOMAIN old.images = 1 .. Len(old.images) /\ Len(old.images) \in Nat
      /\ \A j \in DOMAIN old.images : old.images[j] \in ImageRecord
  BY MessageFields
<1> HIDE DEF kept, old
<1> DEFINE images == [j \in DOMAIN old.images |->
                        [old.images[j] EXCEPT !.shown = <<i, j>> \in kept]]
<1>3. \A j \in DOMAIN old.images :
        images[j] = [size |-> old.images[j].size, shown |-> <<i, j>> \in kept]
  BY <1>2, Zenon DEF ImageRecord
<1>4. \A j \in DOMAIN old.images : images[j] \in ImageRecord
  <2> SUFFICES ASSUME NEW j \in DOMAIN old.images PROVE images[j] \in ImageRecord
    OBVIOUS
  <2>1. old.images[j].size \in Nat
    BY <1>2 DEF ImageRecord
  <2>2. (<<i, j>> \in kept) \in BOOLEAN
    OBVIOUS
  <2>3. \A n \in Nat, b \in BOOLEAN : [size |-> n, shown |-> b] \in ImageRecord
    BY DEF ImageRecord
  <2> HIDE DEF images
  <2>4. QED
    BY <1>3, <2>1, <2>2, <2>3, Zenon
<1>5. images \in Seq(ImageRecord) /\ DOMAIN images = DOMAIN old.images
  <2>1. DOMAIN images = DOMAIN old.images /\ images = [j \in 1 .. Len(old.images) |-> images[j]]
    BY <1>2
  <2> HIDE DEF images
  <2>2. QED
    BY <1>2, <1>4, <2>1
<1>6. new = [old EXCEPT !.images = images]
  OBVIOUS
<1> HIDE DEF images
<1>7. /\ new \in Message /\ new.images = images
      /\ new.kind = old.kind /\ new.size = old.size
      /\ new.core = old.core /\ new.fills = old.fills
  <2> HIDE DEF new
  <2> QED BY <1>2, <1>5, <1>6 DEF Message
<1> HIDE DEF new
<1>8. QED
  BY <1>1, <1>3, <1>5, <1>7 DEF old, kept

(* Pruning keeps the messages, their places and the sizes of their images; *)
(* what it keeps is what is shown afterwards.                              *)
LEMMA PrunedRequest ==
  ASSUME NEW request \in Seq(Message), NEW max
  PROVE  LET pruned == Pruned(request, max)
         IN  /\ pruned \in Seq(Message) /\ DOMAIN pruned = DOMAIN request
             /\ Places(pruned) = Places(request)
             /\ \A p \in Places(request) : Image(pruned, p).size = Image(request, p).size
             /\ Shown(pruned) = Kept(request, max)
<1> DEFINE pruned == Pruned(request, max)
<1>1. DOMAIN pruned = DOMAIN request
  BY DEF Pruned
<1>2. pruned \in Seq(Message)
  <2>1. \A i \in 1 .. Len(request) : pruned[i] \in Message
    BY PrunedMessage
  <2>2. pruned = [i \in 1 .. Len(request) |-> pruned[i]]
    BY DEF Pruned
  <2> HIDE DEF pruned
  <2>3. QED
    BY <2>1, <2>2
<1>3. \A i \in DOMAIN request : DOMAIN pruned[i].images = DOMAIN request[i].images
  BY PrunedMessage
<1>4. \A p : p \in Places(pruned) <=> p \in Places(request)
  <2> HIDE DEF pruned
  <2> QED BY <1>1, <1>2, <1>3, PlaceForm, Zenon
<1>5. Places(pruned) = Places(request)
  <2> HIDE DEF pruned
  <2> QED BY <1>4
<1>6. ASSUME NEW p \in Places(request)
      PROVE  Image(pruned, p) = [size  |-> Image(request, p).size,
                                 shown |-> p \in Kept(request, max)]
  <2>1. /\ p = <<p[1], p[2]>>
        /\ p[1] \in DOMAIN request /\ p[2] \in DOMAIN request[p[1]].images
    BY PlaceForm
  <2>2. pruned[p[1]].images[p[2]] =
          [size |-> request[p[1]].images[p[2]].size, shown |-> <<p[1], p[2]>> \in Kept(request, max)]
    BY <2>1, PrunedMessage
  <2> HIDE DEF pruned
  <2>3. QED
    BY <2>1, <2>2 DEF Image
<1>7. \A p \in Places(request) : Image(pruned, p).size = Image(request, p).size
  BY <1>6
<1>8. Shown(pruned) = Kept(request, max)
  <2>1. Kept(request, max) \subseteq Places(request)
    BY DEF Kept, Shown
  <2>2. \A p \in Places(request) : Image(pruned, p).shown <=> p \in Kept(request, max)
    <3>1. \A n, r : \A b \in BOOLEAN : r = [size |-> n, shown |-> b] => (r.shown <=> b)
      OBVIOUS
    <3>2. \A p \in Places(request) : (p \in Kept(request, max)) \in BOOLEAN
      OBVIOUS
    <3> HIDE DEF pruned
    <3>3. QED
      BY <1>6, <3>1, <3>2, Zenon
  <2> HIDE DEF pruned
  <2>3. QED
    BY <1>5, <2>1, <2>2 DEF Shown
<1>9. QED
  BY <1>1, <1>2, <1>5, <1>7, <1>8

(* What NewestImagesKept says of a history.                                *)
OverfullSince(request, q) ==
  LET since == Since(q, Places(request))
  IN  Cardinality(since) > 2 \/ Bytes(request, since) > ImageBudget
NewestKept(request) ==
  \A p \in Places(request) \ Shown(request) :
    \E q \in Since(p, Places(request)) : OverfullSince(request, q)

(* A history that became longer has as many and as heavy images since.     *)
LEMMA OverfullStays ==
  ASSUME NEW first \in Seq(Message), NEW second \in Seq(Message),
         Places(first) \subseteq Places(second),
         \A p \in Places(first) : Image(first, p).size = Image(second, p).size,
         NEW q, OverfullSince(first, q)
  PROVE  OverfullSince(second, q)
<1> DEFINE S == Since(q, Places(first))
           T == Since(q, Places(second))
<1>1. S \subseteq T /\ T \subseteq Places(second) /\ S \subseteq Places(first)
  BY SinceWithin
<1>2. Bytes(first, S) <= Bytes(second, T) /\ Cardinality(S) <= Cardinality(T)
  <2> HIDE DEF S, T
  <2> QED BY <1>1, BytesWithin
<1>3. /\ Bytes(first, S) \in Nat /\ Cardinality(S) \in Nat
      /\ Bytes(second, T) \in Nat /\ Cardinality(T) \in Nat
  <2> HIDE DEF S, T
  <2> QED BY <1>1, BytesNat
<1>4. Cardinality(S) > 2 \/ Bytes(first, S) > ImageBudget
  BY DEF OverfullSince
<1>5. ImageBudget \in Nat
  BY HistoryAssumption
<1> HIDE DEF S, T
<1>6. Cardinality(T) > 2 \/ Bytes(second, T) > ImageBudget
  BY <1>2, <1>3, <1>4, <1>5
<1>7. QED
  BY <1>6 DEF OverfullSince, T

(* Pruning to two images hides only images that newer ones push out.       *)
LEMMA PrunedKeepsNewest ==
  ASSUME NEW request \in Seq(Message), NewestKept(request)
  PROVE  NewestKept(Pruned(request, 2))
<1> DEFINE pruned == Pruned(request, 2)
           P == Places(request)
<1>1. /\ pruned \in Seq(Message) /\ Places(pruned) = P
      /\ \A p \in P : Image(pruned, p).size = Image(request, p).size
      /\ Shown(pruned) = Kept(request, 2)
  BY PrunedRequest
<1> HIDE DEF pruned
<1>2. ASSUME NEW q, OverfullSince(request, q)
      PROVE  OverfullSince(pruned, q)
  BY <1>1, <1>2, OverfullStays
<1>3. Shown(request) \subseteq P
  BY DEF Shown
<1>4. ASSUME NEW p \in P, p \notin Kept(request, 2)
      PROVE  \E q \in Since(p, P) : OverfullSince(pruned, q)
  <2>1. CASE p \notin Shown(request)
    BY <1>2, <2>1 DEF NewestKept
  <2>2. CASE p \in Shown(request)
    <3> DEFINE S == Since(p, Shown(request))
               T == Since(p, P)
    <3>1. S \subseteq T /\ T \subseteq P
      BY <1>3, SinceWithin
    <3>2. Bytes(request, S) <= Bytes(request, T) /\ Cardinality(S) <= Cardinality(T)
      <4> HIDE DEF S, T
      <4> QED BY <3>1, BytesWithin
    <3>3. /\ Bytes(request, S) \in Nat /\ Cardinality(S) \in Nat
          /\ Bytes(request, T) \in Nat /\ Cardinality(T) \in Nat
      <4> HIDE DEF S, T
      <4> QED BY <3>1, BytesNat
    <3>4. ~ (Cardinality(S) <= 2 /\ Bytes(request, S) <= ImageBudget)
      BY <1>4, <2>2 DEF Kept
    <3>5. p \in T
      BY SinceItself
    <3>6. ImageBudget \in Nat
      BY HistoryAssumption
    <3> HIDE DEF S, T
    <3>7. Cardinality(T) > 2 \/ Bytes(request, T) > ImageBudget
      BY <3>2, <3>3, <3>4, <3>6
    <3>8. OverfullSince(request, p)
      BY <3>7 DEF OverfullSince, T
    <3>9. QED
      BY <1>2, <3>5, <3>8 DEF T
  <2>3. QED
    BY <2>1, <2>2
<1>5. QED
  BY <1>1, <1>4 DEF NewestKept, pruned

(* What is added to a history comes with its images shown.                 *)
Fresh(added) == \A p \in Places(added) : Image(added, p).shown

(* A history that grows keeps its images where they are.                   *)
LEMMA GrownRequest ==
  ASSUME NEW request \in Seq(Message), NEW added \in Seq(Message)
  PROVE  LET grown == request \o added
         IN  /\ grown \in Seq(Message)
             /\ \A p \in Places(request) :
                  p \in Places(grown) /\ Image(grown, p) = Image(request, p)
             /\ \A p \in Places(grown) \ Places(request) :
                  \E q \in Places(added) : Image(grown, p) = Image(added, q)
<1> DEFINE grown == request \o added
           n == Len(request)
<1>1. /\ grown \in Seq(Message) /\ n \in Nat /\ Len(added) \in Nat
      /\ Len(grown) = n + Len(added) /\ DOMAIN grown = 1 .. n + Len(added)
      /\ DOMAIN request = 1 .. n /\ DOMAIN added = 1 .. Len(added)
      /\ \A i \in 1 .. n : grown[i] = request[i]
      /\ \A i \in 1 .. Len(added) : grown[n + i] = added[i]
  OBVIOUS
<1> HIDE DEF grown, n
<1>2. \A p \in Places(request) : p \in Places(grown) /\ Image(grown, p) = Image(request, p)
  <2> SUFFICES ASSUME NEW p \in Places(request)
               PROVE  p \in Places(grown) /\ Image(grown, p) = Image(request, p)
    OBVIOUS
  <2>1. p = <<p[1], p[2]>> /\ p[1] \in DOMAIN request /\ p[2] \in DOMAIN request[p[1]].images
    BY PlaceForm
  <2>2. p[1] \in DOMAIN grown /\ grown[p[1]] = request[p[1]]
    BY <1>1, <2>1
  <2>3. QED
    BY <1>1, <2>1, <2>2, PlaceForm DEF Image
<1>3. ASSUME NEW p \in Places(grown) \ Places(request)
      PROVE  \E q \in Places(added) : Image(grown, p) = Image(added, q)
  <2>1. p = <<p[1], p[2]>> /\ p[1] \in 1 .. n + Len(added) /\ p[2] \in DOMAIN grown[p[1]].images
    BY <1>1, PlaceForm
  <2>2. p[1] \notin 1 .. n
    BY <1>1, <2>1, PlaceForm
  <2> DEFINE i == p[1] - n
             q == <<i, p[2]>>
  <2>3. i \in 1 .. Len(added) /\ p[1] = n + i
    BY <1>1, <2>1, <2>2
  <2>4. grown[p[1]] = added[i]
    BY <1>1, <2>3
  <2>5. q[1] = i /\ q[2] = p[2]
    OBVIOUS
  <2> HIDE DEF i
  <2>6. q \in Places(added) /\ Image(grown, p) = Image(added, q)
    BY <1>1, <2>1, <2>3, <2>4, <2>5, PlaceForm DEF Image
  <2>7. QED
    BY <2>6
<1>4. QED
  BY <1>1, <1>2, <1>3 DEF grown

(* A history that grows by what comes with its images shown hides none.    *)
LEMMA GrownKeepsNewest ==
  ASSUME NEW request \in Seq(Message), NEW added \in Seq(Message), Fresh(added),
         NewestKept(request)
  PROVE  NewestKept(request \o added)
<1> DEFINE grown == request \o added
<1>1. /\ grown \in Seq(Message)
      /\ \A p \in Places(request) : p \in Places(grown) /\ Image(grown, p) = Image(request, p)
      /\ \A p \in Places(grown) \ Places(request) :
           \E q \in Places(added) : Image(grown, p) = Image(added, q)
  BY GrownRequest
<1> HIDE DEF grown
<1>2. ASSUME NEW p \in Places(grown), p \notin Shown(grown)
      PROVE  p \in Places(request) /\ p \notin Shown(request)
  <2>1. ~ Image(grown, p).shown
    BY <1>2 DEF Shown
  <2>2. p \in Places(request)
    BY <1>1, <2>1 DEF Fresh
  <2>3. QED
    BY <1>1, <2>1, <2>2 DEF Shown
<1>3. ASSUME NEW p \in Places(grown), p \notin Shown(grown)
      PROVE  \E q \in Since(p, Places(grown)) : OverfullSince(grown, q)
  <2>1. PICK q \in Since(p, Places(request)) : OverfullSince(request, q)
    BY <1>2, <1>3 DEF NewestKept
  <2>2. Since(p, Places(request)) \subseteq Since(p, Places(grown))
    BY <1>1, SinceWithin
  <2>3. OverfullSince(grown, q)
    BY <1>1, <2>1, OverfullStays
  <2>4. QED
    BY <2>2, <2>3
<1>4. QED
  BY <1>3 DEF NewestKept, grown

-----------------------------------------------------------------------------
(* How the history grows.                                                  *)

(* Every result has a response before it, and a response is followed by    *)
(* the first of its results.                                               *)
Calls(request) ==
  /\ \A i \in ToolIndexes(request) : \E j \in Indexes(request, "assistant") : j < i
  /\ \A i \in Indexes(request, "assistant") : i + 1 \in ToolIndexes(request)

(* Messages that come from neither the model nor its tools.                *)
NoCalls(request) == ToolIndexes(request) = {} /\ Indexes(request, "assistant") = {}

Exchange(results, deferred) ==
  <<Assistant>> \o [i \in DOMAIN results |-> Tool(results[i])]
  \o Observations(results) \o (IF deferred THEN <<Feedback>> ELSE <<>>)

(* The results of a response.                                              *)
LEMMA ResultFacts ==
  ASSUME NEW results \in Batches
  PROVE  /\ Len(results) \in Nat \ {0} /\ DOMAIN results = 1 .. Len(results)
         /\ \A i \in DOMAIN results :
              results[i] \in [size : Nat, core : Nat, fills : BOOLEAN, image : Nat]
<1> DEFINE Result == [size : Nat, core : Nat, fills : BOOLEAN, image : Nat]
<1>1. results \in Seq(Result) /\ results # <<>>
  BY HistoryAssumption, Zenon
<1> HIDE DEF Result
<1>2. /\ Len(results) \in Nat \ {0} /\ DOMAIN results = 1 .. Len(results)
      /\ \A i \in DOMAIN results : results[i] \in Result
  BY <1>1
<1>3. QED
  BY <1>2 DEF Result

(* A message without images.                                               *)
LEMMA PlainMessages ==
  ASSUME NEW kind \in Kinds
  PROVE  /\ Plain(kind) \in Message /\ Plain(kind).kind = kind /\ Plain(kind).images = <<>>
         /\ <<Plain(kind)>> \in Seq(Message) /\ Fresh(<<Plain(kind)>>)
<1>1. /\ Plain(kind) \in Message /\ Plain(kind).kind = kind /\ Plain(kind).images = <<>>
  BY DEF Plain, Message
<1> DEFINE m == Plain(kind)
<1> HIDE DEF m
<1>2. <<m>> \in Seq(Message) /\ DOMAIN <<m>> = {1} /\ <<m>>[1] = m
  BY <1>1 DEF m
<1>3. DOMAIN (<<m>>[1].images) = {}
  BY <1>1, <1>2 DEF m
<1>4. \A p : p \notin Places(<<m>>)
  BY <1>2, <1>3, PlaceForm, Zenon
<1>5. QED
  BY <1>1, <1>2, <1>4 DEF Fresh, m

(* What grows in two steps.                                                *)
LEMMA GrownFresh ==
  ASSUME NEW first \in Seq(Message), NEW second \in Seq(Message), Fresh(first), Fresh(second)
  PROVE  first \o second \in Seq(Message) /\ Fresh(first \o second)
BY GrownRequest DEF Fresh

(* The positions of a kind of message after two steps.                     *)
LEMMA GrownIndexes ==
  ASSUME NEW first \in Seq(Message), NEW second \in Seq(Message), NEW kind
  PROVE  \A i : i \in Indexes(first \o second, kind) <=>
                  \/ i \in Indexes(first, kind)
                  \/ \E j \in Indexes(second, kind) : i = Len(first) + j
<1> DEFINE n == Len(first)
           k == Len(second)
           grown == first \o second
<1>1. /\ n \in Nat /\ k \in Nat
      /\ DOMAIN grown = 1 .. n + k /\ DOMAIN first = 1 .. n /\ DOMAIN second = 1 .. k
      /\ \A i \in 1 .. n : grown[i] = first[i]
      /\ \A j \in 1 .. k : grown[n + j] = second[j]
  OBVIOUS
<1> HIDE DEF n, k, grown
<1>2. ASSUME NEW i \in 1 .. n + k
      PROVE  i \in 1 .. n \/ \E j \in 1 .. k : i = n + j
  <2>1. i \in 1 .. n \/ i - n \in 1 .. k
    BY <1>1
  <2>2. i = n + (i - n)
    BY <1>1
  <2>3. QED
    BY <2>1, <2>2
<1>3. \A j \in 1 .. k : n + j \in 1 .. n + k
  BY <1>1
<1>4. \A i \in 1 .. n : i \in 1 .. n + k
  BY <1>1
<1>5. \A i : i \in Indexes(grown, kind) <=>
               \/ i \in Indexes(first, kind)
               \/ \E j \in Indexes(second, kind) : i = n + j
  BY <1>1, <1>2, <1>3, <1>4 DEF Indexes
<1>6. QED
  BY <1>5 DEF n, grown

(* A history to which whole exchanges are added.                           *)
LEMMA GrownCalls ==
  ASSUME NEW first \in Seq(Message), NEW second \in Seq(Message), Calls(first), Calls(second)
  PROVE  Calls(first \o second)
<1> DEFINE grown == first \o second
           n == Len(first)
<1>1. \A kind, i : i \in Indexes(grown, kind) <=>
                     \/ i \in Indexes(first, kind)
                     \/ \E j \in Indexes(second, kind) : i = n + j
  BY GrownIndexes
<1>2. /\ n \in Nat
      /\ \A kind : Indexes(first, kind) \subseteq Nat /\ Indexes(second, kind) \subseteq Nat
  BY DEF Indexes
<1> HIDE DEF grown, n
<1>3. ASSUME NEW i \in ToolIndexes(grown)
      PROVE  \E j \in Indexes(grown, "assistant") : j < i
  <2>1. CASE i \in ToolIndexes(first)
    BY <1>1, <2>1 DEF Calls
  <2>2. CASE \E j \in ToolIndexes(second) : i = n + j
    <3>1. PICK j \in ToolIndexes(second) : i = n + j
      BY <2>2
    <3>2. PICK a \in Indexes(second, "assistant") : a < j
      BY DEF Calls
    <3>3. n + a < i
      BY <1>2, <3>1, <3>2 DEF ToolIndexes
    <3>4. QED
      BY <1>1, <3>2, <3>3
  <2>3. QED
    BY <1>1, <1>3, <2>1, <2>2 DEF ToolIndexes
<1>4. ASSUME NEW i \in Indexes(grown, "assistant")
      PROVE  i + 1 \in ToolIndexes(grown)
  <2>1. CASE i \in Indexes(first, "assistant")
    BY <1>1, <2>1 DEF Calls, ToolIndexes
  <2>2. CASE \E j \in Indexes(second, "assistant") : i = n + j
    <3>1. PICK j \in Indexes(second, "assistant") : i = n + j
      BY <2>2
    <3>2. j + 1 \in ToolIndexes(second)
      BY DEF Calls
    <3>3. i + 1 = n + (j + 1)
      BY <1>2, <3>1
    <3>4. QED
      BY <1>1, <3>2, <3>3 DEF ToolIndexes
  <2>3. QED
    BY <1>1, <2>1, <2>2
<1>5. QED
  BY <1>3, <1>4 DEF Calls, grown

(* The images of a batch are messages with their images shown.             *)
LEMMA ObservationMessages ==
  ASSUME NEW results \in Batches
  PROVE  /\ Observations(results) \in Seq(Message)
         /\ Fresh(Observations(results)) /\ NoCalls(Observations(results))
<1> DEFINE image(r) == IF r.image = 0 THEN <<>> ELSE <<[size |-> r.image, shown |-> TRUE]>>
           each == [i \in DOMAIN results |-> image(results[i])]
           seen == FlattenSeq(each)
           FreshRecord == [size : Nat, shown : {TRUE}]
           m == [Plain("images") EXCEPT !.images = seen]
<1>1. each \in Seq(Seq(FreshRecord))
  <2>1. /\ Len(results) \in Nat /\ DOMAIN results = 1 .. Len(results)
        /\ \A i \in DOMAIN results : results[i].image \in Nat
    BY ResultFacts
  <2>2. ASSUME NEW r, r.image \in Nat
        PROVE  image(r) \in Seq(FreshRecord)
    <3>1. <<>> \in Seq(FreshRecord)
      OBVIOUS
    <3>2. [size |-> r.image, shown |-> TRUE] \in FreshRecord
      BY <2>2
    <3> HIDE DEF FreshRecord
    <3>3. <<[size |-> r.image, shown |-> TRUE]>> \in Seq(FreshRecord)
      BY <3>2
    <3>4. QED
      BY <3>1, <3>3, Zenon
  <2> HIDE DEF image
  <2>3. QED
    BY <2>1, <2>2
<1>2. seen \in Seq(FreshRecord)
  <2> HIDE DEF each, FreshRecord
  <2> QED BY <1>1, FlattenRange
<1> HIDE DEF seen
<1>3. CASE seen = <<>>
  <2>1. Observations(results) = <<>>
    BY <1>3 DEF Observations, seen
  <2>2. Places(<<>>) = {}
    BY DEF Places
  <2>3. QED
    BY <2>1, <2>2 DEF Fresh, NoCalls, ToolIndexes, Indexes
<1>4. CASE seen # <<>>
  <2>1. Observations(results) = <<m>>
    BY <1>4 DEF Observations, seen
  <2>2. seen \in Seq(ImageRecord) /\ \A j \in DOMAIN seen : seen[j].shown
    <3>1. FreshRecord \subseteq ImageRecord
      BY DEF ImageRecord
    <3>2. \A j \in DOMAIN seen : seen[j] \in FreshRecord
      <4> HIDE DEF FreshRecord
      <4> QED BY <1>2
    <3>3. \A r \in FreshRecord : r.shown
      OBVIOUS
    <3>4. seen \in Seq(ImageRecord)
      <4> HIDE DEF FreshRecord
      <4> QED BY <1>2, <3>1
    <3> HIDE DEF FreshRecord
    <3>5. QED
      BY <3>2, <3>3, <3>4
  <2>3. m \in Message /\ m.images = seen /\ m.kind = "images"
    <3>1. Plain("images") \in Message /\ Plain("images").kind = "images"
      <4>1. "images" \in Kinds
        BY DEF Kinds
      <4>2. QED
        BY <4>1, PlainMessages
    <3>2. QED
      BY <2>2, <3>1 DEF Message
  <2> HIDE DEF m
  <2>4. <<m>> \in Seq(Message) /\ DOMAIN <<m>> = {1} /\ <<m>>[1] = m
    BY <2>3
  <2>5. \A p \in Places(<<m>>) : Image(<<m>>, p).shown
    <3> SUFFICES ASSUME NEW p \in Places(<<m>>) PROVE Image(<<m>>, p).shown
      OBVIOUS
    <3>1. p = <<p[1], p[2]>> /\ p[1] \in {1} /\ p[2] \in DOMAIN <<m>>[p[1]].images
      BY <2>4, PlaceForm
    <3>2. p[1] = 1 /\ p[2] \in DOMAIN seen
      BY <2>3, <2>4, <3>1
    <3>3. Image(<<m>>, p) = seen[p[2]]
      BY <2>3, <2>4, <3>2 DEF Image
    <3>4. QED
      BY <2>2, <3>2, <3>3
  <2>6. NoCalls(<<m>>)
    BY <2>3, <2>4 DEF NoCalls, ToolIndexes, Indexes
  <2>7. QED
    BY <2>1, <2>4, <2>5, <2>6 DEF Fresh
<1>5. QED
  BY <1>3, <1>4

(* A message that the model did not cause.                                 *)
LEMMA PlainNoCalls ==
  ASSUME NEW kind \in Kinds, kind # "tool", kind # "assistant"
  PROVE  NoCalls(<<Plain(kind)>>)
<1> DEFINE m == Plain(kind)
<1>1. m.kind = kind
  BY PlainMessages
<1> HIDE DEF m
<1>2. DOMAIN <<m>> = {1} /\ <<m>>[1] = m
  OBVIOUS
<1>3. QED
  BY <1>1, <1>2 DEF NoCalls, ToolIndexes, Indexes, m

(* Such messages complete no exchange and break none.                      *)
LEMMA NoCallsAreCalls ==
  ASSUME NEW request, NoCalls(request) PROVE Calls(request)
BY DEF NoCalls, Calls

(* Without calls in either of two steps there are none.                    *)
LEMMA GrownNoCalls ==
  ASSUME NEW first \in Seq(Message), NEW second \in Seq(Message),
         NoCalls(first), NoCalls(second)
  PROVE  NoCalls(first \o second)
BY GrownIndexes DEF NoCalls, ToolIndexes

(* A response and its results are an exchange.                             *)
LEMMA ResponseCalls ==
  ASSUME NEW results \in Batches
  PROVE  LET response == <<Assistant>> \o [i \in DOMAIN results |-> Tool(results[i])]
         IN  response \in Seq(Message) /\ Fresh(response) /\ Calls(response)
<1> DEFINE tools == [i \in DOMAIN results |-> Tool(results[i])]
           n == Len(results)
           response == <<Assistant>> \o tools
<1>1. /\ n \in Nat \ {0} /\ DOMAIN results = 1 .. n
      /\ \A i \in DOMAIN results :
           results[i] \in [size : Nat, core : Nat, fills : BOOLEAN, image : Nat]
  BY ResultFacts
<1> HIDE DEF n
<1>2. \A i \in 1 .. n : /\ tools[i] \in Message
                        /\ tools[i].kind = "tool" /\ tools[i].images = <<>>
  <2>1. \A i \in 1 .. n : tools[i] = Tool(results[i])
    BY <1>1
  <2>2. ASSUME NEW r \in [size : Nat, core : Nat, fills : BOOLEAN, image : Nat]
        PROVE  Tool(r) \in Message /\ Tool(r).kind = "tool" /\ Tool(r).images = <<>>
    <3>1. <<>> \in Seq(ImageRecord) /\ "tool" \in Kinds
      BY DEF Kinds
    <3>2. QED
      BY <3>1 DEF Tool, Message
  <2> HIDE DEF tools
  <2>3. QED
    BY <1>1, <2>1, <2>2
<1>3. tools = [i \in 1 .. n |-> tools[i]]
  BY <1>1
<1> HIDE DEF tools
<1>4. tools \in Seq(Message) /\ DOMAIN tools = 1 .. n /\ Len(tools) = n
  <2>1. tools \in [1 .. n -> Message]
    BY <1>2, <1>3
  <2>2. QED
    BY <1>1, <2>1
<1>5. Fresh(tools)
  <2>1. \A i \in 1 .. n : DOMAIN tools[i].images = {}
    BY <1>2
  <2>2. \A p : p \notin Places(tools)
    BY <1>4, <2>1, PlaceForm, Zenon
  <2>3. QED
    BY <2>2 DEF Fresh
<1>6. /\ <<Assistant>> \in Seq(Message) /\ Fresh(<<Assistant>>)
      /\ Assistant.kind = "assistant"
  <2>1. "assistant" \in Kinds
    BY DEF Kinds
  <2>2. QED
    BY <2>1, PlainMessages DEF Assistant
<1>7. response \in Seq(Message) /\ Fresh(response)
  BY <1>4, <1>5, <1>6, GrownFresh
<1>8. /\ DOMAIN response = 1 .. n + 1
      /\ response[1] = Assistant
      /\ \A i \in 2 .. n + 1 : i - 1 \in 1 .. n /\ response[i] = tools[i - 1]
  BY <1>1, <1>4, <1>6
<1> HIDE DEF response
<1>9. Indexes(response, "assistant") = {1} /\ ToolIndexes(response) = 2 .. n + 1
  <2>1. \A i \in 1 .. n + 1 : i = 1 \/ i \in 2 .. n + 1
    BY <1>1
  <2>2. \A i \in 2 .. n + 1 : response[i].kind = "tool" /\ i # 1 /\ i \in 1 .. n + 1
    BY <1>1, <1>2, <1>8
  <2>3. response[1].kind = "assistant" /\ 1 \in 1 .. n + 1
    BY <1>1, <1>6, <1>8
  <2>4. QED
    BY <1>8, <2>1, <2>2, <2>3 DEF Indexes, ToolIndexes
<1>10. Calls(response)
  <2>1. \A i \in 2 .. n + 1 : 1 < i
    OBVIOUS
  <2>2. 1 + 1 \in 2 .. n + 1
    BY <1>1
  <2>3. QED
    BY <1>9, <2>1, <2>2, Zenon DEF Calls
<1>11. QED
  BY <1>7, <1>10 DEF response, tools

(* What an accepted response adds.                                         *)
LEMMA ExchangeFacts ==
  ASSUME NEW results \in Batches, NEW deferred \in BOOLEAN
  PROVE  /\ Exchange(results, deferred) \in Seq(Message)
         /\ Fresh(Exchange(results, deferred)) /\ Calls(Exchange(results, deferred))
<1> DEFINE response == <<Assistant>> \o [i \in DOMAIN results |-> Tool(results[i])]
           seen == Observations(results)
           told == IF deferred THEN <<Feedback>> ELSE <<>>
<1>1. response \in Seq(Message) /\ Fresh(response) /\ Calls(response)
  BY ResponseCalls
<1>2. seen \in Seq(Message) /\ Fresh(seen) /\ Calls(seen)
  BY ObservationMessages, NoCallsAreCalls
<1>3. told \in Seq(Message) /\ Fresh(told) /\ Calls(told)
  <2>1. CASE deferred
    <3>1. "feedback" \in Kinds
      BY DEF Kinds
    <3>2. QED
      BY <2>1, <3>1, PlainMessages, PlainNoCalls, NoCallsAreCalls DEF Feedback
  <2>2. CASE ~ deferred
    <3>1. Places(<<>>) = {} /\ NoCalls(<<>>)
      BY DEF Places, NoCalls, ToolIndexes, Indexes
    <3>2. QED
      BY <2>2, <3>1, NoCallsAreCalls DEF Fresh
  <2>3. QED
    BY <2>1, <2>2
<1>4. Exchange(results, deferred) = (response \o seen) \o told
  BY DEF Exchange
<1> HIDE DEF response, seen, told
<1>5. response \o seen \in Seq(Message) /\ Fresh(response \o seen) /\ Calls(response \o seen)
  BY <1>1, <1>2, GrownFresh, GrownCalls
<1>6. QED
  BY <1>3, <1>4, <1>5, GrownFresh, GrownCalls

(* Pruning moves no message.                                               *)
LEMMA PrunedIndexes ==
  ASSUME NEW request \in Seq(Message), NEW max, NEW kind
  PROVE  Indexes(Pruned(request, max), kind) = Indexes(request, kind)
<1> DEFINE pruned == Pruned(request, max)
<1>1. DOMAIN pruned = DOMAIN request
  BY PrunedRequest
<1>2. \A i \in DOMAIN request : pruned[i].kind = request[i].kind
  BY PrunedMessage
<1> HIDE DEF pruned
<1>3. Indexes(pruned, kind) = Indexes(request, kind)
  BY <1>1, <1>2 DEF Indexes
<1>4. QED
  BY <1>3 DEF pruned

-----------------------------------------------------------------------------
(***************************************************************************)
(* The history is a sequence of messages in whole exchanges, from which    *)
(* only newer images have pushed images out, and each turn's first request *)
(* is no retry.                                                            *)
(***************************************************************************)
HistoryInv ==
  /\ bounded \in BOOLEAN /\ retried \in BOOLEAN
  /\ messages \in Seq(Message)
  /\ Calls(messages)
  /\ NewestKept(messages)
  /\ phase = "turn" => ~ retried

(* The system prompt and the task.                                         *)
LEMMA HistoryInit == Init => HistoryInv
<1> SUFFICES ASSUME Init PROVE HistoryInv
  OBVIOUS
<1>1. "system" \in Kinds /\ "task" \in Kinds
  BY DEF Kinds
<1>2. /\ <<SystemPrompt>> \in Seq(Message) /\ <<Task>> \in Seq(Message)
      /\ Fresh(<<SystemPrompt>>) /\ Fresh(<<Task>>)
      /\ NoCalls(<<SystemPrompt>>) /\ NoCalls(<<Task>>)
  BY <1>1, PlainMessages, PlainNoCalls DEF SystemPrompt, Task
<1>3. messages = <<SystemPrompt>> \o <<Task>>
  <2>1. ASSUME NEW a \in Message, NEW b \in Message PROVE <<a, b>> = <<a>> \o <<b>>
    <3>1. <<a>> \in Seq(Message) /\ <<a, b>> = Append(<<a>>, b)
      OBVIOUS
    <3>2. Append(<<a>>, b) = <<a>> \o <<b>>
      BY <3>1, AppendIsConcat
    <3>3. QED
      BY <3>1, <3>2
  <2>2. SystemPrompt \in Message /\ Task \in Message
    BY <1>1, PlainMessages DEF SystemPrompt, Task
  <2>3. QED
    BY <2>1, <2>2 DEF Init
<1>4. messages \in Seq(Message) /\ Fresh(messages) /\ NoCalls(messages)
  BY <1>2, <1>3, GrownFresh, GrownNoCalls
<1>5. NewestKept(messages)
  BY <1>4 DEF Fresh, NewestKept, Shown
<1>6. bounded \in BOOLEAN /\ retried \in BOOLEAN /\ ~ retried
  BY DEF Init
<1>7. QED
  BY <1>4, <1>5, <1>6, NoCallsAreCalls DEF HistoryInv

(* The next turn starts with a history grown by whole exchanges.           *)
LEMMA HistoryNextTurn ==
  ASSUME HistoryInv, NEW added \in Seq(Message), Fresh(added), Calls(added), NextTurn(added)
  PROVE  HistoryInv'
<1>1. messages' = messages \o added /\ retried' = FALSE /\ bounded' = bounded
  BY DEF NextTurn
<1>2. messages' \in Seq(Message) /\ Calls(messages') /\ NewestKept(messages')
  BY <1>1, GrownRequest, GrownCalls, GrownKeepsNewest DEF HistoryInv
<1>3. QED
  BY <1>1, <1>2 DEF HistoryInv, Calls, NewestKept

(* Every step keeps the history as it should be.                           *)
LEMMA HistoryNext == HistoryInv /\ [Next]_vars => HistoryInv'
<1> SUFFICES ASSUME HistoryInv, [Next]_vars PROVE HistoryInv'
  OBVIOUS
<1>1. "user" \in Kinds /\ "feedback" \in Kinds
  BY DEF Kinds
<1>2. /\ <<UserMessage>> \in Seq(Message) /\ Fresh(<<UserMessage>>) /\ Calls(<<UserMessage>>)
      /\ <<Feedback>> \in Seq(Message) /\ Fresh(<<Feedback>>) /\ Calls(<<Feedback>>)
  BY <1>1, PlainMessages, PlainNoCalls, NoCallsAreCalls DEF UserMessage, Feedback
<1>3. CASE Claim
  <2>1. messages' = messages \o <<UserMessage>> /\ UNCHANGED <<bounded, phase, retried>>
    <3>1. UserMessage \in Message
      BY <1>1, PlainMessages DEF UserMessage
    <3>2. Append(messages, UserMessage) = messages \o <<UserMessage>>
      BY <3>1, AppendIsConcat DEF HistoryInv
    <3>3. QED
      BY <1>3, <3>2 DEF Claim
  <2>2. messages' \in Seq(Message) /\ Calls(messages') /\ NewestKept(messages')
    BY <1>2, <2>1, GrownRequest, GrownCalls, GrownKeepsNewest DEF HistoryInv
  <2>3. QED
    BY <2>1, <2>2 DEF HistoryInv
<1>4. CASE Ask
  <2>1. messages' \in {messages, Pruned(messages, 2)} /\ UNCHANGED <<bounded, retried>>
    BY <1>4 DEF Ask
  <2>2. phase = "turn"
    BY <1>4 DEF Ask
  <2>3. Calls(Pruned(messages, 2))
    BY PrunedIndexes DEF HistoryInv, Calls, ToolIndexes
  <2>4. messages' \in Seq(Message) /\ Calls(messages') /\ NewestKept(messages')
    BY <2>1, <2>3, PrunedRequest, PrunedKeepsNewest DEF HistoryInv
  <2>5. QED
    BY <2>1, <2>2, <2>4 DEF HistoryInv
<1>5. CASE Retry
  <2>1. phase' # "turn" /\ retried' = TRUE /\ UNCHANGED <<bounded, messages>>
    BY <1>5 DEF Retry, Prepared
  <2>2. QED
    BY <2>1 DEF HistoryInv
<1>6. CASE End
  BY <1>6 DEF End, HistoryInv
<1>7. CASE Supersede
  BY <1>2, <1>7, HistoryNextTurn DEF Supersede
<1>8. CASE Repair
  BY <1>2, <1>8, HistoryNextTurn DEF Repair
<1>9. CASE Accept
  <2>1. PICK results \in Batches, deferred \in BOOLEAN : NextTurn(Exchange(results, deferred))
    BY <1>9 DEF Accept, Exchange
  <2>2. QED
    BY <2>1, ExchangeFacts, HistoryNextTurn
<1>10. CASE UNCHANGED vars
  BY <1>10 DEF vars, HistoryInv
<1>11. QED
  BY <1>3, <1>4, <1>5, <1>6, <1>7, <1>8, <1>9, <1>10 DEF Next

(* In every solve the history is made of whole exchanges: every result     *)
(* follows a response and every response is followed by a result.          *)
THEOREM HistoryCorrect == Spec => []HistoryInv
BY HistoryInit, HistoryNext, PTL DEF Spec

(* An image leaves the history only for newer ones.                        *)
THEOREM ImagesLeaveForNewerOnes == Spec => []NewestImagesKept
<1>1. HistoryInv => NewestImagesKept
  BY DEF HistoryInv, NewestKept, OverfullSince, NewestImagesKept
<1>2. QED
  BY <1>1, HistoryInit, HistoryNext, PTL DEF Spec

-----------------------------------------------------------------------------
(* Counting from the end of a history, and the exchanges that are kept.    *)

(* The least of a set of numbers.                                          *)
LEMMA MinIs ==
  ASSUME NEW T \in SUBSET Nat, T # {}
  PROVE  Min(T) \in T /\ \A m \in T : Min(T) <= m
BY Least DEF Min

(* The greatest of a set of numbers up to a bound.                         *)
LEMMA MaxIs ==
  ASSUME NEW T \in SUBSET Nat, T # {}, NEW b \in Nat, \A m \in T : m <= b
  PROVE  Max(T) \in T /\ \A m \in T : m <= Max(T)
<1>1. \E n \in T : \A m \in T : n >= m
  BY Greatest
<1>2. QED
  BY <1>1 DEF Max

(* Of a finite set of numbers one is the n-th from the end.                *)
LEMMA NthFromEnd ==
  ASSUME NEW T \in SUBSET Nat, IsFiniteSet(T), NEW n \in 1 .. Cardinality(T)
  PROVE  \E i \in T : Cardinality({j \in T : j >= i}) = n
<1> DEFINE Up(i) == {j \in T : j >= i}
           C == {i \in T : Cardinality(Up(i)) >= n}
           K == {Cardinality(Up(i)) : i \in C}
<1>1. \A i \in T : IsFiniteSet(Up(i)) /\ Cardinality(Up(i)) \in Nat
  BY FS_Subset, FS_CardinalityType
<1>2. Cardinality(T) \in Nat /\ n \in Nat /\ n >= 1 /\ n <= Cardinality(T)
  BY FS_CardinalityType
<1>3. C # {}
  <2>1. T # {}
    BY <1>2, FS_EmptySet
  <2>2. PICK m \in T : \A j \in T : m <= j
    BY <2>1, Least
  <2>3. Up(m) = T
    BY <2>2
  <2>4. QED
    BY <1>2, <2>3
<1>4. PICK k \in K : \A l \in K : k <= l
  <2>1. K \in SUBSET Nat /\ K # {}
    BY <1>1, <1>3
  <2> HIDE DEF K
  <2>2. QED
    BY <2>1, Least
<1>5. PICK i \in C : k = Cardinality(Up(i))
  OBVIOUS
<1>6. i \in T /\ Cardinality(Up(i)) >= n /\ Cardinality(Up(i)) \in Nat /\ IsFiniteSet(Up(i))
  BY <1>1, <1>5
<1>7. ASSUME Cardinality(Up(i)) # n PROVE FALSE
  <2> DEFINE U == Up(i) \ {i}
  <2>1. i \in Up(i)
    <3>1. i \in T /\ i \in Nat
      BY <1>6
    <3>2. QED
      BY <3>1
  <2>2. IsFiniteSet(U) /\ Cardinality(U) = Cardinality(Up(i)) - 1
    <3> HIDE DEF Up
    <3> QED BY <1>6, <2>1, FS_RemoveElement
  <2>3. U # {}
    <3> HIDE DEF U
    <3> QED BY <1>2, <1>6, <1>7, <2>2, FS_EmptySet
  <2>4. PICK m \in U : \A j \in U : m <= j
    <3>1. U \in SUBSET Nat
      OBVIOUS
    <3> HIDE DEF U
    <3>2. QED
      BY <2>3, <3>1, Least
  <2>5. m \in T /\ m > i
    BY <2>4
  <2>6. Up(m) = U
    <3>1. \A j \in T : j >= m => j \in U
      BY <2>5
    <3>2. \A j \in U : j \in T /\ j >= m
      BY <2>4
    <3> HIDE DEF U
    <3>3. QED
      BY <3>1, <3>2
  <2>7. Cardinality(Up(m)) = k - 1 /\ Cardinality(Up(m)) >= n
    <3> HIDE DEF U, Up
    <3> QED BY <1>2, <1>5, <1>6, <1>7, <2>2, <2>6
  <2>8. k - 1 \in K
    BY <2>5, <2>7
  <2>9. k \in Nat
    BY <1>5, <1>6
  <2> HIDE DEF K
  <2>10. QED
    BY <1>4, <2>8, <2>9
<1>8. QED
  BY <1>6, <1>7

(* The positions of a kind of message.                                     *)
LEMMA IndexFacts ==
  ASSUME NEW request \in Seq(Message), NEW kind
  PROVE  /\ Indexes(request, kind) \subseteq 1 .. Len(request)
         /\ Indexes(request, kind) \in SUBSET Nat
         /\ IsFiniteSet(Indexes(request, kind))
         /\ Cardinality(Indexes(request, kind)) \in Nat
<1>1. Indexes(request, kind) \subseteq 1 .. Len(request) /\ Len(request) \in Nat
  BY DEF Indexes
<1>2. IsFiniteSet(Indexes(request, kind))
  <2>1. IsFiniteSet(1 .. Len(request))
    BY <1>1, FS_Interval
  <2>2. QED
    BY <1>1, <2>1, FS_Subset
<1>3. QED
  BY <1>1, <1>2, FS_CardinalityType

(* The first of the recent results.                                        *)
LEMMA FirstRecentIs ==
  ASSUME NEW request \in Seq(Message), NEW n \in 1 .. ToolCount(request)
  PROVE  LET t == FirstRecent(request, n)
         IN  /\ t \in ToolIndexes(request)
             /\ Cardinality({j \in ToolIndexes(request) : j >= t}) = n
<1> DEFINE T == ToolIndexes(request)
<1>1. T \in SUBSET Nat /\ IsFiniteSet(T)
  BY IndexFacts DEF ToolIndexes
<1>2. n \in 1 .. Cardinality(T)
  BY DEF ToolCount
<1>3. FirstRecent(request, n) = CHOOSE i \in T : Cardinality({j \in T : j >= i}) = n
  BY DEF FirstRecent
<1> HIDE DEF T
<1>4. \E i \in T : Cardinality({j \in T : j >= i}) = n
  BY <1>1, <1>2, NthFromEnd
<1>5. QED
  BY <1>3, <1>4 DEF T

(* The response whose results a result belongs to.                         *)
LEMMA ExchangeStartIs ==
  ASSUME NEW request \in Seq(Message), Calls(request), NEW t \in ToolIndexes(request)
  PROVE  LET c == ExchangeStart(request, t)
         IN  /\ c \in Indexes(request, "assistant") /\ c < t
             /\ \A a \in Indexes(request, "assistant") : a < t => a <= c
<1> DEFINE before == {i \in Indexes(request, "assistant") : i < t}
<1>1. before # {}
  BY DEF Calls
<1>2. before \in SUBSET Nat /\ t \in Nat /\ \A m \in before : m <= t
  BY IndexFacts DEF ToolIndexes
<1>3. Max(before) \in before /\ \A m \in before : m <= Max(before)
  <2> HIDE DEF before
  <2> QED BY <1>1, <1>2, MaxIs
<1>4. ExchangeStart(request, t) = Max(before)
  BY <1>1 DEF ExchangeStart
<1>5. QED
  BY <1>3, <1>4

(* The first response, where the head ends that is always kept.            *)
LEMMA FirstResponseIs ==
  ASSUME NEW request \in Seq(Message), Indexes(request, "assistant") # {}
  PROVE  LET b == Min(Indexes(request, "assistant"))
         IN  /\ b \in Indexes(request, "assistant")
             /\ \A a \in Indexes(request, "assistant") : b <= a
BY IndexFacts, MinIs

(* A response has results, so results are what there are if there are      *)
(* responses.                                                              *)
LEMMA ToolsIffResponses ==
  ASSUME NEW request \in Seq(Message), Calls(request)
  PROVE  ToolIndexes(request) = {} <=> Indexes(request, "assistant") = {}
BY DEF Calls

(* The head that is always kept ends before the first response.            *)
Base(request) == Min(Indexes(request, "assistant"))

Between(request, c, limit) ==
  IF limit = NoSummary THEN <<>>
  ELSE <<Summary(Cardinality({i \in ToolIndexes(request) : i < c}), limit)>>

Cut(request, c, limit) ==
  SubSeq(request, 1, Base(request) - 1)
  \o Between(request, c, limit) \o SubSeq(request, c, Len(request))

(* The n newest results begin in the exchange of the response c.           *)
StartsIn(request, n, c) ==
  /\ c \in Indexes(request, "assistant")
  /\ \E t \in ToolIndexes(request) :
       /\ Cardinality({j \in ToolIndexes(request) : j >= t}) = n
       /\ c < t
       /\ \A a \in Indexes(request, "assistant") : a < t => a <= c

Start(request, n) == ExchangeStart(request, FirstRecent(request, n))

(* What _compact_to_recent returns.                                        *)
LEMMA CompactIs ==
  ASSUME NEW request \in Seq(Message), Calls(request), NEW n \in Nat \ {0}, NEW limit
  PROVE  /\ ToolCount(request) <= n => Compact(request, n, limit) = request
         /\ n < ToolCount(request) =>
              LET c == Start(request, n)
              IN  /\ c \in Indexes(request, "assistant") /\ StartsIn(request, n, c)
                  /\ Base(request) <= c
                  /\ Compact(request, n, limit) =
                       IF c = Base(request) THEN request ELSE Cut(request, c, limit)
<1> DEFINE t == FirstRecent(request, n)
           c == ExchangeStart(request, t)
           b == Base(request)
           k == ToolCount(request)
<1>1. k \in Nat
  BY IndexFacts DEF ToolCount, ToolIndexes
<1>2. Compact(request, n, limit) = IF k <= n \/ c <= b THEN request ELSE Cut(request, c, limit)
  BY DEF Compact, ToolCount, Base, Cut, Between
<1>3. CASE k <= n
  BY <1>1, <1>2, <1>3
<1>4. CASE n < k
  <2>1. n \in 1 .. k
    BY <1>1, <1>4
  <2>2. /\ t \in ToolIndexes(request)
        /\ Cardinality({j \in ToolIndexes(request) : j >= t}) = n
    BY <2>1, FirstRecentIs
  <2> HIDE DEF t
  <2>3. /\ c \in Indexes(request, "assistant") /\ c < t
        /\ \A a \in Indexes(request, "assistant") : a < t => a <= c
    BY <2>2, ExchangeStartIs
  <2> HIDE DEF c
  <2>4. StartsIn(request, n, c)
    BY <2>2, <2>3 DEF StartsIn
  <2>5. b \in Nat /\ c \in Nat /\ b <= c
    BY <2>3, FirstResponseIs, IndexFacts DEF Base
  <2>6. ~ (k <= n)
    BY <1>1, <1>4
  <2> HIDE DEF k, b
  <2>7. Compact(request, n, limit) = IF c = b THEN request ELSE Cut(request, c, limit)
    BY <1>2, <2>5, <2>6
  <2>8. QED
    BY <2>3, <2>4, <2>5, <2>6, <2>7 DEF b, k, c, t, Start
<1>5. QED
  BY <1>1, <1>3, <1>4

(* A message without its size.                                             *)
Bare(m) == [m EXCEPT !.size = 0]

BareSummary == Bare(Plain("summary"))

(* A summary is a message.                                                 *)
LEMMA SummaryIs ==
  ASSUME NEW tools \in Nat, NEW limit \in Nat
  PROVE  /\ Summary(tools, limit) \in Message /\ Summary(tools, limit).kind = "summary"
         /\ Summary(tools, limit).images = <<>>
         /\ Bare(Summary(tools, limit)) = BareSummary
<1>1. "summary" \in Kinds
  BY DEF Kinds
<1>2. /\ Plain("summary") \in Message /\ Plain("summary").kind = "summary"
      /\ Plain("summary").images = <<>>
  BY <1>1, PlainMessages
<1>3. (IF 1 + tools <= limit THEN 1 + tools ELSE limit + 1) \in Nat
  OBVIOUS
<1>4. QED
  BY <1>2, <1>3 DEF Summary, Message, Bare, BareSummary

(* What is between the head and the kept exchanges.                        *)
LEMMA BetweenIs ==
  ASSUME NEW request \in Seq(Message), NEW c, NEW limit \in Nat
  PROVE  /\ Between(request, c, limit) \in Seq(Message)
         /\ Len(Between(request, c, limit)) = IF limit = NoSummary THEN 0 ELSE 1
         /\ \A i \in DOMAIN Between(request, c, limit) :
              /\ i = 1
              /\ Between(request, c, limit)[i].kind = "summary"
              /\ Between(request, c, limit)[i].images = <<>>
              /\ Bare(Between(request, c, limit)[i]) = BareSummary
<1> DEFINE dropped == {i \in ToolIndexes(request) : i < c}
           m == Summary(Cardinality(dropped), limit)
<1>1. Cardinality(dropped) \in Nat
  <2>1. dropped \in SUBSET ToolIndexes(request) /\ IsFiniteSet(ToolIndexes(request))
    BY IndexFacts DEF ToolIndexes
  <2> HIDE DEF dropped
  <2>2. QED
    BY <2>1, FS_Subset, FS_CardinalityType
<1> HIDE DEF dropped
<1>2. /\ m \in Message /\ m.kind = "summary" /\ m.images = <<>>
      /\ Bare(m) = BareSummary
  BY <1>1, SummaryIs
<1>3. Between(request, c, limit) = IF limit = NoSummary THEN <<>> ELSE <<m>>
  BY DEF Between, dropped
<1> HIDE DEF m
<1>4. QED
  BY <1>2, <1>3

(* One request after another.                                              *)
LEMMA ConcatIs ==
  ASSUME NEW first \in Seq(Message), NEW second \in Seq(Message)
  PROVE  LET both == first \o second
         IN  /\ both \in Seq(Message) /\ Len(first) \in Nat /\ Len(second) \in Nat
             /\ DOMAIN both = 1 .. Len(first) + Len(second)
             /\ Len(both) = Len(first) + Len(second)
             /\ \A i \in 1 .. Len(first) : both[i] = first[i]
             /\ \A i \in 1 .. Len(second) : both[Len(first) + i] = second[i]
OBVIOUS

(* Where the messages of a compacted request come from.                    *)
LEMMA CutIs ==
  ASSUME NEW request \in Seq(Message), NEW c \in Indexes(request, "assistant"),
         Base(request) < c, NEW limit \in Nat
  PROVE  LET between == Between(request, c, limit)
             cut     == Cut(request, c, limit)
             h       == Base(request) - 1
             s       == Len(between)
             n       == Len(request) - c + 1
         IN  /\ cut \in Seq(Message)
             /\ h \in Nat /\ n \in Nat /\ s \in {0, 1} /\ h + 1 < c /\ c <= Len(request)
             /\ DOMAIN cut = 1 .. h + s + n
             /\ \A i \in 1 .. h : cut[i] = request[i]
             /\ \A i \in 1 .. s : i = 1 /\ cut[h + 1] = between[1]
             /\ \A i \in 1 .. n : cut[h + s + i] = request[c - 1 + i]
<1> DEFINE between == Between(request, c, limit)
           h == Base(request) - 1
           s == Len(between)
           n == Len(request) - c + 1
           head == SubSeq(request, 1, h)
           tail == SubSeq(request, c, Len(request))
<1>1. /\ Base(request) \in 1 .. Len(request) /\ c \in 1 .. Len(request)
      /\ Len(request) \in Nat
  BY FirstResponseIs, IndexFacts DEF Base
<1>2. h \in Nat /\ n \in Nat /\ h + 1 < c /\ c <= Len(request) /\ h <= Len(request)
  BY <1>1
<1>3. between \in Seq(Message) /\ s \in {0, 1}
  BY BetweenIs
<1>4. head \in Seq(Message) /\ Len(head) = h /\ \A i \in 1 .. h : head[i] = request[i]
  BY <1>2
<1>5. tail \in Seq(Message) /\ Len(tail) = n /\ \A i \in 1 .. n : tail[i] = request[c - 1 + i]
  <2>1. \A i \in c .. Len(request) : request[i] \in Message
    BY <1>1
  <2>2. /\ tail \in Seq(Message) /\ Len(tail) = IF c <= Len(request) THEN n ELSE 0
        /\ \A i \in 1 .. n : tail[i] = request[c + i - 1]
    BY <1>1, <2>1, SubSeqProperties
  <2>3. \A i \in 1 .. n : c + i - 1 = c - 1 + i
    BY <1>1
  <2>4. QED
    BY <1>2, <2>2, <2>3
<1>6. Cut(request, c, limit) = head \o between \o tail
  BY DEF Cut
<1> HIDE DEF head, tail, between, h, n, s
<1> DEFINE front == head \o between
<1>7. /\ front \in Seq(Message) /\ Len(front) = h + s
      /\ \A i \in 1 .. h : front[i] = request[i]
      /\ \A i \in 1 .. s : i = 1 /\ front[h + 1] = between[1]
  <2>1. front \in Seq(Message) /\ Len(front) = h + s
    BY <1>3, <1>4, ConcatIs DEF s
  <2>2. \A i \in 1 .. h : front[i] = head[i]
    BY <1>3, <1>4, ConcatIs
  <2>3. \A i \in 1 .. s : front[h + i] = between[i] /\ i = 1
    <3>1. \A i \in 1 .. s : i = 1
      BY <1>3
    <3>2. \A i \in 1 .. Len(between) : front[Len(head) + i] = between[i]
      BY <1>3, <1>4, ConcatIs
    <3>3. Len(head) = h /\ Len(between) = s
      BY <1>4 DEF s
    <3> HIDE DEF front
    <3>4. QED
      BY <3>1, <3>2, <3>3
  <2> HIDE DEF front
  <2>4. QED
    BY <1>4, <2>1, <2>2, <2>3
<1> HIDE DEF front
<1> DEFINE cut == front \o tail
<1>8. /\ cut \in Seq(Message) /\ DOMAIN cut = 1 .. h + s + n
      /\ \A i \in 1 .. h + s : cut[i] = front[i]
      /\ \A i \in 1 .. n : cut[h + s + i] = tail[i]
  <2>1. /\ DOMAIN cut = 1 .. Len(front) + Len(tail) /\ cut \in Seq(Message)
        /\ \A i \in 1 .. Len(front) : cut[i] = front[i]
        /\ \A i \in 1 .. Len(tail) : cut[Len(front) + i] = tail[i]
    BY <1>5, <1>7, ConcatIs
  <2> HIDE DEF cut
  <2>2. QED
    BY <1>5, <1>7, <2>1
<1>9. Cut(request, c, limit) = cut
  BY <1>6 DEF front
<1> HIDE DEF cut
<1>10. \A i \in 1 .. h : cut[i] = request[i]
  BY <1>2, <1>3, <1>7, <1>8
<1>11. \A i \in 1 .. s : i = 1 /\ cut[h + 1] = between[1]
  <2> SUFFICES ASSUME NEW i \in 1 .. s PROVE i = 1 /\ cut[h + 1] = between[1]
    OBVIOUS
  <2>1. i = 1 /\ front[h + 1] = between[1]
    BY <1>7
  <2>2. h + 1 \in 1 .. h + s
    BY <1>2, <1>3, <2>1
  <2>3. QED
    BY <1>8, <2>1, <2>2
<1>12. \A i \in 1 .. n : cut[h + s + i] = request[c - 1 + i]
  BY <1>5, <1>8
<1>13. QED
  BY <1>2, <1>3, <1>8, <1>9, <1>10, <1>11, <1>12 DEF between, h, s, n

-----------------------------------------------------------------------------
(* The images of a compacted and of a projected request.                   *)

(* A request has fewer and lighter images than another.                    *)
FewerImages(first, second) ==
  /\ Cardinality(Shown(first)) <= Cardinality(Shown(second))
  /\ ImageBytes(first) <= ImageBytes(second)

(* Shown images that go one to one into the shown images of another        *)
(* request, each to its like.                                              *)
LEMMA FewerByInjection ==
  ASSUME NEW first, NEW second \in Seq(Message), NEW b \in [Shown(first) -> Shown(second)],
         \A p \in Shown(first) : Image(first, p) = Image(second, b[p]),
         \A p, q \in Shown(first) : b[p] = b[q] => p = q
  PROVE  FewerImages(first, second)
<1> DEFINE S == Shown(first)
           T == Shown(second)
<1>1. b \in Injection(S, T)
  BY DEF Injection, IsInjective
<1>2. T \in SUBSET Places(second)
  BY DEF Shown
<1>3. \A p \in S : Image(first, p).size = Image(second, b[p]).size
  OBVIOUS
<1>4. IsFiniteSet(T)
  BY <1>2, BytesNat
<1> HIDE DEF S, T
<1>5. Cardinality(S) <= Cardinality(T)
  BY <1>1, <1>4, FS_Injection
<1>6. Bytes(first, S) <= Bytes(second, T)
  BY <1>1, <1>2, <1>3, BytesInto
<1>7. QED
  BY <1>5, <1>6 DEF FewerImages, ImageBytes, S, T

(* What was cut out and summarized takes its images with it.               *)
LEMMA CutImages ==
  ASSUME NEW request \in Seq(Message), NEW c \in Indexes(request, "assistant"),
         Base(request) < c, NEW limit \in Nat
  PROVE  FewerImages(Cut(request, c, limit), request)
<1> DEFINE between == Between(request, c, limit)
           cut == Cut(request, c, limit)
           h == Base(request) - 1
           s == Len(between)
           n == Len(request) - c + 1
           origin(p) == IF p[1] <= h THEN p ELSE <<p[1] - (h + s) + (c - 1), p[2]>>
<1>1. /\ cut \in Seq(Message)
      /\ h \in Nat /\ n \in Nat /\ s \in {0, 1} /\ h + 1 < c /\ c <= Len(request)
      /\ DOMAIN cut = 1 .. h + s + n
      /\ \A i \in 1 .. h : cut[i] = request[i]
      /\ \A i \in 1 .. s : i = 1 /\ cut[h + 1] = between[1]
      /\ \A i \in 1 .. n : cut[h + s + i] = request[c - 1 + i]
  BY CutIs
<1>2. s = 1 => between[1].images = <<>>
  <2>1. /\ between \in Seq(Message)
        /\ \A i \in DOMAIN between : between[i].images = <<>>
    <3>1. \A i \in DOMAIN between :
            /\ i = 1
            /\ between[i].kind = "summary"
            /\ between[i].images = <<>>
            /\ Bare(between[i]) = BareSummary
      BY BetweenIs
    <3>2. between \in Seq(Message)
      BY BetweenIs
    <3> HIDE DEF between
    <3>3. QED
      BY <3>1, <3>2
  <2> HIDE DEF between
  <2>2. QED
    BY <2>1
<1>3. c \in Nat /\ Len(request) \in Nat /\ DOMAIN request = 1 .. Len(request)
  BY IndexFacts
<1> HIDE DEF between, cut, h, s, n
<1>4. ASSUME NEW p \in Shown(cut)
      PROVE  /\ p = <<p[1], p[2]>> /\ p[1] \in Nat
             /\ origin(p) \in Shown(request) /\ Image(cut, p) = Image(request, origin(p))
             /\ p[1] <= h \/ p[1] > h + s
  <2>1. p \in Places(cut) /\ Image(cut, p).shown
    BY DEF Shown
  <2>2. p = <<p[1], p[2]>> /\ p[1] \in 1 .. h + s + n /\ p[2] \in DOMAIN cut[p[1]].images
    BY <1>1, <2>1, PlaceForm
  <2>3. CASE p[1] <= h
    <3>1. p[1] \in 1 .. h /\ p[1] \in DOMAIN request
      BY <1>1, <1>3, <2>2, <2>3
    <3>2. cut[p[1]] = request[p[1]] /\ origin(p) = p
      BY <1>1, <2>3, <3>1
    <3>3. p \in Places(request) /\ Image(request, p) = Image(cut, p)
      BY <2>2, <3>1, <3>2, PlaceForm DEF Image
    <3>4. QED
      BY <2>1, <2>2, <2>3, <3>2, <3>3 DEF Shown
  <2>4. CASE p[1] > h /\ p[1] <= h + s
    <3>1. s = 1 /\ p[1] = h + 1
      BY <1>1, <2>2, <2>4
    <3>2. cut[p[1]].images = <<>>
      BY <1>1, <1>2, <3>1
    <3>3. QED
      BY <2>2, <3>2
  <2>5. CASE p[1] > h + s
    <3> DEFINE i == p[1] - (h + s)
               q == <<c - 1 + i, p[2]>>
    <3>1. i \in 1 .. n /\ p[1] = h + s + i /\ c - 1 + i \in 1 .. Len(request)
      <4>1. p[1] \in Nat /\ h + s \in Nat /\ p[1] > h + s /\ p[1] <= h + s + n
        BY <1>1, <2>2, <2>5
      <4>2. n = Len(request) - c + 1
        BY DEF n
      <4>3. i \in 1 .. n /\ p[1] = h + s + i
        BY <1>1, <4>1
      <4> HIDE DEF i
      <4>4. c - 1 + i \in 1 .. Len(request)
        BY <1>1, <1>3, <4>2, <4>3
      <4>5. QED
        BY <4>3, <4>4
    <3>2. cut[p[1]] = request[c - 1 + i]
      BY <1>1, <3>1
    <3>3. ~ (p[1] <= h)
      BY <1>1, <2>2, <2>5
    <3>4. origin(p) = q
      BY <1>1, <1>3, <2>2, <3>3
    <3>5. q[1] = c - 1 + i /\ q[2] = p[2]
      OBVIOUS
    <3> HIDE DEF i
    <3>6. q \in Places(request) /\ Image(request, q) = Image(cut, p)
      BY <1>3, <2>2, <3>1, <3>2, <3>5, PlaceForm DEF Image
    <3> HIDE DEF q, origin
    <3>7. QED
      BY <2>1, <2>2, <2>5, <3>4, <3>6 DEF Shown
  <2>6. QED
    BY <1>1, <2>2, <2>3, <2>4, <2>5
<1>5. ASSUME NEW p \in Shown(cut), NEW q \in Shown(cut), origin(p) = origin(q)
      PROVE  p = q
  <2>1. /\ p = <<p[1], p[2]>> /\ p[1] \in Nat /\ q = <<q[1], q[2]>> /\ q[1] \in Nat
        /\ p[1] <= h \/ p[1] > h + s
        /\ q[1] <= h \/ q[1] > h + s
    BY <1>4
  <2>2. \A r : r[1] > h + s /\ r[1] \in Nat =>
                 origin(r)[1] = r[1] - (h + s) + (c - 1) /\ origin(r)[2] = r[2]
    BY <1>1
  <2>3. \A r : r[1] <= h => origin(r) = r
    OBVIOUS
  <2> HIDE DEF origin
  <2>4. CASE p[1] <= h /\ q[1] <= h
    BY <1>5, <2>3, <2>4
  <2>5. CASE p[1] > h + s /\ q[1] > h + s
    <3>1. p[1] - (h + s) + (c - 1) = q[1] - (h + s) + (c - 1) /\ p[2] = q[2]
      BY <1>5, <2>1, <2>2, <2>5
    <3>2. p[1] = q[1]
      BY <1>1, <1>3, <2>1, <3>1
    <3>3. QED
      BY <2>1, <3>1, <3>2
  <2>6. CASE p[1] <= h /\ q[1] > h + s
    <3>1. p[1] = q[1] - (h + s) + (c - 1)
      BY <1>5, <2>1, <2>2, <2>3, <2>6
    <3>2. QED
      BY <1>1, <1>3, <2>1, <2>6, <3>1
  <2>7. CASE q[1] <= h /\ p[1] > h + s
    <3>1. q[1] = p[1] - (h + s) + (c - 1)
      BY <1>5, <2>1, <2>2, <2>3, <2>7
    <3>2. QED
      BY <1>1, <1>3, <2>1, <2>7, <3>1
  <2>8. QED
    BY <2>1, <2>4, <2>5, <2>6, <2>7
<1> HIDE DEF origin
<1>6. FewerImages(cut, request)
  <2> DEFINE b == [p \in Shown(cut) |-> origin(p)]
  <2>1. b \in [Shown(cut) -> Shown(request)]
    BY <1>4
  <2>2. \A p \in Shown(cut) : b[p] = origin(p)
    OBVIOUS
  <2> HIDE DEF b
  <2>3. \A p \in Shown(cut) : Image(cut, p) = Image(request, b[p])
    BY <1>4, <2>2
  <2>4. \A p, q \in Shown(cut) : b[p] = b[q] => p = q
    BY <1>5, <2>2
  <2>5. QED
    BY <2>1, <2>3, <2>4, FewerByInjection
<1>7. QED
  BY <1>6 DEF cut

(* Projecting the results changes their sizes, and nothing else.           *)
LEMMA ProjectedIs ==
  ASSUME NEW request \in Seq(Message), NEW limit \in Nat
  PROVE  LET projected == Projected(request, limit)
         IN  /\ projected \in Seq(Message)
             /\ DOMAIN projected = DOMAIN request
             /\ \A i \in DOMAIN request :
                  /\ projected[i].kind = request[i].kind
                  /\ projected[i].images = request[i].images
                  /\ Bare(projected[i]) = Bare(request[i])
<1> DEFINE new(m) == IF Oversized(m, limit) THEN [m EXCEPT !.size = ProjectedSize(m, limit)] ELSE m
           projected == [i \in DOMAIN request |-> new(request[i])]
<1>1. Projected(request, limit) = projected
  BY DEF Projected
<1>2. ASSUME NEW m \in Message
      PROVE  /\ new(m) \in Message /\ new(m).kind = m.kind /\ new(m).images = m.images
             /\ Bare(new(m)) = Bare(m)
  <2>1. ProjectedSize(m, limit) \in Nat
    BY DEF ProjectedSize, Message
  <2>2. CASE Oversized(m, limit)
    BY <2>1, <2>2 DEF Message, Bare
  <2>3. CASE ~ Oversized(m, limit)
    BY <2>3
  <2>4. QED
    BY <2>2, <2>3
<1>3. DOMAIN request = 1 .. Len(request) /\ \A i \in DOMAIN request : request[i] \in Message
  BY MessageFields
<1> HIDE DEF new
<1>4. /\ DOMAIN projected = DOMAIN request
      /\ \A i \in DOMAIN request : projected[i] = new(request[i])
      /\ projected = [i \in 1 .. Len(request) |-> projected[i]]
  BY <1>3
<1> HIDE DEF projected
<1>5. \A i \in DOMAIN request : projected[i] \in Message
  BY <1>2, <1>3, <1>4
<1>6. projected \in Seq(Message)
  BY <1>3, <1>4, <1>5
<1>7. QED
  BY <1>1, <1>2, <1>3, <1>4, <1>6

(* So the images stay.                                                     *)
LEMMA ProjectedImages ==
  ASSUME NEW request \in Seq(Message), NEW limit \in Nat
  PROVE  /\ Shown(Projected(request, limit)) = Shown(request)
         /\ ImageBytes(Projected(request, limit)) = ImageBytes(request)
<1> DEFINE projected == Projected(request, limit)
<1>1. /\ projected \in Seq(Message) /\ DOMAIN projected = DOMAIN request
      /\ \A i \in DOMAIN request : projected[i].images = request[i].images
  BY ProjectedIs
<1> HIDE DEF projected
<1>2. \A p : p \in Places(projected) <=> p \in Places(request)
  BY <1>1, PlaceForm, Zenon
<1>3. Places(projected) = Places(request)
  BY <1>2
<1>4. ASSUME NEW p \in Places(request)
      PROVE  Image(projected, p) = Image(request, p)
  BY <1>1, PlaceForm, Zenon DEF Image
<1>5. Shown(projected) = Shown(request)
  BY <1>3, <1>4 DEF Shown
<1>6. \A p \in Shown(request) : Image(projected, p).size = Image(request, p).size
  BY <1>4 DEF Shown
<1> DEFINE f == [p \in Shown(request) |-> Image(projected, p).size]
           g == [p \in Shown(request) |-> Image(request, p).size]
<1>7. f = g
  BY <1>6
<1>8. Bytes(projected, Shown(request)) = Bytes(request, Shown(request))
  BY <1>7 DEF Bytes
<1>9. QED
  BY <1>5, <1>8 DEF ImageBytes, projected

-----------------------------------------------------------------------------
(* The attempts.                                                           *)

AttemptSet == [view : Seq(Message), limit : Nat]

(* A power of two is a number, and not zero: it counts the subsets of an   *)
(* interval.                                                               *)
LEMMA PowerIs ==
  ASSUME NEW n \in Nat PROVE 2 ^ n \in Nat \ {0}
<1> DEFINE S == 1 .. n
<1>1. IsFiniteSet(S) /\ Cardinality(S) = n
  BY FS_Interval
<1> HIDE DEF S
<1>2. IsFiniteSet(SUBSET S) /\ Cardinality(SUBSET S) = 2 ^ Cardinality(S)
  BY <1>1, FS_SUBSET
<1>3. Cardinality(SUBSET S) \in Nat /\ Cardinality(SUBSET S) # 0
  BY <1>2, FS_CardinalityType, FS_EmptySet
<1>4. QED
  BY <1>1, <1>2, <1>3

(* The limits that are tried are positive numbers.                         *)
LEMMA LimitsAre ==
  ASSUME NEW value \in {SummaryLimit, ResultLimit}
  PROVE  Limits(value) \in Seq(Nat \ {0})
<1>1. \E k \in 0 .. value : value = 2 ^ k
  BY HistoryAssumption, Zenon
<1>2. value \in Nat
  BY HistoryAssumption
<1> DEFINE k == Halvings(value)
<1>3. k \in Nat
  BY <1>1, <1>2 DEF Halvings
<1>4. Limits(value) = [i \in 1 .. k + 1 |-> 2 ^ (k + 1 - i)]
  BY DEF Limits
<1> HIDE DEF k
<1>5. \A i \in 1 .. k + 1 : 2 ^ (k + 1 - i) \in Nat \ {0}
  <2> SUFFICES ASSUME NEW i \in 1 .. k + 1 PROVE 2 ^ (k + 1 - i) \in Nat \ {0}
    OBVIOUS
  <2> DEFINE n == k + 1 - i
  <2>1. n \in Nat
    BY <1>3
  <2> HIDE DEF n
  <2>2. 2 ^ n \in Nat \ {0}
    BY <2>1, PowerIs
  <2>3. QED
    BY <2>2 DEF n
<1> DEFINE power(i) == 2 ^ (k + 1 - i)
<1>6. Limits(value) = [i \in 1 .. k + 1 |-> power(i)] /\ \A i \in 1 .. k + 1 : power(i) \in Nat \ {0}
  BY <1>4, <1>5
<1> HIDE DEF power
<1>7. QED
  BY <1>3, <1>6

(* What can be configured.                                                 *)
LEMMA Configured ==
  /\ Recent \in Nat \ {0} /\ SummaryLimit \in Nat /\ ResultLimit \in Nat
  /\ TextBudget \in Nat /\ ImageBudget \in Nat /\ Overhead \in Nat
BY HistoryAssumption

(* A compacted request is a request, with no more images than before.      *)
LEMMA CompactImages ==
  ASSUME NEW request \in Seq(Message), Calls(request), NEW n \in Nat \ {0}, NEW limit \in Nat
  PROVE  /\ Compact(request, n, limit) \in Seq(Message)
         /\ FewerImages(Compact(request, n, limit), request)
<1> DEFINE sent == Compact(request, n, limit)
<1>1. FewerImages(request, request)
  <2>1. Shown(request) \in SUBSET Places(request)
    BY DEF Shown
  <2>2. Cardinality(Shown(request)) \in Nat /\ ImageBytes(request) \in Nat
    BY <2>1, BytesNat DEF ImageBytes
  <2>3. QED
    BY <2>2 DEF FewerImages
<1>2. sent = request \/ \E c \in Indexes(request, "assistant") :
                          Base(request) < c /\ sent = Cut(request, c, limit)
  <2>1. ToolCount(request) \in Nat
    BY IndexFacts DEF ToolCount, ToolIndexes
  <2>2. CASE ToolCount(request) <= n
    BY <2>2, CompactIs
  <2>3. CASE n < ToolCount(request)
    <3>1. PICK c \in Indexes(request, "assistant") :
                 Base(request) <= c /\ sent = IF c = Base(request) THEN request ELSE Cut(request, c, limit)
      BY <2>3, CompactIs
    <3>2. c \in Nat /\ Base(request) \in Nat
      BY FirstResponseIs, IndexFacts DEF Base
    <3> HIDE DEF sent
    <3>3. QED
      BY <3>1, <3>2
  <2>4. QED
    BY <2>1, <2>2, <2>3
<1>3. QED
  BY <1>1, <1>2, CutIs, CutImages

(* An attempt with a number of results and a limit of the summary.         *)
LEMMA AttemptIs ==
  ASSUME NEW request \in Seq(Message), Calls(request), NEW n \in Nat \ {0},
         NEW summary \in Nat, NEW limit \in Nat
  PROVE  LET a == Attempt(request, n, summary, limit)
         IN  /\ a \in AttemptSet
             /\ a.view = Compact(request, n, summary) /\ a.limit = limit
<1>1. Compact(request, n, summary) \in Seq(Message)
  BY CompactImages
<1>2. QED
  BY <1>1 DEF Attempt, AttemptSet

(* The limits of the summary, of which the last drops it.                  *)
LEMMA SummariesAre ==
  ASSUME NEW request
  PROVE  /\ Summaries(request) \in Seq(Nat)
         /\ \E i \in DOMAIN Summaries(request) : Summaries(request)[i] = NoSummary
<1> DEFINE shrinking == IF ToolCount(request) > 1 THEN Limits(SummaryLimit) ELSE <<SummaryLimit>>
<1>1. shrinking \in Seq(Nat)
  <2>1. Limits(SummaryLimit) \in Seq(Nat \ {0})
    BY LimitsAre
  <2>2. Limits(SummaryLimit) \in Seq(Nat)
    BY <2>1
  <2>3. <<SummaryLimit>> \in Seq(Nat)
    BY Configured
  <2>4. QED
    BY <2>2, <2>3
<1>2. Summaries(request) = shrinking \o <<NoSummary>>
  BY DEF Summaries
<1> HIDE DEF shrinking
<1>3. NoSummary \in Nat
  BY DEF NoSummary
<1>4. /\ shrinking \o <<NoSummary>> \in Seq(Nat)
      /\ (shrinking \o <<NoSummary>>)[Len(shrinking) + 1] = NoSummary
      /\ Len(shrinking) + 1 \in DOMAIN (shrinking \o <<NoSummary>>)
  BY <1>1, <1>3
<1>5. QED
  BY <1>2, <1>4

(* The attempts with projected results: one for each limit of the summary  *)
(* and of a result, with the newest result only.                           *)
LEMMA ProjectionsAre ==
  ASSUME NEW request \in Seq(Message), Calls(request)
  PROVE  /\ Projections(request) \in Seq(AttemptSet)
         /\ \A a : a \in Range(Projections(request)) <=>
              \E s \in DOMAIN Summaries(request) : \E l \in DOMAIN Limits(ResultLimit) :
                a = Attempt(request, 1, Summaries(request)[s], Limits(ResultLimit)[l])
<1> DEFINE S == Summaries(request)
           L == Limits(ResultLimit)
           row(s) == [l \in DOMAIN L |-> Attempt(request, 1, S[s], L[l])]
           rows == [s \in DOMAIN S |-> row(s)]
<1>1. S \in Seq(Nat) /\ L \in Seq(Nat)
  <2>1. L \in Seq(Nat \ {0})
    BY LimitsAre
  <2> HIDE DEF L
  <2>2. QED
    BY <2>1, SummariesAre
<1>2. Projections(request) = FlattenSeq(rows)
  BY DEF Projections
<1> HIDE DEF S, L
<1>3. \A s \in DOMAIN S : S[s] \in Nat
  BY <1>1
<1>4. \A l \in DOMAIN L : L[l] \in Nat
  BY <1>1
<1>5. ASSUME NEW s \in DOMAIN S
      PROVE  row(s) \in Seq(AttemptSet)
  <2>1. \A l \in DOMAIN L : row(s)[l] \in AttemptSet
    <3>1. \A l \in DOMAIN L : Attempt(request, 1, S[s], L[l]) \in AttemptSet
      BY <1>3, <1>4, AttemptIs
    <3>2. QED
      BY <3>1
  <2>2. DOMAIN L = 1 .. Len(L) /\ Len(L) \in Nat /\ row(s) = [l \in DOMAIN L |-> row(s)[l]]
    BY <1>1
  <2> HIDE DEF row
  <2>3. QED
    BY <2>1, <2>2
<1>6. rows \in Seq(Seq(AttemptSet))
  <2>1. DOMAIN S = 1 .. Len(S) /\ Len(S) \in Nat
    BY <1>1
  <2> HIDE DEF row
  <2>2. QED
    BY <1>5, <2>1
<1>7. /\ FlattenSeq(rows) \in Seq(AttemptSet)
      /\ Range(FlattenSeq(rows)) = UNION {Range(rows[i]) : i \in DOMAIN rows}
  <2> HIDE DEF rows
  <2> QED BY <1>6, FlattenRange
<1>8. DOMAIN rows = DOMAIN S /\ \A s \in DOMAIN S : rows[s] = row(s)
  OBVIOUS
<1>9. \A s, a : a \in Range(row(s)) <=> \E l \in DOMAIN L : a = Attempt(request, 1, S[s], L[l])
  BY DEF Range
<1> HIDE DEF rows, row
<1>10. \A a : a \in Range(FlattenSeq(rows)) <=>
                \E s \in DOMAIN S : \E l \in DOMAIN L : a = Attempt(request, 1, S[s], L[l])
  <2>1. \A a : a \in Range(FlattenSeq(rows)) <=> \E s \in DOMAIN rows : a \in Range(rows[s])
    BY <1>7
  <2>2. \A a : \A s \in DOMAIN S :
          a \in Range(rows[s]) <=> \E l \in DOMAIN L : a = Attempt(request, 1, S[s], L[l])
    BY <1>8, <1>9
  <2>3. QED
    BY <1>8, <2>1, <2>2
<1>11. QED
  BY <1>2, <1>7, <1>10 DEF S, L

(* How many of the newest results an attempt keeps at most.                *)
LEMMA MostIs ==
  ASSUME NEW request \in Seq(Message), NEW recent \in Nat \ {0}
  PROVE  LET m == Most(request, recent)
         IN  /\ m \in Nat /\ m <= ToolCount(request)
             /\ \A k \in Nat : k <= ToolCount(request) /\ (bounded => k <= recent) => k <= m
             /\ bounded => m <= recent
<1> DEFINE k == ToolCount(request)
<1>1. k \in Nat
  BY IndexFacts DEF ToolCount, ToolIndexes
<1>2. Min({k, recent}) \in {k, recent} /\ \A i \in {k, recent} : Min({k, recent}) <= i
  <2>1. {k, recent} \in SUBSET Nat /\ {k, recent} # {}
    BY <1>1
  <2> HIDE DEF k
  <2>2. QED
    BY <2>1, MinIs
<1>3. Most(request, recent) = IF bounded THEN Min({k, recent}) ELSE k
  BY DEF Most
<1> HIDE DEF k
<1> DEFINE m == Min({k, recent})
<1>4. m \in Nat /\ m <= k /\ m <= recent /\ (m = k \/ m = recent)
  BY <1>1, <1>2
<1> HIDE DEF m
<1>5. CASE bounded
  <2>1. Most(request, recent) = m
    BY <1>3, <1>5 DEF m
  <2>2. QED
    BY <1>1, <1>4, <1>5, <2>1 DEF k
<1>6. CASE ~ bounded
  BY <1>1, <1>3, <1>6 DEF k
<1>7. QED
  BY <1>5, <1>6

(* With results to keep or to drop: first the newest exchanges, as many as *)
(* allowed, then fewer, then the newest one with its results projected.    *)
LEMMA AttemptsAre ==
  ASSUME NEW request \in Seq(Message), Calls(request), NEW recent \in Nat \ {0},
         ToolIndexes(request) # {}
  PROVE  LET A == Attempts(request, recent)
             m == Most(request, recent)
         IN  /\ A \in Seq(AttemptSet) /\ m \in Nat /\ m <= Len(A)
             /\ \A i \in 1 .. m : A[i] = Attempt(request, m + 1 - i, SummaryLimit, Unprojected)
             /\ \A i \in DOMAIN A : i > m => A[i] \in Range(Projections(request))
             /\ \A a \in Range(Projections(request)) : \E i \in DOMAIN A : A[i] = a
<1> DEFINE R == RecentViews(request, recent)
           P == Projections(request)
           A == R \o P
           m == Most(request, recent)
<1>1. m \in Nat
  BY MostIs
<1>2. P \in Seq(AttemptSet)
  BY ProjectionsAre
<1>3. SummaryLimit \in Nat /\ Unprojected \in Nat
  BY Configured DEF Unprojected
<1>4. /\ DOMAIN R = 1 .. m
      /\ \A i \in 1 .. m : R[i] = Attempt(request, m + 1 - i, SummaryLimit, Unprojected)
      /\ R = [i \in 1 .. m |-> R[i]]
  BY DEF RecentViews
<1>5. Attempts(request, recent) = A
  BY DEF Attempts
<1> HIDE DEF R, P, m
<1>6. \A i \in 1 .. m : R[i] \in AttemptSet
  <2> SUFFICES ASSUME NEW i \in 1 .. m PROVE R[i] \in AttemptSet
    OBVIOUS
  <2>1. m + 1 - i \in Nat \ {0}
    BY <1>1
  <2>2. Attempt(request, m + 1 - i, SummaryLimit, Unprojected) \in AttemptSet
    BY <1>3, <2>1, AttemptIs
  <2>3. QED
    BY <1>4, <2>2
<1>7. R \in Seq(AttemptSet) /\ Len(R) = m
  BY <1>1, <1>4, <1>6
<1>8. /\ A \in Seq(AttemptSet) /\ Len(A) = m + Len(P) /\ DOMAIN A = 1 .. m + Len(P)
      /\ Len(P) \in Nat /\ DOMAIN P = 1 .. Len(P)
      /\ \A i \in 1 .. m : A[i] = R[i]
      /\ \A i \in 1 .. Len(P) : A[m + i] = P[i]
  BY <1>1, <1>2, <1>7
<1> HIDE DEF A
<1>9. ASSUME NEW i \in DOMAIN A, i > m
      PROVE  A[i] \in Range(P)
  <2>1. i - m \in 1 .. Len(P) /\ i = m + (i - m)
    BY <1>1, <1>8, <1>9
  <2>2. A[i] = P[i - m] /\ i - m \in DOMAIN P
    BY <1>8, <2>1
  <2>3. QED
    BY <2>2 DEF Range
<1>10. ASSUME NEW a \in Range(P)
       PROVE  \E i \in DOMAIN A : A[i] = a
  <2>1. PICK i \in DOMAIN P : a = P[i]
    BY DEF Range
  <2>2. m + i \in DOMAIN A /\ A[m + i] = a
    BY <1>1, <1>8, <2>1
  <2>3. QED
    BY <2>2
<1>11. m <= Len(A)
  BY <1>1, <1>8
<1>12. \A i \in 1 .. m : A[i] = Attempt(request, m + 1 - i, SummaryLimit, Unprojected)
  BY <1>4, <1>8
<1>13. QED
  BY <1>1, <1>5, <1>8, <1>9, <1>10, <1>11, <1>12 DEF P, m

(* Every attempt is the whole request, if there is no result in it, or     *)
(* keeps some of the newest results.                                       *)
LEMMA EachAttempt ==
  ASSUME NEW request \in Seq(Message), Calls(request), NEW recent \in Nat \ {0}
  PROVE  /\ Attempts(request, recent) \in Seq(AttemptSet)
         /\ \A i \in DOMAIN Attempts(request, recent) :
              LET a == Attempts(request, recent)[i]
              IN  \/ a.view = request /\ ToolIndexes(request) = {}
                  \/ /\ ToolIndexes(request) # {}
                     /\ \E n \in Nat \ {0}, s \in Nat : a.view = Compact(request, n, s)
<1> DEFINE A == Attempts(request, recent)
<1>1. CASE ToolIndexes(request) = {}
  <2> DEFINE a == [view |-> request, limit |-> Unprojected]
  <2>1. A = <<a>> /\ a \in AttemptSet /\ a.view = request
    BY <1>1 DEF Attempts, AttemptSet, Unprojected
  <2> HIDE DEF a, A
  <2>2. A \in Seq(AttemptSet) /\ DOMAIN A = {1} /\ A[1].view = request
    BY <2>1
  <2>3. QED
    BY <1>1, <2>2 DEF A
<1>2. CASE ToolIndexes(request) # {}
  <2> DEFINE m == Most(request, recent)
  <2>1. /\ A \in Seq(AttemptSet) /\ m \in Nat
        /\ \A i \in 1 .. m : A[i] = Attempt(request, m + 1 - i, SummaryLimit, Unprojected)
        /\ \A i \in DOMAIN A : i > m => A[i] \in Range(Projections(request))
    BY <1>2, AttemptsAre
  <2> HIDE DEF A, m
  <2>2. ASSUME NEW i \in DOMAIN A
        PROVE  \E n \in Nat \ {0}, s \in Nat : A[i].view = Compact(request, n, s)
    <3>1. i \in Nat /\ i >= 1
      BY <2>1
    <3>2. CASE i <= m
      <4>1. m + 1 - i \in Nat \ {0} /\ i \in 1 .. m
        BY <2>1, <3>1, <3>2
      <4>2. A[i].view = Compact(request, m + 1 - i, SummaryLimit)
        <5>1. A[i] = Attempt(request, m + 1 - i, SummaryLimit, Unprojected)
          BY <2>1, <4>1
        <5>2. QED
          BY <5>1 DEF Attempt
      <4>3. QED
        BY <4>1, <4>2, Configured
    <3>3. CASE i > m
      <4>1. PICK s \in DOMAIN Summaries(request), l \in DOMAIN Limits(ResultLimit) :
                   A[i] = Attempt(request, 1, Summaries(request)[s], Limits(ResultLimit)[l])
        BY <2>1, <3>3, ProjectionsAre
      <4>2. Summaries(request)[s] \in Nat /\ 1 \in Nat \ {0}
        BY SummariesAre
      <4>3. A[i].view = Compact(request, 1, Summaries(request)[s])
        BY <4>1 DEF Attempt
      <4>4. QED
        BY <4>2, <4>3
    <3>4. QED
      BY <2>1, <3>1, <3>2, <3>3
  <2>3. QED
    BY <1>2, <2>1, <2>2 DEF A
<1>3. QED
  BY <1>1, <1>2

(* The content of an attempt is a request with no more images.             *)
LEMMA ContentImages ==
  ASSUME NEW request \in Seq(Message), Calls(request), NEW recent \in Nat \ {0},
         NEW i \in DOMAIN Attempts(request, recent)
  PROVE  LET content == Content(Attempts(request, recent)[i])
         IN  content \in Seq(Message) /\ FewerImages(content, request)
<1> DEFINE a == Attempts(request, recent)[i]
<1>1. Attempts(request, recent) \in Seq(AttemptSet)
  BY EachAttempt
<1>2. a \in AttemptSet
  BY <1>1
<1>3. a.view \in Seq(Message) /\ a.limit \in Nat
  BY <1>2 DEF AttemptSet
<1>4. a.view = request \/ \E n \in Nat \ {0}, s \in Nat : a.view = Compact(request, n, s)
  BY EachAttempt
<1>5. FewerImages(a.view, request)
  <2>1. CASE a.view = request
    <3>1. Shown(request) \in SUBSET Places(request)
      BY DEF Shown
    <3>2. Cardinality(Shown(request)) \in Nat /\ ImageBytes(request) \in Nat
      BY <3>1, BytesNat DEF ImageBytes
    <3> HIDE DEF a
    <3>3. QED
      BY <2>1, <3>2 DEF FewerImages
  <2>2. CASE \E n \in Nat \ {0}, s \in Nat : a.view = Compact(request, n, s)
    BY <2>2, CompactImages
  <2>3. QED
    BY <1>4, <2>1, <2>2
<1> HIDE DEF a
<1>6. CASE a.limit = Unprojected
  BY <1>3, <1>5, <1>6 DEF Content, a
<1>7. CASE a.limit # Unprojected
  <2> DEFINE projected == Projected(a.view, a.limit)
  <2>1. /\ projected \in Seq(Message) /\ Shown(projected) = Shown(a.view)
        /\ ImageBytes(projected) = ImageBytes(a.view)
    BY <1>3, ProjectedIs, ProjectedImages
  <2>2. Content(a) = projected
    BY <1>7 DEF Content
  <2> HIDE DEF projected
  <2>3. FewerImages(projected, request)
    BY <1>5, <2>1 DEF FewerImages
  <2>4. QED
    BY <2>1, <2>2, <2>3 DEF a
<1>8. QED
  BY <1>6, <1>7

-----------------------------------------------------------------------------
(* What is sent, and what is given up.                                     *)

(* prepare sends the first attempt that fits, unless one before it cannot  *)
(* be made.                                                                *)
LEMMA PreparedIs ==
  ASSUME NEW request \in Seq(Message), Calls(request), NEW recent \in Nat \ {0}
  PROVE  LET A == Attempts(request, recent)
             p == Prepared(request, recent)
         IN  \/ /\ p.how = "refused"
                /\ \A i \in DOMAIN A : ~ Raises(A[i]) /\ ~ Fits(A[i])
             \/ \E i \in DOMAIN A :
                  /\ \A j \in 1 .. i - 1 : ~ Raises(A[j]) /\ ~ Fits(A[j])
                  /\ \/ p.how = "unprojectable"
                     \/ p.how = "refused" /\ ImageBytes(Content(A[i])) > ImageBudget
                     \/ /\ p.how = "asked" /\ p.view = Content(A[i]) /\ Fits(A[i])
                        /\ ImageBytes(p.view) <= ImageBudget
<1> DEFINE A == Attempts(request, recent)
           p == Prepared(request, recent)
           I == {i \in 1 .. Len(A) : Raises(A[i]) \/ Fits(A[i])}
           first == IF I # {} THEN Min(I) ELSE 0
<1>1. A \in Seq(AttemptSet) /\ DOMAIN A = 1 .. Len(A) /\ Len(A) \in Nat
  BY EachAttempt
<1>2. p = IF first = 0 THEN [how |-> "refused", view |-> <<>>]
          ELSE IF Raises(A[first]) THEN [how |-> "unprojectable", view |-> <<>>]
          ELSE IF ImageBytes(Content(A[first])) > ImageBudget
          THEN [how |-> "refused", view |-> <<>>]
          ELSE [how |-> "asked", view |-> Content(A[first])]
  BY DEF Prepared, SelectInSeq
<1>3. CASE I = {}
  <2>1. p.how = "refused"
    BY <1>2, <1>3
  <2>2. \A i \in DOMAIN A : ~ Raises(A[i]) /\ ~ Fits(A[i])
    BY <1>1, <1>3
  <2>3. QED
    BY <2>1, <2>2
<1>4. CASE I # {}
  <2>1. Min(I) \in I /\ \A j \in I : Min(I) <= j
    <3>1. I \in SUBSET Nat
      OBVIOUS
    <3> HIDE DEF I
    <3>2. QED
      BY <1>4, <3>1, MinIs
  <2>2. first = Min(I)
    BY <1>4
  <2> HIDE DEF first
  <2>3. /\ first \in 1 .. Len(A) /\ first \in DOMAIN A /\ first # 0
        /\ Raises(A[first]) \/ Fits(A[first])
    BY <1>1, <2>1, <2>2
  <2>4. \A j \in 1 .. first - 1 : ~ Raises(A[j]) /\ ~ Fits(A[j])
    <3> SUFFICES ASSUME NEW j \in 1 .. first - 1 PROVE ~ Raises(A[j]) /\ ~ Fits(A[j])
      OBVIOUS
    <3>1. j \in 1 .. Len(A) /\ j < first
      BY <1>1, <2>3
    <3>2. j \notin I
      <4> HIDE DEF I
      <4> QED BY <1>1, <2>1, <2>2, <2>3, <3>1
    <3>3. QED
      BY <3>1, <3>2
  <2>5. ImageBytes(Content(A[first])) \in Nat /\ ImageBudget \in Nat
    <3>1. Content(A[first]) \in Seq(Message)
      BY <2>3, ContentImages
    <3>2. Shown(Content(A[first])) \in SUBSET Places(Content(A[first]))
      BY DEF Shown
    <3>3. QED
      BY <3>1, <3>2, BytesNat, Configured DEF ImageBytes
  <2> HIDE DEF I
  <2>6. CASE Raises(A[first])
    <3>1. p.how = "unprojectable"
      BY <1>2, <2>3, <2>6
    <3>2. QED
      BY <2>3, <2>4, <3>1
  <2>7. CASE ~ Raises(A[first]) /\ ImageBytes(Content(A[first])) > ImageBudget
    <3>1. p.how = "refused"
      BY <1>2, <2>3, <2>7
    <3>2. QED
      BY <2>3, <2>4, <2>7, <3>1
  <2>8. CASE ~ Raises(A[first]) /\ ~ (ImageBytes(Content(A[first])) > ImageBudget)
    <3>1. p.how = "asked" /\ p.view = Content(A[first])
      BY <1>2, <2>3, <2>8
    <3>2. ImageBytes(p.view) <= ImageBudget
      BY <2>5, <2>8, <3>1
    <3>3. QED
      BY <2>3, <2>4, <2>8, <3>1, <3>2
  <2>9. QED
    BY <2>6, <2>7, <2>8
<1>5. QED
  BY <1>3, <1>4

(* Of some images one is the oldest.                                       *)
LEMMA OldestImage ==
  ASSUME NEW request \in Seq(Message), NEW K \in SUBSET Places(request), K # {}
  PROVE  \E p \in K : K = Since(p, K)
<1> DEFINE I == {p[1] : p \in K}
<1>1. \A p \in K : p[1] \in Nat /\ p[2] \in Nat
  BY PlaceFacts
<1>2. PICK i \in I : \A k \in I : i <= k
  <2>1. I \in SUBSET Nat /\ I # {}
    BY <1>1
  <2> HIDE DEF I
  <2>2. QED
    BY <2>1, Least
<1> DEFINE J == {p[2] : p \in {q \in K : q[1] = i}}
<1>3. PICK j \in J : \A k \in J : j <= k
  <2>1. J \in SUBSET Nat /\ J # {}
    BY <1>1, <1>2
  <2> HIDE DEF J
  <2>2. QED
    BY <2>1, Least
<1>4. PICK p \in K : p[1] = i /\ p[2] = j
  BY <1>3
<1>5. \A q \in K : q[1] > p[1] \/ (q[1] = p[1] /\ q[2] >= p[2])
  <2> SUFFICES ASSUME NEW q \in K PROVE q[1] > p[1] \/ (q[1] = p[1] /\ q[2] >= p[2])
    OBVIOUS
  <2>1. i <= q[1]
    BY <1>2
  <2>2. q[1] = i => j <= q[2]
    BY <1>3
  <2> HIDE DEF I, J
  <2>3. QED
    BY <1>1, <1>4, <2>1, <2>2
<1>6. K = Since(p, K)
  BY <1>5 DEF Since
<1>7. QED
  BY <1>6

(* The images that pruning keeps are within both limits.                   *)
LEMMA KeptIs ==
  ASSUME NEW request \in Seq(Message), NEW max \in Nat
  PROVE  Cardinality(Kept(request, max)) <= max /\ Bytes(request, Kept(request, max)) <= ImageBudget
<1> DEFINE K == Kept(request, max)
           S == Shown(request)
<1>1. K \subseteq S /\ S \subseteq Places(request) /\ K \in SUBSET Places(request)
  BY DEF Kept, Shown
<1>2. ImageBudget \in Nat /\ Cardinality(K) \in Nat /\ Bytes(request, K) \in Nat
  <2> HIDE DEF K
  <2> QED BY <1>1, BytesNat, Configured
<1>3. CASE K = {}
  <2>1. Cardinality({}) = 0
    BY FS_EmptySet
  <2>2. Bytes(request, {}) = 0
    <3> DEFINE f == [p \in {} |-> Image(request, p).size]
    <3>1. DOMAIN f = {} /\ Bytes(request, {}) = SumFunction(f)
      BY DEF Bytes
    <3> HIDE DEF f
    <3>2. QED
      BY <3>1, SumFunctionIsSum, SumEmpty
  <2> HIDE DEF K
  <2>3. QED
    BY <1>2, <1>3, <2>1, <2>2 DEF K
<1>4. CASE K # {}
  <2>1. PICK p \in K : K = Since(p, K)
    <3> HIDE DEF K
    <3> QED BY <1>1, <1>4, OldestImage
  <2> DEFINE T == Since(p, S)
  <2>2. Cardinality(T) <= max /\ Bytes(request, T) <= ImageBudget
    BY DEF Kept
  <2>3. K \subseteq T /\ T \in SUBSET Places(request)
    BY <1>1, <2>1, SinceWithin
  <2>4. Cardinality(T) \in Nat /\ Bytes(request, T) \in Nat
    <3> HIDE DEF T
    <3> QED BY <2>3, BytesNat
  <2>5. Bytes(request, K) <= Bytes(request, T) /\ Cardinality(K) <= Cardinality(T)
    <3> HIDE DEF K, T
    <3> QED BY <2>3, BytesWithin
  <2> HIDE DEF K, T
  <2>6. QED
    BY <1>2, <2>2, <2>4, <2>5 DEF K
<1>5. QED
  BY <1>3, <1>4

(* So is a request whose images have been pruned.                          *)
LEMMA PrunedWithin ==
  ASSUME NEW request \in Seq(Message), NEW max \in Nat
  PROVE  LET pruned == Pruned(request, max)
         IN  /\ Cardinality(Shown(pruned)) \in Nat /\ Cardinality(Shown(pruned)) <= max
             /\ ImageBytes(pruned) \in Nat /\ ImageBytes(pruned) <= ImageBudget
<1> DEFINE pruned == Pruned(request, max)
           K == Kept(request, max)
<1>1. /\ pruned \in Seq(Message) /\ Shown(pruned) = K
      /\ Places(pruned) = Places(request)
      /\ \A p \in Places(request) : Image(pruned, p).size = Image(request, p).size
  BY PrunedRequest
<1>2. K \in SUBSET Places(request)
  BY DEF Kept, Shown
<1>3. Cardinality(K) <= max /\ Bytes(request, K) <= ImageBudget
  BY KeptIs
<1> HIDE DEF pruned, K
<1>4. Bytes(pruned, K) <= Bytes(request, K)
  BY <1>1, <1>2, BytesWithin
<1>5. Bytes(request, K) \in Nat /\ Bytes(pruned, K) \in Nat /\ Cardinality(K) \in Nat
  BY <1>1, <1>2, BytesNat
<1>6. ImageBudget \in Nat
  BY Configured
<1>7. QED
  BY <1>1, <1>3, <1>4, <1>5, <1>6 DEF ImageBytes, pruned

(* Requests that differ in their images only.                              *)
SameText(first, second) ==
  /\ DOMAIN first = DOMAIN second
  /\ \A i \in DOMAIN first :
       /\ first[i].kind = second[i].kind /\ first[i].size = second[i].size
       /\ first[i].core = second[i].core /\ first[i].fills = second[i].fills

(* A request weighs what its messages weigh.                               *)
LEMMA SameSize ==
  ASSUME NEW first, NEW second, DOMAIN first = DOMAIN second,
         \A i \in DOMAIN first : first[i].size = second[i].size
  PROVE  Size(first) = Size(second)
<1>1. [i \in DOMAIN first |-> first[i].size] = [i \in DOMAIN second |-> second[i].size]
  OBVIOUS
<1>2. QED
  BY <1>1 DEF Size

(* Messages of the same kinds are in the same places.                      *)
LEMMA SameIndexes ==
  ASSUME NEW first, NEW second, SameText(first, second)
  PROVE  \A kind : Indexes(first, kind) = Indexes(second, kind)
BY DEF SameText, Indexes

(* They are compacted in the same way.                                     *)
LEMMA SameCompact ==
  ASSUME NEW first \in Seq(Message), NEW second \in Seq(Message),
         Calls(first), Calls(second), SameText(first, second),
         NEW n \in Nat \ {0}, NEW limit \in Nat
  PROVE  SameText(Compact(first, n, limit), Compact(second, n, limit))
<1>1. \A kind : Indexes(first, kind) = Indexes(second, kind)
  BY SameIndexes
<1>2. /\ ToolIndexes(first) = ToolIndexes(second)
      /\ Indexes(first, "assistant") = Indexes(second, "assistant")
  BY <1>1 DEF ToolIndexes
<1>3. ToolCount(first) = ToolCount(second) /\ Base(first) = Base(second)
  BY <1>2 DEF ToolCount, Base
<1>4. \A t : ExchangeStart(first, t) = ExchangeStart(second, t)
  BY <1>2 DEF ExchangeStart
<1>5. FirstRecent(first, n) = FirstRecent(second, n)
  BY <1>2 DEF FirstRecent
<1>6. Start(first, n) = Start(second, n)
  BY <1>4, <1>5 DEF Start
<1>7. ToolCount(first) \in Nat
  BY IndexFacts DEF ToolCount, ToolIndexes
<1> DEFINE c == Start(first, n)
<1>8. CASE ToolCount(first) <= n
  BY <1>3, <1>8, CompactIs
<1>9. CASE n < ToolCount(first)
  <2>1. /\ c \in Indexes(first, "assistant") /\ Base(first) <= c
        /\ Compact(first, n, limit) = IF c = Base(first) THEN first ELSE Cut(first, c, limit)
        /\ Compact(second, n, limit) = IF c = Base(first) THEN second ELSE Cut(second, c, limit)
    BY <1>3, <1>6, <1>9, CompactIs
  <2> HIDE DEF c
  <2>2. CASE c = Base(first)
    BY <2>1, <2>2
  <2>3. CASE c # Base(first)
    <3> DEFINE h == Base(first) - 1
               between == Between(first, c, limit)
               s == Len(between)
               k == Len(first) - c + 1
    <3>1. Len(first) = Len(second) /\ DOMAIN first = 1 .. Len(first)
      BY DEF SameText
    <3>2. Between(second, c, limit) = between
      BY <1>2 DEF Between
    <3>3. Base(first) < c /\ c \in Indexes(second, "assistant")
      <4>1. Base(first) \in Nat /\ c \in Nat
        BY <2>1, FirstResponseIs, IndexFacts DEF Base
      <4>2. QED
        BY <1>2, <2>1, <2>3, <4>1
    <3>4. /\ h \in Nat /\ k \in Nat /\ s \in {0, 1} /\ h + 1 < c /\ c <= Len(first)
          /\ DOMAIN Cut(first, c, limit) = 1 .. h + s + k
          /\ \A i \in 1 .. h : Cut(first, c, limit)[i] = first[i]
          /\ \A i \in 1 .. s : i = 1 /\ Cut(first, c, limit)[h + 1] = between[1]
          /\ \A i \in 1 .. k : Cut(first, c, limit)[h + s + i] = first[c - 1 + i]
      BY <2>1, <3>3, CutIs
    <3>5. /\ DOMAIN Cut(second, c, limit) = 1 .. h + s + k
          /\ \A i \in 1 .. h : Cut(second, c, limit)[i] = second[i]
          /\ \A i \in 1 .. s : i = 1 /\ Cut(second, c, limit)[h + 1] = between[1]
          /\ \A i \in 1 .. k : Cut(second, c, limit)[h + s + i] = second[c - 1 + i]
      <4>1. Base(second) < c
        BY <1>3, <3>3
      <4>2. LET between2 == Between(second, c, limit)
                h2 == Base(second) - 1
                s2 == Len(between2)
                k2 == Len(second) - c + 1
            IN  /\ DOMAIN Cut(second, c, limit) = 1 .. h2 + s2 + k2
                /\ \A i \in 1 .. h2 : Cut(second, c, limit)[i] = second[i]
                /\ \A i \in 1 .. s2 : i = 1 /\ Cut(second, c, limit)[h2 + 1] = between2[1]
                /\ \A i \in 1 .. k2 : Cut(second, c, limit)[h2 + s2 + i] = second[c - 1 + i]
        BY <3>3, <4>1, CutIs
      <4>3. Base(second) - 1 = h /\ Len(second) - c + 1 = k
        BY <1>3, <3>1
      <4> HIDE DEF h, k
      <4>4. QED
        BY <3>2, <4>2, <4>3
    <3> DEFINE u == Cut(first, c, limit)
               v == Cut(second, c, limit)
               like(m, o) == /\ m.kind = o.kind /\ m.size = o.size
                             /\ m.core = o.core /\ m.fills = o.fills
    <3>6. \A i \in DOMAIN first : like(first[i], second[i])
      BY DEF SameText
    <3>7. c \in Nat /\ Len(first) \in Nat
      BY <2>1, IndexFacts
    <3>8. k = Len(first) - c + 1
      OBVIOUS
    <3> HIDE DEF h, s, k, between, u, v, like
    <3>9. ASSUME NEW i \in DOMAIN u PROVE like(u[i], v[i])
      <4>1. i \in 1 .. h + s + k
        BY <3>4 DEF u
      <4>2. CASE i <= h
        <5>1. i \in 1 .. h /\ i \in DOMAIN first
          BY <3>1, <3>4, <3>7, <4>1, <4>2
        <5>2. u[i] = first[i] /\ v[i] = second[i]
          BY <3>4, <3>5, <5>1 DEF u, v
        <5>3. QED
          BY <3>6, <5>1, <5>2
      <4>3. CASE i > h /\ i <= h + s
        <5>1. i = h + 1 /\ 1 \in 1 .. s
          BY <3>4, <4>1, <4>3
        <5>2. u[i] = between[1] /\ v[i] = between[1]
          BY <3>4, <3>5, <5>1 DEF u, v
        <5>3. QED
          BY <5>2 DEF like
      <4>4. CASE i > h + s
        <5> DEFINE j == i - (h + s)
        <5>1. j \in 1 .. k /\ i = h + s + j
          BY <3>4, <4>1, <4>4
        <5> HIDE DEF j
        <5>2. c - 1 + j \in DOMAIN first
          BY <3>1, <3>4, <3>7, <3>8, <5>1
        <5>3. u[i] = first[c - 1 + j] /\ v[i] = second[c - 1 + j]
          BY <3>4, <3>5, <5>1 DEF u, v
        <5>4. QED
          BY <3>6, <5>2, <5>3
      <4>5. QED
        BY <3>4, <4>1, <4>2, <4>3, <4>4
    <3>10. DOMAIN u = DOMAIN v
      BY <3>4, <3>5 DEF u, v
    <3>11. SameText(u, v)
      BY <3>9, <3>10 DEF SameText, like
    <3>12. QED
      BY <2>1, <2>3, <3>11 DEF u, v
  <2>4. QED
    BY <2>2, <2>3
<1>10. QED
  BY <1>7, <1>8, <1>9

(* And fit or do not, whatever limit the results have.                     *)
LEMMA SameFits ==
  ASSUME NEW first \in Seq(Message), NEW second \in Seq(Message), SameText(first, second),
         NEW limit
  PROVE  LET a == [view |-> first, limit |-> limit]
             b == [view |-> second, limit |-> limit]
         IN  (Raises(a) <=> Raises(b)) /\ (Fits(a) <=> Fits(b))
<1> DEFINE a == [view |-> first, limit |-> limit]
           b == [view |-> second, limit |-> limit]
<1>1. a.view = first /\ a.limit = limit /\ b.view = second /\ b.limit = limit
  OBVIOUS
<1> HIDE DEF a, b
<1>2. \A i \in DOMAIN first : Oversized(first[i], limit) <=> Oversized(second[i], limit)
  BY DEF SameText, Oversized
<1>3. Projectable(first, limit) <=> Projectable(second, limit)
  BY <1>2 DEF Projectable, SameText
<1>4. Raises(a) <=> Raises(b)
  BY <1>1, <1>3 DEF Raises
<1>5. Size(first) = Size(second)
  BY SameSize DEF SameText
<1>6. Size(Projected(first, limit)) = Size(Projected(second, limit))
  <2> DEFINE f == Projected(first, limit)
             g == Projected(second, limit)
             size(m) == IF Oversized(m, limit) THEN ProjectedSize(m, limit) ELSE m.size
  <2>1. DOMAIN f = DOMAIN first /\ DOMAIN g = DOMAIN second
    BY DEF Projected
  <2>2. \A i \in DOMAIN first : first[i].size = second[i].size
    BY DEF SameText
  <2>3. \A i \in DOMAIN first : ProjectedSize(first[i], limit) = ProjectedSize(second[i], limit)
    BY DEF SameText, ProjectedSize
  <2>4. \A i \in DOMAIN first : f[i].size = g[i].size
    <3> SUFFICES ASSUME NEW i \in DOMAIN first PROVE f[i].size = g[i].size
      OBVIOUS
    <3>1. /\ f[i] = IF Oversized(first[i], limit)
                    THEN [first[i] EXCEPT !.size = ProjectedSize(first[i], limit)] ELSE first[i]
          /\ g[i] = IF Oversized(second[i], limit)
                    THEN [second[i] EXCEPT !.size = ProjectedSize(second[i], limit)] ELSE second[i]
      BY DEF Projected, SameText
    <3>2. QED
      BY <1>2, <2>2, <2>3, <3>1
  <2> HIDE DEF f, g
  <2>5. DOMAIN f = DOMAIN g
    BY <2>1 DEF SameText
  <2>6. Size(f) = Size(g)
    BY <2>1, <2>4, <2>5, SameSize
  <2>7. QED
    BY <2>6 DEF f, g
<1>7. Size(Content(a)) = Size(Content(b))
  BY <1>1, <1>5, <1>6 DEF Content
<1>8. QED
  BY <1>4, <1>7 DEF Fits, a, b

(* What NothingFits says of a history.                                     *)
NothingFitsIn(request) ==
  \A limit \in Range(Limits(ResultLimit)) :
    ~ Fits([view |-> Necessary(request), limit |-> limit])

(* A request whose images are within the budget is refused only if what it *)
(* must contain cannot be made to fit.                                     *)
LEMMA RefusedIs ==
  ASSUME NEW request \in Seq(Message), Calls(request), NEW recent \in Nat \ {0},
         ImageBytes(request) \in Nat, ImageBytes(request) <= ImageBudget,
         Prepared(request, recent).how = "refused"
  PROVE  NothingFitsIn(request)
<1> DEFINE A == Attempts(request, recent)
<1>1. \A i \in DOMAIN A : ~ Raises(A[i]) /\ ~ Fits(A[i])
  <2>1. ASSUME NEW i \in DOMAIN A, ImageBytes(Content(A[i])) > ImageBudget
        PROVE  FALSE
    <3>1. Content(A[i]) \in Seq(Message) /\ FewerImages(Content(A[i]), request)
      BY ContentImages
    <3>2. Shown(Content(A[i])) \in SUBSET Places(Content(A[i]))
      BY DEF Shown
    <3>3. ImageBytes(Content(A[i])) \in Nat
      BY <3>1, <3>2, BytesNat DEF ImageBytes
    <3>4. ImageBytes(Content(A[i])) <= ImageBytes(request)
      BY <3>1 DEF FewerImages
    <3> HIDE DEF A
    <3>5. QED
      BY <2>1, <3>3, <3>4, Configured
  <2>2. Prepared(request, recent).how = "refused"
    OBVIOUS
  <2>3. /\ Prepared(request, recent).how # "unprojectable"
        /\ Prepared(request, recent).how # "asked"
    BY <2>2
  <2>4. \/ \A i \in DOMAIN A : ~ Raises(A[i]) /\ ~ Fits(A[i])
        \/ \E i \in DOMAIN A : ImageBytes(Content(A[i])) > ImageBudget
    BY <2>3, PreparedIs
  <2> HIDE DEF A
  <2>5. QED
    BY <2>1, <2>4
<1>2. Limits(ResultLimit) \in Seq(Nat \ {0})
  BY LimitsAre
<1>3. ASSUME NEW limit \in Range(Limits(ResultLimit))
      PROVE  ~ Fits([view |-> Necessary(request), limit |-> limit])
  <2>1. PICK l \in DOMAIN Limits(ResultLimit) : limit = Limits(ResultLimit)[l]
    BY DEF Range
  <2>2. limit \in Nat \ {0}
    BY <1>2, <2>1
  <2>3. CASE ToolIndexes(request) = {}
    <3> DEFINE a == [view |-> request, limit |-> Unprojected]
               b == [view |-> request, limit |-> limit]
    <3>1. A = <<a>>
      BY <2>3 DEF Attempts
    <3>2. 1 \in DOMAIN A /\ A[1] = a
      BY <3>1
    <3>3. ~ Fits(a) /\ ~ Raises(a)
      BY <1>1, <3>2
    <3>4. a.view = request /\ a.limit = Unprojected /\ b.view = request /\ b.limit = limit
      OBVIOUS
    <3> HIDE DEF A, a
    <3>5. ~ (Size(request) <= TextBudget)
      BY <3>3, <3>4 DEF Fits, Content
    <3>6. \A i \in DOMAIN request : ~ Oversized(request[i], limit)
      BY <2>3 DEF ToolIndexes, Indexes, Oversized
    <3>7. Projected(request, limit) = request
      <4>1. Projected(request, limit) = [i \in DOMAIN request |-> request[i]]
        BY <3>6, Zenon DEF Projected
      <4>2. QED
        BY <4>1
    <3> HIDE DEF b
    <3>8. Content(b) = request
      BY <3>4, <3>7 DEF Content
    <3>9. Necessary(request) = request
      BY <2>3 DEF Necessary
    <3>10. QED
      BY <3>5, <3>8, <3>9 DEF Fits, b
  <2>4. CASE ToolIndexes(request) # {}
    <3> DEFINE a == Attempt(request, 1, NoSummary, limit)
    <3>1. PICK s \in DOMAIN Summaries(request) : Summaries(request)[s] = NoSummary
      BY SummariesAre
    <3>2. a = Attempt(request, 1, Summaries(request)[s], Limits(ResultLimit)[l])
      BY <2>1, <3>1
    <3>3. a \in Range(Projections(request))
      BY <3>2, ProjectionsAre
    <3>4. PICK i \in DOMAIN A : A[i] = a
      BY <2>4, <3>3, AttemptsAre
    <3>5. a = [view |-> Necessary(request), limit |-> limit]
      BY <2>4 DEF Attempt, Necessary
    <3> HIDE DEF A, a
    <3>6. QED
      BY <1>1, <3>4, <3>5
  <2>5. QED
    BY <2>3, <2>4
<1>4. QED
  BY <1>3 DEF NothingFitsIn

(* What must be contained is the same before and after the images have     *)
(* been pruned.                                                            *)
LEMMA NothingFitsUnpruned ==
  ASSUME NEW request \in Seq(Message), Calls(request), NEW max,
         NothingFitsIn(Pruned(request, max))
  PROVE  NothingFitsIn(request)
<1> DEFINE pruned == Pruned(request, max)
<1>1. pruned \in Seq(Message) /\ DOMAIN pruned = DOMAIN request
  BY PrunedRequest
<1>2. SameText(pruned, request)
  <2>1. \A i \in DOMAIN request :
          /\ pruned[i].kind = request[i].kind /\ pruned[i].size = request[i].size
          /\ pruned[i].core = request[i].core /\ pruned[i].fills = request[i].fills
    BY PrunedMessage
  <2> HIDE DEF pruned
  <2>2. QED
    BY <1>1, <2>1 DEF SameText
<1>3. Calls(pruned)
  BY PrunedIndexes DEF Calls, ToolIndexes
<1> HIDE DEF pruned
<1>4. ToolIndexes(pruned) = ToolIndexes(request)
  BY <1>2, SameIndexes DEF ToolIndexes
<1>5. SameText(Compact(pruned, 1, NoSummary), Compact(request, 1, NoSummary))
  BY <1>1, <1>2, <1>3, SameCompact DEF NoSummary
<1>6. SameText(Necessary(pruned), Necessary(request))
  BY <1>2, <1>4, <1>5 DEF Necessary
<1>7. Necessary(pruned) \in Seq(Message) /\ Necessary(request) \in Seq(Message)
  <2>1. Compact(pruned, 1, NoSummary) \in Seq(Message)
    BY <1>1, <1>3, CompactImages DEF NoSummary
  <2>2. Compact(request, 1, NoSummary) \in Seq(Message)
    BY CompactImages DEF NoSummary
  <2>3. QED
    BY <1>1, <2>1, <2>2 DEF Necessary
<1>8. NothingFitsIn(pruned)
  BY DEF pruned
<1>9. QED
  BY <1>6, <1>7, <1>8, SameFits DEF NothingFitsIn

(* A request that has been prepared is within its budgets, or nothing      *)
(* fits.                                                                   *)
LEMMA BudgetsPrepared ==
  ASSUME NEW request \in Seq(Message), Calls(request), NEW max \in Nat, NEW recent \in Nat \ {0}
  PROVE  LET p == Prepared(Pruned(request, max), recent)
         IN  /\ p.how = "asked" => /\ Size(p.view) <= TextBudget
                                   /\ ImageBytes(p.view) <= ImageBudget
                                   /\ Cardinality(Shown(p.view)) <= max
             /\ p.how = "refused" => /\ NothingFitsIn(Pruned(request, max))
                                     /\ NothingFitsIn(request)
<1> DEFINE pruned == Pruned(request, max)
           A == Attempts(pruned, recent)
           p == Prepared(pruned, recent)
<1>1. /\ pruned \in Seq(Message)
      /\ Cardinality(Shown(pruned)) \in Nat /\ Cardinality(Shown(pruned)) <= max
      /\ ImageBytes(pruned) \in Nat /\ ImageBytes(pruned) <= ImageBudget
  BY PrunedRequest, PrunedWithin
<1>2. Calls(pruned)
  BY PrunedIndexes DEF Calls, ToolIndexes
<1>3. ASSUME p.how = "asked"
      PROVE  /\ Size(p.view) <= TextBudget /\ ImageBytes(p.view) <= ImageBudget
             /\ Cardinality(Shown(p.view)) <= max
  <2> HIDE DEF pruned
  <2>1. p.how # "refused" /\ p.how # "unprojectable"
    BY <1>3
  <2>2. PICK i \in DOMAIN A : /\ p.view = Content(A[i]) /\ Fits(A[i])
                              /\ ImageBytes(p.view) <= ImageBudget
    <3> HIDE DEF p
    <3> QED BY <1>1, <1>2, <2>1, PreparedIs DEF p
  <2>3. Size(p.view) <= TextBudget
    BY <2>2 DEF Fits
  <2>4. Content(A[i]) \in Seq(Message) /\ FewerImages(Content(A[i]), pruned)
    BY <1>1, <1>2, ContentImages
  <2>5. Cardinality(Shown(Content(A[i]))) \in Nat
    <3>1. Shown(Content(A[i])) \in SUBSET Places(Content(A[i]))
      BY DEF Shown
    <3>2. QED
      BY <2>4, <3>1, BytesNat
  <2> HIDE DEF A, p
  <2>6. Cardinality(Shown(p.view)) <= max
    BY <1>1, <2>2, <2>4, <2>5 DEF FewerImages
  <2>7. QED
    BY <2>2, <2>3, <2>6
<1>4. ASSUME p.how = "refused"
      PROVE  NothingFitsIn(pruned) /\ NothingFitsIn(request)
  <2>1. NothingFitsIn(pruned)
    <3> HIDE DEF pruned
    <3> QED BY <1>1, <1>2, <1>4, RefusedIs
  <2>2. QED
    BY <2>1, NothingFitsUnpruned
<1>5. QED
  BY <1>3, <1>4

(* Every step leaves a request within its budgets.                         *)
LEMMA BudgetsNext == HistoryInv /\ BudgetsDecide /\ [Next]_vars => BudgetsDecide'
<1> SUFFICES ASSUME HistoryInv, BudgetsDecide, [Next]_vars PROVE BudgetsDecide'
  OBVIOUS
<1>1. messages \in Seq(Message) /\ Calls(messages) /\ Recent \in Nat \ {0}
  BY Configured DEF HistoryInv
<1>2. ASSUME phase' # "asked", phase' # "refused" PROVE BudgetsDecide'
  BY <1>2 DEF BudgetsDecide
<1>3. CASE Claim
  BY <1>2, <1>3 DEF Claim
<1>4. CASE Ask
  <2>1. CASE NewestTooLarge(messages)
    BY <1>2, <1>4, <2>1 DEF Ask
  <2>2. CASE ~ NewestTooLarge(messages)
    <3> DEFINE p == Prepared(Pruned(messages, 2), Recent)
    <3>1. /\ messages' = Pruned(messages, 2) /\ phase' = p.how /\ view' = p.view
          /\ ~ retried'
      BY <1>4, <2>2 DEF Ask, HistoryInv
    <3>2. /\ p.how = "asked" => /\ Size(p.view) <= TextBudget
                                /\ ImageBytes(p.view) <= ImageBudget
                                /\ Cardinality(Shown(p.view)) <= 2
          /\ p.how = "refused" => NothingFitsIn(Pruned(messages, 2))
      BY <1>1, BudgetsPrepared
    <3> HIDE DEF p
    <3>3. /\ phase' = "asked" => /\ Size(view') <= TextBudget
                                 /\ ImageBytes(view') <= ImageBudget
                                 /\ Cardinality(Shown(view')) <= 2
          /\ phase' = "refused" => NothingFitsIn(messages')
      BY <3>1, <3>2
    <3>4. QED
      BY <3>1, <3>3 DEF BudgetsDecide, NothingFits, NothingFitsIn
  <2>3. QED
    BY <2>1, <2>2
<1>5. CASE Retry
  <2> DEFINE p == Prepared(Pruned(messages, 1), 1)
  <2>1. messages' = messages /\ phase' = p.how /\ view' = p.view /\ retried' = TRUE
    BY <1>5 DEF Retry
  <2>2. /\ p.how = "asked" => /\ Size(p.view) <= TextBudget
                              /\ ImageBytes(p.view) <= ImageBudget
                              /\ Cardinality(Shown(p.view)) <= 1
        /\ p.how = "refused" => NothingFitsIn(messages)
    BY <1>1, BudgetsPrepared
  <2> HIDE DEF p
  <2>3. /\ phase' = "asked" => /\ Size(view') <= TextBudget
                               /\ ImageBytes(view') <= ImageBudget
                               /\ Cardinality(Shown(view')) <= 1
        /\ phase' = "refused" => NothingFitsIn(messages')
    BY <2>1, <2>2
  <2>4. QED
    BY <2>1, <2>3 DEF BudgetsDecide, NothingFits, NothingFitsIn
<1>6. CASE End
  BY <1>2, <1>6 DEF End
<1>7. CASE Supersede
  BY <1>2, <1>7 DEF Supersede, NextTurn
<1>8. CASE Repair
  BY <1>2, <1>8 DEF Repair, NextTurn
<1>9. CASE Accept
  BY <1>2, <1>9 DEF Accept, NextTurn
<1>10. CASE UNCHANGED vars
  BY <1>10 DEF vars, BudgetsDecide, NothingFits
<1>11. QED
  BY <1>3, <1>4, <1>5, <1>6, <1>7, <1>8, <1>9, <1>10 DEF Next

(* A request leaves within every budget, with one image at most when it is *)
(* the retry, and a solve ends for the weight of its request only if what  *)
(* the request must contain cannot be made to fit.                         *)
THEOREM RequestsKeepTheirBudgets == Spec => []BudgetsDecide
<1>1. Init => BudgetsDecide
  BY DEF Init, BudgetsDecide
<1>2. QED
  BY <1>1, HistoryInit, HistoryNext, BudgetsNext, PTL DEF Spec

-----------------------------------------------------------------------------
(* The shape of what is sent.                                              *)

(* Images that have been pruned once stay as they are when they are pruned *)
(* again.                                                                  *)
LEMMA PrunedTwice ==
  ASSUME NEW request \in Seq(Message), NEW max \in Nat
  PROVE  Pruned(Pruned(request, max), max) = Pruned(request, max)
<1> DEFINE pruned == Pruned(request, max)
           K == Kept(request, max)
<1>1. /\ pruned \in Seq(Message) /\ Shown(pruned) = K
      /\ Places(pruned) = Places(request)
  BY PrunedRequest
<1>2. K \in SUBSET Places(request)
  BY DEF Kept, Shown
<1>3. /\ Cardinality(K) \in Nat /\ Cardinality(K) <= max
      /\ Bytes(pruned, K) \in Nat /\ Bytes(pruned, K) <= ImageBudget
  BY <1>1, PrunedWithin DEF ImageBytes
<1>4. Kept(pruned, max) = K
  <2> HIDE DEF pruned, K
  <2>1. ASSUME NEW p \in K
        PROVE  Cardinality(Since(p, K)) <= max /\ Bytes(pruned, Since(p, K)) <= ImageBudget
    <3> DEFINE T == Since(p, K)
    <3>1. T \in SUBSET K /\ K \in SUBSET Places(pruned) /\ T \in SUBSET Places(pruned)
      BY <1>1, <1>2, SinceWithin
    <3> HIDE DEF T
    <3>2. Bytes(pruned, T) <= Bytes(pruned, K) /\ Cardinality(T) <= Cardinality(K)
      BY <1>1, <3>1, BytesWithin
    <3>3. Bytes(pruned, T) \in Nat /\ Cardinality(T) \in Nat
      BY <1>1, <3>1, BytesNat
    <3>4. QED
      BY <1>3, <3>2, <3>3, Configured DEF T
  <2>2. QED
    BY <1>1, <2>1 DEF Kept
<1>5. ASSUME NEW i \in DOMAIN pruned PROVE Pruned(pruned, max)[i] = pruned[i]
  <2> DEFINE new == Pruned(pruned, max)[i]
             old == pruned[i]
  <2>1. i \in DOMAIN request
    BY PrunedRequest
  <2>2. \A j \in DOMAIN request[i].images :
          old.images[j] = [size |-> request[i].images[j].size, shown |-> <<i, j>> \in K]
    BY <2>1, PrunedMessage
  <2>3. old \in Message /\ DOMAIN old.images = DOMAIN request[i].images
    BY <2>1, PrunedMessage
  <2> HIDE DEF pruned, K
  <2>4. /\ new \in Message /\ new.kind = old.kind /\ new.size = old.size
        /\ new.core = old.core /\ new.fills = old.fills
        /\ DOMAIN new.images = DOMAIN old.images
    BY <1>1, PrunedMessage
  <2>5. \A j \in DOMAIN old.images :
          new.images[j] = [size |-> old.images[j].size, shown |-> <<i, j>> \in K]
    BY <1>1, <1>4, PrunedMessage
  <2> HIDE DEF new, old
  <2>6. \A j \in DOMAIN old.images : new.images[j] = old.images[j]
    <3> SUFFICES ASSUME NEW j \in DOMAIN old.images PROVE new.images[j] = old.images[j]
      OBVIOUS
    <3>1. old.images[j] = [size |-> request[i].images[j].size, shown |-> <<i, j>> \in K]
      BY <2>2, <2>3
    <3>2. \A n, r : \A b \in BOOLEAN : r = [size |-> n, shown |-> b] => r.size = n
      OBVIOUS
    <3>3. old.images[j].size = request[i].images[j].size
      <4>1. (<<i, j>> \in K) \in BOOLEAN
        OBVIOUS
      <4>2. QED
        BY <3>1, <3>2, <4>1, Zenon
    <3>4. new.images[j] = [size |-> old.images[j].size, shown |-> <<i, j>> \in K]
      BY <2>5
    <3>5. QED
      BY <3>1, <3>3, <3>4, Zenon
  <2>7. new.images \in Seq(ImageRecord) /\ old.images \in Seq(ImageRecord)
    BY <2>3, <2>4 DEF Message
  <2>8. new.images = old.images
    BY <2>4, <2>6, <2>7
  <2>9. \A m \in Message : m = [kind |-> m.kind, size |-> m.size, core |-> m.core,
                               fills |-> m.fills, images |-> m.images]
    BY DEF Message
  <2>10. new = old
    BY <2>3, <2>4, <2>8, <2>9, Zenon
  <2>11. QED
    BY <2>10 DEF new, old
<1>6. Pruned(pruned, max) \in Seq(Message) /\ DOMAIN Pruned(pruned, max) = DOMAIN pruned
  <2> HIDE DEF pruned
  <2> QED BY <1>1, PrunedRequest
<1> HIDE DEF pruned
<1>7. Pruned(pruned, max) = pruned
  BY <1>1, <1>5, <1>6
<1>8. QED
  BY <1>7 DEF pruned

(* A shape is a request of the same length.                                *)
LEMMA ShapeIs ==
  ASSUME NEW request \in Seq(Message)
  PROVE  /\ Shape(request) \in Seq(Message) /\ Len(Shape(request)) = Len(request)
         /\ DOMAIN Shape(request) = 1 .. Len(request) /\ Len(request) \in Nat
         /\ \A i \in 1 .. Len(request) : Shape(request)[i] = Bare(request[i])
<1>1. \A m \in Message : Bare(m) \in Message
  BY DEF Message, Bare
<1>2. DOMAIN request = 1 .. Len(request) /\ \A i \in 1 .. Len(request) : request[i] \in Message
  OBVIOUS
<1>3. Shape(request) = [i \in 1 .. Len(request) |-> Bare(request[i])]
  BY <1>2, Zenon DEF Shape, Bare
<1>4. \A i \in 1 .. Len(request) : Bare(request[i]) \in Message
  BY <1>1, <1>2
<1>5. QED
  BY <1>2, <1>3, <1>4

(* The shape of one request after another.                                 *)
LEMMA ShapeConcat ==
  ASSUME NEW first \in Seq(Message), NEW second \in Seq(Message)
  PROVE  Shape(first \o second) = Shape(first) \o Shape(second)
<1> DEFINE both == first \o second
           s == Shape(first)
           t == Shape(second)
           u == s \o t
           v == Shape(both)
           m == Len(first)
           n == Len(second)
<1>1. /\ both \in Seq(Message) /\ Len(both) = m + n /\ m \in Nat /\ n \in Nat
      /\ \A i \in 1 .. m : both[i] = first[i]
      /\ \A i \in 1 .. n : both[m + i] = second[i]
  BY ConcatIs
<1>2. /\ s \in Seq(Message) /\ Len(s) = m
      /\ \A i \in 1 .. m : s[i] = Bare(first[i])
  BY ShapeIs
<1>3. /\ t \in Seq(Message) /\ Len(t) = n
      /\ \A i \in 1 .. n : t[i] = Bare(second[i])
  BY ShapeIs
<1> HIDE DEF both, s, t, m, n
<1>4. /\ v \in Seq(Message) /\ Len(v) = m + n
      /\ \A i \in 1 .. m + n : v[i] = Bare(both[i])
  BY <1>1, ShapeIs
<1>5. /\ u \in Seq(Message) /\ Len(u) = m + n
      /\ \A i \in 1 .. m : u[i] = s[i]
      /\ \A i \in 1 .. n : u[m + i] = t[i]
  <2>1. /\ u \in Seq(Message) /\ Len(u) = Len(s) + Len(t)
        /\ \A i \in 1 .. Len(s) : u[i] = s[i]
        /\ \A i \in 1 .. Len(t) : u[Len(s) + i] = t[i]
    BY <1>2, <1>3, ConcatIs
  <2> HIDE DEF u
  <2>2. QED
    BY <1>2, <1>3, <2>1
<1> HIDE DEF u, v
<1>6. ASSUME NEW i \in 1 .. m + n PROVE u[i] = v[i]
  <2>1. CASE i \in 1 .. m
    BY <1>1, <1>2, <1>4, <1>5, <2>1
  <2>2. CASE i \notin 1 .. m
    <3> DEFINE j == i - m
    <3>1. j \in 1 .. n /\ i = m + j
      BY <1>1, <2>2
    <3> HIDE DEF j
    <3>2. both[i] = second[j] /\ u[i] = t[j]
      BY <1>1, <1>5, <3>1
    <3>3. QED
      BY <1>3, <1>4, <3>1, <3>2
  <2>3. QED
    BY <2>1, <2>2
<1>7. u = v
  BY <1>4, <1>5, <1>6, SeqEqual
<1>8. QED
  BY <1>7 DEF u, v, both, s, t

(* The shape of a part of a request.                                       *)
LEMMA ShapeSubSeq ==
  ASSUME NEW request \in Seq(Message), NEW m \in 1 .. Len(request) + 1, NEW n \in 0 .. Len(request)
  PROVE  /\ SubSeq(request, m, n) \in Seq(Message)
         /\ Shape(SubSeq(request, m, n)) = SubSeq(Shape(request), m, n)
<1> DEFINE part == SubSeq(request, m, n)
           s == Shape(request)
           u == Shape(part)
           v == SubSeq(s, m, n)
           len == IF m <= n THEN n - m + 1 ELSE 0
<1>1. Len(request) \in Nat /\ m \in Nat /\ n \in Nat /\ len \in Nat
  OBVIOUS
<1>2. /\ s \in Seq(Message) /\ Len(s) = Len(request)
      /\ \A i \in 1 .. Len(request) : s[i] = Bare(request[i])
  BY ShapeIs
<1>3. /\ part \in Seq(Message) /\ Len(part) = len
      /\ \A i \in 1 .. n - m + 1 : part[i] = request[m + i - 1]
  <2>1. \A i \in m .. n : request[i] \in Message
    BY <1>1
  <2>2. QED
    BY <1>1, <2>1, SubSeqProperties
<1> HIDE DEF s
<1>4. /\ v \in Seq(Message) /\ Len(v) = len
      /\ \A i \in 1 .. n - m + 1 : v[i] = s[m + i - 1]
  <2>1. \A i \in m .. n : s[i] \in Message
    BY <1>1, <1>2
  <2>2. QED
    BY <1>1, <1>2, <2>1, SubSeqProperties
<1> HIDE DEF part
<1>5. /\ u \in Seq(Message) /\ Len(u) = len
      /\ \A i \in 1 .. len : u[i] = Bare(part[i])
  BY <1>3, ShapeIs
<1> HIDE DEF u, v
<1>6. ASSUME NEW i \in 1 .. len PROVE u[i] = v[i]
  <2> DEFINE k == m + i - 1
  <2>1. i \in 1 .. n - m + 1 /\ k \in 1 .. Len(request)
    BY <1>1
  <2>2. part[i] = request[k] /\ v[i] = s[k]
    BY <1>3, <1>4, <2>1
  <2> HIDE DEF len, k
  <2>3. QED
    BY <1>2, <1>5, <2>1, <2>2
<1> HIDE DEF len
<1>7. u = v
  BY <1>4, <1>5, <1>6, SeqEqual
<1>8. QED
  BY <1>3, <1>7 DEF u, v, s, part

(* What RequestIsWellFormed says of a request and of the shape of what is  *)
(* sent of it.                                                             *)
FormedFrom(seen, source, cuts) ==
  \/ seen = source
  \/ \E c \in cuts :
       LET head == SubSeq(source, 1, Min(cuts) - 1)
           tail == SubSeq(source, c, Len(source))
       IN  \/ seen = head \o tail
           \/ seen = head \o <<BareSummary>> \o tail

(* The shape of what is between the head and the exchanges that are kept.  *)
LEMMA ShapeBetween ==
  ASSUME NEW request \in Seq(Message), NEW c, NEW limit \in Nat
  PROVE  /\ Between(request, c, limit) \in Seq(Message)
         /\ Shape(Between(request, c, limit)) = IF limit = NoSummary THEN <<>> ELSE <<BareSummary>>
<1> DEFINE between == Between(request, c, limit)
           s == Shape(between)
<1>1. /\ between \in Seq(Message) /\ Len(between) = IF limit = NoSummary THEN 0 ELSE 1
      /\ DOMAIN between = 1 .. Len(between)
  BY BetweenIs
<1>2. \A i \in DOMAIN between : i = 1 /\ Bare(between[i]) = BareSummary
  BY BetweenIs
<1> HIDE DEF between
<1>3. /\ s \in Seq(Message) /\ Len(s) = Len(between) /\ DOMAIN s = 1 .. Len(between)
      /\ \A i \in 1 .. Len(between) : s[i] = Bare(between[i])
  BY <1>1, ShapeIs
<1> HIDE DEF s
<1>4. CASE limit = NoSummary
  BY <1>1, <1>3, <1>4 DEF s, between
<1>5. CASE limit # NoSummary
  <2>1. Len(s) = 1 /\ s[1] = BareSummary
    BY <1>1, <1>2, <1>3, <1>5
  <2>2. s = <<BareSummary>>
    BY <1>3, <2>1
  <2>3. QED
    BY <1>1, <1>5, <2>2 DEF s, between
<1>6. QED
  BY <1>4, <1>5

(* What is compacted is formed from the whole.                             *)
LEMMA CompactFormed ==
  ASSUME NEW request \in Seq(Message), Calls(request), NEW n \in Nat \ {0}, NEW limit \in Nat
  PROVE  FormedFrom(Shape(Compact(request, n, limit)), Shape(request),
                    Indexes(request, "assistant"))
<1> DEFINE sent == Compact(request, n, limit)
           cuts == Indexes(request, "assistant")
<1>1. ToolCount(request) \in Nat
  BY IndexFacts DEF ToolCount, ToolIndexes
<1>2. CASE ToolCount(request) <= n
  BY <1>2, CompactIs DEF FormedFrom
<1>3. CASE n < ToolCount(request)
  <2>1. PICK c \in cuts :
          Base(request) <= c /\ sent = IF c = Base(request) THEN request ELSE Cut(request, c, limit)
    BY <1>3, CompactIs
  <2>2. CASE c = Base(request)
    BY <2>1, <2>2 DEF FormedFrom
  <2>3. CASE c # Base(request)
    <3> DEFINE head == SubSeq(request, 1, Base(request) - 1)
               tail == SubSeq(request, c, Len(request))
               between == Between(request, c, limit)
    <3>1. /\ Base(request) \in 1 .. Len(request) /\ c \in 1 .. Len(request)
          /\ Len(request) \in Nat
      BY FirstResponseIs, IndexFacts DEF Base
    <3>2. /\ head \in Seq(Message)
          /\ Shape(head) = SubSeq(Shape(request), 1, Base(request) - 1)
      <4>1. 1 \in 1 .. Len(request) + 1 /\ Base(request) - 1 \in 0 .. Len(request)
        BY <3>1
      <4>2. QED
        BY <4>1, ShapeSubSeq
    <3>3. /\ tail \in Seq(Message)
          /\ Shape(tail) = SubSeq(Shape(request), c, Len(Shape(request)))
      <4>1. c \in 1 .. Len(request) + 1 /\ Len(request) \in 0 .. Len(request)
        BY <3>1
      <4>2. QED
        BY <4>1, ShapeSubSeq, ShapeIs
    <3>4. /\ between \in Seq(Message)
          /\ Shape(between) = IF limit = NoSummary THEN <<>> ELSE <<BareSummary>>
      BY ShapeBetween
    <3>5. sent = (head \o between) \o tail
      BY <2>1, <2>3 DEF Cut
    <3> HIDE DEF sent, head, tail, between
    <3>6. Shape(sent) = (Shape(head) \o Shape(between)) \o Shape(tail)
      <4> DEFINE front == head \o between
      <4>1. front \in Seq(Message) /\ Shape(front) = Shape(head) \o Shape(between)
        BY <3>2, <3>4, ConcatIs, ShapeConcat
      <4>2. sent = front \o tail
        BY <3>5
      <4> HIDE DEF front
      <4>3. Shape(front \o tail) = Shape(front) \o Shape(tail)
        BY <3>3, <4>1, ShapeConcat
      <4>4. QED
        BY <4>1, <4>2, <4>3
    <3>7. Shape(head) \in Seq(Message)
      BY <3>2, ShapeIs
    <3>8. \/ Shape(sent) = Shape(head) \o Shape(tail)
          \/ Shape(sent) = Shape(head) \o <<BareSummary>> \o Shape(tail)
      <4>1. CASE limit = NoSummary
        <5>1. Shape(head) \o <<>> = Shape(head)
          BY <3>7
        <5>2. QED
          BY <3>4, <3>6, <4>1, <5>1
      <4>2. CASE limit # NoSummary
        BY <3>4, <3>6, <4>2
      <4>3. QED
        BY <4>1, <4>2
    <3>9. Base(request) = Min(cuts)
      BY DEF Base
    <3> HIDE DEF cuts
    <3>10. FormedFrom(Shape(sent), Shape(request), cuts)
      BY <3>2, <3>3, <3>8, <3>9 DEF FormedFrom
    <3>11. QED
      BY <3>10 DEF sent, cuts
  <2>4. QED
    BY <2>2, <2>3
<1>4. QED
  BY <1>1, <1>2, <1>3

(* So is what is sent.                                                     *)
LEMMA PreparedFormed ==
  ASSUME NEW request \in Seq(Message), Calls(request), NEW recent \in Nat \ {0},
         Prepared(request, recent).how = "asked"
  PROVE  FormedFrom(Shape(Prepared(request, recent).view), Shape(request),
                    Indexes(request, "assistant"))
<1> DEFINE A == Attempts(request, recent)
           p == Prepared(request, recent)
           cuts == Indexes(request, "assistant")
<1>1. p.how # "refused" /\ p.how # "unprojectable"
  OBVIOUS
<1>2. PICK i \in DOMAIN A : p.view = Content(A[i])
  <2> HIDE DEF p
  <2> QED BY <1>1, PreparedIs DEF p
<1>3. A[i] \in AttemptSet
  BY EachAttempt
<1>4. \/ A[i].view = request
      \/ \E n \in Nat \ {0}, s \in Nat : A[i].view = Compact(request, n, s)
  BY EachAttempt
<1>5. FormedFrom(Shape(A[i].view), Shape(request), cuts)
  <2>1. CASE A[i].view = request
    BY <2>1, Zenon DEF FormedFrom
  <2>2. CASE \E n \in Nat \ {0}, s \in Nat : A[i].view = Compact(request, n, s)
    BY <2>2, CompactFormed
  <2>3. QED
    BY <1>4, <2>1, <2>2
<1> HIDE DEF A, p
<1>6. Shape(Content(A[i])) = Shape(A[i].view)
  <2>1. A[i].view \in Seq(Message) /\ A[i].limit \in Nat
    BY <1>3 DEF AttemptSet
  <2> DEFINE v == A[i].view
             w == Projected(v, A[i].limit)
  <2>2. Shape(w) = Shape(v)
    <3>1. DOMAIN w = DOMAIN v /\ \A k \in DOMAIN v : Bare(w[k]) = Bare(v[k])
      <4> DEFINE limit == A[i].limit
      <4>1. v \in Seq(Message) /\ limit \in Nat /\ w = Projected(v, limit)
        BY <2>1
      <4> HIDE DEF v, w, limit
      <4>2. QED
        BY <4>1, ProjectedIs
    <3>2. Shape(w) = [k \in DOMAIN w |-> Bare(w[k])] /\ Shape(v) = [k \in DOMAIN v |-> Bare(v[k])]
      BY DEF Shape, Bare
    <3> HIDE DEF v, w
    <3>3. QED
      BY <3>1, <3>2
  <2>3. Content(A[i]) = v \/ Content(A[i]) = w
    BY DEF Content
  <2> HIDE DEF v, w
  <2>4. QED
    BY <2>2, <2>3 DEF v
<1>7. QED
  BY <1>2, <1>5, <1>6 DEF p

(* Every step leaves a well-formed request.                                *)
LEMMA FormedNext == HistoryInv /\ RequestIsWellFormed /\ [Next]_vars => RequestIsWellFormed'
<1> SUFFICES ASSUME HistoryInv, RequestIsWellFormed, [Next]_vars PROVE RequestIsWellFormed'
  OBVIOUS
<1>1. messages \in Seq(Message) /\ Calls(messages) /\ Recent \in Nat \ {0}
  BY Configured DEF HistoryInv
<1>2. ASSUME phase' # "asked" PROVE RequestIsWellFormed'
  BY <1>2 DEF RequestIsWellFormed
<1>3. ASSUME NEW max \in Nat, NEW recent \in Nat \ {0},
             Prepared(Pruned(messages, max), recent).how = "asked"
      PROVE  FormedFrom(Shape(Prepared(Pruned(messages, max), recent).view),
                        Shape(Pruned(messages, max)), Indexes(messages, "assistant"))
  <2> DEFINE pruned == Pruned(messages, max)
  <2>1. pruned \in Seq(Message) /\ DOMAIN pruned = DOMAIN messages
    BY <1>1, PrunedRequest
  <2>2. Indexes(pruned, "assistant") = Indexes(messages, "assistant")
    BY <1>1, PrunedIndexes
  <2>3. Calls(pruned)
    BY <1>1, PrunedIndexes DEF Calls, ToolIndexes
  <2>4. Prepared(pruned, recent).how = "asked"
    BY <1>3
  <2> HIDE DEF pruned
  <2>5. FormedFrom(Shape(Prepared(pruned, recent).view), Shape(pruned),
                   Indexes(messages, "assistant"))
    BY <2>1, <2>2, <2>3, <2>4, PreparedFormed
  <2>6. QED
    BY <2>5 DEF pruned
<1>4. CASE Claim
  BY <1>2, <1>4 DEF Claim, HistoryInv, RequestIsWellFormed
<1>5. CASE Ask
  <2>1. CASE NewestTooLarge(messages)
    BY <1>2, <1>5, <2>1 DEF Ask
  <2>2. CASE ~ NewestTooLarge(messages)
    <3> DEFINE p == Prepared(Pruned(messages, 2), Recent)
    <3>1. /\ messages' = Pruned(messages, 2) /\ phase' = p.how /\ view' = p.view
          /\ ~ retried'
      BY <1>5, <2>2 DEF Ask, HistoryInv
    <3>2. p.how = "asked" => FormedFrom(Shape(p.view), Shape(Pruned(messages, 2)),
                                        Indexes(messages, "assistant"))
      BY <1>1, <1>3
    <3> HIDE DEF p
    <3>3. Pruned(messages', 2) = messages'
      BY <1>1, <3>1, PrunedTwice
    <3>4. Indexes(messages', "assistant") = Indexes(messages, "assistant")
      BY <1>1, <3>1, PrunedIndexes
    <3>5. phase' = "asked" => FormedFrom(Shape(view'), Shape(Pruned(messages', 2)),
                                         Indexes(messages', "assistant"))
      BY <3>1, <3>2, <3>3, <3>4
    <3>6. QED
      BY <3>1, <3>5 DEF RequestIsWellFormed, FormedFrom, BareSummary, Bare
  <2>3. QED
    BY <2>1, <2>2
<1>6. CASE Retry
  <2> DEFINE p == Prepared(Pruned(messages, 1), 1)
  <2>1. messages' = messages /\ phase' = p.how /\ view' = p.view /\ retried' = TRUE
    BY <1>6 DEF Retry
  <2>2. p.how = "asked" => FormedFrom(Shape(p.view), Shape(Pruned(messages, 1)),
                                      Indexes(messages, "assistant"))
    BY <1>1, <1>3
  <2> HIDE DEF p
  <2>3. phase' = "asked" => FormedFrom(Shape(view'), Shape(Pruned(messages', 1)),
                                       Indexes(messages', "assistant"))
    BY <2>1, <2>2
  <2>4. QED
    BY <2>1, <2>3 DEF RequestIsWellFormed, FormedFrom, BareSummary, Bare
<1>7. CASE End
  BY <1>2, <1>7 DEF End
<1>8. CASE Supersede
  BY <1>2, <1>8 DEF Supersede, NextTurn
<1>9. CASE Repair
  BY <1>2, <1>9 DEF Repair, NextTurn
<1>10. CASE Accept
  BY <1>2, <1>10 DEF Accept, NextTurn
<1>11. CASE UNCHANGED vars
  BY <1>11 DEF vars, RequestIsWellFormed
<1>12. QED
  BY <1>4, <1>5, <1>6, <1>7, <1>8, <1>9, <1>10, <1>11 DEF Next

(* The system prompt, the task and what came before the first response are *)
(* in every request, then at most a summary, then everything from some     *)
(* response on.                                                            *)
THEOREM RequestsAreWellFormed == Spec => []RequestIsWellFormed
<1>1. Init => RequestIsWellFormed
  BY DEF Init, RequestIsWellFormed
<1>2. QED
  BY <1>1, HistoryInit, HistoryNext, FormedNext, PTL DEF Spec

-----------------------------------------------------------------------------
(* As many exchanges as fit.                                               *)

(* The responses from one on, and the results that follow a newer one.     *)
Responses(request, c) == {d \in Indexes(request, "assistant") : d >= c}
Newer(request, c) ==
  {t \in ToolIndexes(request) : \E d \in Responses(request, c) \ {c} : t > d}

(* From an element on, a finite set of numbers has more elements than from *)
(* a later one on.                                                         *)
LEMMA CountFrom ==
  ASSUME NEW T \in SUBSET Nat, IsFiniteSet(T), NEW c \in T, NEW d \in T
  PROVE  LET from(i) == {j \in T : j >= i}
         IN  /\ Cardinality(from(c)) \in Nat
             /\ Cardinality(from(c)) = Cardinality(from(d)) => c = d
             /\ Cardinality(from(c)) > Cardinality(from(d)) => c < d
<1> DEFINE from(i) == {j \in T : j >= i}
<1>1. \A i \in T : IsFiniteSet(from(i)) /\ Cardinality(from(i)) \in Nat
  BY FS_Subset, FS_CardinalityType
<1>2. ASSUME NEW i \in T, NEW j \in T, i < j
      PROVE  Cardinality(from(j)) < Cardinality(from(i))
  <2>1. from(j) \in SUBSET from(i) /\ i \in from(i) /\ i \notin from(j)
    <3>1. i \in Nat /\ j \in Nat /\ \A k \in T : k \in Nat
      OBVIOUS
    <3>2. \A k \in T : k >= j => k >= i
      BY <1>2, <3>1
    <3>3. i >= i /\ ~ (i >= j)
      BY <1>2, <3>1
    <3>4. QED
      BY <3>2, <3>3
  <2> HIDE DEF from
  <2>2. QED
    BY <1>1, <2>1, FS_Subset
<1>3. c \in Nat /\ d \in Nat
  OBVIOUS
<1> HIDE DEF from
<1>4. /\ Cardinality(from(c)) \in Nat
      /\ Cardinality(from(c)) = Cardinality(from(d)) => c = d
      /\ Cardinality(from(c)) > Cardinality(from(d)) => c < d
  <2>1. CASE c < d
    BY <1>1, <1>2, <2>1
  <2>2. CASE d < c
    BY <1>1, <1>2, <2>2
  <2>3. CASE c = d
    BY <1>1, <2>3
  <2>4. QED
    BY <1>3, <2>1, <2>2, <2>3
<1>5. QED
  BY <1>4 DEF from

(* The exchange where some of the newest results begin: fewer results than *)
(* these follow a newer response.                                          *)
LEMMA StartIs ==
  ASSUME NEW request \in Seq(Message), Calls(request), NEW n \in 1 .. ToolCount(request)
  PROVE  LET c == Start(request, n)
         IN  /\ c \in Indexes(request, "assistant")
             /\ Cardinality(Newer(request, c)) \in Nat
             /\ Cardinality(Newer(request, c)) < n
             /\ \A a \in Indexes(request, "assistant") :
                  a < c => Cardinality(Newer(request, a)) \in Nat
                           /\ Cardinality(Newer(request, a)) >= n
<1> DEFINE T == ToolIndexes(request)
           R == Indexes(request, "assistant")
           t == FirstRecent(request, n)
           c == ExchangeStart(request, t)
           since == {j \in T : j >= t}
<1>1. t \in T /\ Cardinality(since) = n
  BY FirstRecentIs
<1>2. T \in SUBSET Nat /\ IsFiniteSet(T) /\ R \in SUBSET Nat /\ n \in Nat /\ n >= 1
  BY IndexFacts DEF ToolIndexes
<1>3. IsFiniteSet(since) /\ t \in since
  BY <1>1, <1>2, FS_Subset
<1> HIDE DEF T, t
<1>4. c \in R /\ c < t /\ \A a \in R : a < t => a <= c
  BY <1>1, ExchangeStartIs DEF T
<1> HIDE DEF c
<1>5. \A a \in R : Newer(request, a) \in SUBSET T
  BY DEF Newer, T
<1>6. \A a \in R : IsFiniteSet(Newer(request, a)) /\ Cardinality(Newer(request, a)) \in Nat
  BY <1>2, <1>5, FS_Subset, FS_CardinalityType
<1>7. Cardinality(Newer(request, c)) < n
  <2>1. Newer(request, c) \in SUBSET (since \ {t})
    <3> SUFFICES ASSUME NEW j \in Newer(request, c) PROVE j \in since /\ j # t
      OBVIOUS
    <3>1. j \in T /\ \E d \in R : d >= c /\ d # c /\ j > d
      BY DEF Newer, Responses, T
    <3>2. PICK d \in R : d >= c /\ d # c /\ j > d
      BY <3>1
    <3>3. c \in Nat /\ d \in Nat /\ j \in Nat /\ t \in Nat
      BY <1>1, <1>2, <1>4, <3>1
    <3>4. ~ (d < t)
      BY <1>4, <3>2, <3>3
    <3>5. QED
      BY <3>1, <3>2, <3>3, <3>4
  <2>2. IsFiniteSet(since \ {t}) /\ Cardinality(since \ {t}) = n - 1
    <3> HIDE DEF since
    <3> QED BY <1>1, <1>3, FS_RemoveElement
  <2> HIDE DEF since
  <2>3. Cardinality(Newer(request, c)) <= n - 1
    BY <2>1, <2>2, FS_Subset
  <2>4. QED
    BY <1>2, <1>4, <1>6, <2>3
<1>8. ASSUME NEW a \in R, a < c PROVE Cardinality(Newer(request, a)) >= n
  <2>1. since \in SUBSET Newer(request, a)
    <3> SUFFICES ASSUME NEW j \in since PROVE j \in Newer(request, a)
      OBVIOUS
    <3>1. c \in Nat /\ a \in Nat /\ j \in Nat /\ t \in Nat
      BY <1>1, <1>2, <1>4
    <3>2. j \in T /\ j > c /\ c >= a /\ c # a
      BY <1>4, <1>8, <3>1
    <3>3. QED
      BY <1>4, <3>2 DEF Newer, Responses, T
  <2> HIDE DEF since
  <2>2. Cardinality(since) <= Cardinality(Newer(request, a))
    BY <1>6, <2>1, FS_Subset
  <2>3. QED
    BY <1>1, <1>2, <1>6, <2>2
<1>9. c = Start(request, n)
  BY DEF Start, c, t
<1>10. QED
  BY <1>4, <1>6, <1>7, <1>8, <1>9

(* Every exchange is where some of the newest results begin: its own last  *)
(* one and those that follow a newer response.                             *)
LEMMA StartOf ==
  ASSUME NEW request \in Seq(Message), Calls(request), NEW c \in Indexes(request, "assistant")
  PROVE  LET k == Cardinality(Newer(request, c)) + 1
         IN  k \in 1 .. ToolCount(request) /\ Start(request, k) = c
<1> DEFINE T == ToolIndexes(request)
           R == Indexes(request, "assistant")
           N == Newer(request, c)
           k == Cardinality(N) + 1
<1>1. T \in SUBSET Nat /\ IsFiniteSet(T) /\ R \in SUBSET Nat /\ c \in Nat
  BY IndexFacts DEF ToolIndexes
<1>2. c + 1 \in T
  BY DEF Calls
<1>3. N \in SUBSET T /\ c + 1 \notin N
  <2>1. N \in SUBSET T
    BY DEF Newer
  <2>2. ASSUME NEW d \in Responses(request, c) \ {c}, c + 1 > d PROVE FALSE
    <3>1. d \in R /\ d >= c /\ d # c
      BY DEF Responses
    <3>2. QED
      BY <1>1, <2>2, <3>1
  <2>3. QED
    BY <2>1, <2>2 DEF Newer
<1>4. IsFiniteSet(N) /\ Cardinality(N) \in Nat
  <2> HIDE DEF T, N
  <2> QED BY <1>1, <1>3, FS_Subset, FS_CardinalityType
<1>5. \A j \in T, i \in N : j >= i => j \in N
  <2> SUFFICES ASSUME NEW j \in T, NEW i \in N, j >= i PROVE j \in N
    OBVIOUS
  <2>1. PICK d \in Responses(request, c) \ {c} : i > d
    BY DEF Newer
  <2>2. d \in Nat /\ i \in Nat /\ j \in Nat
    BY <1>1, <1>3 DEF Responses
  <2>3. j > d
    BY <2>1, <2>2
  <2>4. QED
    BY <2>1, <2>3 DEF Newer
<1>6. k \in 1 .. ToolCount(request)
  <2>1. Cardinality(N) <= Cardinality(T) /\ (Cardinality(T) = Cardinality(N) => N = T)
    <3> HIDE DEF T, N
    <3> QED BY <1>1, <1>3, FS_Subset
  <2>2. Cardinality(T) \in Nat
    BY <1>1, FS_CardinalityType
  <2>3. Cardinality(T) = ToolCount(request)
    BY DEF ToolCount
  <2> HIDE DEF T, N
  <2>4. QED
    BY <1>2, <1>3, <1>4, <2>1, <2>2, <2>3
<1> DEFINE t == FirstRecent(request, k)
           s == ExchangeStart(request, t)
           since == {j \in T : j >= t}
<1> HIDE DEF N, k
<1>7. t \in T /\ Cardinality(since) = k
  BY <1>6, FirstRecentIs
<1>8. s \in R /\ s < t /\ \A a \in R : a < t => a <= s
  <2> HIDE DEF t
  <2> QED BY <1>7, ExchangeStartIs
<1>9. IsFiniteSet(since)
  BY <1>1, FS_Subset
<1>10. k = Cardinality(N) + 1
  BY DEF k
<1> HIDE DEF s, t
<1>11. t \in Nat /\ s \in Nat
  BY <1>1, <1>7, <1>8
<1>12. t \notin N
  <2> SUFFICES ASSUME t \in N PROVE FALSE
    OBVIOUS
  <2>1. since \in SUBSET N
    BY <1>5
  <2> HIDE DEF since, T
  <2>2. QED
    BY <1>4, <1>7, <1>10, <2>1, FS_Subset
<1>13. s <= c
  <2> SUFFICES ASSUME s > c PROVE FALSE
    BY <1>1, <1>11
  <2>1. s \in Responses(request, c) \ {c}
    BY <1>1, <1>8, <1>11 DEF Responses
  <2>2. t \in N
    BY <1>7, <1>8, <1>11, <2>1 DEF N, Newer
  <2>3. QED
    BY <1>12, <2>2
<1>14. c < t
  <2> SUFFICES ASSUME t <= c PROVE FALSE
    BY <1>1, <1>11
  <2> DEFINE U == (N \cup {c + 1}) \cup {t}
  <2>1. c + 1 \notin N /\ t \notin N \cup {c + 1}
    BY <1>1, <1>3, <1>11, <1>12
  <2>2. Cardinality(U) = Cardinality(N) + 2 /\ IsFiniteSet(U)
    <3> DEFINE V == N \cup {c + 1}
    <3>1. IsFiniteSet(V) /\ Cardinality(V) = Cardinality(N) + 1
      BY <1>4, <2>1, FS_AddElement
    <3>2. U = V \cup {t} /\ t \notin V
      BY <2>1
    <3> HIDE DEF U, V
    <3>3. IsFiniteSet(U) /\ Cardinality(U) = Cardinality(V) + 1
      BY <3>1, <3>2, FS_AddElement
    <3>4. QED
      BY <1>4, <3>1, <3>3
  <2>3. U \in SUBSET since
    <3>1. \A j \in N : j \in T /\ j >= t
      <4> SUFFICES ASSUME NEW j \in N PROVE j \in T /\ j >= t
        OBVIOUS
      <4>1. j \in T /\ j \in Nat
        BY <1>1, <1>3
      <4>2. ~ (t >= j)
        BY <1>5, <1>7, <1>12
      <4>3. QED
        BY <1>11, <4>1, <4>2
    <3>2. c + 1 \in since /\ t \in since
      BY <1>1, <1>2, <1>7, <1>11
    <3>3. QED
      BY <3>1, <3>2
  <2> HIDE DEF U, since
  <2>4. Cardinality(U) <= Cardinality(since)
    BY <1>9, <2>3, FS_Subset
  <2>5. QED
    BY <1>4, <1>7, <1>10, <2>2, <2>4
<1>15. c <= s
  BY <1>8, <1>14
<1>16. s = c
  BY <1>1, <1>11, <1>13, <1>15
<1>17. QED
  BY <1>6, <1>16 DEF s, t, k, N, Start

(* A request weighs a number of units.                                     *)
LEMMA SizeNat ==
  ASSUME NEW request \in Seq(Message)
  PROVE  Size(request) \in Nat
<1> DEFINE f == [i \in DOMAIN request |-> request[i].size]
<1>1. DOMAIN f = DOMAIN request /\ \A i \in DOMAIN request : f[i] \in Nat
  BY MessageFields
<1>2. IsFiniteSet(DOMAIN request)
  BY FS_Interval
<1>3. Size(request) = Overhead + SumFunction(f)
  BY DEF Size
<1> HIDE DEF f
<1>4. SumFunction(f) \in Nat
  BY <1>1, <1>2, SumFunctionIsSum, SumNat
<1>5. QED
  BY <1>3, <1>4, Configured

(* The responses of a compacted request are those that are kept.           *)
LEMMA CutResponses ==
  ASSUME NEW request \in Seq(Message), NEW c \in Indexes(request, "assistant"),
         Base(request) < c, NEW limit \in Nat
  PROVE  Cardinality(Indexes(Cut(request, c, limit), "assistant")) =
           Cardinality(Responses(request, c))
<1> DEFINE cut == Cut(request, c, limit)
           between == Between(request, c, limit)
           h == Base(request) - 1
           s == Len(between)
           n == Len(request) - c + 1
           S == Responses(request, c)
           T == Indexes(cut, "assistant")
           f == [d \in S |-> d - c + 1 + h + s]
<1>1. /\ cut \in Seq(Message)
      /\ h \in Nat /\ n \in Nat /\ s \in {0, 1} /\ h + 1 < c /\ c <= Len(request)
      /\ DOMAIN cut = 1 .. h + s + n
      /\ \A i \in 1 .. h : cut[i] = request[i]
      /\ \A i \in 1 .. s : i = 1 /\ cut[h + 1] = between[1]
      /\ \A i \in 1 .. n : cut[h + s + i] = request[c - 1 + i]
  BY CutIs
<1>2. \A i \in 1 .. s : between[i].kind = "summary"
  <2>1. between \in Seq(Message)
    BY BetweenIs
  <2>2. \A i \in DOMAIN between : between[i].kind = "summary"
    BY BetweenIs
  <2> HIDE DEF between
  <2>3. QED
    BY <2>1, <2>2
<1>3. /\ c \in Nat /\ Len(request) \in Nat /\ DOMAIN request = 1 .. Len(request)
      /\ Base(request) \in Nat
      /\ \A a \in Indexes(request, "assistant") : Base(request) <= a
  BY FirstResponseIs, IndexFacts DEF Base
<1>4. \A d \in S : d \in Nat /\ d >= c /\ d <= Len(request) /\ request[d].kind = "assistant"
  BY <1>3 DEF Responses, Indexes
<1>5. h = Base(request) - 1 /\ n = Len(request) - c + 1
  OBVIOUS
<1> HIDE DEF cut, between, h, s, n
<1>6. \A d \in S : f[d] \in T
  <2> SUFFICES ASSUME NEW d \in S PROVE f[d] \in T
    OBVIOUS
  <2> DEFINE i == d - c + 1
  <2>1. i \in 1 .. n /\ c - 1 + i = d
    BY <1>3, <1>4, <1>5
  <2>2. f[d] = h + s + i
    BY <1>1, <1>3, <1>4
  <2> HIDE DEF i, f
  <2>3. f[d] \in DOMAIN cut
    BY <1>1, <2>1, <2>2
  <2>4. cut[f[d]].kind = "assistant"
    BY <1>1, <1>4, <2>1, <2>2
  <2>5. QED
    BY <2>3, <2>4 DEF Indexes
<1>7. \A d, e \in S : f[d] = f[e] => d = e
  BY <1>1, <1>3, <1>4
<1>8. ASSUME NEW q \in T PROVE \E d \in S : f[d] = q
  <2>1. q \in 1 .. h + s + n /\ cut[q].kind = "assistant"
    BY <1>1 DEF Indexes
  <2>2. CASE q <= h
    <3>1. q \in 1 .. h /\ q \in DOMAIN request /\ q < Base(request)
      BY <1>1, <1>3, <1>5, <2>1, <2>2
    <3>2. request[q].kind = "assistant"
      BY <1>1, <2>1, <3>1
    <3>3. q \in Indexes(request, "assistant")
      BY <3>1, <3>2 DEF Indexes
    <3>4. Base(request) <= q /\ q \in Nat
      BY <1>3, <3>1, <3>3
    <3>5. QED
      BY <1>3, <3>1, <3>4
  <2>3. CASE q > h /\ q <= h + s
    <3>1. q = h + 1 /\ 1 \in 1 .. s
      BY <1>1, <2>1, <2>3
    <3>2. cut[q].kind = "summary"
      BY <1>1, <1>2, <3>1
    <3>3. QED
      BY <2>1, <3>2
  <2>4. CASE q > h + s
    <3> DEFINE i == q - (h + s)
               d == c - 1 + i
    <3>1. i \in 1 .. n /\ q = h + s + i
      BY <1>1, <2>1, <2>4
    <3>2. d \in DOMAIN request /\ d >= c /\ d - c + 1 + h + s = q
      <4>1. i \in Nat /\ i >= 1 /\ i <= n
        BY <1>1, <3>1
      <4> HIDE DEF i
      <4>2. d \in Nat /\ d >= c /\ d <= Len(request) /\ d - c + 1 = i
        BY <1>3, <1>5, <4>1
      <4> HIDE DEF d
      <4>3. d - c + 1 + h + s = i + h + s
        BY <4>2
      <4>4. i + h + s = q
        BY <1>1, <3>1, <4>1
      <4>5. d \in DOMAIN request
        BY <1>1, <1>3, <4>2
      <4>6. QED
        BY <4>2, <4>3, <4>4, <4>5
    <3>3. request[d].kind = "assistant"
      BY <1>1, <2>1, <3>1
    <3> HIDE DEF d, i
    <3>4. d \in S
      BY <3>2, <3>3 DEF Responses, Indexes
    <3>5. f[d] = q
      BY <3>2, <3>4
    <3>6. QED
      BY <3>4, <3>5
  <2>5. QED
    BY <1>1, <2>1, <2>2, <2>3, <2>4
<1>9. f \in Bijection(S, T)
  <2>1. f \in [S -> T]
    BY <1>6
  <2> HIDE DEF f
  <2>2. QED
    BY <1>7, <1>8, <2>1 DEF Bijection, Injection, IsInjective, Surjection
<1>10. IsFiniteSet(S)
  <2>1. S \in SUBSET Indexes(request, "assistant")
    BY DEF Responses
  <2>2. QED
    BY <2>1, IndexFacts, FS_Subset
<1> HIDE DEF S, T, f
<1>11. ExistsBijection(S, T)
  BY <1>9 DEF ExistsBijection
<1>12. Cardinality(T) = Cardinality(S)
  BY <1>10, <1>11, FS_Bijection
<1>13. QED
  BY <1>12 DEF S, T, cut

(* What is compacted is the whole, or the exchanges from the start of some *)
(* of the newest results on.                                               *)
LEMMA CompactKeeps ==
  ASSUME NEW request \in Seq(Message), Calls(request),
         NEW n \in 1 .. ToolCount(request), NEW limit \in Nat
  PROVE  LET c == Start(request, n)
         IN  /\ Compact(request, n, limit) =
                  IF c = Base(request) THEN request ELSE Cut(request, c, limit)
             /\ Cardinality(Indexes(Compact(request, n, limit), "assistant")) =
                  Cardinality(Responses(request, c))
<1> DEFINE c == Start(request, n)
           R == Indexes(request, "assistant")
<1>1. c \in R /\ ToolCount(request) \in Nat /\ n \in Nat \ {0}
  BY StartIs, IndexFacts DEF ToolCount, ToolIndexes
<1>2. /\ R \in SUBSET Nat /\ Base(request) \in R /\ \A a \in R : Base(request) <= a
  BY <1>1, FirstResponseIs, IndexFacts DEF Base
<1>3. Compact(request, n, limit) = IF c = Base(request) THEN request ELSE Cut(request, c, limit)
  <2>1. CASE n < ToolCount(request)
    BY <1>1, <2>1, CompactIs
  <2>2. CASE n = ToolCount(request)
    <3>1. Compact(request, n, limit) = request
      BY <1>1, <2>2, CompactIs
    <3>2. c = Base(request)
      <4> SUFFICES ASSUME c # Base(request) PROVE FALSE
        OBVIOUS
      <4>1. Base(request) < c
        BY <1>1, <1>2
      <4> DEFINE k == Cardinality(Newer(request, Base(request)))
      <4>2. k \in Nat /\ k >= n
        BY <1>2, <4>1, StartIs
      <4>3. k + 1 \in 1 .. ToolCount(request)
        BY <1>2, StartOf
      <4> HIDE DEF k
      <4>4. QED
        BY <1>1, <2>2, <4>2, <4>3
    <3>3. QED
      BY <3>1, <3>2
  <2>3. QED
    BY <1>1, <2>1, <2>2
<1> HIDE DEF c
<1>4. Cardinality(Indexes(Compact(request, n, limit), "assistant")) =
        Cardinality(Responses(request, c))
  <2>1. CASE c = Base(request)
    <3>1. Responses(request, c) = R
      BY <1>2, <2>1 DEF Responses
    <3>2. QED
      BY <1>3, <2>1, <3>1
  <2>2. CASE c # Base(request)
    <3>1. Base(request) < c
      BY <1>1, <1>2, <2>2
    <3>2. QED
      BY <1>1, <1>3, <2>2, <3>1, CutResponses
  <2>3. QED
    BY <2>1, <2>2
<1>5. QED
  BY <1>3, <1>4 DEF c

(* What is sent keeps some of the newest results; to keep more of them     *)
(* would have been too much.                                               *)
LEMMA SentKeeps ==
  ASSUME NEW request \in Seq(Message), Calls(request), NEW recent \in Nat \ {0},
         ToolIndexes(request) # {}, Prepared(request, recent).how = "asked"
  PROVE  LET m == Most(request, recent)
         IN  \E n \in 1 .. m, s \in Nat :
               /\ Indexes(Prepared(request, recent).view, "assistant") =
                    Indexes(Compact(request, n, s), "assistant")
               /\ \A k \in n + 1 .. m : Size(Compact(request, k, SummaryLimit)) > TextBudget
<1> DEFINE A == Attempts(request, recent)
           p == Prepared(request, recent)
           m == Most(request, recent)
<1>1. p.how # "refused" /\ p.how # "unprojectable"
  OBVIOUS
<1>2. PICK i \in DOMAIN A : /\ \A j \in 1 .. i - 1 : ~ Raises(A[j]) /\ ~ Fits(A[j])
                            /\ p.view = Content(A[i])
  <2> HIDE DEF p
  <2> QED BY <1>1, PreparedIs DEF p
<1>3. /\ A \in Seq(AttemptSet) /\ m \in Nat /\ m <= Len(A)
      /\ \A j \in 1 .. m : A[j] = Attempt(request, m + 1 - j, SummaryLimit, Unprojected)
      /\ \A j \in DOMAIN A : j > m => A[j] \in Range(Projections(request))
  BY AttemptsAre
<1>4. m >= 1
  <2>1. IsFiniteSet(ToolIndexes(request)) /\ ToolCount(request) \in Nat
    BY IndexFacts DEF ToolCount, ToolIndexes
  <2>2. ToolCount(request) # 0
    BY <2>1, FS_EmptySet DEF ToolCount
  <2>3. \A k \in Nat : k <= ToolCount(request) /\ (bounded => k <= recent) => k <= m
    BY MostIs
  <2>4. 1 <= ToolCount(request) /\ 1 <= recent
    BY <2>1, <2>2
  <2> HIDE DEF m
  <2>5. QED
    BY <2>3, <2>4
<1>5. A[i] \in AttemptSet /\ i \in Nat /\ i >= 1
  BY <1>3
<1>6. A[i].view \in Seq(Message) /\ A[i].limit \in Nat
  BY <1>5 DEF AttemptSet
<1> HIDE DEF A, p, m
<1>7. Indexes(p.view, "assistant") = Indexes(A[i].view, "assistant")
  <2> DEFINE v == A[i].view
             w == Projected(v, A[i].limit)
  <2>1. Indexes(w, "assistant") = Indexes(v, "assistant")
    <3>1. DOMAIN w = DOMAIN v /\ \A k \in DOMAIN v : w[k].kind = v[k].kind
      <4> DEFINE limit == A[i].limit
      <4>1. v \in Seq(Message) /\ limit \in Nat /\ w = Projected(v, limit)
        BY <1>6
      <4> HIDE DEF v, w, limit
      <4>2. QED
        BY <4>1, ProjectedIs
    <3> HIDE DEF v, w
    <3>2. QED
      BY <3>1 DEF Indexes
  <2>2. Content(A[i]) = v \/ Content(A[i]) = w
    BY DEF Content
  <2> HIDE DEF v, w
  <2>3. QED
    BY <1>2, <2>1, <2>2 DEF v
<1>8. ASSUME NEW k \in 1 .. m, m + 1 - k < i
      PROVE  Size(Compact(request, k, SummaryLimit)) > TextBudget
  <2> DEFINE j == m + 1 - k
  <2>1. j \in 1 .. i - 1 /\ j \in 1 .. m /\ m + 1 - j = k
    BY <1>3, <1>5, <1>8
  <2> HIDE DEF j
  <2>2. A[j] = Attempt(request, k, SummaryLimit, Unprojected)
    BY <1>3, <2>1
  <2>3. ~ Fits(A[j])
    BY <1>2, <2>1
  <2>4. A[j].view = Compact(request, k, SummaryLimit) /\ A[j].limit = Unprojected
    BY <2>2 DEF Attempt
  <2>5. ~ (Size(Compact(request, k, SummaryLimit)) <= TextBudget)
    BY <2>3, <2>4 DEF Fits, Raises, Content
  <2>6. Size(Compact(request, k, SummaryLimit)) \in Nat /\ TextBudget \in Nat
    <3>1. Compact(request, k, SummaryLimit) \in Seq(Message)
      <4>1. k \in Nat \ {0}
        BY <1>3
      <4>2. QED
        BY <4>1, Configured, CompactImages
    <3>2. QED
      BY <3>1, SizeNat, Configured
  <2>7. QED
    BY <2>5, <2>6
<1>9. CASE i <= m
  <2> DEFINE n == m + 1 - i
  <2>1. n \in 1 .. m /\ i \in 1 .. m
    BY <1>3, <1>5, <1>9
  <2>2. \A k \in n + 1 .. m : k \in 1 .. m /\ m + 1 - k < i
    BY <1>3, <1>5, <1>9
  <2>3. A[i].view = Compact(request, n, SummaryLimit)
    <3>1. A[i] = Attempt(request, n, SummaryLimit, Unprojected)
      BY <1>3, <2>1
    <3> HIDE DEF n
    <3>2. QED
      BY <3>1 DEF Attempt
  <2> HIDE DEF n
  <2>4. \A k \in n + 1 .. m : Size(Compact(request, k, SummaryLimit)) > TextBudget
    BY <1>8, <2>2
  <2>5. QED
    BY <1>7, <2>1, <2>3, <2>4, Configured DEF p, m
<1>10. CASE i > m
  <2>1. A[i] \in Range(Projections(request))
    BY <1>3, <1>10
  <2>2. PICK s \in DOMAIN Summaries(request) : \E l \in DOMAIN Limits(ResultLimit) :
          A[i] = Attempt(request, 1, Summaries(request)[s], Limits(ResultLimit)[l])
    BY <2>1, ProjectionsAre
  <2>3. A[i].view = Compact(request, 1, Summaries(request)[s])
    BY <2>2 DEF Attempt
  <2>4. Summaries(request)[s] \in Nat
    BY SummariesAre
  <2>5. 1 \in 1 .. m /\ \A k \in 1 + 1 .. m : k \in 1 .. m /\ m + 1 - k < i
    BY <1>3, <1>4, <1>5, <1>10
  <2>6. \A k \in 1 + 1 .. m : Size(Compact(request, k, SummaryLimit)) > TextBudget
    BY <1>8, <2>5
  <2>7. QED
    BY <1>7, <2>3, <2>4, <2>5, <2>6 DEF p, m
<1>11. QED
  BY <1>3, <1>5, <1>9, <1>10

(* What a request weighs that keeps the exchanges from a response on.      *)
Weight(request, c) ==
  IF c = Base(request) THEN Size(request) ELSE Size(Cut(request, c, SummaryLimit))

(* It is the weight of an attempt.                                         *)
LEMMA WeightIs ==
  ASSUME NEW request \in Seq(Message), Calls(request), NEW c \in Indexes(request, "assistant")
  PROVE  LET k == Cardinality(Newer(request, c)) + 1
         IN  /\ k \in 1 .. ToolCount(request)
             /\ Weight(request, c) = Size(Compact(request, k, SummaryLimit))
<1> DEFINE k == Cardinality(Newer(request, c)) + 1
<1>1. k \in 1 .. ToolCount(request) /\ Start(request, k) = c
  BY StartOf
<1> HIDE DEF k
<1>2. Compact(request, k, SummaryLimit) =
        IF c = Base(request) THEN request ELSE Cut(request, c, SummaryLimit)
  BY <1>1, CompactKeeps, Configured
<1>3. QED
  BY <1>1, <1>2 DEF Weight, k

(* What KeepsWhatFits says of a request and of what is sent of it.         *)
KeepsIn(request, seen, most) ==
  \A c \in Indexes(request, "assistant") :
    LET kept  == Cardinality(Indexes(seen, "assistant"))
        count == Cardinality(Responses(request, c))
        newer == Cardinality(Newer(request, c))
    IN  /\ count = kept => newer < most
        /\ count > kept /\ newer < most => Weight(request, c) > TextBudget

Allowed(request, recent) == IF ~ bounded THEN Len(request) ELSE recent

(* It holds of a request that has been prepared.                           *)
LEMMA PreparedKeeps ==
  ASSUME NEW request \in Seq(Message), Calls(request), NEW recent \in Nat \ {0},
         Prepared(request, recent).how = "asked"
  PROVE  KeepsIn(request, Prepared(request, recent).view, Allowed(request, recent))
<1> DEFINE R == Indexes(request, "assistant")
           T == ToolIndexes(request)
           m == Most(request, recent)
           most == Allowed(request, recent)
           seen == Prepared(request, recent).view
           kept == Cardinality(Indexes(seen, "assistant"))
<1> SUFFICES ASSUME NEW c \in R
             PROVE  /\ Cardinality(Responses(request, c)) = kept =>
                         Cardinality(Newer(request, c)) < most
                    /\ Cardinality(Responses(request, c)) > kept
                       /\ Cardinality(Newer(request, c)) < most
                         => Weight(request, c) > TextBudget
  BY Zenon DEF KeepsIn
<1>1. T # {}
  BY ToolsIffResponses
<1>2. PICK n \in 1 .. m, s \in Nat :
        /\ Indexes(seen, "assistant") = Indexes(Compact(request, n, s), "assistant")
        /\ \A k \in n + 1 .. m : Size(Compact(request, k, SummaryLimit)) > TextBudget
  BY <1>1, SentKeeps
<1>3. /\ m \in Nat /\ m <= ToolCount(request) /\ ToolCount(request) \in Nat
      /\ \A k \in Nat : k <= ToolCount(request) /\ (bounded => k <= recent) => k <= m
      /\ bounded => m <= recent
  BY MostIs, IndexFacts DEF ToolCount, ToolIndexes
<1>4. ToolCount(request) <= Len(request) /\ Len(request) \in Nat
  <2>1. T \in SUBSET (1 .. Len(request))
    BY IndexFacts DEF ToolIndexes
  <2> DEFINE len == Len(request)
  <2>2. len \in Nat
    OBVIOUS
  <2> HIDE DEF len, T
  <2>3. IsFiniteSet(1 .. len) /\ Cardinality(1 .. len) = len
    BY <2>2, FS_Interval
  <2>4. Cardinality(T) <= len
    BY <2>1, <2>3, FS_Subset DEF len
  <2>5. QED
    BY <2>2, <2>4 DEF len, T, ToolCount
<1>5. most \in Nat /\ m <= most /\ (bounded => most = recent)
  BY <1>3, <1>4 DEF Allowed
<1> DEFINE b == Start(request, n)
<1>6. n \in 1 .. ToolCount(request) /\ n \in Nat
  BY <1>3
<1>7. /\ b \in R /\ Cardinality(Newer(request, b)) \in Nat
      /\ Cardinality(Newer(request, b)) < n
      /\ \A a \in R : a < b => /\ Cardinality(Newer(request, a)) \in Nat
                               /\ Cardinality(Newer(request, a)) >= n
  BY <1>6, StartIs
<1>8. kept = Cardinality(Responses(request, b))
  BY <1>2, <1>6, CompactKeeps
<1> HIDE DEF kept, seen, b, m, most
<1>9. /\ Cardinality(Responses(request, c)) = kept => c = b
      /\ Cardinality(Responses(request, c)) > kept => c < b
  <2>1. R \in SUBSET Nat /\ IsFiniteSet(R)
    BY IndexFacts
  <2>2. \A i : Responses(request, i) = {j \in R : j >= i}
    BY DEF Responses
  <2> HIDE DEF R
  <2>3. /\ Cardinality({j \in R : j >= c}) = Cardinality({j \in R : j >= b}) => c = b
        /\ Cardinality({j \in R : j >= c}) > Cardinality({j \in R : j >= b}) => c < b
    BY <1>7, <2>1, CountFrom
  <2>4. QED
    BY <1>8, <2>2, <2>3
<1>10. ASSUME Cardinality(Responses(request, c)) = kept
       PROVE  Cardinality(Newer(request, c)) < most
  <2>1. c = b
    BY <1>9, <1>10
  <2>2. n <= m
    BY <1>3
  <2>3. QED
    BY <1>3, <1>5, <1>6, <1>7, <2>1, <2>2
<1>11. ASSUME Cardinality(Responses(request, c)) > kept, Cardinality(Newer(request, c)) < most
       PROVE  Weight(request, c) > TextBudget
  <2> DEFINE k == Cardinality(Newer(request, c)) + 1
  <2>1. k \in 1 .. ToolCount(request) /\ Weight(request, c) = Size(Compact(request, k, SummaryLimit))
    BY WeightIs
  <2>2. k >= n + 1 /\ k <= most
    <3>1. c < b
      BY <1>9, <1>11
    <3>2. Cardinality(Newer(request, c)) \in Nat /\ Cardinality(Newer(request, c)) >= n
      BY <1>7, <3>1
    <3>3. QED
      BY <1>5, <1>6, <1>11, <3>2
  <2> HIDE DEF k
  <2>3. k <= m
    BY <1>3, <1>5, <2>1, <2>2
  <2>4. k \in n + 1 .. m
    BY <1>3, <1>6, <2>1, <2>2, <2>3
  <2>5. QED
    BY <1>2, <2>1, <2>4
<1>12. QED
  BY <1>10, <1>11

(* And then of a history that differs in its images only.                  *)
LEMMA KeepsUnpruned ==
  ASSUME NEW request \in Seq(Message), Calls(request), NEW max, NEW seen, NEW most,
         KeepsIn(Pruned(request, max), seen, most)
  PROVE  KeepsIn(request, seen, most)
<1> DEFINE pruned == Pruned(request, max)
<1>1. pruned \in Seq(Message) /\ DOMAIN pruned = DOMAIN request
  BY PrunedRequest
<1>2. SameText(pruned, request)
  <2>1. \A i \in DOMAIN request :
          /\ pruned[i].kind = request[i].kind /\ pruned[i].size = request[i].size
          /\ pruned[i].core = request[i].core /\ pruned[i].fills = request[i].fills
    BY PrunedMessage
  <2> HIDE DEF pruned
  <2>2. QED
    BY <1>1, <2>1 DEF SameText
<1>3. Calls(pruned)
  BY PrunedIndexes DEF Calls, ToolIndexes
<1>4. KeepsIn(pruned, seen, most)
  OBVIOUS
<1> HIDE DEF pruned
<1>5. /\ Indexes(pruned, "assistant") = Indexes(request, "assistant")
      /\ ToolIndexes(pruned) = ToolIndexes(request)
  BY <1>2, SameIndexes DEF ToolIndexes
<1>6. \A c : Responses(pruned, c) = Responses(request, c) /\ Newer(pruned, c) = Newer(request, c)
  BY <1>5 DEF Responses, Newer
<1>7. ASSUME NEW c \in Indexes(request, "assistant")
      PROVE  Weight(pruned, c) = Weight(request, c)
  <2> DEFINE k == Cardinality(Newer(request, c)) + 1
  <2>1. /\ k \in 1 .. ToolCount(request)
        /\ Weight(request, c) = Size(Compact(request, k, SummaryLimit))
    BY WeightIs
  <2>2. Weight(pruned, c) = Size(Compact(pruned, k, SummaryLimit))
    BY <1>1, <1>3, <1>5, <1>6, WeightIs
  <2>3. k \in Nat \ {0}
    <3> HIDE DEF k
    <3>1. ToolCount(request) \in Nat
      BY IndexFacts DEF ToolCount, ToolIndexes
    <3>2. QED
      BY <2>1, <3>1
  <2> HIDE DEF k
  <2>4. SameText(Compact(pruned, k, SummaryLimit), Compact(request, k, SummaryLimit))
    BY <1>1, <1>2, <1>3, <2>3, SameCompact, Configured
  <2>5. Size(Compact(pruned, k, SummaryLimit)) = Size(Compact(request, k, SummaryLimit))
    BY <2>4, SameSize DEF SameText
  <2>6. QED
    BY <2>1, <2>2, <2>5
<1>8. QED
  BY <1>4, <1>5, <1>6, <1>7 DEF KeepsIn

(* The words of KeepsWhatFits.                                             *)
KeepsWords(request, seen, most) ==
  LET cuts        == Indexes(request, "assistant")
      since(c)    == {d \in cuts : d >= c}
      newer(c)    == {t \in ToolIndexes(request) : \E d \in since(c) \ {c} : t > d}
      dropped(c)  == Cardinality({t \in ToolIndexes(request) : t < c})
      weight(c)   ==
        IF c = Min(cuts) THEN Size(request)
        ELSE Size(SubSeq(request, 1, Min(cuts) - 1)
                  \o <<Summary(dropped(c), SummaryLimit)>>
                  \o SubSeq(request, c, Len(request)))
      kept        == Cardinality(Indexes(seen, "assistant"))
  IN  \A c \in cuts :
        /\ Cardinality(since(c)) = kept => Cardinality(newer(c)) < most
        /\ Cardinality(since(c)) > kept /\ Cardinality(newer(c)) < most
             => weight(c) > TextBudget

(* They are about what has been proved.                                    *)
LEMMA KeepsSame ==
  ASSUME NEW request, NEW seen, NEW most, KeepsIn(request, seen, most)
  PROVE  KeepsWords(request, seen, most)
<1> DEFINE cuts == Indexes(request, "assistant")
<1>1. \A c : Weight(request, c) =
        IF c = Min(cuts) THEN Size(request)
        ELSE Size(SubSeq(request, 1, Min(cuts) - 1)
                  \o <<Summary(Cardinality({t \in ToolIndexes(request) : t < c}), SummaryLimit)>>
                  \o SubSeq(request, c, Len(request)))
  <2>1. SummaryLimit # NoSummary
    BY HistoryAssumption DEF NoSummary
  <2>2. QED
    BY <2>1 DEF Weight, Cut, Between, Base
<1>2. QED
  BY <1>1, Zenon DEF KeepsIn, KeepsWords, Responses, Newer

(* Every step leaves a request that keeps what fits.                       *)
LEMMA KeepsNext == HistoryInv /\ KeepsWhatFits /\ [Next]_vars => KeepsWhatFits'
<1> SUFFICES ASSUME HistoryInv, KeepsWhatFits, [Next]_vars PROVE KeepsWhatFits'
  OBVIOUS
<1>1. messages \in Seq(Message) /\ Calls(messages) /\ Recent \in Nat \ {0}
  BY Configured DEF HistoryInv
<1>2. ASSUME phase' # "asked" PROVE KeepsWhatFits'
  BY <1>2 DEF KeepsWhatFits
<1>3. ASSUME NEW max \in Nat, NEW recent \in Nat \ {0},
             Prepared(Pruned(messages, max), recent).how = "asked"
      PROVE  LET pruned == Pruned(messages, max)
                 most   == IF ~ bounded THEN Len(messages) ELSE recent
             IN  /\ Len(pruned) = Len(messages)
                 /\ KeepsIn(pruned, Prepared(pruned, recent).view, most)
  <2> DEFINE pruned == Pruned(messages, max)
  <2>1. pruned \in Seq(Message) /\ DOMAIN pruned = DOMAIN messages
    BY <1>1, PrunedRequest
  <2>2. Calls(pruned)
    BY <1>1, PrunedIndexes DEF Calls, ToolIndexes
  <2>3. Prepared(pruned, recent).how = "asked"
    BY <1>3
  <2> HIDE DEF pruned
  <2>4. Len(pruned) = Len(messages)
    BY <1>1, <2>1
  <2>5. KeepsIn(pruned, Prepared(pruned, recent).view, Allowed(pruned, recent))
    BY <2>1, <2>2, <2>3, PreparedKeeps
  <2>6. QED
    BY <2>4, <2>5 DEF pruned, Allowed
<1>4. ASSUME phase' = "asked" => KeepsWords(messages', view',
               IF ~ bounded' THEN Len(messages') ELSE IF retried' THEN 1 ELSE Recent)
      PROVE  KeepsWhatFits'
  BY <1>4 DEF KeepsWhatFits, KeepsWords
<1>5. CASE Claim
  BY <1>2, <1>5 DEF Claim, HistoryInv, KeepsWhatFits
<1>6. CASE Ask
  <2>1. CASE NewestTooLarge(messages)
    BY <1>2, <1>6, <2>1 DEF Ask
  <2>2. CASE ~ NewestTooLarge(messages)
    <3> DEFINE p == Prepared(Pruned(messages, 2), Recent)
    <3>1. /\ messages' = Pruned(messages, 2) /\ phase' = p.how /\ view' = p.view
          /\ ~ retried' /\ bounded' = bounded
      BY <1>6, <2>2 DEF Ask, HistoryInv
    <3>2. p.how = "asked" =>
            /\ Len(Pruned(messages, 2)) = Len(messages)
            /\ KeepsIn(Pruned(messages, 2), p.view, IF ~ bounded THEN Len(messages) ELSE Recent)
      BY <1>1, <1>3
    <3> HIDE DEF p
    <3>3. phase' = "asked" =>
            KeepsIn(messages', view', IF ~ bounded' THEN Len(messages') ELSE Recent)
      BY <3>1, <3>2
    <3>4. phase' = "asked" =>
            KeepsWords(messages', view', IF ~ bounded' THEN Len(messages') ELSE Recent)
      BY <3>3, KeepsSame
    <3>5. QED
      BY <1>4, <3>1, <3>4
  <2>3. QED
    BY <2>1, <2>2
<1>7. CASE Retry
  <2> DEFINE p == Prepared(Pruned(messages, 1), 1)
  <2>1. /\ messages' = messages /\ phase' = p.how /\ view' = p.view
        /\ retried' = TRUE /\ bounded' = bounded
    BY <1>7 DEF Retry
  <2>2. p.how = "asked" =>
          KeepsIn(Pruned(messages, 1), p.view, IF ~ bounded THEN Len(messages) ELSE 1)
    BY <1>1, <1>3
  <2> HIDE DEF p
  <2>3. phase' = "asked" =>
          KeepsIn(messages, view', IF ~ bounded' THEN Len(messages) ELSE 1)
    BY <1>1, <2>1, <2>2, KeepsUnpruned
  <2>4. phase' = "asked" =>
          KeepsWords(messages', view', IF ~ bounded' THEN Len(messages') ELSE 1)
    BY <2>1, <2>3, KeepsSame
  <2>5. QED
    BY <1>4, <2>1, <2>4
<1>8. CASE End
  BY <1>2, <1>8 DEF End
<1>9. CASE Supersede
  BY <1>2, <1>9 DEF Supersede, NextTurn
<1>10. CASE Repair
  BY <1>2, <1>10 DEF Repair, NextTurn
<1>11. CASE Accept
  BY <1>2, <1>11 DEF Accept, NextTurn
<1>12. CASE UNCHANGED vars
  BY <1>12 DEF vars, KeepsWhatFits
<1>13. QED
  BY <1>5, <1>6, <1>7, <1>8, <1>9, <1>10, <1>11, <1>12 DEF Next

(* Of the exchanges the policy may keep, whole and under a full summary,   *)
(* as many are kept as fit: what is dropped was too much.                  *)
THEOREM RequestsKeepWhatFits == Spec => []KeepsWhatFits
<1>1. Init => KeepsWhatFits
  BY DEF Init, KeepsWhatFits
<1>2. QED
  BY <1>1, HistoryInit, HistoryNext, KeepsNext, PTL DEF Spec

=============================================================================
