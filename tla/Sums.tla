--------------------------------- MODULE Sums ---------------------------------
(***************************************************************************)
(* What MapThenSumSet of the community modules adds up to, for every       *)
(* finite set: the bytes of a user's files, the requests of an interval.   *)
(*                                                                         *)
(* It is defined by a recursive function on the subsets of its argument.   *)
(* That the function exists, and that the order of adding is immaterial,   *)
(* is shown by the smallest subset for which it fails (WFMin).             *)
(***************************************************************************)
EXTENDS FiniteSetsExt, FiniteSetTheorems, TLAPS

\* The sum of the g[x] for x in S.
Total(g, S) == MapThenSumSet(LAMBDA x : g[x], S)

Any(s) == CHOOSE x \in s : TRUE
Rest(s) == s \ {Any(s)}
\* it is the recursive function by which they are added up.
Adds(it, g, S) == it = [s \in SUBSET S |-> IF s = {} THEN 0 ELSE g[Any(s)] + it[Rest(s)]]

\* The definition by which the community modules add up.
LEMMA TotalUnfolds ==
  ASSUME NEW g, NEW S
  PROVE  Total(g, S) = (CHOOSE it : Adds(it, g, S))[S]
BY DEF Total, MapThenSumSet, MapThenFoldSet, Adds, Any, Rest

\* A set of subsets of a finite set has a smallest member.
LEMMA Smallest ==
  ASSUME NEW F, IsFiniteSet(F), NEW C \in SUBSET (SUBSET F), C # {}
  PROVE  \E s \in C : \A t \in C : t \subseteq s => t = s
<1>1. IsWellFoundedOn(StrictSubsetOrdering(F), SUBSET F)
  BY FS_StrictSubsetOrderingWellFounded, FS_FiniteSubsetsOfFinite
<1>2. PICK s \in C : \A t \in C : <<t, s>> \notin StrictSubsetOrdering(F)
  BY <1>1, WFMin
<1>3. ASSUME NEW t \in C, t \subseteq s, t # s PROVE FALSE
  <2>1. <<t, s>> \in StrictSubsetOrdering(F)
    BY <1>3 DEF StrictSubsetOrdering
  <2> QED BY <1>2, <2>1
<1> QED BY <1>3

\* One element is taken at a time.
LEMMA RestIsLess == ASSUME NEW s, s # {} PROVE Any(s) \in s /\ Rest(s) \subseteq s /\ Rest(s) # s
BY DEF Any, Rest

\* One step of the recursion.
LEMMA AddsUnfolds ==
  ASSUME NEW it, NEW g, NEW S, Adds(it, g, S), NEW s \in SUBSET S
  PROVE  it[s] = IF s = {} THEN 0 ELSE g[Any(s)] + it[Rest(s)]
BY DEF Adds

\* Two such functions agree where both are defined.
LEMMA AddsAgree ==
  ASSUME NEW g, NEW F, IsFiniteSet(F), NEW S \in SUBSET F, NEW T \in SUBSET F,
         NEW i, Adds(i, g, S), NEW j, Adds(j, g, T), NEW s \in SUBSET (S \cap T)
  PROVE  i[s] = j[s]
<1> DEFINE C == {t \in SUBSET (S \cap T) : i[t] # j[t]}
<1>1. SUFFICES ASSUME C # {} PROVE FALSE
  OBVIOUS
<1>2. C \in SUBSET (SUBSET F)
  OBVIOUS
<1> HIDE DEF C
<1>3. PICK t \in C : \A u \in C : u \subseteq t => u = t
  BY <1>1, <1>2, Smallest
<1>4. t \in SUBSET S /\ t \in SUBSET T /\ i[t] # j[t] /\ t # {}
  BY AddsUnfolds DEF C
<1>5. Rest(t) \notin C /\ Rest(t) \in SUBSET (S \cap T)
  BY <1>3, <1>4, RestIsLess
<1>6. i[Rest(t)] = j[Rest(t)]
  BY <1>5 DEF C
<1> QED BY <1>4, <1>6, AddsUnfolds

\* There is one for every finite set.
LEMMA AddsExists ==
  ASSUME NEW g, NEW F, IsFiniteSet(F)
  PROVE  \A S \in SUBSET F : \E it : Adds(it, g, S)
<1> DEFINE C == {S \in SUBSET F : ~\E it : Adds(it, g, S)}
<1>1. SUFFICES ASSUME C # {} PROVE FALSE
  OBVIOUS
<1>2. C \in SUBSET (SUBSET F)
  OBVIOUS
<1>3. PICK S \in C : \A u \in C : u \subseteq S => u = S
  <2> HIDE DEF C
  <2> QED BY <1>1, <1>2, Smallest
<1> DEFINE I(u) == CHOOSE it : Adds(it, g, u)
           G == [s \in SUBSET S |-> IF s = {} THEN 0 ELSE g[Any(s)] + I(Rest(s))[Rest(s)]]
<1>4. \A u \in SUBSET S : u # S => Adds(I(u), g, u)
  BY <1>3
<1>5. ASSUME NEW s \in SUBSET S, s # {} PROVE G[Rest(s)] = I(Rest(s))[Rest(s)]
  <2> DEFINE u == Rest(s)
  <2>1. u \in SUBSET S /\ u # S
    BY <1>5, RestIsLess
  <2>2. Adds(I(u), g, u)
    BY <1>4, <2>1
  <2>3. CASE u = {}
    BY <2>1, <2>2, <2>3, AddsUnfolds
  <2>4. CASE u # {}
    <3> DEFINE v == Rest(u)
    <3>1. v \in SUBSET u /\ v \in SUBSET S /\ v # S
      BY <2>1, <2>4, RestIsLess
    <3>2. Adds(I(v), g, v)
      BY <1>4, <3>1
    <3>3. I(u)[v] = I(v)[v]
      <4>1. u \in SUBSET F /\ v \in SUBSET F /\ v \in SUBSET (u \cap v)
        BY <2>1, <3>1
      <4> HIDE DEF I, u, v
      <4> QED BY <2>2, <3>2, <4>1, AddsAgree
    <3>4. I(u)[u] = g[Any(u)] + I(u)[v]
      <4> HIDE DEF I
      <4> QED BY <2>2, <2>4, AddsUnfolds
    <3>5. G[u] = g[Any(u)] + I(v)[v]
      <4> HIDE DEF I
      <4> QED BY <2>1, <2>4
    <3> QED BY <3>3, <3>4, <3>5
  <2> QED BY <2>3, <2>4
<1>6. Adds(G, g, S)
  <2> HIDE DEF I
  <2>1. \A s \in SUBSET S : G[s] = IF s = {} THEN 0 ELSE g[Any(s)] + G[Rest(s)]
    BY <1>5
  <2> QED BY <2>1 DEF Adds
<1> QED BY <1>3, <1>6

\* One of them gives the totals of all subsets.
LEMMA TotalAdds ==
  ASSUME NEW g, NEW F, IsFiniteSet(F)
  PROVE  \E it : Adds(it, g, F) /\ \A S \in SUBSET F : Total(g, S) = it[S]
<1>1. PICK it : Adds(it, g, F)
  BY AddsExists
<1>2. ASSUME NEW S \in SUBSET F PROVE Total(g, S) = it[S]
  <2> DEFINE j == CHOOSE i : Adds(i, g, S)
  <2>1. Adds(j, g, S)
    BY AddsExists
  <2>2. Total(g, S) = j[S]
    BY TotalUnfolds
  <2>3. S \in SUBSET (S \cap F) /\ F \in SUBSET F
    OBVIOUS
  <2> HIDE DEF j
  <2>4. j[S] = it[S]
    BY <1>1, <2>1, <2>3, AddsAgree
  <2> QED BY <2>2, <2>4
<1> QED BY <1>1, <1>2

\* Nothing adds up to 0.
LEMMA TotalEmpty == ASSUME NEW g PROVE Total(g, {}) = 0
<1>1. IsFiniteSet({})
  BY FS_EmptySet
<1>2. PICK it : Adds(it, g, {}) /\ \A S \in SUBSET {} : Total(g, S) = it[S]
  BY <1>1, TotalAdds
<1>3. it[{}] = 0
  BY <1>2, AddsUnfolds
<1> QED BY <1>2, <1>3

\* A finite total of integers is an integer, and of naturals a natural number.
LEMMA TotalInt ==
  ASSUME NEW F, IsFiniteSet(F), NEW g, NEW Num \in {Nat, Int}, \A x \in F : g[x] \in Num, NEW S \in SUBSET F
  PROVE  Total(g, S) \in Num
<1>1. PICK it : Adds(it, g, F) /\ \A T \in SUBSET F : Total(g, T) = it[T]
  BY TotalAdds
<1> DEFINE C == {T \in SUBSET F : it[T] \notin Num}
<1>2. C = {}
  <2> SUFFICES ASSUME C # {} PROVE FALSE
    OBVIOUS
  <2>1. PICK t \in C : \A u \in C : u \subseteq t => u = t
    <3>1. C \in SUBSET (SUBSET F)
      OBVIOUS
    <3> HIDE DEF C
    <3> QED BY <3>1, Smallest
  <2>2. t \in SUBSET F /\ it[t] \notin Num
    OBVIOUS
  <2>3. it[t] = IF t = {} THEN 0 ELSE g[Any(t)] + it[Rest(t)]
    BY <1>1, <2>2, AddsUnfolds
  <2>4. t # {} /\ 0 \in Num
    BY <2>2, <2>3
  <2>5. Any(t) \in F /\ Rest(t) \in SUBSET F /\ Rest(t) \notin C
    BY <2>1, <2>2, <2>4, RestIsLess
  <2>6. g[Any(t)] \in Num /\ it[Rest(t)] \in Num
    BY <2>5
  <2> QED BY <2>2, <2>3, <2>4, <2>6
<1> QED BY <1>1, <1>2

\* It does not matter which element is added first.
LEMMA TotalRemove ==
  ASSUME NEW F, IsFiniteSet(F), NEW g, \A x \in F : g[x] \in Int, NEW S \in SUBSET F, NEW x \in S
  PROVE  Total(g, S) = g[x] + Total(g, S \ {x})
<1>1. PICK it : Adds(it, g, F) /\ \A T \in SUBSET F : Total(g, T) = it[T]
  BY TotalAdds
<1>0. \A T \in SUBSET F : it[T] \in Int
  BY <1>1, TotalInt
<1> DEFINE C == {T \in SUBSET F : \E y \in T : it[T] # g[y] + it[T \ {y}]}
<1>2. C = {}
  <2> SUFFICES ASSUME C # {} PROVE FALSE
    OBVIOUS
  <2>1. PICK t \in C : \A u \in C : u \subseteq t => u = t
    <3>1. C \in SUBSET (SUBSET F)
      OBVIOUS
    <3> HIDE DEF C
    <3> QED BY <3>1, Smallest
  <2>2. PICK y \in t : it[t] # g[y] + it[t \ {y}]
    OBVIOUS
  <2>3. t \in SUBSET F /\ t # {} /\ Any(t) \in t
    BY <2>2, RestIsLess
  <2> DEFINE c == Any(t)
  <2>4. it[t] = g[c] + it[t \ {c}]
    <3>1. it[t] = g[Any(t)] + it[Rest(t)]
      BY <1>1, <2>3, AddsUnfolds
    <3> QED BY <3>1 DEF Rest
  <2> HIDE DEF c
  <2>5. y # c /\ c \in t
    BY <2>2, <2>3, <2>4 DEF c
  <2>6. t \ {c} \notin C /\ t \ {y} \notin C /\ t \ {c} \in SUBSET F /\ t \ {y} \in SUBSET F
    BY <2>1, <2>2, <2>3, <2>5
  <2>7. it[t \ {c}] = g[y] + it[(t \ {c}) \ {y}] /\ it[t \ {y}] = g[c] + it[(t \ {y}) \ {c}]
    BY <2>2, <2>5, <2>6
  <2>8. (t \ {c}) \ {y} = (t \ {y}) \ {c} /\ (t \ {c}) \ {y} \in SUBSET F
    BY <2>3
  <2>9. g[c] \in Int /\ g[y] \in Int /\ it[(t \ {c}) \ {y}] \in Int
    <3>1. c \in F /\ y \in F
      BY <2>2, <2>3, <2>5
    <3> QED BY <1>0, <2>8, <3>1
  <2>10. it[t \ {y}] = g[c] + it[(t \ {c}) \ {y}]
    BY <2>7, <2>8
  <2>11. it[t] = g[c] + (g[y] + it[(t \ {c}) \ {y}])
    BY <2>4, <2>7
  <2>12. \A i, j, k \in Int : i + (j + k) = j + (i + k)
    OBVIOUS
  <2>13. it[t] = g[y] + it[t \ {y}]
    BY <2>9, <2>10, <2>11, <2>12
  <2> QED BY <2>2, <2>13
<1>3. it[S] = g[x] + it[S \ {x}]
  BY <1>2
<1> QED BY <1>1, <1>3

\* One element more.
LEMMA TotalAdd ==
  ASSUME NEW F, IsFiniteSet(F), NEW g, \A x \in F : g[x] \in Int, NEW S \in SUBSET F, NEW x \in F \ S
  PROVE  Total(g, S \cup {x}) = Total(g, S) + g[x]
<1>1. S \cup {x} \in SUBSET F /\ x \in S \cup {x} /\ (S \cup {x}) \ {x} = S
  OBVIOUS
<1>2. Total(g, S \cup {x}) = g[x] + Total(g, S)
  BY <1>1, TotalRemove
<1>3. Total(g, S) \in Int /\ g[x] \in Int
  <2>1. Int \in {Nat, Int}
    OBVIOUS
  <2> QED BY <2>1, TotalInt
<1> QED BY <1>2, <1>3

\* More naturals do not add up to less.
LEMMA TotalGrows ==
  ASSUME NEW F, IsFiniteSet(F), NEW g, \A x \in F : g[x] \in Nat, NEW S \in SUBSET F, NEW T \in SUBSET S
  PROVE  Total(g, T) <= Total(g, S)
<1> DEFINE C == {U \in SUBSET F : T \subseteq U /\ ~(Total(g, T) <= Total(g, U))}
<1>1. C = {}
  <2> SUFFICES ASSUME C # {} PROVE FALSE
    OBVIOUS
  <2>1. PICK t \in C : \A u \in C : u \subseteq t => u = t
    <3>1. C \in SUBSET (SUBSET F)
      OBVIOUS
    <3> HIDE DEF C
    <3> QED BY <3>1, Smallest
  <2>2. t # T
    <3>1. Total(g, T) \in Nat
      BY TotalInt
    <3> QED BY <2>1, <3>1
  <2>3. PICK x \in t : x \notin T
    BY <2>1, <2>2
  <2>4. Total(g, t) = g[x] + Total(g, t \ {x})
    BY <2>1, <2>3, TotalRemove
  <2>5. t \ {x} \notin C
    BY <2>1, <2>3
  <2>6. Total(g, T) <= Total(g, t \ {x})
    BY <2>1, <2>3, <2>5
  <2>7. g[x] \in Nat /\ Total(g, t \ {x}) \in Nat /\ Total(g, T) \in Nat
    BY <2>1, <2>3, TotalInt
  <2> QED BY <2>1, <2>4, <2>6, <2>7
<1> QED BY <1>1

\* Only what is added up matters.
LEMMA TotalSame ==
  ASSUME NEW F, IsFiniteSet(F), NEW g, \A x \in F : g[x] \in Int, NEW h, \A x \in F : h[x] \in Int,
         NEW S \in SUBSET F, \A x \in S : g[x] = h[x]
  PROVE  Total(g, S) = Total(h, S)
<1> DEFINE C == {T \in SUBSET F : T \subseteq S /\ Total(g, T) # Total(h, T)}
<1>1. C = {}
  <2> SUFFICES ASSUME C # {} PROVE FALSE
    OBVIOUS
  <2>1. PICK t \in C : \A u \in C : u \subseteq t => u = t
    <3>1. C \in SUBSET (SUBSET F)
      OBVIOUS
    <3> HIDE DEF C
    <3> QED BY <3>1, Smallest
  <2>2. t # {}
    BY <2>1, TotalEmpty
  <2>3. PICK x \in t : TRUE
    BY <2>2
  <2>4. Total(g, t) = g[x] + Total(g, t \ {x}) /\ Total(h, t) = h[x] + Total(h, t \ {x})
    BY <2>1, <2>3, TotalRemove
  <2>5. t \ {x} \notin C
    BY <2>1, <2>3
  <2>6. Total(g, t \ {x}) = Total(h, t \ {x}) /\ g[x] = h[x]
    BY <2>1, <2>3, <2>5
  <2> QED BY <2>1, <2>4, <2>6
<1> QED BY <1>1

\* Nothing adds up to nothing.
LEMMA TotalZero ==
  ASSUME NEW F, IsFiniteSet(F), NEW g, \A x \in F : g[x] = 0, NEW S \in SUBSET F
  PROVE  Total(g, S) = 0
<1> DEFINE C == {T \in SUBSET F : Total(g, T) # 0}
<1>1. C = {}
  <2> SUFFICES ASSUME C # {} PROVE FALSE
    OBVIOUS
  <2>1. PICK t \in C : \A u \in C : u \subseteq t => u = t
    <3>1. C \in SUBSET (SUBSET F)
      OBVIOUS
    <3> HIDE DEF C
    <3> QED BY <3>1, Smallest
  <2>2. t # {}
    BY <2>1, TotalEmpty
  <2>3. PICK x \in t : TRUE
    BY <2>2
  <2>4. Total(g, t) = g[x] + Total(g, t \ {x})
    BY <2>1, <2>3, TotalRemove
  <2>5. Total(g, t \ {x}) = 0 /\ g[x] = 0
    BY <2>1, <2>3
  <2> QED BY <2>1, <2>4, <2>5
<1> QED BY <1>1

\* One more at one place.
LEMMA TotalRaise ==
  ASSUME NEW F, IsFiniteSet(F), NEW g, \A y \in F : g[y] \in Int, NEW h, \A y \in F : h[y] \in Int,
         NEW x \in F, \A y \in F : y # x => h[y] = g[y], h[x] = g[x] + 1, NEW S \in SUBSET F
  PROVE  Total(h, S) = Total(g, S) + (IF x \in S THEN 1 ELSE 0)
<1>1. S \ {x} \in SUBSET F /\ \A y \in S \ {x} : g[y] = h[y]
  OBVIOUS
<1>2. Total(g, S \ {x}) = Total(h, S \ {x})
  BY <1>1, TotalSame
<1>3. Total(g, S \ {x}) \in Int /\ g[x] \in Int
  <2>1. Int \in {Nat, Int}
    OBVIOUS
  <2> QED BY <1>1, <2>1, TotalInt
<1>4. CASE x \in S
  <2>1. Total(g, S) = g[x] + Total(g, S \ {x}) /\ Total(h, S) = h[x] + Total(h, S \ {x})
    BY <1>4, TotalRemove
  <2> QED BY <1>2, <1>3, <1>4, <2>1
<1>5. CASE x \notin S
  <2>1. S \ {x} = S
    BY <1>5
  <2>2. Total(g, S) = Total(h, S) /\ Total(g, S) \in Int
    BY <1>2, <1>3, <2>1
  <2> QED BY <1>5, <2>2
<1> QED BY <1>4, <1>5

\* Two sets that have nothing in common.
LEMMA TotalUnion ==
  ASSUME NEW F, IsFiniteSet(F), NEW g, \A x \in F : g[x] \in Int,
         NEW S \in SUBSET F, NEW T \in SUBSET F, S \cap T = {}
  PROVE  Total(g, S \cup T) = Total(g, S) + Total(g, T)
<1> DEFINE C == {U \in SUBSET F : U \subseteq T /\ Total(g, S \cup U) # Total(g, S) + Total(g, U)}
<1>0. ASSUME NEW U \in SUBSET F PROVE Total(g, U) \in Int
  <2>1. Int \in {Nat, Int}
    OBVIOUS
  <2> QED BY <2>1, TotalInt
<1>1. C = {}
  <2> SUFFICES ASSUME C # {} PROVE FALSE
    OBVIOUS
  <2>1. PICK t \in C : \A u \in C : u \subseteq t => u = t
    <3>1. C \in SUBSET (SUBSET F)
      OBVIOUS
    <3> HIDE DEF C
    <3> QED BY <3>1, Smallest
  <2>2. t # {}
    <3> SUFFICES ASSUME t = {} PROVE FALSE
      OBVIOUS
    <3>1. S \cup t = S /\ Total(g, S) \in Int /\ Total(g, t) = 0
      BY <1>0, TotalEmpty
    <3> QED BY <2>1, <3>1
  <2>3. PICK x \in t : TRUE
    BY <2>2
  <2>4. t \in SUBSET F /\ t \subseteq T /\ x \in F /\ x \notin S
    BY <2>1, <2>3
  <2>5. t \ {x} \notin C
    BY <2>1, <2>3
  <2>6. Total(g, S \cup (t \ {x})) = Total(g, S) + Total(g, t \ {x})
    BY <2>4, <2>5
  <2>7. Total(g, t) = g[x] + Total(g, t \ {x})
    BY <2>3, <2>4, TotalRemove
  <2>8. Total(g, S \cup t) = g[x] + Total(g, S \cup (t \ {x}))
    <3>1. S \cup t \in SUBSET F /\ x \in S \cup t /\ (S \cup t) \ {x} = S \cup (t \ {x})
      BY <2>3, <2>4
    <3>2. Total(g, S \cup t) = g[x] + Total(g, (S \cup t) \ {x})
      BY <3>1, TotalRemove
    <3> QED BY <3>1, <3>2
  <2>9. g[x] \in Int /\ Total(g, S) \in Int /\ Total(g, t \ {x}) \in Int
    BY <1>0, <2>4
  <2>10. Total(g, S \cup t) = Total(g, S) + Total(g, t)
    BY <2>6, <2>7, <2>8, <2>9
  <2> QED BY <2>1, <2>10
<1> QED BY <1>1

===============================================================================
