------------------------- MODULE StatStream_proofs -------------------------
(***************************************************************************)
(* Proofs about StatStream, for any number of streams and amounts of any   *)
(* size.                                                                   *)
(***************************************************************************)
EXTENDS StatStream, FiniteSetTheorems, SequenceTheorems, WellFoundedInduction, TLAPS

(***************************************************************************)
(* Sums over finite sets.                                                  *)
(***************************************************************************)
Pick(t) == CHOOSE x \in t : TRUE

(* g gives the sum of f over each part of S.                                *)
Sums(g, f, S) ==
  g = [t \in SUBSET S |-> IF t = {} THEN 0 ELSE f[Pick(t)] + g[t \ {Pick(t)}]]

LEMMA Picked == ASSUME NEW t, t # {} PROVE Pick(t) \in t
BY DEF Pick

LEMMA SumsOf ==
  ASSUME NEW S, NEW f, NEW g, Sums(g, f, S), NEW t \in SUBSET S
  PROVE  g[t] = IF t = {} THEN 0 ELSE f[Pick(t)] + g[t \ {Pick(t)}]
<1> DEFINE r == [u \in SUBSET S |-> IF u = {} THEN 0 ELSE f[Pick(u)] + g[u \ {Pick(u)}]]
<1>1. g = r
  BY DEF Sums
<1>2. r[t] = IF t = {} THEN 0 ELSE f[Pick(t)] + g[t \ {Pick(t)}]
  OBVIOUS
<1> QED
  BY <1>1, <1>2

(* The induction all that follows rests on.                                 *)
LEMMA SmallestPart ==
  ASSUME NEW S, IsFiniteSet(S), NEW T, T \subseteq SUBSET S, T # {}
  PROVE  \E t \in T : \A u \in T : u \subseteq t => u = t
<1>1. IsWellFoundedOn(StrictSubsetOrdering(S), SUBSET S)
  BY FS_StrictSubsetOrderingWellFounded, FS_FiniteSubsetsOfFinite
<1>2. PICK t \in T : \A u \in T : ~ (<<u, t>> \in StrictSubsetOrdering(S))
  BY <1>1, WFMin
<1>3. ASSUME NEW u \in T, u \subseteq t, u # t PROVE FALSE
  <2>1. <<u, t>> \in StrictSubsetOrdering(S)
    BY <1>3 DEF StrictSubsetOrdering
  <2> QED
    BY <1>2, <2>1
<1> QED
  BY <1>3

LEMMA SumsUnique ==
  ASSUME NEW S, IsFiniteSet(S), NEW f, NEW g, NEW h, Sums(g, f, S), Sums(h, f, S)
  PROVE  g = h
<1> DEFINE T == {t \in SUBSET S : g[t] # h[t]}
<1>0. T \subseteq SUBSET S
  OBVIOUS
<1>1. ASSUME T # {} PROVE FALSE
  <2> HIDE DEF T
  <2>2. PICK t \in T : \A u \in T : u \subseteq t => u = t
    BY <1>0, <1>1, SmallestPart
  <2> USE DEF T
  <2>t. t \in SUBSET S
    OBVIOUS
  <2>3. CASE t = {}
    BY <2>2, <2>3, <2>t, SumsOf
  <2>4. CASE t # {}
    <3> DEFINE u == t \ {Pick(t)}
    <3>1. u \subseteq t /\ u # t /\ u \in SUBSET S
      BY <2>4, Picked
    <3>2. g[u] = h[u]
      BY <2>2, <3>1
    <3>3. g[t] = f[Pick(t)] + g[u] /\ h[t] = f[Pick(t)] + h[u]
      BY <2>4, <2>t, SumsOf
    <3> QED
      BY <3>2, <3>3
  <2> QED
    BY <2>3, <2>4
<1>2. \A t \in SUBSET S : g[t] = h[t]
  BY <1>1
<1> HIDE DEF T
<1>3. DOMAIN g = SUBSET S /\ DOMAIN h = SUBSET S /\ g = [t \in DOMAIN g |-> g[t]] /\ h = [t \in DOMAIN h |-> h[t]]
  <2>1. ASSUME NEW k, Sums(k, f, S) PROVE DOMAIN k = SUBSET S /\ k = [t \in DOMAIN k |-> k[t]]
    <3> DEFINE r == [u \in SUBSET S |-> IF u = {} THEN 0 ELSE f[Pick(u)] + k[u \ {Pick(u)}]]
    <3>1. k = r
      BY <2>1 DEF Sums
    <3>2. DOMAIN r = SUBSET S /\ r = [t \in DOMAIN r |-> r[t]]
      OBVIOUS
    <3> HIDE DEF r
    <3> QED
      BY <3>1, <3>2
  <2> QED
    BY <2>1
<1> QED
  BY <1>2, <1>3

LEMMA SumsOfPart ==
  ASSUME NEW S, NEW f, NEW g, Sums(g, f, S), NEW t \in SUBSET S
  PROVE  Sums([u \in SUBSET t |-> g[u]], f, t)
<1> DEFINE r == [u \in SUBSET t |-> g[u]]
<1>1. ASSUME NEW u \in SUBSET t
      PROVE  g[u] = IF u = {} THEN 0 ELSE f[Pick(u)] + r[u \ {Pick(u)}]
  <2>1. u \in SUBSET S /\ u \ {Pick(u)} \in SUBSET t
    OBVIOUS
  <2>2. r[u \ {Pick(u)}] = g[u \ {Pick(u)}]
    BY <2>1
  <2> QED
    BY <2>1, <2>2, SumsOf
<1> DEFINE R(u) == IF u = {} THEN 0 ELSE f[Pick(u)] + r[u \ {Pick(u)}]
<1>2. r = [u \in SUBSET t |-> R(u)]
  <2> SUFFICES [u \in SUBSET t |-> g[u]] = [u \in SUBSET t |-> R(u)]
    OBVIOUS
  <2>1. \A u \in SUBSET t : g[u] = R(u)
    BY <1>1
  <2> HIDE DEF R
  <2> QED
    BY <2>1
<1> QED
  BY <1>2 DEF Sums

LEMMA SumsExist ==
  ASSUME NEW S, IsFiniteSet(S), NEW f
  PROVE  \E g : Sums(g, f, S)
<1> DEFINE T == {t \in SUBSET S : ~ \E g : Sums(g, f, t)}
<1>1. SUFFICES ASSUME T # {} PROVE FALSE
  OBVIOUS
<1>0. T \subseteq SUBSET S
  OBVIOUS
<1> HIDE DEF T
<1>2. PICK t \in T : \A u \in T : u \subseteq t => u = t
  BY <1>0, <1>1, SmallestPart
<1> USE DEF T
<1> DEFINE G(u) == CHOOSE g : Sums(g, f, u)
           p == Pick(t)
           h == [u \in SUBSET t |-> IF u = {} THEN 0
                                    ELSE IF u = t THEN f[p] + G(t \ {p})[t \ {p}]
                                    ELSE G(u)[u]]
<1>3. ASSUME NEW u \in SUBSET t, u # t PROVE Sums(G(u), f, u)
  <2>1. u \in SUBSET S /\ u \notin T
    BY <1>2, <1>3
  <2>2. \E g : Sums(g, f, u)
    BY <2>1
  <2> QED
    BY <2>2
<1> HIDE DEF G
<1>4. ASSUME NEW u \in SUBSET t, u # t PROVE u = {} => G(u)[u] = 0
  <2>1. Sums(G(u), f, u) /\ u \in SUBSET u
    BY <1>3, <1>4
  <2> QED
    BY <2>1, SumsOf
<1>7. ASSUME NEW u \in SUBSET t, u # {}
      PROVE  h[u] = f[Pick(u)] + h[u \ {Pick(u)}]
  <2> DEFINE v == u \ {Pick(u)}
  <2>1. v \in SUBSET t /\ v # t /\ v # u /\ v \in SUBSET u
    BY <1>7, Picked
  <2>2. h[v] = G(v)[v]
    BY <1>4, <2>1
  <2>3. CASE u = t
    BY <1>7, <2>2, <2>3
  <2>4. CASE u # t
    <3>1. h[u] = G(u)[u] /\ Sums(G(u), f, u) /\ u \in SUBSET u
      BY <1>3, <1>7, <2>4
    <3>2. G(u)[u] = f[Pick(u)] + G(u)[v]
      BY <1>7, <3>1, SumsOf
    <3>3. Sums([w \in SUBSET v |-> G(u)[w]], f, v)
      BY <2>1, <3>1, SumsOfPart
    <3>4. IsFiniteSet(v)
      BY <2>1, FS_Subset
    <3>5. G(u)[v] = G(v)[v]
      <4>1. Sums(G(v), f, v) /\ v \in SUBSET v
        BY <1>3, <2>1
      <4>2. [w \in SUBSET v |-> G(u)[w]] = G(v)
        BY <3>3, <3>4, <4>1, SumsUnique
      <4>3. [w \in SUBSET v |-> G(u)[w]][v] = G(u)[v]
        BY <4>1
      <4> QED
        BY <4>2, <4>3
    <3> QED
      BY <2>2, <3>1, <3>2, <3>5
  <2> QED
    BY <2>3, <2>4
<1>8. h[{}] = 0
  OBVIOUS
<1>9. h = [u \in SUBSET t |-> h[u]]
  OBVIOUS
<1> HIDE DEF h
<1>10. Sums(h, f, t)
  <2> DEFINE H(u) == IF u = {} THEN 0 ELSE f[Pick(u)] + h[u \ {Pick(u)}]
  <2>1. \A u \in SUBSET t : h[u] = H(u)
    BY <1>7, <1>8
  <2> HIDE DEF H
  <2>2. h = [u \in SUBSET t |-> H(u)]
    BY <1>9, <2>1
  <2> QED
    BY <2>2 DEF Sums, H
<1> QED
  BY <1>2, <1>10

(* What MapThenSumSet computes.                                             *)
Total(f, S) == MapThenSumSet(LAMBDA x : f[x], S)

LEMMA TotalIsSums ==
  ASSUME NEW S, IsFiniteSet(S), NEW f, NEW g, Sums(g, f, S)
  PROVE  Total(f, S) = g[S]
<1> DEFINE it == CHOOSE h : h = [t \in SUBSET S |->
                   IF t = {} THEN 0 ELSE f[Pick(t)] + h[t \ {Pick(t)}]]
<1>1. Sums(it, f, S)
  BY DEF Sums
<1>2. it = g
  <2> HIDE DEF it
  <2> QED
    BY <1>1, SumsUnique
<1>3. Total(f, S) = it[S]
  BY DEF Total, MapThenSumSet, MapThenFoldSet, Pick
<1> QED
  BY <1>2, <1>3

LEMMA SumsTyped ==
  ASSUME NEW S, IsFiniteSet(S), NEW f, \A x \in S : f[x] \in Int,
         NEW g, Sums(g, f, S)
  PROVE  \A t \in SUBSET S : g[t] \in Int
<1> DEFINE T == {t \in SUBSET S : g[t] \notin Int}
<1>0. T \subseteq SUBSET S
  OBVIOUS
<1>1. SUFFICES ASSUME T # {} PROVE FALSE
  OBVIOUS
<1> HIDE DEF T
<1>2. PICK t \in T : \A u \in T : u \subseteq t => u = t
  BY <1>0, <1>1, SmallestPart
<1> USE DEF T
<1>t. t \in SUBSET S
  OBVIOUS
<1>v. g[t] \notin Int
  OBVIOUS
<1>u. g[t] = IF t = {} THEN 0 ELSE f[Pick(t)] + g[t \ {Pick(t)}]
  <2> HIDE DEF T
  <2> QED
    BY <1>t, SumsOf
<1>3. CASE t = {}
  BY <1>v, <1>3, <1>u
<1>4. CASE t # {}
  <2> DEFINE u == t \ {Pick(t)}
  <2>1. u \subseteq t /\ u # t /\ u \in SUBSET S /\ f[Pick(t)] \in Int
    BY <1>4, Picked
  <2>2. g[u] \in Int
    BY <1>2, <2>1
  <2>3. g[t] = f[Pick(t)] + g[u]
    BY <1>4, <1>u
  <2> QED
    BY <1>v, <2>1, <2>2, <2>3
<1> QED
  BY <1>3, <1>4

(* The order of summation is immaterial.                                    *)
LEMMA SumsExtract ==
  ASSUME NEW S, IsFiniteSet(S), NEW f, \A x \in S : f[x] \in Int,
         NEW g, Sums(g, f, S)
  PROVE  \A t \in SUBSET S : \A x \in t : g[t] = f[x] + g[t \ {x}]
<1> DEFINE T == {t \in SUBSET S : \E x \in t : g[t] # f[x] + g[t \ {x}]}
<1>0. T \subseteq SUBSET S
  OBVIOUS
<1>1. SUFFICES ASSUME T # {} PROVE FALSE
  OBVIOUS
<1> HIDE DEF T
<1>2. PICK t \in T : \A u \in T : u \subseteq t => u = t
  BY <1>0, <1>1, SmallestPart
<1> USE DEF T
<1>3. PICK x \in t : g[t] # f[x] + g[t \ {x}]
  OBVIOUS
<1> DEFINE p == Pick(t)
           a == t \ {p}
           b == t \ {x}
           c == (t \ {p}) \ {x}
<1>4. p \in t /\ g[t] = f[p] + g[a] /\ p # x
  <2>1. t \in SUBSET S /\ t # {}
    OBVIOUS
  <2>2. p \in t
    BY <2>1, Picked
  <2>3. g[t] = f[p] + g[a]
    BY <2>1, SumsOf
  <2> QED
    BY <1>3, <2>2, <2>3
<1>5. /\ a \in SUBSET S /\ a \subseteq t /\ a # t /\ x \in a
      /\ b \in SUBSET S /\ b \subseteq t /\ b # t /\ p \in b
      /\ c \in SUBSET S /\ b \ {p} = c
  BY <1>4
<1>6. g[a] = f[x] + g[c]
  BY <1>2, <1>5
<1>7. g[b] = f[p] + g[c]
  BY <1>2, <1>5
<1>8. g[c] \in Int /\ f[x] \in Int /\ f[p] \in Int
  BY <1>4, <1>5, SumsTyped
<1> HIDE DEF p, a, b, c
<1>9. g[t] = f[x] + g[b]
  BY <1>4, <1>6, <1>7, <1>8
<1> QED
  BY <1>3, <1>9 DEF b

LEMMA TotalOfPart ==
  ASSUME NEW S, IsFiniteSet(S), NEW f, NEW g, Sums(g, f, S), NEW t \in SUBSET S
  PROVE  Total(f, t) = g[t]
<1>0. IsFiniteSet(t)
  BY FS_Subset
<1>1. Sums([u \in SUBSET t |-> g[u]], f, t)
  BY SumsOfPart
<1>2. Total(f, t) = [u \in SUBSET t |-> g[u]][t]
  BY <1>0, <1>1, TotalIsSums
<1> QED
  BY <1>2

LEMMA TotalEmpty == ASSUME NEW f PROVE Total(f, {}) = 0
<1>1. IsFiniteSet({})
  BY FS_EmptySet
<1>2. PICK g : Sums(g, f, {})
  BY <1>1, SumsExist
<1> QED
  BY <1>1, <1>2, TotalIsSums, SumsOf

LEMMA TotalTyped ==
  ASSUME NEW S, IsFiniteSet(S), NEW f, \A x \in S : f[x] \in Int
  PROVE  Total(f, S) \in Int
<1>2. PICK g : Sums(g, f, S)
  BY SumsExist
<1> QED
  BY <1>2, TotalIsSums, SumsTyped

LEMMA TotalExtract ==
  ASSUME NEW S, IsFiniteSet(S), NEW f, \A x \in S : f[x] \in Int, NEW x \in S
  PROVE  Total(f, S) = f[x] + Total(f, S \ {x})
<1>2. PICK g : Sums(g, f, S)
  BY SumsExist
<1>3. Total(f, S) = g[S] /\ Total(f, S \ {x}) = g[S \ {x}]
  BY <1>2, TotalOfPart
<1>4. g[S] = f[x] + g[S \ {x}]
  BY <1>2, SumsExtract
<1> QED
  BY <1>3, <1>4

LEMMA TotalMonotone ==
  ASSUME NEW S, IsFiniteSet(S), NEW f, NEW h,
         \A x \in S : f[x] \in Int /\ h[x] \in Int /\ f[x] <= h[x]
  PROVE  Total(f, S) <= Total(h, S)
<1> DEFINE T == {t \in SUBSET S : ~ (Total(f, t) <= Total(h, t))}
<1>0. T \subseteq SUBSET S
  OBVIOUS
<1>1. SUFFICES ASSUME T # {} PROVE FALSE
  OBVIOUS
<1> HIDE DEF T
<1>2. PICK t \in T : \A u \in T : u \subseteq t => u = t
  BY <1>0, <1>1, SmallestPart
<1> USE DEF T
<1>3. CASE t = {}
  <2>1. Total(f, t) = 0 /\ Total(h, t) = 0
    BY <1>3, TotalEmpty
  <2> QED
    BY <1>2, <2>1
<1>4. CASE t # {}
  <2> PICK x \in t : TRUE
    BY <1>4
  <2> DEFINE u == t \ {x}
  <2>1. u \subseteq t /\ u # t /\ u \in SUBSET S /\ x \in S
    OBVIOUS
  <2>2. IsFiniteSet(t) /\ IsFiniteSet(u)
    BY <2>1, FS_Subset
  <2>3. Total(f, u) <= Total(h, u)
    BY <1>2, <2>1
  <2>4. Total(f, u) \in Int /\ Total(h, u) \in Int
    BY <2>1, <2>2, TotalTyped
  <2>5. Total(f, t) = f[x] + Total(f, u) /\ Total(h, t) = h[x] + Total(h, u)
    BY <2>2, TotalExtract
  <2>6. f[x] \in Int /\ h[x] \in Int /\ f[x] <= h[x]
    BY <2>1
  <2> HIDE DEF u, T
  <2>7. Total(f, t) <= Total(h, t)
    BY <2>3, <2>4, <2>5, <2>6
  <2> QED
    BY <2>7 DEF T
<1> QED
  BY <1>3, <1>4

LEMMA TotalSame ==
  ASSUME NEW S, IsFiniteSet(S), NEW f, NEW h,
         \A x \in S : f[x] \in Int /\ f[x] = h[x]
  PROVE  Total(f, S) = Total(h, S)
<1>1. Total(f, S) <= Total(h, S) /\ Total(h, S) <= Total(f, S)
  BY TotalMonotone
<1>2. Total(f, S) \in Int /\ Total(h, S) \in Int
  BY TotalTyped
<1> QED
  BY <1>1, <1>2

LEMMA TotalSum ==
  ASSUME NEW S, IsFiniteSet(S), NEW f, NEW g, NEW h,
         \A x \in S : f[x] \in Int /\ g[x] \in Int /\ h[x] = f[x] + g[x]
  PROVE  Total(h, S) = Total(f, S) + Total(g, S)
<1> DEFINE T == {t \in SUBSET S : Total(h, t) # Total(f, t) + Total(g, t)}
<1>0. T \subseteq SUBSET S
  OBVIOUS
<1>1. SUFFICES ASSUME T # {} PROVE FALSE
  OBVIOUS
<1> HIDE DEF T
<1>2. PICK t \in T : \A u \in T : u \subseteq t => u = t
  BY <1>0, <1>1, SmallestPart
<1> USE DEF T
<1>3. CASE t = {}
  <2>1. Total(f, t) = 0 /\ Total(g, t) = 0 /\ Total(h, t) = 0
    BY <1>3, TotalEmpty
  <2> QED
    BY <1>2, <2>1
<1>4. CASE t # {}
  <2> PICK x \in t : TRUE
    BY <1>4
  <2> DEFINE u == t \ {x}
  <2>1. u \subseteq t /\ u # t /\ u \in SUBSET S /\ x \in S
    OBVIOUS
  <2>2. IsFiniteSet(t) /\ IsFiniteSet(u)
    BY <2>1, FS_Subset
  <2>3. Total(h, u) = Total(f, u) + Total(g, u)
    BY <1>2, <2>1
  <2>4. Total(f, u) \in Int /\ Total(g, u) \in Int
    BY <2>1, <2>2, TotalTyped
  <2>5. /\ Total(f, t) = f[x] + Total(f, u) /\ Total(g, t) = g[x] + Total(g, u)
        /\ Total(h, t) = h[x] + Total(h, u)
    BY <2>2, TotalExtract
  <2>6. f[x] \in Int /\ g[x] \in Int /\ h[x] = f[x] + g[x]
    BY <2>1
  <2> HIDE DEF u, T
  <2>7. Total(h, t) = Total(f, t) + Total(g, t)
    BY <2>3, <2>4, <2>5, <2>6
  <2> QED
    BY <2>7 DEF T
<1> QED
  BY <1>3, <1>4

LEMMA TotalZero ==
  ASSUME NEW S, IsFiniteSet(S), NEW f, \A x \in S : f[x] = 0
  PROVE  Total(f, S) = 0
<1>1. Total(f, S) = Total(f, S) + Total(f, S) /\ Total(f, S) \in Int
  BY TotalSum, TotalTyped
<1> QED
  BY <1>1

(***************************************************************************)
(* What is counted.                                                        *)
(***************************************************************************)
Tally ==
  /\ sumSize \in Nat
  /\ filled \in [Streams -> Nat] /\ moving \in [Streams -> {0} \cup Sizes]
  /\ stage \in [Streams -> {"out", "inner", "count"}]
  /\ moved \in [Streams -> Nat] /\ told \in [Streams -> Nat]
  /\ poisoned \in BOOLEAN
  /\ \A s \in Streams : /\ stage[s] # "count" => moving[s] = 0
                        /\ told[s] + moving[s] <= moved[s]
  /\ All(told) <= sumSize /\ sumSize + All(moving) <= All(moved)
  /\ ~poisoned => /\ sumSize = All(told)
                  /\ sumSize + All(moving) = All(moved)

LEMMA AllTyped ==
  ASSUME NEW f \in [Streams -> Nat]
  PROVE  All(f) \in Nat
<1>1. IsFiniteSet(Streams)
  BY StatStreamAssumption
<1>2. \A s \in Streams : f[s] \in Int /\ 0 <= f[s]
  OBVIOUS
<1> DEFINE z == [s \in Streams |-> 0]
<1>3. \A s \in Streams : z[s] = 0 /\ z[s] \in Int /\ z[s] <= f[s]
  BY <1>2
<1> HIDE DEF z
<1>4. Total(f, Streams) \in Int
  BY <1>1, <1>2, TotalTyped
<1>5. Total(z, Streams) = 0
  BY <1>1, <1>3, TotalZero
<1>6. Total(z, Streams) <= Total(f, Streams)
  BY <1>1, <1>2, <1>3, TotalMonotone
<1>7. All(f) = Total(f, Streams)
  BY DEF All, Total
<1> QED
  BY <1>4, <1>5, <1>6, <1>7

LEMMA AllUpdate ==
  ASSUME NEW f \in [Streams -> Nat], NEW s \in Streams, NEW v \in Nat
  PROVE  All([f EXCEPT ![s] = v]) = All(f) - f[s] + v
<1> DEFINE h == [f EXCEPT ![s] = v]
           R == Streams \ {s}
<1>1. IsFiniteSet(Streams) /\ R \in SUBSET Streams
  BY StatStreamAssumption
<1>2. IsFiniteSet(R)
  BY <1>1, FS_Subset
<1>3. h[s] = v /\ \A r \in R : h[r] = f[r] /\ h[r] \in Int /\ f[r] \in Int
  OBVIOUS
<1>4. \A r \in Streams : f[r] \in Int /\ h[r] \in Int
  OBVIOUS
<1>5. All(f) = Total(f, Streams) /\ All(h) = Total(h, Streams)
  BY DEF All, Total
<1> HIDE DEF h
<1>6. Total(f, Streams) = f[s] + Total(f, R)
  BY <1>1, <1>4, TotalExtract
<1>7. Total(h, Streams) = h[s] + Total(h, R)
  BY <1>1, <1>4, TotalExtract
<1>8. Total(h, R) = Total(f, R)
  <2> HIDE DEF R
  <2> QED
    BY <1>2, <1>3, TotalSame
<1>9. Total(f, R) \in Int
  <2> HIDE DEF R
  <2> QED
    BY <1>2, <1>3, TotalTyped
<1> DEFINE a == Total(f, R)
           b == Total(h, R)
           c == Total(f, Streams)
           e == Total(h, Streams)
<1>10. c = f[s] + a /\ e = v + b /\ b = a /\ a \in Int /\ f[s] \in Int
  BY <1>3, <1>4, <1>6, <1>7, <1>8, <1>9
<1> HIDE DEF a, b, c, e
<1>11. e = c - f[s] + v
  BY <1>10
<1> QED
  BY <1>5, <1>11 DEF h, c, e

LEMMA Amounts == ASSUME NEW f \in [Streams -> {0} \cup Sizes] PROVE f \in [Streams -> Nat]
<1>1. {0} \cup Sizes \subseteq Nat
  BY StatStreamAssumption
<1> QED
  BY <1>1

LEMMA TallyInit == Init => Tally
<1>1. SUFFICES ASSUME Init PROVE Tally
  OBVIOUS
<1> DEFINE z == [s \in Streams |-> 0]
<1>2. moved = z /\ told = z /\ moving = z
  BY <1>1 DEF Init
<1>3. IsFiniteSet(Streams) /\ \A s \in Streams : z[s] = 0
  BY StatStreamAssumption
<1> HIDE DEF z
<1>4. All(z) = 0
  <2>1. Total(z, Streams) = 0
    BY <1>3, TotalZero
  <2> QED
    BY <2>1 DEF All, Total
<1>5. All(told) = 0 /\ All(moving) = 0 /\ All(moved) = 0
  BY <1>2, <1>4
<1>6. /\ sumSize = 0 /\ poisoned = FALSE
      /\ \A s \in Streams : moving[s] = 0 /\ told[s] = 0 /\ moved[s] = 0
  BY <1>1 DEF Init, StatInit
<1>7. /\ filled \in [Streams -> Nat] /\ moving \in [Streams -> {0} \cup Sizes]
      /\ stage \in [Streams -> {"out", "inner", "count"}]
      /\ moved \in [Streams -> Nat] /\ told \in [Streams -> Nat]
  BY <1>1 DEF Init
<1>8. /\ All(told) <= sumSize /\ sumSize + All(moving) <= All(moved)
      /\ sumSize = All(told) /\ sumSize + All(moving) = All(moved)
      /\ sumSize \in Nat /\ \A s \in Streams : told[s] + moving[s] <= moved[s]
  BY <1>5, <1>6
<1> QED
  BY <1>6, <1>7, <1>8 DEF Tally

LEMMA TallyInner == ASSUME Tally, NEW s \in Streams, NEW n \in Sizes, Inner(s, n) PROVE Tally'
<1>1. n \in Nat
  BY StatStreamAssumption
<1>2. UNCHANGED <<sumSize, poisoned, told>> /\ moving[s] = 0
  BY DEF Inner, Tally, statVars
<1>3. filled[s] \in Nat /\ moved[s] \in Nat
  BY DEF Tally
<1>4. ToCount(s, n) = n
  BY <1>1, <1>3 DEF ToCount
<1>5. moving' = [moving EXCEPT ![s] = n] /\ moved' = [moved EXCEPT ![s] = moved[s] + n]
  BY <1>4 DEF Inner
<1>6. moving \in [Streams -> Nat]
  BY Amounts DEF Tally
<1>7. All(moving') = All(moving) + n
  <2>1. All([moving EXCEPT ![s] = n]) = All(moving) - moving[s] + n
    BY <1>1, <1>6, AllUpdate
  <2>2. All(moving) \in Nat
    BY <1>6, AllTyped
  <2> QED
    BY <1>1, <1>2, <1>5, <2>1, <2>2
<1>8. All(moved') = All(moved) + n
  <2>0. moved \in [Streams -> Nat] /\ moved[s] + n \in Nat
    BY <1>1, <1>3 DEF Tally
  <2>1. All([moved EXCEPT ![s] = moved[s] + n]) = All(moved) - moved[s] + (moved[s] + n)
    BY <2>0, AllUpdate
  <2>2. All(moved) \in Nat
    BY <2>0, AllTyped
  <2> QED
    BY <1>1, <1>3, <1>5, <2>1, <2>2
<1>9. All(moving) \in Nat /\ All(moved) \in Nat /\ All(told) \in Nat
  BY <1>6, AllTyped DEF Tally
<1>10. /\ moving' \in [Streams -> {0} \cup Sizes] /\ moved' \in [Streams -> Nat]
       /\ filled' \in [Streams -> Nat] /\ stage' \in [Streams -> {"out", "inner", "count"}]
  BY <1>1, <1>3, <1>5 DEF Tally, Inner
<1>11. ASSUME NEW r \in Streams
       PROVE  /\ stage'[r] # "count" => moving'[r] = 0
              /\ told'[r] + moving'[r] <= moved'[r]
  <2>1. told[r] + moving[r] <= moved[r] /\ told[r] \in Nat /\ moving[r] \in Nat /\ moved[r] \in Nat
    BY <1>6 DEF Tally
  <2>2. told'[r] = told[r] /\ (stage[r] # "count" => moving[r] = 0)
    BY <1>2 DEF Tally
  <2>3. CASE r = s
    <3>1. moving'[r] = n /\ moved'[r] = moved[r] + n /\ stage'[r] = "count"
      BY <1>5, <1>6, <1>3, <2>3 DEF Tally, Inner
    <3> QED
      BY <1>1, <1>2, <2>1, <2>2, <2>3, <3>1
  <2>4. CASE r # s
    <3>1. moving'[r] = moving[r] /\ moved'[r] = moved[r] /\ stage'[r] = stage[r]
      BY <1>5, <1>6, <2>4 DEF Tally, Inner
    <3> QED
      BY <2>1, <2>2, <3>1
  <2> QED
    BY <2>3, <2>4
<1>12. /\ All(told) <= sumSize /\ sumSize + All(moving') <= All(moved')
       /\ ~poisoned => /\ sumSize = All(told)
                       /\ sumSize + All(moving') = All(moved')
  <2>1. /\ All(told) <= sumSize /\ sumSize + All(moving) <= All(moved) /\ sumSize \in Nat
        /\ ~poisoned => /\ sumSize = All(told)
                        /\ sumSize + All(moving) = All(moved)
    BY DEF Tally
  <2> QED
    BY <1>1, <1>7, <1>8, <1>9, <2>1
<1>13. sumSize \in Nat /\ told \in [Streams -> Nat] /\ poisoned \in BOOLEAN
  BY DEF Tally
<1> QED
  BY <1>2, <1>10, <1>11, <1>12, <1>13 DEF Tally

(* What Return does to the amounts under way.                               *)
LEMMA TallyReturn ==
  ASSUME Tally, NEW s \in Streams, Return(s)
  PROVE  /\ moving \in [Streams -> Nat] /\ moving' \in [Streams -> {0} \cup Sizes]
         /\ stage' \in [Streams -> {"out", "inner", "count"}]
         /\ moving'[s] = 0 /\ \A r \in Streams \ {s} : moving'[r] = moving[r] /\ stage'[r] = stage[r]
         /\ All(moving') = All(moving) - moving[s]
         /\ moving[s] \in Nat /\ All(moving) \in Nat
         /\ filled' = filled /\ moved' = moved
<1>1. moving \in [Streams -> Nat] /\ moving' = [moving EXCEPT ![s] = 0]
  BY Amounts DEF Tally, Return
<1>2. All(moving') = All(moving) - moving[s] + 0
  BY <1>1, AllUpdate
<1>3. All(moving) \in Nat /\ moving[s] \in Nat
  BY <1>1, AllTyped
<1>4. All(moving') = All(moving) - moving[s]
  BY <1>2, <1>3
<1> QED
  BY <1>1, <1>3, <1>4 DEF Tally, Return

LEMMA TallyCount == ASSUME Tally, NEW s \in Streams, Count(s) PROVE Tally'
<1>1. Return(s) /\ ~poisoned /\ poisoned' = poisoned /\ sumSize' = sumSize + moving[s]
      /\ told' = [told EXCEPT ![s] = told[s] + moving[s]]
  BY DEF Count, AddData
<1>2. /\ moving \in [Streams -> Nat] /\ moving' \in [Streams -> {0} \cup Sizes]
      /\ stage' \in [Streams -> {"out", "inner", "count"}]
      /\ moving'[s] = 0 /\ \A r \in Streams \ {s} : moving'[r] = moving[r] /\ stage'[r] = stage[r]
      /\ All(moving') = All(moving) - moving[s]
      /\ moving[s] \in Nat /\ All(moving) \in Nat
      /\ filled' = filled /\ moved' = moved
  BY <1>1, TallyReturn
<1>3. /\ told \in [Streams -> Nat] /\ told[s] \in Nat /\ sumSize \in Nat
      /\ filled \in [Streams -> Nat] /\ moved \in [Streams -> Nat]
  BY DEF Tally
<1>4. All(told') = All(told) + moving[s] /\ All(told) \in Nat
  <2>0. told[s] + moving[s] \in Nat
    BY <1>2, <1>3
  <2>1. All([told EXCEPT ![s] = told[s] + moving[s]]) = All(told) - told[s] + (told[s] + moving[s])
    BY <1>3, <2>0, AllUpdate
  <2>2. All(told) \in Nat
    BY <1>3, AllTyped
  <2> QED
    BY <1>1, <1>2, <1>3, <2>1, <2>2
<1>5. told' \in [Streams -> Nat] /\ sumSize' \in Nat
  BY <1>1, <1>2, <1>3
<1>6. sumSize = All(told) /\ sumSize + All(moving) = All(moved)
  BY <1>1 DEF Tally
<1>7. ASSUME NEW r \in Streams
      PROVE  /\ stage'[r] # "count" => moving'[r] = 0
             /\ told'[r] + moving'[r] <= moved'[r]
  <2>1. /\ told[r] + moving[r] <= moved[r] /\ told[r] \in Nat /\ moving[r] \in Nat /\ moved[r] \in Nat
        /\ stage[r] # "count" => moving[r] = 0
    BY <1>2 DEF Tally
  <2>2. CASE r = s
    <3>1. told'[r] = told[r] + moving[r]
      BY <1>1, <1>3, <2>2
    <3> QED
      BY <1>2, <2>1, <2>2, <3>1
  <2>3. CASE r # s
    <3>1. told'[r] = told[r]
      BY <1>1, <1>3, <2>3
    <3> QED
      BY <1>2, <2>1, <2>3, <3>1
  <2> QED
    BY <2>2, <2>3
<1>8. All(told') <= sumSize' /\ sumSize' = All(told')
      /\ sumSize' + All(moving') = All(moved) /\ sumSize' + All(moving') <= All(moved)
  BY <1>1, <1>2, <1>3, <1>4, <1>6
<1> QED
  BY <1>1, <1>2, <1>3, <1>5, <1>7, <1>8 DEF Tally

LEMMA TallyCountPanics == ASSUME Tally, NEW s \in Streams, CountPanics(s) PROVE Tally'
<1>1. Return(s) /\ poisoned' = TRUE /\ told' = told
      /\ sumSize' = IF poisoned THEN sumSize ELSE sumSize + moving[s]
  BY DEF CountPanics, AddDataPanics
<1>2. /\ moving \in [Streams -> Nat] /\ moving' \in [Streams -> {0} \cup Sizes]
      /\ stage' \in [Streams -> {"out", "inner", "count"}]
      /\ moving'[s] = 0 /\ \A r \in Streams \ {s} : moving'[r] = moving[r] /\ stage'[r] = stage[r]
      /\ All(moving') = All(moving) - moving[s]
      /\ moving[s] \in Nat /\ All(moving) \in Nat
      /\ filled' = filled /\ moved' = moved
  BY <1>1, TallyReturn
<1>3. /\ told \in [Streams -> Nat] /\ sumSize \in Nat
      /\ filled \in [Streams -> Nat] /\ moved \in [Streams -> Nat]
  BY DEF Tally
<1>4. All(told) \in Nat /\ All(moved) \in Nat
  BY <1>3, AllTyped
<1>5. sumSize' \in Nat
  BY <1>1, <1>2, <1>3
<1>6. All(told) <= sumSize /\ sumSize + All(moving) <= All(moved)
  BY DEF Tally
<1>7. ASSUME NEW r \in Streams
      PROVE  /\ stage'[r] # "count" => moving'[r] = 0
             /\ told'[r] + moving'[r] <= moved'[r]
  <2>1. /\ told[r] + moving[r] <= moved[r] /\ told[r] \in Nat /\ moving[r] \in Nat /\ moved[r] \in Nat
        /\ stage[r] # "count" => moving[r] = 0
    BY <1>2 DEF Tally
  <2> QED
    BY <1>1, <1>2, <2>1
<1>8. All(told) <= sumSize' /\ sumSize' + All(moving') <= All(moved)
  BY <1>1, <1>2, <1>3, <1>4, <1>6
<1> QED
  BY <1>1, <1>2, <1>3, <1>5, <1>7, <1>8 DEF Tally

LEMMA TallyNext == ASSUME Tally, [Next]_vars PROVE Tally'
<1>1. CASE Others
  <2>1. UNCHANGED <<sumSize, filled, moving, stage, moved, told>>
        /\ (poisoned' = poisoned \/ poisoned' = TRUE)
    BY <1>1 DEF Others, GetSpeedPanics, SetClock
  <2> QED
    BY <2>1 DEF Tally
<1>2. ASSUME NEW s \in Streams, StreamStep(s) PROVE Tally'
  <2>1. CASE \E held \in Held : Poll(s, held)
    <3> PICK held \in Held : Poll(s, held)
      BY <2>1
    <3>1. UNCHANGED <<sumSize, poisoned, moving, moved, told>> /\ held \in Nat
      BY StatStreamAssumption DEF Poll, statVars
    <3> QED
      BY <3>1 DEF Poll, Tally
  <2>2. CASE \E n \in Sizes : Inner(s, n)
    BY <2>2, TallyInner
  <2>3. CASE NotReady(s)
    <3>1. UNCHANGED <<sumSize, poisoned, moving, moved, told>>
      BY <2>3 DEF NotReady, statVars
    <3> QED
      BY <2>3, <3>1 DEF NotReady, Tally
  <2> QED
    BY <1>2, <2>1, <2>2, <2>3, TallyCount, TallyCountPanics DEF StreamStep
<1>3. CASE UNCHANGED vars
  BY <1>3 DEF vars, statVars, Tally
<1> QED
  BY <1>1, <1>2, <1>3 DEF Next

LEMMA TallyInvariance == Spec => []Tally
BY TallyInit, TallyNext, PTL DEF Spec

LEMMA TallyCountedOnce == Tally => CountedOnce
<1> SUFFICES ASSUME Tally PROVE CountedOnce
  OBVIOUS
<1>1. moving \in [Streams -> Nat] /\ moved \in [Streams -> Nat] /\ told \in [Streams -> Nat]
  BY Amounts DEF Tally
<1>2. All(moving) \in Nat /\ All(moved) \in Nat /\ All(told) \in Nat
  BY <1>1, AllTyped
<1> QED
  BY <1>2 DEF Tally, CountedOnce

(* The sum of the statistics lies between what the callers were told of and
   what went through, for any number of streams, amounts and threads that look
   at it: poll_read and poll_write count after they moved and before they
   return, once.                                                            *)
THEOREM EachByteCounted == Spec => []CountedOnce
BY TallyInvariance, TallyCountedOnce, PTL

(***************************************************************************)
(* Division, and the least of some numbers.                                *)
(***************************************************************************)
LEMMA DivBounds ==
  ASSUME NEW n \in Int, NEW d \in Nat \ {0}
  PROVE  n \div d \in Int /\ d * (n \div d) <= n /\ n < d * (n \div d) + d
OBVIOUS

LEMMA NextMultiple ==
  ASSUME NEW d \in Nat \ {0}, NEW a \in Int, NEW b \in Int, a < b
  PROVE  d * a + d <= d * b
OBVIOUS

LEMMA DivMonotone ==
  ASSUME NEW n \in Int, NEW m \in Int, n <= m, NEW d \in Nat \ {0}
  PROVE  n \div d <= m \div d
BY DivBounds, NextMultiple

LEMMA DivNatural == ASSUME NEW n \in Nat, NEW d \in Nat \ {0} PROVE n \div d \in Nat
BY DivBounds, NextMultiple

LEMMA LeastNatural ==
  ASSUME NEW T, T \subseteq Nat, T # {}
  PROVE  \E n \in T : \A m \in T : n <= m
<1>1. PICK n \in T : \A m \in T : ~ (<<m, n>> \in OpToRel(<, Nat))
  BY NatLessThanWellFounded, WFMin
<1>2. ASSUME NEW m \in T, m < n PROVE FALSE
  <2>1. <<m, n>> \in OpToRel(<, Nat)
    BY <1>2 DEF OpToRel
  <2> QED
    BY <1>1, <2>1
<1>3. \A m \in T : m \in Nat /\ n \in Nat
  OBVIOUS
<1> QED
  BY <1>2, <1>3

(***************************************************************************)
(* What is retained.                                                       *)
(***************************************************************************)
Item == [size : Nat, time : Nat]

Ordered(list) ==
  \A i, j \in 1..Len(list) : i < j => list[i].time < list[j].time

Keeps(f, list, sec, n) ==
  f = [i \in 0..n |->
        IF i = 0 THEN <<>>
        ELSE IF Kept(list[i], sec) THEN Append(f[i - 1], list[i])
        ELSE f[i - 1]]

LEMMA KeepsExist ==
  ASSUME NEW list, NEW sec, NEW n \in Nat
  PROVE  \E f : Keeps(f, list, sec, n)
<1> DEFINE T == {m \in Nat : ~ \E f : Keeps(f, list, sec, m)}
<1>0. T \subseteq Nat
  OBVIOUS
<1>1. SUFFICES ASSUME T # {} PROVE FALSE
  OBVIOUS
<1> HIDE DEF T
<1>2. PICK m \in T : \A k \in T : m <= k
  BY <1>0, <1>1, LeastNatural
<1> USE DEF T
<1> DEFINE N(f, i) == IF Kept(list[i], sec) THEN Append(f[i - 1], list[i]) ELSE f[i - 1]
<1>3. CASE m = 0
  <2> DEFINE h == [i \in 0..0 |-> <<>>]
             H == [i \in 0..0 |-> IF i = 0 THEN <<>> ELSE N(h, i)]
  <2> HIDE DEF N
  <2>1. \A i \in 0..0 : (IF i = 0 THEN <<>> ELSE N(h, i)) = <<>>
    OBVIOUS
  <2>2. h = H
    BY <2>1
  <2>3. Keeps(h, list, sec, 0)
    BY <2>2 DEF Keeps, N
  <2> QED
    BY <1>2, <1>3, <2>3
<1>4. CASE m # 0
  <2>1. m - 1 \in Nat /\ m - 1 \notin T
    BY <1>2, <1>4
  <2>2. PICK f : Keeps(f, list, sec, m - 1)
    BY <2>1
  <2> DEFINE h == [i \in 0..m |-> IF i = m THEN N(f, m) ELSE f[i]]
             G(i) == IF i = 0 THEN <<>> ELSE N(f, i)
             H(i) == IF i = 0 THEN <<>> ELSE N(h, i)
  <2>3. ASSUME NEW i \in 0..m PROVE h[i] = H(i)
    <3>1. CASE i = m
      <4>1. i - 1 \in 0..m /\ i - 1 # m /\ i # 0
        BY <1>4, <3>1
      <4>2. h[i - 1] = f[i - 1] /\ h[i] = N(f, m)
        BY <3>1, <4>1
      <4> QED
        BY <3>1, <4>1, <4>2
    <3>2. CASE i # m
      <4>0. i \in 0..(m - 1) /\ h[i] = f[i]
        BY <3>2
      <4>1. f = [j \in 0..(m - 1) |-> G(j)]
        BY <2>2 DEF Keeps
      <4>2. f[i] = G(i)
        <5> HIDE DEF G
        <5> QED
          BY <4>0, <4>1
      <4>3. CASE i = 0
        BY <4>0, <4>2, <4>3
      <4>4. CASE i # 0
        <5>1. i - 1 \in 0..m /\ i - 1 # m
          BY <3>2, <4>4
        <5>2. h[i - 1] = f[i - 1]
          BY <5>1
        <5> QED
          BY <4>0, <4>2, <4>4, <5>2
      <4> QED
        BY <4>3, <4>4
    <3> QED
      BY <3>1, <3>2
  <2>4. h = [i \in 0..m |-> H(i)]
    <3>1. h = [i \in 0..m |-> h[i]]
      OBVIOUS
    <3> HIDE DEF h, H
    <3> QED
      BY <2>3, <3>1
  <2>5. Keeps(h, list, sec, m)
    <3> HIDE DEF h
    <3> QED
      BY <2>4 DEF Keeps
  <2> QED
    BY <1>2, <2>5
<1> QED
  BY <1>3, <1>4

(* What the first i items leave.                                            *)
Left(out, list, sec, i) ==
  /\ out \in Seq(Item) /\ Ordered(out)
  /\ \A j \in 1..Len(out) : \E k \in 1..i : out[j] = list[k] /\ Kept(list[k], sec)
  /\ \A k \in 1..i : Kept(list[k], sec) => \E j \in 1..Len(out) : out[j] = list[k]

LEMMA LeftStep ==
  ASSUME NEW list \in Seq(Item), Ordered(list), NEW sec, NEW i \in 1..Len(list),
         NEW out, Left(out, list, sec, i - 1)
  PROVE  Left(IF Kept(list[i], sec) THEN Append(out, list[i]) ELSE out, list, sec, i)
<1> DEFINE it == list[i]
           b == Append(out, it)
<1>0. it \in Item /\ out \in Seq(Item) /\ Len(list) \in Nat /\ i - 1 \in Nat
  <2>0. list[i] \in Item
    <3>1. list \in [1..Len(list) -> Item]
      BY LenProperties
    <3> QED
      BY <3>1
  <2>1. Len(list) \in Nat /\ it \in Item
    BY <2>0, LenProperties
  <2>2. out \in Seq(Item)
    BY DEF Left
  <2> HIDE DEF it
  <2> QED
    BY <2>1, <2>2
<1>1. CASE ~ Kept(it, sec)
  <2>1. \A k \in 1..i : k \in 1..(i - 1) \/ k = i
    OBVIOUS
  <2>2. \A k \in 1..(i - 1) : k \in 1..i
    OBVIOUS
  <2> QED
    BY <1>1, <2>1, <2>2 DEF Left
<1>2. CASE Kept(it, sec)
  <2> HIDE DEF it
  <2> DEFINE n == Len(out)
  <2>1. /\ b \in Seq(Item) /\ Len(b) = n + 1 /\ b[n + 1] = it
        /\ \A j \in 1..n : b[j] = out[j]
    BY <1>0, AppendProperties
  <2>2. n \in Nat
    BY <1>0, LenProperties
  <2> HIDE DEF b, n
  <2>3. \A j \in 1..(n + 1) : j \in 1..n \/ j = n + 1
    BY <2>2
  <2>4. \A k \in 1..i : k \in 1..(i - 1) \/ k = i
    OBVIOUS
  <2>5. \A k \in 1..(i - 1) : k \in 1..i /\ k < i /\ k \in 1..Len(list)
    BY <1>0
  <2>6. ASSUME NEW j \in 1..(n + 1) PROVE \E k \in 1..i : b[j] = list[k] /\ Kept(list[k], sec)
    <3>1. CASE j \in 1..n
      <4>1. PICK k \in 1..(i - 1) : out[j] = list[k] /\ Kept(list[k], sec)
        BY <3>1 DEF Left, n
      <4> QED
        BY <2>1, <2>5, <3>1, <4>1
    <3>2. CASE j = n + 1
      <4>1. i \in 1..i
        OBVIOUS
      <4> QED
        BY <1>2, <2>1, <3>2, <4>1 DEF it
    <3> QED
      BY <2>3, <3>1, <3>2
  <2>7. ASSUME NEW k \in 1..i, Kept(list[k], sec) PROVE \E j \in 1..(n + 1) : b[j] = list[k]
    <3>1. CASE k \in 1..(i - 1)
      <4>1. PICK j \in 1..n : out[j] = list[k]
        BY <2>7, <3>1 DEF Left, n
      <4>2. j \in 1..(n + 1)
        BY <2>2
      <4> QED
        BY <2>1, <4>1, <4>2
    <3>2. CASE k = i
      <4>1. n + 1 \in 1..(n + 1)
        BY <2>2
      <4> QED
        BY <2>1, <3>2, <4>1 DEF it
    <3> QED
      BY <2>4, <3>1, <3>2
  <2>8. ASSUME NEW x \in 1..(n + 1), NEW y \in 1..(n + 1), x < y PROVE b[x].time < b[y].time
    <3>1. x \in 1..n
      BY <2>2, <2>8
    <3>2. CASE y \in 1..n
      BY <2>1, <2>8, <3>1, <3>2 DEF Left, Ordered, n
    <3>3. CASE y = n + 1
      <4>1. PICK k \in 1..(i - 1) : out[x] = list[k]
        BY <3>1 DEF Left, n
      <4>2. list[k].time < list[i].time
        BY <2>5 DEF Ordered
      <4> QED
        BY <2>1, <3>1, <3>3, <4>1, <4>2 DEF it
    <3> QED
      BY <2>3, <3>2, <3>3
  <2>9. Ordered(b)
    BY <2>1, <2>8 DEF Ordered
  <2>10. Left(b, list, sec, i)
    BY <2>1, <2>6, <2>7, <2>9 DEF Left
  <2> QED
    BY <1>2, <2>10 DEF b, it
<1> QED
  BY <1>1, <1>2

LEMMA RetainLeft ==
  ASSUME NEW list \in Seq(Item), Ordered(list), NEW sec
  PROVE  Left(Retain(list, sec), list, sec, Len(list))
<1> DEFINE n == Len(list)
           f == CHOOSE g : Keeps(g, list, sec, n)
           V(i) == IF i = 0 THEN <<>>
                   ELSE IF Kept(list[i], sec) THEN Append(f[i - 1], list[i]) ELSE f[i - 1]
<1>0. n \in Nat
  BY LenProperties
<1>1. Keeps(f, list, sec, n)
  <2>1. \E g : Keeps(g, list, sec, n)
    BY <1>0, KeepsExist
  <2> QED
    BY <2>1
<1>2. Retain(list, sec) = f[n]
  BY DEF Retain, Keeps
<1> HIDE DEF f
<1>3. ASSUME NEW i \in 0..n PROVE f[i] = V(i)
  <2>1. f = [j \in 0..n |-> V(j)]
    BY <1>1 DEF Keeps
  <2> HIDE DEF V, n
  <2> QED
    BY <2>1
<1> DEFINE T == {i \in Nat : i <= n /\ ~ Left(f[i], list, sec, i)}
<1>4. T \subseteq Nat
  OBVIOUS
<1>5. ASSUME T # {} PROVE FALSE
  <2> HIDE DEF T
  <2>1. PICK i \in T : \A k \in T : i <= k
    BY <1>4, <1>5, LeastNatural
  <2> USE DEF T
  <2>2. i \in 0..n /\ f[i] = V(i)
    BY <1>0, <1>3
  <2>3. CASE i = 0
    <3>1. f[i] = <<>>
      BY <2>2, <2>3
    <3>2. <<>> \in Seq(Item) /\ Len(<<>>) = 0
      BY EmptySeq
    <3>3. Left(<<>>, list, sec, 0)
      BY <3>2 DEF Left, Ordered
    <3> QED
      BY <2>3, <3>1, <3>3
  <2>4. CASE i # 0
    <3>1. i - 1 \in Nat /\ i - 1 <= n /\ i - 1 \notin T /\ i \in 1..Len(list)
      BY <1>0, <2>1, <2>4
    <3>2. Left(f[i - 1], list, sec, i - 1)
      BY <3>1
    <3>3. Left(V(i), list, sec, i)
      BY <2>4, <3>1, <3>2, LeftStep
    <3> QED
      BY <2>2, <3>3
  <2> QED
    BY <2>3, <2>4
<1>6. Left(f[n], list, sec, n)
  BY <1>0, <1>5
<1> QED
  BY <1>2, <1>6

(***************************************************************************)
(* What an amount adds to each second.                                     *)
(***************************************************************************)
Add == [size : Nat, from : Nat, to : Nat]

ShareOf(a, sec) ==
  IF SecondOf(a.from) = SecondOf(a.to)
  THEN IF sec = SecondOf(a.to) THEN a.size ELSE 0
  ELSE IF sec \in SecondOf(a.from)..SecondOf(a.to - 1)
       THEN (a.size * Weight(a.from, a.to, sec)) \div (a.to - a.from)
       ELSE 0

LEMMA SecondBounds ==
  ASSUME NEW t \in Int
  PROVE  /\ SecondOf(t) \in Int
         /\ Second * SecondOf(t) <= t /\ t < Second * SecondOf(t) + Second
BY SpeedStatAssumption, DivBounds DEF SecondOf

LEMMA SecondMonotone ==
  ASSUME NEW t \in Int, NEW u \in Int, t <= u
  PROVE  SecondOf(t) <= SecondOf(u)
BY SpeedStatAssumption, DivMonotone DEF SecondOf

LEMMA SecondNatural == ASSUME NEW t \in Nat PROVE SecondOf(t) \in Nat
BY SpeedStatAssumption, DivNatural DEF SecondOf

LEMMA WeightPositive ==
  ASSUME NEW from \in Nat, NEW to \in Nat, from < to,
         NEW sec \in SecondOf(from)..SecondOf(to - 1), sec \in Int
  PROVE  Weight(from, to, sec) \in Nat \ {0}
<1> DEFINE f == SecondOf(from)
           l == SecondOf(to - 1)
<1>1. /\ f \in Int /\ l \in Int /\ Second \in Nat \ {0}
      /\ from < Second * f + Second /\ Second * l <= to - 1
  BY SecondBounds, SpeedStatAssumption
<1>2. f <= sec /\ sec <= l
  BY <1>1
<1> HIDE DEF f, l
<1>3. from < (sec + 1) * Second
  <2>1. Second * f + Second <= Second * (sec + 1)
    BY <1>1, <1>2, NextMultiple
  <2> QED
    BY <1>1, <2>1
<1>4. sec * Second < to
  <2>1. CASE sec = l
    BY <1>1, <2>1
  <2>2. CASE sec < l
    <3>1. Second * sec + Second <= Second * l
      BY <1>1, <2>2, NextMultiple
    <3> QED
      BY <1>1, <3>1
  <2> QED
    BY <1>1, <1>2, <2>1, <2>2
<1>5. sec * Second \in Int /\ (sec + 1) * Second = sec * Second + Second
  BY <1>1
<1> DEFINE x == sec * Second
           y == (sec + 1) * Second
<1>6. x \in Int /\ y = x + Second /\ from < y /\ x < to
  BY <1>3, <1>4, <1>5
<1> HIDE DEF x, y
<1>7. Smaller(to, y) - Larger(from, x) \in Nat \ {0}
  BY <1>1, <1>6 DEF Smaller, Larger
<1> QED
  BY <1>7 DEF Weight, x, y

LEMMA ShareNatural ==
  ASSUME NEW a \in Add, a.from <= a.to, NEW sec \in Int
  PROVE  ShareOf(a, sec) \in Nat
<1> DEFINE f == SecondOf(a.from)
           l == SecondOf(a.to - 1)
<1>1. a.size \in Nat /\ a.from \in Nat /\ a.to \in Nat
  BY DEF Add
<1>2. CASE f = SecondOf(a.to)
  BY <1>1, <1>2 DEF ShareOf
<1>3. CASE f # SecondOf(a.to) /\ sec \in f..l
  <2>1. a.from < a.to
    BY <1>1, <1>3
  <2>2. Weight(a.from, a.to, sec) \in Nat
    BY <1>1, <1>3, <2>1, WeightPositive
  <2> DEFINE w == Weight(a.from, a.to, sec)
             d == a.to - a.from
  <2>3. a.size * w \in Nat /\ d \in Nat \ {0}
    <3> HIDE DEF w
    <3> QED
      BY <1>1, <2>1, <2>2 DEF w
  <2>4. (a.size * w) \div d \in Nat
    <3> HIDE DEF w, d
    <3> QED
      BY <2>3, DivNatural
  <2> QED
    BY <1>3, <2>4 DEF ShareOf
<1>4. CASE f # SecondOf(a.to) /\ sec \notin f..l
  BY <1>4 DEF ShareOf
<1> QED
  BY <1>2, <1>3, <1>4

(* Shares, as a list of items of successive seconds.                        *)
Spread(shares, a) ==
  /\ shares \in Seq(Item) /\ shares # <<>>
  /\ SecondOf(a.from) + Len(shares) - 1 <= SecondOf(a.to)
  /\ \A i \in 1..Len(shares) : shares[i].time = SecondOf(a.from) + i - 1
  /\ \A i \in 1..Len(shares) : shares[i].size = ShareOf(a, SecondOf(a.from) + i - 1)
  /\ \A sec \in Nat : \/ sec \in SecondOf(a.from)..(SecondOf(a.from) + Len(shares) - 1)
                      \/ ShareOf(a, sec) = 0

LEMMA SharesSpread ==
  ASSUME NEW a \in Add, a.from <= a.to
  PROVE  Spread(Shares(a.size, a.from, a.to), a)
<1> DEFINE f == SecondOf(a.from)
           l == SecondOf(a.to - 1)
           t == SecondOf(a.to)
           sh == Shares(a.size, a.from, a.to)
<1>1. a.size \in Nat /\ a.from \in Nat /\ a.to \in Nat
  BY DEF Add
<1>2. f \in Nat /\ t \in Nat /\ f <= t /\ l \in Int /\ l <= t
  BY <1>1, SecondNatural, SecondMonotone, SecondBounds
<1>3. CASE f = t
  <2> DEFINE it == [size |-> a.size, time |-> t]
  <2>1. sh = <<it>>
    BY <1>3 DEF Shares
  <2>2. it \in Item
    BY <1>1, <1>2 DEF Item
  <2>3. sh \in Seq(Item) /\ Len(sh) = 1 /\ sh[1] = it /\ sh # <<>>
    <3> HIDE DEF it
    <3> QED
      BY <2>1, <2>2
  <2>4. ShareOf(a, t) = a.size /\ \A sec : sec # t => ShareOf(a, sec) = 0
    BY <1>3 DEF ShareOf
  <2>5. \A i \in 1..1 : i = 1 /\ f + i - 1 = t
    BY <1>2, <1>3
  <2>6. it.time = t /\ it.size = a.size
    OBVIOUS
  <2>7. f + 1 - 1 = t /\ f..(f + 1 - 1) = {t}
    BY <1>2, <1>3
  <2> HIDE DEF it, sh, f, t
  <2>8. /\ \A i \in 1..Len(sh) : sh[i].time = f + i - 1
        /\ \A i \in 1..Len(sh) : sh[i].size = ShareOf(a, f + i - 1)
    BY <2>3, <2>4, <2>5, <2>6
  <2>9. f + Len(sh) - 1 <= t /\ \A sec \in Nat : sec \in f..(f + Len(sh) - 1) \/ ShareOf(a, sec) = 0
    BY <1>2, <2>3, <2>4, <2>7
  <2> QED
    BY <2>3, <2>8, <2>9 DEF Spread, f, t, sh
<1>4. CASE f # t
  <2> DEFINE n == l - f + 1
             s(i) == (a.size * Weight(a.from, a.to, f + i - 1)) \div (a.to - a.from)
             it(i) == [size |-> s(i), time |-> f + i - 1]
  <2>0. a.from < a.to
    BY <1>1, <1>4
  <2>1. f <= l
    BY <1>1, <2>0, SecondMonotone
  <2>2. sh = [i \in 1..n |-> it(i)]
    BY <1>4 DEF Shares
  <2>3. n \in Nat \ {0}
    BY <1>2, <2>1
  <2>4. ASSUME NEW i \in 1..n PROVE s(i) = ShareOf(a, f + i - 1) /\ f + i - 1 \in Nat
    <3>1. f + i - 1 \in f..l /\ f + i - 1 \in Nat
      BY <1>2, <2>3
    <3> QED
      BY <1>4, <3>1 DEF ShareOf
  <2>5. ASSUME NEW i \in 1..n PROVE it(i) \in Item /\ it(i).time = f + i - 1 /\ it(i).size = ShareOf(a, f + i - 1)
    <3>1. ShareOf(a, f + i - 1) \in Nat /\ f + i - 1 \in Nat
      BY <2>4, ShareNatural
    <3>2. s(i) = ShareOf(a, f + i - 1)
      BY <2>4
    <3> HIDE DEF s, f
    <3> QED
      BY <3>1, <3>2 DEF Item
  <2> HIDE DEF it
  <2>6. sh \in Seq(Item) /\ Len(sh) = n /\ \A i \in 1..n : sh[i] = it(i)
    <3> HIDE DEF sh, n
    <3>1. [i \in 1..n |-> it(i)] \in Seq(Item)
      BY <2>3, <2>5
    <3>2. Len([i \in 1..n |-> it(i)]) = n
      BY <2>3
    <3> QED
      BY <2>2, <3>1, <3>2
  <2>7. sh # <<>>
    <3>1. Len(<<>>) = 0
      OBVIOUS
    <3> HIDE DEF sh, n
    <3> QED
      BY <2>3, <2>6, <3>1
  <2>8. /\ \A i \in 1..Len(sh) : sh[i].time = f + i - 1
        /\ \A i \in 1..Len(sh) : sh[i].size = ShareOf(a, f + i - 1)
    <3> HIDE DEF sh, n, f
    <3> QED
      BY <2>5, <2>6
  <2>9. f + Len(sh) - 1 = l
    <3> HIDE DEF sh, f, l
    <3> QED
      BY <1>2, <2>6
  <2>10. \A sec \in Nat : sec \in f..(f + Len(sh) - 1) \/ ShareOf(a, sec) = 0
    <3> HIDE DEF sh
    <3> QED
      BY <1>4, <2>9 DEF ShareOf
  <2> HIDE DEF sh, f, l, t, n
  <2> QED
    BY <1>2, <2>6, <2>7, <2>8, <2>9, <2>10 DEF Spread, f, t, sh
<1> QED
  BY <1>3, <1>4

(***************************************************************************)
(* What Merge makes of a list and shares: k items of earlier seconds and   *)
(* one of every second of the shares, the first with what the list had.    *)
(***************************************************************************)
Had(list, k) == IF k = Len(list) THEN 0 ELSE list[Len(list)].size

Joined(m, list, shares, first, k) ==
  /\ k \in Nat /\ (k = Len(list) \/ k = Len(list) - 1)
  /\ k = Len(list) - 1 => list[Len(list)].time = first
  /\ m \in Seq(Item) /\ Len(m) = k + Len(shares)
  /\ \A i \in 1..k : m[i] = list[i] /\ list[i].time < first
  /\ \A j \in 1..Len(shares) :
       /\ m[k + j].time = shares[j].time
       /\ m[k + j].size = shares[j].size + (IF j = 1 THEN Had(list, k) ELSE 0)

LEMMA MergeJoined ==
  ASSUME NEW list \in Seq(Item), Ordered(list), NEW shares \in Seq(Item), shares # <<>>,
         NEW first \in Nat, shares[1].time = first,
         \A i \in 1..Len(list) : list[i].time <= first
  PROVE  \E k \in Nat : Joined(Merge(list, shares), list, shares, first, k)
<1> DEFINE n == Len(list)
           s == Len(shares)
           M == Merge(list, shares)
<1>1. /\ n \in Nat /\ list \in [1..n -> Item] /\ s \in Nat /\ shares \in [1..s -> Item]
      /\ s # 0
  BY LenProperties, EmptySeq
<1>2. CASE list # <<>> /\ list[n].time = first
  <2>1. n # 0 /\ n \in 1..n /\ 1 \in 1..s
    BY <1>1, <1>2, EmptySeq
  <2> DEFINE e == [list[n] EXCEPT !.size = list[n].size + shares[1].size]
             l2 == [list EXCEPT ![n] = e]
             tl == Tail(shares)
  <2>2. list[n] \in Item /\ shares[1] \in Item
    BY <1>1, <2>1
  <2>3. e \in Item /\ e.time = first /\ e.size = list[n].size + shares[1].size
    <3> DEFINE x == list[n]
               y == shares[1]
    <3>1. x \in Item /\ y \in Item /\ x.time = first
      BY <1>2, <2>2
    <3> HIDE DEF x, y
    <3>2. [x EXCEPT !.size = x.size + y.size] \in Item
      <4>1. x.size \in Nat /\ y.size \in Nat
        BY <3>1 DEF Item
      <4>2. x.size + y.size \in Nat
        BY <4>1
      <4> DEFINE v == x.size + y.size
      <4> HIDE DEF v
      <4>3. [x EXCEPT !.size = v] \in Item
        BY <3>1, <4>2 DEF Item, v
      <4> QED
        BY <4>3 DEF v
    <3>3. [x EXCEPT !.size = x.size + y.size].time = x.time
      BY <3>1 DEF Item
    <3>4. [x EXCEPT !.size = x.size + y.size].size = x.size + y.size
      BY <3>1 DEF Item
    <3> QED
      BY <3>1, <3>2, <3>3, <3>4 DEF x, y
  <2>4. M = l2 \o tl
    BY <1>2 DEF Merge
  <2> HIDE DEF e, M
  <2>5. l2 \in Seq(Item) /\ Len(l2) = n /\ \A i \in 1..n : l2[i] = IF i = n THEN e ELSE list[i]
    BY <2>1, <2>3, ExceptSeq
  <2>6. tl \in Seq(Item) /\ Len(tl) = s - 1 /\ \A i \in 1..(s - 1) : tl[i] = shares[i + 1]
    BY HeadTailProperties
  <2> HIDE DEF l2, tl
  <2>7. /\ M \in Seq(Item) /\ Len(M) = n + (s - 1)
        /\ \A i \in 1..(n + (s - 1)) : M[i] = IF i <= n THEN l2[i] ELSE tl[i - n]
    <3>1. /\ l2 \o tl \in Seq(Item) /\ Len(l2 \o tl) = Len(l2) + Len(tl)
          /\ \A i \in 1..(Len(l2) + Len(tl)) :
               (l2 \o tl)[i] = IF i <= Len(l2) THEN l2[i] ELSE tl[i - Len(l2)]
      BY <2>5, <2>6, ConcatProperties
    <3>2. Len(l2) = n /\ Len(tl) = s - 1
      BY <2>5, <2>6
    <3> HIDE DEF n, s
    <3> QED
      BY <2>4, <3>1, <3>2
  <2> DEFINE k == n - 1
  <2>8. k \in Nat /\ Len(M) = k + s /\ k = n - 1 /\ k # n
    <3>1. Len(M) = n + (s - 1) /\ n \in Nat /\ s \in Nat /\ n # 0
      BY <1>1, <2>1, <2>7
    <3> HIDE DEF n, s
    <3> QED
      BY <3>1
  <2>9. ASSUME NEW i \in 1..k PROVE M[i] = list[i] /\ list[i].time < first
    <3>1. i \in 1..n /\ i < n /\ i # n /\ i <= n /\ i \in 1..(n + (s - 1))
      <4>1. n \in Nat /\ s \in Nat /\ n # 0 /\ s # 0
        BY <1>1, <2>1
      <4> HIDE DEF n, s
      <4> QED
        BY <4>1
    <3>2. M[i] = list[i]
      BY <2>5, <2>7, <3>1
    <3>3. list[i].time < list[n].time
      BY <2>1, <3>1 DEF Ordered
    <3> QED
      BY <1>2, <3>2, <3>3
  <2>10. ASSUME NEW j \in 1..s
         PROVE  /\ M[k + j].time = shares[j].time
                /\ M[k + j].size = shares[j].size + (IF j = 1 THEN Had(list, k) ELSE 0)
    <3>0. shares[j] \in Item /\ shares[j].size \in Nat
      BY <1>1 DEF Item
    <3>1. CASE j = 1
      <4>1. k + j = n /\ n \in 1..(n + (s - 1)) /\ n <= n
        BY <1>1, <2>1, <3>1
      <4>2. M[k + j] = e
        BY <2>1, <2>5, <2>7, <4>1
      <4>3. Had(list, k) = list[n].size
        BY <2>8 DEF Had
      <4>4. list[n].size \in Nat
        BY <2>2 DEF Item
      <4> QED
        BY <2>3, <3>0, <3>1, <4>2, <4>3, <4>4
    <3>2. CASE j # 1
      <4>1. k + j \in 1..(n + (s - 1)) /\ ~ (k + j <= n) /\ k + j - n = j - 1 /\ j - 1 \in 1..(s - 1)
        BY <1>1, <2>1, <3>2
      <4>2. M[k + j] = tl[j - 1]
        BY <2>7, <4>1
      <4>3. tl[j - 1] = shares[j]
        <5>1. j - 1 + 1 = j
          OBVIOUS
        <5> QED
          BY <2>6, <4>1, <5>1
      <4> QED
        BY <3>0, <3>2, <4>2, <4>3
    <3> QED
      BY <3>1, <3>2
  <2> HIDE DEF k
  <2>11. Joined(M, list, shares, first, k)
    BY <1>2, <2>7, <2>8, <2>9, <2>10 DEF Joined
  <2> QED
    BY <2>8, <2>11 DEF M
<1>3. CASE ~ (list # <<>> /\ list[n].time = first)
  <2>1. M = list \o shares
    BY <1>3 DEF Merge
  <2> HIDE DEF M
  <2>2. /\ M \in Seq(Item) /\ Len(M) = n + s
        /\ \A i \in 1..(n + s) : M[i] = IF i <= n THEN list[i] ELSE shares[i - n]
    BY <2>1, ConcatProperties
  <2>3. ASSUME NEW i \in 1..n PROVE M[i] = list[i] /\ list[i].time < first
    <3>1. i \in 1..(n + s) /\ i <= n /\ n \in 1..n /\ n # 0
      BY <1>1
    <3>2. M[i] = list[i]
      BY <2>2, <3>1
    <3>3. list # <<>>
      BY <3>1, EmptySeq
    <3>4. list[n] \in Item /\ list[i] \in Item
      BY <1>1, <3>1
    <3>5. list[n].time <= first /\ list[n].time # first /\ list[n].time \in Nat /\ list[i].time \in Nat
      BY <1>3, <3>1, <3>3, <3>4 DEF Item
    <3>6. i < n => list[i].time < list[n].time
      BY <3>1 DEF Ordered
    <3>7. CASE i = n
      BY <3>2, <3>5, <3>7
    <3>8. CASE i < n
      BY <3>2, <3>5, <3>6, <3>8
    <3>9. i = n \/ i < n
      <4>1. n \in Nat
        BY <1>1
      <4> HIDE DEF n
      <4> QED
        BY <4>1
    <3> QED
      BY <3>7, <3>8, <3>9
  <2>4. ASSUME NEW j \in 1..s
        PROVE  /\ M[n + j].time = shares[j].time
               /\ M[n + j].size = shares[j].size + (IF j = 1 THEN Had(list, n) ELSE 0)
    <3>0. shares[j] \in Item /\ shares[j].size \in Nat
      BY <1>1 DEF Item
    <3>1. n + j \in 1..(n + s) /\ ~ (n + j <= n) /\ n + j - n = j
      BY <1>1
    <3>2. M[n + j] = shares[j]
      BY <2>2, <3>1
    <3>3. Had(list, n) = 0
      BY DEF Had
    <3> QED
      BY <3>0, <3>2, <3>3
  <2>5. n # n - 1
    <3>1. n \in Nat
      BY <1>1
    <3> HIDE DEF n
    <3> QED
      BY <3>1
  <2>6. Joined(M, list, shares, first, n)
    BY <1>1, <2>2, <2>3, <2>4, <2>5 DEF Joined
  <2> QED
    BY <1>1, <2>6 DEF M
<1> QED
  BY <1>2, <1>3

(***************************************************************************)
(* What the list holds for a second.                                       *)
(***************************************************************************)
Holds(list, sec, v) ==
  /\ \A i \in 1..Len(list) : list[i].time = sec => list[i].size = v
  /\ (\A i \in 1..Len(list) : list[i].time # sec) => v = 0

LEMMA RetainHolds ==
  ASSUME NEW list \in Seq(Item), Ordered(list), NEW now, NEW sec, now - sec <= Window,
         NEW v, Holds(list, sec, v)
  PROVE  Holds(Retain(list, now), sec, v)
<1> DEFINE r == Retain(list, now)
<1>1. Left(r, list, now, Len(list))
  BY RetainLeft
<1> HIDE DEF r
<1>2. ASSUME NEW j \in 1..Len(r), r[j].time = sec PROVE r[j].size = v
  <2>1. PICK i \in 1..Len(list) : r[j] = list[i]
    BY <1>1 DEF Left
  <2> QED
    BY <1>2, <2>1 DEF Holds
<1>3. ASSUME \A j \in 1..Len(r) : r[j].time # sec PROVE v = 0
  <2>1. ASSUME NEW i \in 1..Len(list), list[i].time = sec PROVE FALSE
    <3>1. Kept(list[i], now)
      BY <2>1 DEF Kept
    <3>2. PICK j \in 1..Len(r) : r[j] = list[i]
      BY <1>1, <3>1 DEF Left
    <3> QED
      BY <1>3, <2>1, <3>2
  <2> QED
    BY <2>1 DEF Holds
<1> QED
  BY <1>2, <1>3 DEF Holds, r

LEMMA ItemFields ==
  ASSUME NEW list \in Seq(Item), NEW i \in 1..Len(list)
  PROVE  list[i] \in Item /\ list[i].size \in Nat /\ list[i].time \in Nat
<1>1. list \in [1..Len(list) -> Item]
  BY LenProperties
<1>2. list[i] \in Item
  BY <1>1
<1> QED
  BY <1>2 DEF Item

(* The seconds of a joined list.                                            *)
LEMMA JoinedIndex ==
  ASSUME NEW list \in Seq(Item), NEW shares \in Seq(Item), NEW m, NEW first, NEW k,
         Joined(m, list, shares, first, k), NEW i \in 1..Len(m)
  PROVE  i \in 1..k \/ (i - k \in 1..Len(shares) /\ k + (i - k) = i)
<1>1. Len(m) = k + Len(shares) /\ k \in Nat
  BY DEF Joined
<1>2. Len(shares) \in Nat
  BY LenProperties
<1> QED
  BY <1>1, <1>2

LEMMA JoinedEarlier ==
  ASSUME NEW list \in Seq(Item), NEW shares \in Seq(Item), NEW m, NEW first \in Nat, NEW k,
         Joined(m, list, shares, first, k), NEW i \in 1..Len(list)
  PROVE  (i \in 1..k /\ i \in 1..Len(m)) \/ (i = Len(list) /\ k = Len(list) - 1 /\ list[i].time = first)
<1>1. Len(m) = k + Len(shares) /\ k \in Nat /\ (k = Len(list) \/ k = Len(list) - 1)
      /\ (k = Len(list) - 1 => list[Len(list)].time = first)
  BY DEF Joined
<1>2. Len(shares) \in Nat /\ Len(list) \in Nat
  BY LenProperties
<1> DEFINE n == Len(list)
           s == Len(shares)
           l == Len(m)
<1> HIDE DEF n, s, l
<1>3. (i \in 1..k /\ i \in 1..l) \/ (i = n /\ k = n - 1)
  BY <1>1, <1>2 DEF n, s, l
<1> QED
  BY <1>1, <1>3 DEF n, s, l

LEMMA JoinedHolds ==
  ASSUME NEW a \in Add, a.from <= a.to, NEW list \in Seq(Item), NEW shares, Spread(shares, a),
         NEW m, NEW k, Joined(m, list, shares, SecondOf(a.from), k),
         NEW sec \in Nat, NEW v \in Nat, Holds(list, sec, v)
  PROVE  Holds(m, sec, v + ShareOf(a, sec))
<1> DEFINE f == SecondOf(a.from)
           s == Len(shares)
           n == Len(list)
           x == ShareOf(a, sec)
           l == Len(m)
<1>1. shares \in Seq(Item) /\ s \in Nat /\ n \in Nat /\ k \in Nat /\ l = k + s /\ m \in Seq(Item)
  BY LenProperties DEF Spread, Joined
<1>2. f \in Nat /\ x \in Nat
  <2>1. a.from \in Nat
    BY DEF Add
  <2>2. sec \in Int
    OBVIOUS
  <2> QED
    BY <2>1, <2>2, SecondNatural, ShareNatural
<1>3. ASSUME NEW j \in 1..s
      PROVE  /\ m[k + j].time = f + j - 1 /\ k + j \in 1..l
             /\ m[k + j].size = ShareOf(a, f + j - 1) + (IF j = 1 THEN Had(list, k) ELSE 0)
  <2>1. m[k + j].time = shares[j].time /\ shares[j].time = f + j - 1
    BY DEF Joined, Spread
  <2>2. /\ m[k + j].size = shares[j].size + (IF j = 1 THEN Had(list, k) ELSE 0)
        /\ shares[j].size = ShareOf(a, f + j - 1)
    BY DEF Joined, Spread
  <2>3. k + j \in 1..l
    <3> HIDE DEF l, s
    <3> QED
      BY <1>1
  <2> QED
    BY <2>1, <2>2, <2>3
<1>4. ASSUME NEW i \in 1..k PROVE m[i] = list[i] /\ list[i].time < f /\ i \in 1..n /\ i \in 1..l /\ list[i].time \in Nat /\ list[i].size \in Nat
  <2>0. k = n \/ k = n - 1
    BY DEF Joined
  <2>1. m[i] = list[i] /\ list[i].time < f
    BY DEF Joined
  <2>2. i \in 1..n /\ i \in 1..l
    <3> HIDE DEF n, l, s
    <3> QED
      BY <1>1, <2>0
  <2> QED
    BY <2>1, <2>2, ItemFields
<1>5. ASSUME NEW i \in 1..n PROVE (i \in 1..k /\ i \in 1..l) \/ (i = n /\ k = n - 1 /\ list[i].time = f)
  BY <1>1, <1>2, JoinedEarlier
<1>6. ASSUME NEW i \in 1..l PROVE i \in 1..k \/ (i - k \in 1..s /\ k + (i - k) = i)
  BY <1>1, <1>2, JoinedIndex
<1>7. sec \in f..(f + s - 1) \/ x = 0
  BY DEF Spread
<1>8. /\ \A i \in 1..n : list[i].time = sec => list[i].size = v
      /\ (\A i \in 1..n : list[i].time # sec) => v = 0
  BY DEF Holds
<1>h. Had(list, k) = IF k = n THEN 0 ELSE list[n].size
  BY DEF Had
<1> HIDE DEF f, s, n, l
<1>9. CASE sec < f
  <2>0. sec \notin f..(f + s - 1)
    BY <1>1, <1>2, <1>9
  <2>1. x = 0 /\ v + x = v
    BY <1>7, <2>0
  <2>2. ASSUME NEW i \in 1..l, m[i].time = sec PROVE m[i].size = v
    <3>1. CASE i \in 1..k
      BY <1>4, <1>8, <2>2, <3>1
    <3>2. CASE i - k \in 1..s /\ k + (i - k) = i
      <4>1. m[i].time = f + (i - k) - 1
        BY <1>3, <3>2
      <4>2. f + (i - k) - 1 >= f
        BY <1>1, <1>2, <3>2
      <4> QED
        BY <1>2, <1>9, <2>2, <4>1, <4>2
    <3> QED
      BY <1>6, <3>1, <3>2
  <2>3. ASSUME \A i \in 1..l : m[i].time # sec PROVE v = 0
    <3>1. ASSUME NEW i \in 1..n PROVE list[i].time # sec
      <4>1. CASE i \in 1..k /\ i \in 1..l
        BY <1>4, <2>3, <4>1
      <4>2. CASE list[i].time = f
        BY <1>2, <1>9, <4>2
      <4> QED
        BY <1>5, <4>1, <4>2
    <3> QED
      BY <1>8, <3>1
  <2> HIDE DEF x
  <2> QED
    BY <2>1, <2>2, <2>3 DEF Holds, x, l
<1>10. CASE sec \in f..(f + s - 1)
  <2> DEFINE j == sec - f + 1
  <2>1. j \in 1..s /\ f + j - 1 = sec
    BY <1>1, <1>2, <1>10
  <2> HIDE DEF j
  <2>2. /\ m[k + j].time = sec /\ k + j \in 1..l
        /\ m[k + j].size = x + (IF j = 1 THEN Had(list, k) ELSE 0)
    BY <1>3, <2>1
  <2>3. v = IF j = 1 THEN Had(list, k) ELSE 0
    <3>1. CASE j = 1 /\ k = n - 1
      <4>1. sec = f
        BY <1>2, <2>1, <3>1
      <4>2. k # n /\ n \in 1..n
        BY <1>1, <3>1
      <4>3. list[n].time = f
        BY <3>1 DEF Joined, n, f
      <4> QED
        BY <1>8, <1>h, <3>1, <4>1, <4>2, <4>3
    <3>2. CASE j = 1 /\ k = n
      <4>1. sec = f
        BY <1>2, <2>1, <3>2
      <4>2. ASSUME NEW i \in 1..n PROVE list[i].time # sec
        BY <1>2, <1>4, <3>2, <4>1
      <4> QED
        BY <1>8, <1>h, <3>2, <4>2
    <3>3. CASE j # 1
      <4>1. sec > f
        BY <1>2, <2>1, <3>3
      <4>2. ASSUME NEW i \in 1..n PROVE list[i].time # sec
        <5>1. CASE i \in 1..k
          BY <1>2, <1>4, <4>1, <5>1
        <5>2. CASE list[i].time = f
          BY <1>2, <4>1, <5>2
        <5> QED
          BY <1>5, <5>1, <5>2
      <4> QED
        BY <1>8, <3>3, <4>2
    <3>4. k = n \/ k = n - 1
      BY DEF Joined, n
    <3> QED
      BY <3>1, <3>2, <3>3, <3>4
  <2>4. ASSUME NEW i \in 1..l, m[i].time = sec PROVE m[i].size = v + x
    <3>1. CASE i \in 1..k
      <4>1. m[i].time < f
        BY <1>4, <3>1
      <4> QED
        BY <1>2, <1>10, <2>4, <4>1
    <3>2. CASE i - k \in 1..s /\ k + (i - k) = i
      <4>1. m[i].time = f + (i - k) - 1
        BY <1>3, <3>2
      <4>2. i - k = j
        BY <1>1, <1>2, <2>1, <2>4, <3>2, <4>1
      <4>3. i = k + j
        BY <3>2, <4>2
      <4>4. m[i].size = x + v
        BY <2>2, <2>3, <4>3
      <4> HIDE DEF x
      <4> QED
        BY <1>2, <4>4
    <3> QED
      BY <1>6, <3>1, <3>2
  <2>5. ~ \A i \in 1..l : m[i].time # sec
    BY <2>2
  <2> HIDE DEF x
  <2> QED
    BY <2>4, <2>5 DEF Holds, x, l
<1>11. CASE sec > f + s - 1 /\ sec > f
  <2>0. sec \notin f..(f + s - 1)
    BY <1>1, <1>2, <1>11
  <2>1. x = 0
    BY <1>7, <2>0
  <2>2. ASSUME NEW i \in 1..l PROVE m[i].time # sec
    <3>1. CASE i \in 1..k
      <4>1. m[i].time < f /\ m[i].time \in Nat
        BY <1>4, <3>1
      <4> QED
        BY <1>2, <1>11, <4>1
    <3>2. CASE i - k \in 1..s /\ k + (i - k) = i
      <4>1. m[i].time = f + (i - k) - 1
        BY <1>3, <3>2
      <4>2. f + (i - k) - 1 <= f + s - 1
        BY <1>1, <1>2, <3>2
      <4> QED
        BY <1>1, <1>2, <1>11, <3>2, <4>1, <4>2
    <3> QED
      BY <1>6, <3>1, <3>2
  <2>3. ASSUME NEW i \in 1..n PROVE list[i].time # sec
    <3>1. CASE i \in 1..k
      BY <1>2, <1>4, <1>11, <3>1
    <3>2. CASE list[i].time = f
      BY <1>2, <1>11, <3>2
    <3> QED
      BY <1>5, <3>1, <3>2
  <2>4. v = 0
    BY <1>8, <2>3
  <2>5. v + x = 0
    BY <2>1, <2>4
  <2> HIDE DEF x
  <2> QED
    BY <2>2, <2>5 DEF Holds, x, l
<1>12. s # 0
  BY <1>1, EmptySeq DEF Spread, s
<1> QED
  BY <1>1, <1>2, <1>9, <1>10, <1>11, <1>12

LEMMA JoinedOrdered ==
  ASSUME NEW a \in Add, a.from <= a.to, NEW list \in Seq(Item), Ordered(list),
         NEW shares, Spread(shares, a),
         NEW m, NEW k, Joined(m, list, shares, SecondOf(a.from), k)
  PROVE  /\ Ordered(m)
         /\ \A i \in 1..Len(m) : m[i].time <= SecondOf(a.to)
         /\ \A i \in 1..Len(m) : \/ i \in 1..Len(list) /\ m[i] = list[i]
                                 \/ m[i].time >= SecondOf(a.from)
<1> DEFINE f == SecondOf(a.from)
           t == SecondOf(a.to)
           s == Len(shares)
           n == Len(list)
           l == Len(m)
<1>1. shares \in Seq(Item) /\ s \in Nat /\ n \in Nat /\ k \in Nat /\ l = k + s
  BY LenProperties DEF Spread, Joined
<1>2. f \in Nat /\ t \in Nat /\ f + s - 1 <= t /\ f <= t
  <2>1. a.from \in Nat /\ a.to \in Nat
    BY DEF Add
  <2>2. f \in Nat /\ t \in Nat /\ f <= t
    BY <2>1, SecondNatural, SecondMonotone
  <2>3. f + s - 1 <= t
    BY DEF Spread
  <2> QED
    BY <2>2, <2>3
<1>3. ASSUME NEW i \in 1..l
      PROVE  \/ i \in 1..k /\ i \in 1..n /\ m[i] = list[i] /\ list[i].time < f /\ list[i].time \in Nat
             \/ i - k \in 1..s /\ m[i].time = f + (i - k) - 1
  <2>1. i \in 1..k \/ (i - k \in 1..s /\ k + (i - k) = i)
    BY <1>1, <1>2, JoinedIndex
  <2>2. CASE i \in 1..k
    <3>1. k = n \/ k = n - 1
      BY DEF Joined
    <3>2. i \in 1..n
      <4> HIDE DEF n, l, s
      <4> QED
        BY <1>1, <2>2, <3>1
    <3>3. m[i] = list[i] /\ list[i].time < f
      BY <2>2 DEF Joined
    <3> QED
      BY <2>2, <3>2, <3>3, ItemFields
  <2>3. CASE i - k \in 1..s /\ k + (i - k) = i
    <3> DEFINE j == i - k
    <3>0. j \in 1..s /\ k + j = i
      BY <2>3
    <3> HIDE DEF j
    <3>1. m[k + j].time = shares[j].time /\ shares[j].time = f + j - 1
      BY <3>0 DEF Joined, Spread
    <3> QED
      BY <3>0, <3>1 DEF j
  <2> QED
    BY <2>1, <2>2, <2>3
<1>4. \A i, j \in 1..n : i < j => list[i].time < list[j].time
  BY DEF Ordered
<1> HIDE DEF f, t, s, n, l
<1>5. ASSUME NEW i \in 1..l, NEW j \in 1..l, i < j PROVE m[i].time < m[j].time
  <2>1. CASE i \in 1..k /\ i \in 1..n /\ m[i] = list[i] /\ list[i].time < f /\ list[i].time \in Nat
    <3>1. CASE j \in 1..k /\ j \in 1..n /\ m[j] = list[j]
      BY <1>4, <1>5, <2>1, <3>1
    <3>2. CASE j - k \in 1..s /\ m[j].time = f + (j - k) - 1
      BY <1>1, <1>2, <2>1, <3>2
    <3> QED
      BY <1>3, <3>1, <3>2
  <2>2. CASE i - k \in 1..s /\ m[i].time = f + (i - k) - 1
    <3>1. j \notin 1..k
      BY <1>1, <1>5, <2>2
    <3>2. j - k \in 1..s /\ m[j].time = f + (j - k) - 1
      BY <1>3, <3>1
    <3> QED
      BY <1>1, <1>2, <1>5, <2>2, <3>2
  <2> QED
    BY <1>3, <2>1, <2>2
<1>6. ASSUME NEW i \in 1..l PROVE m[i].time <= t /\ ((i \in 1..n /\ m[i] = list[i]) \/ m[i].time >= f)
  <2>1. CASE i \in 1..k /\ i \in 1..n /\ m[i] = list[i] /\ list[i].time < f /\ list[i].time \in Nat
    BY <1>2, <2>1
  <2>2. CASE i - k \in 1..s /\ m[i].time = f + (i - k) - 1
    <3> DEFINE j == i - k
    <3>1. j \in 1..s /\ m[i].time = f + j - 1
      BY <2>2
    <3> HIDE DEF j
    <3>2. f + j - 1 <= t /\ f + j - 1 >= f
      BY <1>1, <1>2, <3>1
    <3> QED
      BY <3>1, <3>2
  <2> QED
    BY <1>3, <2>1, <2>2
<1> QED
  BY <1>5, <1>6 DEF Ordered, f, t, n, l

(* One add_data, as far as the list goes.                                   *)
LEMMA Added ==
  ASSUME NEW a \in Add, a.from <= a.to, NEW list \in Seq(Item), Ordered(list),
         \A i \in 1..Len(list) : list[i].time <= SecondOf(a.from),
         NEW m, m = Merge(Retain(list, SecondOf(a.to)), Shares(a.size, a.from, a.to))
  PROVE  /\ m \in Seq(Item) /\ Ordered(m)
         /\ \A i \in 1..Len(m) : m[i].time <= SecondOf(a.to)
         /\ \A i \in 1..Len(m) : \/ m[i].time >= SecondOf(a.to) - Window
                                 \/ m[i].time >= SecondOf(a.from)
         /\ \A sec \in Nat, v \in Nat :
              SecondOf(a.to) - Window <= sec /\ Holds(list, sec, v)
                => Holds(m, sec, v + ShareOf(a, sec))
<1> DEFINE f == SecondOf(a.from)
           t == SecondOf(a.to)
           r == Retain(list, t)
           sh == Shares(a.size, a.from, a.to)
<1>1. Left(r, list, t, Len(list))
  BY RetainLeft
<1>2. Spread(sh, a)
  BY SharesSpread
<1>3. a.from \in Nat /\ a.to \in Nat /\ f \in Nat /\ t \in Nat
  BY SecondNatural DEF Add
<1> HIDE DEF r, sh
<1>4. r \in Seq(Item) /\ Ordered(r)
  BY <1>1 DEF Left
<1>5. \A i \in 1..Len(r) : r[i].time <= f
  BY <1>1 DEF Left
<1>6. sh \in Seq(Item) /\ sh # <<>> /\ sh[1].time = f
  <2>1. sh \in Seq(Item) /\ sh # <<>> /\ Len(sh) \in Nat
    BY <1>2, LenProperties DEF Spread
  <2>2. 1 \in 1..Len(sh)
    BY <2>1, EmptySeq
  <2>3. sh[1].time = f + 1 - 1
    BY <1>2, <2>2 DEF Spread
  <2> HIDE DEF f
  <2> QED
    BY <1>3, <2>1, <2>3
<1>7. m = Merge(r, sh)
  BY DEF r, sh
<1>8. PICK k \in Nat : Joined(m, r, sh, f, k)
  <2> HIDE DEF f
  <2>1. \E k \in Nat : Joined(Merge(r, sh), r, sh, f, k)
    BY <1>3, <1>4, <1>5, <1>6, MergeJoined
  <2> QED
    BY <1>7, <2>1
<1>9. m \in Seq(Item)
  BY <1>8 DEF Joined
<1>10. /\ Ordered(m)
       /\ \A i \in 1..Len(m) : m[i].time <= t
       /\ \A i \in 1..Len(m) : (i \in 1..Len(r) /\ m[i] = r[i]) \/ m[i].time >= f
  BY <1>2, <1>4, <1>8, JoinedOrdered
<1>11. ASSUME NEW i \in 1..Len(m), i \in 1..Len(r), m[i] = r[i] PROVE m[i].time >= t - Window
  <2>1. PICK j \in 1..Len(list) : r[i] = list[j] /\ Kept(list[j], t)
    BY <1>1, <1>11 DEF Left
  <2>2. list[j].time \in Nat
    BY ItemFields
  <2>3. t - list[j].time <= Window /\ Window \in Nat
    BY <2>1, SpeedStatAssumption DEF Kept
  <2> HIDE DEF t
  <2> QED
    BY <1>3, <1>11, <2>1, <2>2, <2>3
<1>12. ASSUME NEW sec \in Nat, NEW v \in Nat, t - Window <= sec, Holds(list, sec, v)
       PROVE  Holds(m, sec, v + ShareOf(a, sec))
  <2>1. t - sec <= Window
    <3> HIDE DEF t
    <3> QED
      BY <1>3, <1>12, SpeedStatAssumption
  <2>2. Holds(r, sec, v)
    BY <1>12, <2>1, RetainHolds DEF r
  <2> QED
    BY <1>2, <1>4, <1>8, <2>2, JoinedHolds
<1> QED
  BY <1>9, <1>10, <1>11, <1>12

(***************************************************************************)
(* What was added to each second.                                          *)
(***************************************************************************)
Past(list) == list \in Seq(Add) /\ \A i \in 1..Len(list) : list[i].from <= list[i].to

Expected(list, sec) == Total([i \in 1..Len(list) |-> ShareOf(list[i], sec)], 1..Len(list))

LEMMA PastFields ==
  ASSUME NEW list, Past(list), NEW i \in 1..Len(list)
  PROVE  /\ list[i] \in Add /\ list[i].from <= list[i].to
         /\ list[i].size \in Nat /\ list[i].from \in Nat /\ list[i].to \in Nat
<1>1. list \in [1..Len(list) -> Add]
  BY LenProperties DEF Past
<1>2. list[i] \in Add
  BY <1>1
<1> QED
  BY <1>2 DEF Past, Add

LEMMA IndicesFinite == ASSUME NEW n \in Nat PROVE IsFiniteSet(1..n)
BY FS_Interval

LEMMA TotalNatural ==
  ASSUME NEW S, IsFiniteSet(S), NEW f, \A x \in S : f[x] \in Nat
  PROVE  Total(f, S) \in Nat
<1> DEFINE z == [x \in S |-> 0]
<1>1. \A x \in S : z[x] = 0 /\ z[x] \in Int /\ f[x] \in Int /\ z[x] <= f[x]
  OBVIOUS
<1> HIDE DEF z
<1>2. Total(f, S) \in Int
  BY <1>1, TotalTyped
<1>3. Total(z, S) = 0
  BY <1>1, TotalZero
<1>4. Total(z, S) <= Total(f, S)
  BY <1>1, TotalMonotone
<1> QED
  BY <1>2, <1>3, <1>4

LEMMA ExpectedNatural ==
  ASSUME NEW list, Past(list), NEW sec \in Int
  PROVE  Expected(list, sec) \in Nat
<1> DEFINE h == [i \in 1..Len(list) |-> ShareOf(list[i], sec)]
<1>1. IsFiniteSet(1..Len(list))
  BY LenProperties, IndicesFinite DEF Past
<1>2. \A i \in 1..Len(list) : h[i] \in Nat
  BY PastFields, ShareNatural
<1> HIDE DEF h
<1>3. Total(h, 1..Len(list)) \in Nat
  BY <1>1, <1>2, TotalNatural
<1> QED
  BY <1>3 DEF Expected, h

LEMMA ExpectedAppend ==
  ASSUME NEW list, Past(list), NEW a \in Add, a.from <= a.to, NEW sec \in Int
  PROVE  /\ Past(Append(list, a))
         /\ Expected(Append(list, a), sec) = Expected(list, sec) + ShareOf(a, sec)
<1> DEFINE n == Len(list)
           b == Append(list, a)
           h == [i \in 1..n |-> ShareOf(list[i], sec)]
           g == [i \in 1..(n + 1) |-> ShareOf(b[i], sec)]
<1>1. /\ n \in Nat /\ b \in Seq(Add) /\ Len(b) = n + 1 /\ b[n + 1] = a
      /\ \A i \in 1..n : b[i] = list[i]
  BY LenProperties, AppendProperties DEF Past
<1> HIDE DEF b
<1>2. Past(b)
  <2>1. ASSUME NEW i \in 1..(n + 1) PROVE b[i].from <= b[i].to
    <3>1. i \in 1..n \/ i = n + 1
      BY <1>1
    <3> QED
      BY <1>1, <3>1 DEF Past
  <2> QED
    BY <1>1, <2>1 DEF Past
<1>3. IsFiniteSet(1..(n + 1)) /\ IsFiniteSet(1..n) /\ (1..(n + 1)) \ {n + 1} = 1..n /\ n + 1 \in 1..(n + 1)
  <2>1. n + 1 \in Nat
    BY <1>1
  <2>2. IsFiniteSet(1..(n + 1)) /\ IsFiniteSet(1..n)
    BY <1>1, <2>1, IndicesFinite
  <2> HIDE DEF n
  <2> QED
    BY <1>1, <2>2
<1>4. \A i \in 1..(n + 1) : ShareOf(b[i], sec) \in Nat
  BY <1>1, <1>2, PastFields, ShareNatural
<1>5. /\ \A i \in 1..(n + 1) : g[i] \in Int
      /\ g[n + 1] = ShareOf(a, sec)
      /\ \A i \in 1..n : g[i] = h[i] /\ g[i] \in Int
  <2>1. \A i \in 1..n : i \in 1..(n + 1)
    BY <1>1
  <2> QED
    BY <1>1, <1>3, <1>4, <2>1
<1>6. Expected(b, sec) = Total(g, 1..(n + 1)) /\ Expected(list, sec) = Total(h, 1..n)
  BY <1>1 DEF Expected
<1> HIDE DEF g, h, n
<1>7. Total(g, 1..(n + 1)) = g[n + 1] + Total(g, (1..(n + 1)) \ {n + 1})
  BY <1>3, <1>5, TotalExtract
<1>8. Total(g, 1..n) = Total(h, 1..n)
  BY <1>3, <1>5, TotalSame
<1>9. Total(g, 1..n) \in Int /\ ShareOf(a, sec) \in Nat
  BY <1>3, <1>5, TotalTyped, ShareNatural
<1>10. Expected(b, sec) = ShareOf(a, sec) + Expected(list, sec)
  BY <1>3, <1>5, <1>6, <1>7, <1>8
<1>11. Expected(list, sec) \in Int
  BY <1>6, <1>8, <1>9
<1>12. Expected(b, sec) = Expected(list, sec) + ShareOf(a, sec)
  BY <1>9, <1>10, <1>11
<1> QED
  BY <1>2, <1>12 DEF b

(***************************************************************************)
(* The statistics' invariant: the list holds, for every second that may    *)
(* still count, exactly what all amounts have added to it.                 *)
(***************************************************************************)
Ledger ==
  /\ lastTime \in 0..MaxTime /\ clock \in {BeforeEpoch} \cup 0..MaxTime
  /\ items \in Seq(Item) /\ Ordered(items)
  /\ \A i \in 1..Len(items) : items[i].time <= SecondOf(lastTime)
  /\ Past(adds) /\ \A i \in 1..Len(adds) : adds[i].to <= lastTime
  /\ NoLeak
  /\ \A sec \in Nat : SecondOf(lastTime) - Window <= sec
                        => Holds(items, sec, Expected(adds, sec))

listVars == <<lastTime, items, adds>>

LEMMA LedgerInit == Init => Ledger
<1> SUFFICES ASSUME Init PROVE Ledger
  OBVIOUS
<1>1. /\ items = <<>> /\ adds = <<>> /\ clock \in 0..MaxTime /\ lastTime = clock
  BY DEF Init, StatInit
<1>2. items \in Seq(Item) /\ adds \in Seq(Add) /\ Len(items) = 0 /\ Len(adds) = 0 /\ 1..0 = {}
  BY <1>1, EmptySeq
<1>3. Ordered(items) /\ Past(adds)
  BY <1>2 DEF Ordered, Past
<1>4. NoLeak
  BY <1>2 DEF NoLeak
<1>5. ASSUME NEW sec \in Nat PROVE Holds(items, sec, Expected(adds, sec))
  <2>1. Expected(adds, sec) = 0
    BY <1>2, TotalEmpty DEF Expected
  <2> QED
    BY <1>2, <2>1 DEF Holds
<1> QED
  BY <1>1, <1>2, <1>3, <1>4, <1>5 DEF Ledger

LEMMA LedgerKept ==
  ASSUME Ledger, UNCHANGED listVars, clock' \in {BeforeEpoch} \cup 0..MaxTime
  PROVE  Ledger'
<1>1. lastTime' = lastTime /\ items' = items /\ adds' = adds
  BY DEF listVars
<1> QED
  BY <1>1 DEF Ledger, NoLeak

LEMMA LedgerAdd ==
  ASSUME Ledger, NEW size \in Nat, AddData(size)
  PROVE  Ledger'
<1> DEFINE now == Larger(clock, lastTime)
           a == [size |-> size, from |-> lastTime, to |-> now]
<1>1. /\ clock # BeforeEpoch /\ clock' = clock /\ lastTime' = now
      /\ items' = Merge(Retain(items, SecondOf(now)), Shares(size, lastTime, now))
      /\ adds' = Append(adds, a)
  BY DEF AddData
<1>2. /\ lastTime \in Nat /\ lastTime <= MaxTime /\ MaxTime \in Nat
      /\ clock \in Nat /\ clock <= MaxTime
  BY <1>1, SpeedStatAssumption DEF Ledger
<1>3. now \in Nat /\ lastTime <= now /\ now <= MaxTime /\ lastTime' \in 0..MaxTime
  BY <1>1, <1>2 DEF Larger
<1> HIDE DEF now
<1>4. a \in Add /\ a.from = lastTime /\ a.to = now /\ a.size = size /\ a.from <= a.to
  BY <1>2, <1>3 DEF Add
<1> HIDE DEF a
<1>5. /\ items \in Seq(Item) /\ Ordered(items) /\ Past(adds)
      /\ \A i \in 1..Len(items) : items[i].time <= SecondOf(a.from)
  BY <1>4 DEF Ledger
<1>6. items' = Merge(Retain(items, SecondOf(a.to)), Shares(a.size, a.from, a.to))
  BY <1>1, <1>4
<1>7. /\ items' \in Seq(Item) /\ Ordered(items')
      /\ \A i \in 1..Len(items') : items'[i].time <= SecondOf(a.to)
      /\ \A i \in 1..Len(items') : \/ items'[i].time >= SecondOf(a.to) - Window
                                   \/ items'[i].time >= SecondOf(a.from)
      /\ \A sec \in Nat, v \in Nat :
           SecondOf(a.to) - Window <= sec /\ Holds(items, sec, v)
             => Holds(items', sec, v + ShareOf(a, sec))
  BY <1>4, <1>5, <1>6, Added
<1>8. Past(adds') /\ \A sec \in Nat : Expected(adds', sec) = Expected(adds, sec) + ShareOf(a, sec)
  BY <1>1, <1>4, <1>5, ExpectedAppend
<1>9. Len(adds') = Len(adds) + 1 /\ adds'[Len(adds) + 1] = a
      /\ Len(adds) \in Nat /\ \A i \in 1..Len(adds) : adds'[i] = adds[i]
  BY <1>1, <1>4, <1>5, AppendProperties, LenProperties DEF Past
<1>10. ASSUME NEW i \in 1..Len(adds') PROVE adds'[i].to <= lastTime'
  <2>1. CASE i = Len(adds) + 1
    BY <1>1, <1>3, <1>4, <1>9, <2>1
  <2>2. CASE i # Len(adds) + 1
    <3>1. i \in 1..Len(adds)
      BY <1>9, <2>2
    <3>2. adds[i].to <= lastTime /\ adds[i].to \in Nat
      BY <1>5, <3>1, PastFields DEF Ledger
    <3> QED
      BY <1>1, <1>2, <1>3, <1>9, <3>1, <3>2
  <2> QED
    BY <2>1, <2>2
<1>11. NoLeak'
  <2>1. adds'[Len(adds')].from = a.from /\ lastTime' = a.to
    BY <1>1, <1>4, <1>9
  <2> QED
    BY <1>7, <2>1 DEF NoLeak
<1>12. ASSUME NEW sec \in Nat, SecondOf(lastTime') - Window <= sec
       PROVE  Holds(items', sec, Expected(adds', sec))
  <2>1. SecondOf(a.from) <= SecondOf(a.to) /\ SecondOf(a.from) \in Nat /\ SecondOf(a.to) \in Nat
    BY <1>2, <1>3, <1>4, SecondMonotone, SecondNatural
  <2>2. SecondOf(a.to) - Window <= sec
    BY <1>1, <1>4, <1>12
  <2>3. SecondOf(a.from) - Window <= sec
    BY <2>1, <2>2, SpeedStatAssumption
  <2>4. Holds(items, sec, Expected(adds, sec))
    BY <1>4, <2>3 DEF Ledger
  <2>5. Expected(adds, sec) \in Nat
    BY <1>5, ExpectedNatural
  <2> QED
    BY <1>7, <1>8, <2>2, <2>4, <2>5
<1>13. \A i \in 1..Len(items') : items'[i].time <= SecondOf(lastTime')
  BY <1>1, <1>4, <1>7
<1>14. clock' \in {BeforeEpoch} \cup 0..MaxTime
  BY <1>1 DEF Ledger
<1> QED
  BY <1>3, <1>7, <1>8, <1>10, <1>11, <1>12, <1>13, <1>14 DEF Ledger

LEMMA LedgerNext == ASSUME Tally, Ledger, [Next]_vars PROVE Ledger'
<1>0. clock \in {BeforeEpoch} \cup 0..MaxTime
  BY DEF Ledger
<1>1. CASE Others
  <2>1. UNCHANGED listVars
    BY <1>1 DEF Others, GetSpeedPanics, SetClock, listVars
  <2>2. clock' \in {BeforeEpoch} \cup 0..MaxTime
    BY <1>0, <1>1 DEF Others, GetSpeedPanics, SetClock
  <2> QED
    BY <2>1, <2>2, LedgerKept
<1>2. ASSUME NEW s \in Streams, StreamStep(s) PROVE Ledger'
  <2>1. CASE Count(s)
    <3>1. moving \in [Streams -> Nat]
      BY Amounts DEF Tally
    <3>2. moving[s] \in Nat /\ AddData(moving[s])
      BY <2>1, <3>1 DEF Count
    <3> QED
      BY <3>2, LedgerAdd
  <2>2. CASE ~ Count(s)
    <3>1. UNCHANGED listVars /\ clock' = clock
      BY <1>2, <2>2 DEF StreamStep, Poll, Inner, NotReady, CountPanics, AddDataPanics, statVars, listVars
    <3> QED
      BY <1>0, <3>1, LedgerKept
  <2> QED
    BY <2>1, <2>2
<1>3. CASE UNCHANGED vars
  BY <1>0, <1>3, LedgerKept DEF vars, statVars, listVars
<1> QED
  BY <1>1, <1>2, <1>3 DEF Next

(* The invariant the other theorems follow from.  Tally: the counts of poll
   and caller balance, and the Mutex is poisoned or sum_size agrees.  Ledger:
   data_items is in order, and for every second that may still be counted it
   has what add_data spread over it, no less and no more.                   *)
THEOREM StatInvariance == Spec => [](Tally /\ Ledger)
<1>1. Tally /\ Ledger /\ [Next]_vars => (Tally /\ Ledger)'
  BY TallyNext, LedgerNext
<1>2. Init => Tally /\ Ledger
  BY TallyInit, LedgerInit
<1> QED
  BY <1>1, <1>2, PTL DEF Spec

LEMMA StatTyped == Tally /\ Ledger => TypeOK
<1> SUFFICES ASSUME Tally, Ledger PROVE TypeOK
  OBVIOUS
<1>1. sumSize \in Nat /\ poisoned \in BOOLEAN
  BY DEF Tally
<1>2. lastTime \in 0..MaxTime /\ clock \in {BeforeEpoch} \cup 0..MaxTime
  BY DEF Ledger
<1>3. ASSUME NEW i \in 1..Len(items)
      PROVE  /\ items[i].size \in Nat /\ items[i].time \in 0..SecondOf(lastTime)
             /\ i > 1 => items[i - 1].time < items[i].time
  <2>1. items[i].size \in Nat /\ items[i].time \in Nat /\ Len(items) \in Nat
    BY ItemFields, LenProperties DEF Ledger
  <2>2. items[i].time <= SecondOf(lastTime)
    BY DEF Ledger
  <2>3. SecondOf(lastTime) \in Nat
    BY <1>2, SecondNatural
  <2>4. items[i].time \in 0..SecondOf(lastTime)
    BY <2>1, <2>2, <2>3
  <2>5. ASSUME i > 1 PROVE items[i - 1].time < items[i].time
    <3>1. i - 1 \in 1..Len(items) /\ i - 1 < i
      BY <2>1, <2>5
    <3> QED
      BY <3>1 DEF Ledger, Ordered
  <2> QED
    BY <2>1, <2>4, <2>5
<1>4. StatTypeOK
  BY <1>1, <1>2, <1>3 DEF StatTypeOK
<1>5. ASSUME NEW s \in Streams PROVE told[s] \in 0..moved[s]
  <2>1. moving \in [Streams -> Nat]
    BY Amounts DEF Tally
  <2>2. told[s] + moving[s] <= moved[s] /\ told[s] \in Nat /\ moved[s] \in Nat /\ moving[s] \in Nat
    BY <2>1 DEF Tally
  <2> QED
    BY <2>2
<1> QED
  BY <1>4, <1>5 DEF TypeOK, Tally

(* SpeedState's fields keep their types, and data_items its order: one item
   for each second, none later than last_time.                              *)
THEOREM StatTypes == Spec => []TypeOK
BY StatInvariance, StatTyped, PTL

(* data_items does not grow with the life of the stream: clear_invalid_item
   drops what has left the window before new items are pushed.              *)
THEOREM ListBounded == Spec => []NoLeak
<1>1. Ledger => NoLeak
  BY DEF Ledger
<1> QED
  BY <1>1, StatInvariance, PTL

(***************************************************************************)
(* More about sums.                                                        *)
(***************************************************************************)
LEMMA TotalUnion ==
  ASSUME NEW S, IsFiniteSet(S), NEW f, \A x \in S : f[x] \in Int, NEW P \in SUBSET S
  PROVE  Total(f, S) = Total(f, P) + Total(f, S \ P)
<1> DEFINE T == {t \in SUBSET S : Total(f, t) # Total(f, t \cap P) + Total(f, t \ P)}
<1>0. T \subseteq SUBSET S
  OBVIOUS
<1>1. ASSUME T # {} PROVE FALSE
  <2> HIDE DEF T
  <2>1. PICK t \in T : \A u \in T : u \subseteq t => u = t
    BY <1>0, <1>1, SmallestPart
  <2> USE DEF T
  <2>2. CASE t = {}
    <3>1. t \cap P = {} /\ t \ P = {}
      BY <2>2
    <3>2. Total(f, {}) = 0
      BY TotalEmpty
    <3> QED
      BY <2>2, <3>1, <3>2
  <2>3. CASE t # {}
    <3> PICK x \in t : TRUE
      BY <2>3
    <3> DEFINE u == t \ {x}
               a == Total(f, t \cap P)
               b == Total(f, t \ P)
               c == Total(f, u)
    <3>1. u \subseteq t /\ u # t /\ u \in SUBSET S /\ x \in S
      OBVIOUS
    <3>2. c = Total(f, u \cap P) + Total(f, u \ P)
      BY <2>1, <3>1
    <3>3. /\ IsFiniteSet(t) /\ IsFiniteSet(u) /\ IsFiniteSet(t \cap P) /\ IsFiniteSet(t \ P)
          /\ IsFiniteSet(u \cap P) /\ IsFiniteSet(u \ P)
      <4>1. \A v \in SUBSET S : IsFiniteSet(v)
        BY FS_Subset
      <4> QED
        BY <3>1, <4>1
    <3>4. \A v \in SUBSET S : \A y \in v : f[y] \in Int
      OBVIOUS
    <3>5. Total(f, t) = f[x] + c
      BY <3>1, <3>3, <3>4, TotalExtract
    <3>6. f[x] \in Int /\ Total(f, u \cap P) \in Int /\ Total(f, u \ P) \in Int
      BY <3>1, <3>3, <3>4, TotalTyped
    <3>7. CASE x \in P
      <4>1. (t \cap P) \ {x} = u \cap P /\ t \ P = u \ P /\ x \in t \cap P
        BY <3>7
      <4>2. a = f[x] + Total(f, (t \cap P) \ {x})
        BY <3>3, <3>4, <4>1, TotalExtract
      <4>3. a = f[x] + Total(f, u \cap P) /\ b = Total(f, u \ P)
        BY <4>1, <4>2
      <4> HIDE DEF a, b, c, u, T
      <4>4. Total(f, t) = a + b
        BY <3>2, <3>5, <3>6, <4>3
      <4> QED
        BY <4>4 DEF a, b, T
    <3>8. CASE x \notin P
      <4>1. (t \ P) \ {x} = u \ P /\ t \cap P = u \cap P /\ x \in t \ P
        BY <3>8
      <4>2. b = f[x] + Total(f, (t \ P) \ {x})
        BY <3>3, <3>4, <4>1, TotalExtract
      <4>3. b = f[x] + Total(f, u \ P) /\ a = Total(f, u \cap P)
        BY <4>1, <4>2
      <4> HIDE DEF a, b, c, u, T
      <4>4. Total(f, t) = a + b
        BY <3>2, <3>5, <3>6, <4>3
      <4> QED
        BY <4>4 DEF a, b, T
    <3> QED
      BY <3>7, <3>8
  <2> QED
    BY <2>2, <2>3
<1>2. S \in SUBSET S /\ S \cap P = P
  OBVIOUS
<1> QED
  BY <1>1, <1>2

(* A sum over more of what is not negative, or is zero, is more, or the same. *)
LEMMA TotalPart ==
  ASSUME NEW S, IsFiniteSet(S), NEW f, \A x \in S : f[x] \in Nat, NEW P \in SUBSET S
  PROVE  /\ Total(f, P) <= Total(f, S)
         /\ (\A x \in S \ P : f[x] = 0) => Total(f, P) = Total(f, S)
<1>0. \A v \in SUBSET S : IsFiniteSet(v) /\ \A x \in v : f[x] \in Nat
  BY FS_Subset
<1> DEFINE Q == S \ P
<1>1. IsFiniteSet(P) /\ IsFiniteSet(Q) /\ Q \in SUBSET S
  BY <1>0
<1>2. Total(f, S) = Total(f, P) + Total(f, Q)
  <2>1. \A x \in S : f[x] \in Int
    OBVIOUS
  <2> QED
    BY <2>1, TotalUnion
<1>3. Total(f, P) \in Nat /\ Total(f, Q) \in Nat
  BY <1>0, <1>1, TotalNatural
<1>4. ASSUME \A x \in S \ P : f[x] = 0 PROVE Total(f, Q) = 0
  BY <1>1, <1>4, TotalZero
<1> HIDE DEF Q
<1>5. Total(f, P) <= Total(f, S)
  BY <1>2, <1>3
<1>6. ASSUME \A x \in S \ P : f[x] = 0 PROVE Total(f, P) = Total(f, S)
  <2>1. Total(f, Q) = 0
    BY <1>4, <1>6
  <2> QED
    BY <1>2, <1>3, <2>1
<1> QED
  BY <1>5, <1>6

LEMMA TotalTerm ==
  ASSUME NEW S, IsFiniteSet(S), NEW f, \A x \in S : f[x] \in Nat, Total(f, S) = 0, NEW x \in S
  PROVE  f[x] = 0
<1> DEFINE R == S \ {x}
<1>1. IsFiniteSet(R)
  BY FS_Subset
<1>2. \A y \in R : f[y] \in Nat
  OBVIOUS
<1>3. \A y \in S : f[y] \in Int
  OBVIOUS
<1>4. Total(f, S) = f[x] + Total(f, R)
  BY <1>3, TotalExtract
<1> HIDE DEF R
<1>5. Total(f, R) \in Nat
  BY <1>1, <1>2, TotalNatural
<1>6. f[x] \in Nat
  OBVIOUS
<1> QED
  BY <1>4, <1>5, <1>6

(* Renaming what is summed over.                                            *)
LEMMA TotalImage ==
  ASSUME NEW S, IsFiniteSet(S), NEW p, NEW f, NEW h,
         \A x \in S : h[x] \in Int /\ h[x] = f[p[x]],
         \A x, y \in S : p[x] = p[y] => x = y
  PROVE  /\ IsFiniteSet({p[x] : x \in S})
         /\ Total(h, S) = Total(f, {p[x] : x \in S})
<1> DEFINE I(t) == {p[x] : x \in t}
           T == {t \in SUBSET S : ~ (IsFiniteSet(I(t)) /\ Total(h, t) = Total(f, I(t)))}
<1>0. T \subseteq SUBSET S
  OBVIOUS
<1>1. ASSUME T # {} PROVE FALSE
  <2> HIDE DEF T
  <2>1. PICK t \in T : \A u \in T : u \subseteq t => u = t
    BY <1>0, <1>1, SmallestPart
  <2> USE DEF T
  <2>2. CASE t = {}
    <3>1. I(t) = {}
      BY <2>2
    <3>2. Total(h, {}) = 0 /\ Total(f, {}) = 0 /\ IsFiniteSet({})
      BY TotalEmpty, FS_EmptySet
    <3> HIDE DEF I
    <3> QED
      BY <2>2, <3>1, <3>2
  <2>3. CASE t # {}
    <3> PICK x \in t : TRUE
      BY <2>3
    <3> DEFINE u == t \ {x}
    <3>1. u \subseteq t /\ u # t /\ u \in SUBSET S /\ x \in S /\ t \in SUBSET S
      OBVIOUS
    <3>2. IsFiniteSet(I(u)) /\ Total(h, u) = Total(f, I(u))
      BY <2>1, <3>1
    <3>3. I(t) = I(u) \cup {p[x]} /\ I(t) \ {p[x]} = I(u) /\ p[x] \in I(t)
      BY <3>1
    <3>4. IsFiniteSet(I(u) \cup {p[x]})
      <4> HIDE DEF I
      <4> QED
        BY <3>2, FS_AddElement
    <3>5. \A y \in I(t) : f[y] \in Int
      BY <3>1
    <3>6. IsFiniteSet(t) /\ \A y \in t : h[y] \in Int
      BY <3>1, FS_Subset
    <3>7. Total(h, t) = h[x] + Total(h, u)
      BY <3>6, TotalExtract
    <3>8. Total(f, I(t)) = f[p[x]] + Total(f, I(t) \ {p[x]})
      <4> HIDE DEF I
      <4> QED
        BY <3>3, <3>4, <3>5, TotalExtract
    <3>9. h[x] = f[p[x]]
      BY <3>1
    <3>10. IsFiniteSet(I(t)) /\ Total(h, t) = Total(f, I(t))
      <4> HIDE DEF I, u
      <4> QED
        BY <3>2, <3>3, <3>4, <3>7, <3>8, <3>9
    <3> QED
      BY <3>10
  <2> QED
    BY <2>2, <2>3
<1>2. S \in SUBSET S
  OBVIOUS
<1> QED
  BY <1>1, <1>2

(* Rows and columns.                                                        *)
LEMMA TotalSwap ==
  ASSUME NEW A, IsFiniteSet(A), NEW B, IsFiniteSet(B), NEW F,
         \A x \in A, y \in B : F[x][y] \in Int,
         NEW G, \A x \in A, y \in B : G[y][x] = F[x][y],
         NEW r, \A x \in A : r[x] = Total(F[x], B),
         NEW c, \A y \in B : c[y] = Total(G[y], A)
  PROVE  Total(r, A) = Total(c, B)
<1> DEFINE C(t) == [y \in B |-> Total(G[y], t)]
           T == {t \in SUBSET A : Total(r, t) # Total(C(t), B)}
<1>0. T \subseteq SUBSET A
  OBVIOUS
<1>a. \A x \in A : r[x] \in Int
  BY TotalTyped
<1>b. \A t \in SUBSET A : IsFiniteSet(t)
  BY FS_Subset
<1>c. \A t \in SUBSET A : \A y \in B : \A x \in t : G[y][x] \in Int
  OBVIOUS
<1>d. \A t \in SUBSET A : \A y \in B : Total(G[y], t) \in Int
  BY <1>b, <1>c, TotalTyped
<1>1. ASSUME T # {} PROVE FALSE
  <2> HIDE DEF T
  <2>1. PICK t \in T : \A u \in T : u \subseteq t => u = t
    BY <1>0, <1>1, SmallestPart
  <2>t. t \in SUBSET A
    BY <1>0
  <2>2. CASE t = {}
    <3>1. \A y \in B : C(t)[y] = 0
      BY <2>2, TotalEmpty
    <3>2. Total(r, t) = 0
      BY <2>2, TotalEmpty
    <3> HIDE DEF C
    <3>3. Total(C(t), B) = 0
      BY <3>1, TotalZero
    <3> QED
      BY <3>2, <3>3 DEF T
  <2>3. CASE t # {}
    <3> PICK x \in t : TRUE
      BY <2>3
    <3> DEFINE u == t \ {x}
    <3>1. u \subseteq t /\ u # t /\ u \in SUBSET A /\ x \in A
      BY <2>t
    <3>2. Total(r, u) = Total(C(u), B)
      BY <2>1, <3>1 DEF T
    <3>3. Total(r, t) = r[x] + Total(r, u)
      <4>1. IsFiniteSet(t) /\ \A y \in t : r[y] \in Int
        BY <1>a, <1>b, <2>t
      <4> QED
        BY <4>1, TotalExtract
    <3>4. ASSUME NEW y \in B
          PROVE  F[x][y] \in Int /\ C(u)[y] \in Int /\ C(t)[y] = F[x][y] + C(u)[y]
      <4>1. IsFiniteSet(t) /\ \A z \in t : G[y][z] \in Int
        BY <1>b, <1>c, <2>t
      <4>2. Total(G[y], t) = G[y][x] + Total(G[y], u)
        BY <4>1, TotalExtract
      <4>3. C(t)[y] = Total(G[y], t) /\ C(u)[y] = Total(G[y], u)
        OBVIOUS
      <4>4. G[y][x] = F[x][y] /\ F[x][y] \in Int
        BY <3>1
      <4>5. Total(G[y], u) \in Int
        BY <1>d, <3>1
      <4> HIDE DEF C, u
      <4> QED
        BY <4>2, <4>3, <4>4, <4>5
    <3> HIDE DEF C, u
    <3>5. Total(C(t), B) = Total(F[x], B) + Total(C(u), B)
      BY <3>4, TotalSum
    <3>6. r[x] = Total(F[x], B)
      BY <3>1
    <3>7. Total(r, t) = Total(C(t), B)
      BY <3>2, <3>3, <3>5, <3>6
    <3> QED
      BY <3>7 DEF T
  <2> QED
    BY <2>2, <2>3
<1>2. A \in SUBSET A
  OBVIOUS
<1>3. Total(r, A) = Total(C(A), B)
  BY <1>1, <1>2
<1>4. \A y \in B : C(A)[y] \in Int /\ C(A)[y] = c[y]
  BY <1>d, <1>2
<1> HIDE DEF C
<1>5. Total(C(A), B) = Total(c, B)
  BY <1>4, TotalSame
<1> QED
  BY <1>3, <1>5

(***************************************************************************)
(* The shares of an amount: they add up to it, less the bytes lost by      *)
(* rounding.                                                               *)
(***************************************************************************)
ShareFn(a) == [sec \in Int |-> ShareOf(a, sec)]

LEMMA Scaled ==
  ASSUME NEW d \in Nat \ {0}, NEW size \in Nat, NEW w \in Nat
  PROVE  LET q == (size * w) \div d
         IN  q \in Nat /\ d * q <= size * w /\ size * w <= d * q + (d - 1)
<1> DEFINE x == size * w
           q == x \div d
<1>1. x \in Nat
  OBVIOUS
<1> HIDE DEF x
<1>2. q \in Nat /\ d * q <= x /\ x < d * q + d
  BY <1>1, DivNatural, DivBounds
<1> HIDE DEF q
<1>3. d * q \in Int
  BY <1>2
<1>4. x <= d * q + (d - 1)
  BY <1>1, <1>2, <1>3
<1> QED
  BY <1>2, <1>4 DEF x, q

(* What holds of the shares up to a second, added up, when the next comes.  *)
LEMMA ScaledSum ==
  ASSUME NEW d \in Nat \ {0}, NEW size \in Nat, NEW F \in Int, NEW W \in Int, NEW n \in Nat,
         NEW q \in Nat, NEW w \in Nat,
         d * F <= size * W, size * W <= d * F + n * (d - 1),
         d * q <= size * w, size * w <= d * q + (d - 1)
  PROVE  /\ d * (F + q) <= size * (W + w)
         /\ size * (W + w) <= d * (F + q) + (n + 1) * (d - 1)
<1>1. /\ d * (F + q) = d * F + d * q /\ size * (W + w) = size * W + size * w
      /\ (n + 1) * (d - 1) = n * (d - 1) + (d - 1)
  OBVIOUS
<1>2. /\ d * F \in Int /\ d * q \in Int /\ size * W \in Int /\ size * w \in Int
      /\ n * (d - 1) \in Int /\ d - 1 \in Int
  OBVIOUS
<1> DEFINE x1 == d * F
           x2 == d * q
           x3 == size * W
           x4 == size * w
           x5 == n * (d - 1)
           x6 == d - 1
<1> HIDE DEF x1, x2, x3, x4, x5, x6
<1>3. x1 + x2 <= x3 + x4 /\ x3 + x4 <= (x1 + x2) + (x5 + x6)
  BY <1>2 DEF x1, x2, x3, x4, x5, x6
<1> QED
  BY <1>1, <1>3 DEF x1, x2, x3, x4, x5, x6

LEMMA ScaledEnd ==
  ASSUME NEW d \in Nat \ {0}, NEW size \in Nat, NEW F \in Int, NEW n \in Nat \ {0},
         d * F <= size * d, size * d <= d * F + n * (d - 1)
  PROVE  F <= size /\ size - (n - 1) <= F
<1>1. ASSUME size < F PROVE FALSE
  <2>1. d * size + d <= d * F
    BY <1>1, NextMultiple
  <2>2. d * size = size * d /\ d * size \in Int /\ d * F \in Int
    OBVIOUS
  <2> QED
    BY <2>1, <2>2
<1>2. ASSUME F < size - (n - 1) PROVE FALSE
  <2>1. F <= size - n
    BY <1>2
  <2>2. d * F <= d * (size - n)
    <3>1. CASE F = size - n
      BY <3>1
    <3>2. CASE F < size - n
      <4>1. d * F + d <= d * (size - n)
        BY <3>2, NextMultiple
      <4>2. d * F \in Int /\ d * (size - n) \in Int
        OBVIOUS
      <4> QED
        BY <4>1, <4>2
    <3> QED
      BY <2>1, <3>1, <3>2
  <2>3. d * (size - n) = size * d - n * d /\ n * (d - 1) = n * d - n
    OBVIOUS
  <2>4. d * F \in Int /\ size * d \in Int /\ n * d \in Int
    OBVIOUS
  <2> DEFINE x == d * F
             y == size * d
             z == n * d
  <2> HIDE DEF x, y, z
  <2>5. x <= y - z /\ y <= x + (z - n) /\ x \in Int /\ y \in Int /\ z \in Int
    BY <2>2, <2>3, <2>4 DEF x, y, z
  <2> QED
    BY <2>5
<1> QED
  BY <1>1, <1>2

(* The part of [from, to) up to the end of a second.                        *)
LEMMA WeightStep ==
  ASSUME NEW from \in Nat, NEW to \in Nat, from < to, NEW sec \in Int,
         SecondOf(from) < sec, sec <= SecondOf(to - 1)
  PROVE  Smaller(to, (sec + 1) * Second) - from
           = (Smaller(to, sec * Second) - from) + Weight(from, to, sec)
<1> DEFINE f == SecondOf(from)
           l == SecondOf(to - 1)
           x == sec * Second
           y == (sec + 1) * Second
<1>1. /\ f \in Int /\ l \in Int /\ Second \in Nat \ {0}
      /\ from < Second * f + Second /\ Second * l <= to - 1
  BY SecondBounds, SpeedStatAssumption
<1>2. Second * f + Second <= Second * sec
  BY <1>1, NextMultiple
<1>3. Second * sec <= Second * l
  <2>1. CASE sec = l
    <3>1. Second * l \in Int
      BY <1>1
    <3> HIDE DEF l
    <3> QED
      BY <2>1, <3>1
  <2>2. CASE sec < l
    <3>1. Second * sec + Second <= Second * l
      BY <1>1, <2>2, NextMultiple
    <3>2. Second * sec \in Int /\ Second * l \in Int
      BY <1>1
    <3> QED
      BY <1>1, <3>1, <3>2
  <2> QED
    BY <1>1, <2>1, <2>2
<1>4. x = Second * sec /\ x \in Int /\ y \in Int /\ Second * f \in Int /\ Second * l \in Int
  BY <1>1
<1> HIDE DEF f, l, x, y
<1>5. from < x /\ x <= to - 1
  <2> DEFINE u == Second * f
             v == Second * l
             s == Second * sec
  <2> HIDE DEF u, v, s
  <2>1. /\ from < u + Second /\ v <= to - 1 /\ u + Second <= s /\ s <= v /\ x = s
        /\ u \in Int /\ v \in Int /\ x \in Int /\ Second \in Int
    BY <1>1, <1>2, <1>3, <1>4 DEF u, v, s
  <2> QED
    BY <2>1
<1>6. Larger(from, x) = x /\ Smaller(to, x) = x
  BY <1>4, <1>5 DEF Larger, Smaller
<1>7. Smaller(to, y) \in Int
  BY <1>4 DEF Smaller
<1>8. Weight(from, to, sec) = Smaller(to, y) - x
  BY <1>6 DEF Weight, x, y
<1>9. Smaller(to, y) - from = (x - from) + (Smaller(to, y) - x)
  BY <1>4, <1>7
<1> QED
  BY <1>6, <1>8, <1>9 DEF x, y

LEMMA IntervalStep ==
  ASSUME NEW f \in Int, NEW l \in Int, f < l, NEW h, \A sec \in Int : h[sec] \in Nat
  PROVE  Total(h, f..l) = Total(h, f..(l - 1)) + h[l]
<1>1. IsFiniteSet(f..l) /\ IsFiniteSet(f..(l - 1))
  BY FS_Interval
<1>2. (f..l) \ {l} = f..(l - 1) /\ l \in f..l
  OBVIOUS
<1>3. \A sec \in f..l : h[sec] \in Int
  OBVIOUS
<1>4. \A sec \in f..(l - 1) : h[sec] \in Int
  OBVIOUS
<1>5. Total(h, f..l) = h[l] + Total(h, (f..l) \ {l})
  BY <1>1, <1>2, <1>3, TotalExtract
<1>6. Total(h, f..(l - 1)) \in Int
  BY <1>1, <1>4, TotalTyped
<1>7. h[l] \in Nat
  OBVIOUS
<1>8. Total(h, f..l) = h[l] + Total(h, f..(l - 1))
  BY <1>2, <1>5
<1> DEFINE x == Total(h, f..(l - 1))
           y == h[l]
<1>9. x \in Int /\ y \in Int /\ Total(h, f..l) = y + x
  BY <1>6, <1>7, <1>8
<1> HIDE DEF x, y
<1>10. Total(h, f..l) = x + y
  BY <1>9
<1> QED
  BY <1>10 DEF x, y

LEMMA TotalOne ==
  ASSUME NEW x, NEW h, h[x] \in Int
  PROVE  Total(h, {x}) = h[x]
<1>1. IsFiniteSet({x}) /\ {x} \ {x} = {}
  BY FS_Singleton
<1>2. Total(h, {x}) = h[x] + Total(h, {x} \ {x})
  BY <1>1, TotalExtract
<1>3. Total(h, {}) = 0
  BY TotalEmpty
<1> QED
  BY <1>1, <1>2, <1>3

(* The seconds an amount is spread over.                                    *)
SecondsOf(a) ==
  IF SecondOf(a.from) = SecondOf(a.to) THEN {SecondOf(a.to)}
  ELSE SecondOf(a.from)..SecondOf(a.to - 1)

LEMMA ShareFnTyped ==
  ASSUME NEW a \in Add, a.from <= a.to
  PROVE  \A sec \in Int : ShareFn(a)[sec] = ShareOf(a, sec) /\ ShareFn(a)[sec] \in Nat
BY ShareNatural DEF ShareFn

LEMMA SharesUpTo ==
  ASSUME NEW a \in Add, a.from < a.to, SecondOf(a.from) # SecondOf(a.to),
         NEW n \in Nat, SecondOf(a.from) + n <= SecondOf(a.to - 1)
  PROVE  LET f == SecondOf(a.from)
             d == a.to - a.from
             F == Total(ShareFn(a), f..(f + n))
             W == Smaller(a.to, (f + n + 1) * Second) - a.from
         IN  d * F <= a.size * W /\ a.size * W <= d * F + (n + 1) * (d - 1)
<1> DEFINE f == SecondOf(a.from)
           l == SecondOf(a.to - 1)
           d == a.to - a.from
           F(m) == Total(ShareFn(a), f..(f + m))
           W(m) == Smaller(a.to, (f + m + 1) * Second) - a.from
           OK(m) == d * F(m) <= a.size * W(m) /\ a.size * W(m) <= d * F(m) + (m + 1) * (d - 1)
           T == {m \in Nat : f + m <= l /\ ~ OK(m)}
<1>1. /\ a.from \in Nat /\ a.to \in Nat /\ a.size \in Nat /\ d \in Nat \ {0}
      /\ f \in Nat /\ l \in Int /\ Second \in Nat \ {0}
  BY SecondNatural, SecondBounds, SpeedStatAssumption DEF Add
<1>2. ASSUME NEW m \in Nat, f + m <= l
      PROVE  /\ Weight(a.from, a.to, f + m) \in Nat
             /\ ShareFn(a)[f + m] = (a.size * Weight(a.from, a.to, f + m)) \div d
             /\ ShareFn(a)[f + m] \in Nat
  <2>1. f + m \in f..l /\ f + m \in Int
    BY <1>1, <1>2
  <2>2. Weight(a.from, a.to, f + m) \in Nat
    BY <1>1, <2>1, WeightPositive
  <2>3. ShareOf(a, f + m) = (a.size * Weight(a.from, a.to, f + m)) \div d
    BY <2>1 DEF ShareOf
  <2>4. ShareFn(a)[f + m] = ShareOf(a, f + m) /\ ShareFn(a)[f + m] \in Nat
    BY <1>1, <2>1, ShareFnTyped
  <2> QED
    BY <2>2, <2>3, <2>4
<1>3. T \subseteq Nat
  OBVIOUS
<1>4. ASSUME T # {} PROVE FALSE
  <2> HIDE DEF T
  <2>1. PICK m \in T : \A k \in T : m <= k
    BY <1>3, <1>4, LeastNatural
  <2>2. m \in Nat /\ f + m <= l /\ ~ OK(m)
    BY DEF T
  <2> DEFINE w == Weight(a.from, a.to, f + m)
             q == ShareFn(a)[f + m]
  <2>3. w \in Nat /\ q \in Nat /\ q = (a.size * w) \div d
    BY <1>2, <2>2
  <2> HIDE DEF w, q, d, OK
  <2>4. d * q <= a.size * w /\ a.size * w <= d * q + (d - 1)
    BY <1>1, <2>3, Scaled
  <2>5. CASE m = 0
    <3>1. f + m = f /\ f..(f + m) = {f}
      BY <1>1, <2>5
    <3>2. F(m) = q
      <4>1. ShareFn(a)[f] \in Int
        BY <2>3, <3>1 DEF q
      <4> HIDE DEF f
      <4> QED
        BY <3>1, <4>1, TotalOne DEF q
    <3>3. W(m) = w
      <4>1. Second * f <= a.from /\ f * Second = Second * f /\ f * Second \in Int
        BY <1>1, SecondBounds
      <4>2. Larger(a.from, f * Second) = a.from
        BY <1>1, <4>1 DEF Larger
      <4> QED
        BY <3>1, <4>2 DEF Weight, w
    <3>4. (m + 1) * (d - 1) = d - 1
      BY <1>1, <2>5
    <3>5. OK(m)
      BY <2>4, <3>2, <3>3, <3>4 DEF OK
    <3> QED
      BY <2>2, <3>5
  <2>6. CASE m # 0
    <3> DEFINE k == m - 1
    <3>1. k \in Nat /\ f + k <= l /\ k + 1 = m /\ f + k + 1 = f + m /\ f + m - 1 = f + k /\ f < f + m
      BY <1>1, <2>2, <2>6
    <3>2. OK(k)
      <4>1. k \notin T
        BY <2>1, <2>2, <3>1
      <4> QED
        BY <3>1, <4>1 DEF T
    <3> HIDE DEF k
    <3>3. F(m) = F(k) + q
      <4>1. \A sec \in Int : ShareFn(a)[sec] \in Nat
        BY <1>1, ShareFnTyped
      <4>2. Total(ShareFn(a), f..(f + m)) = Total(ShareFn(a), f..(f + m - 1)) + ShareFn(a)[f + m]
        <5> DEFINE e == f + m
                   h == ShareFn(a)
        <5>1. e \in Int /\ f < e /\ \A sec \in Int : h[sec] \in Nat
          BY <1>1, <3>1, <4>1, <2>2
        <5> HIDE DEF e, h, f
        <5>2. Total(h, f..e) = Total(h, f..(e - 1)) + h[e]
          BY <1>1, <5>1, IntervalStep
        <5>3. e = f + m
          BY DEF e
        <5>4. h = ShareFn(a)
          BY DEF h
        <5>5. Total(h, f..(f + m)) = Total(h, f..(f + m - 1)) + h[f + m]
          <6>1. f \in Int /\ m \in Int /\ e \in Int
            BY <1>1, <2>2, <5>1 DEF f
          <6> QED
            BY <5>2, <5>3, <6>1
        <5> QED
          BY <5>4, <5>5
      <4> QED
        BY <3>1, <4>2 DEF q
    <3>4. W(m) = W(k) + w
      <4>1. f + m \in Int /\ f < f + m /\ f + m <= l
        BY <1>1, <2>2, <3>1
      <4>2. Smaller(a.to, (f + m + 1) * Second) - a.from
              = (Smaller(a.to, (f + m) * Second) - a.from) + Weight(a.from, a.to, f + m)
        BY <1>1, <4>1, WeightStep
      <4> QED
        BY <3>1, <4>2 DEF w
    <3>5. F(k) \in Int /\ W(k) \in Int
      <4>1. IsFiniteSet(f..(f + k))
        BY <1>1, <3>1, FS_Interval
      <4>2. \A sec \in f..(f + k) : ShareFn(a)[sec] \in Int
        BY <1>1, ShareFnTyped
      <4>3. F(k) \in Int
        BY <4>1, <4>2, TotalTyped
      <4>4. W(k) \in Int
        <5>1. (f + k + 1) * Second \in Int
          BY <1>1, <3>1
        <5> QED
          BY <1>1, <5>1 DEF Smaller
      <4> QED
        BY <4>3, <4>4
    <3> DEFINE Fk == F(k)
               Wk == W(k)
    <3>6. d * Fk <= a.size * Wk /\ a.size * Wk <= d * Fk + m * (d - 1)
      BY <3>1, <3>2 DEF OK
    <3>7. Fk \in Int /\ Wk \in Int
      BY <3>5
    <3> HIDE DEF Fk, Wk
    <3>8. /\ d * (Fk + q) <= a.size * (Wk + w)
          /\ a.size * (Wk + w) <= d * (Fk + q) + (m + 1) * (d - 1)
      BY <1>1, <2>2, <2>3, <2>4, <3>6, <3>7, ScaledSum
    <3>9. OK(m)
      BY <3>3, <3>4, <3>8 DEF OK, Fk, Wk
    <3> QED
      BY <2>2, <3>9
  <2> QED
    BY <2>5, <2>6
<1>5. OK(n)
  BY <1>4
<1> QED
  BY <1>5

LEMMA SharesTotal ==
  ASSUME NEW a \in Add, a.from <= a.to
  PROVE  /\ IsFiniteSet(SecondsOf(a)) /\ SecondsOf(a) \subseteq Nat
         /\ Total(ShareFn(a), SecondsOf(a)) <= a.size
         /\ a.size - (SecondOf(a.to) - SecondOf(a.from)) <= Total(ShareFn(a), SecondsOf(a))
<1> DEFINE f == SecondOf(a.from)
           t == SecondOf(a.to)
           l == SecondOf(a.to - 1)
           d == a.to - a.from
<1>1. /\ a.from \in Nat /\ a.to \in Nat /\ a.size \in Nat
      /\ f \in Nat /\ t \in Nat /\ l \in Int /\ f <= t /\ Second \in Nat \ {0}
  BY SecondNatural, SecondMonotone, SecondBounds, SpeedStatAssumption DEF Add
<1>2. CASE f = t
  <2>1. SecondsOf(a) = {t}
    BY <1>2 DEF SecondsOf
  <2>2. ShareFn(a)[t] = a.size
    BY <1>1, <1>2 DEF ShareFn, ShareOf
  <2>3. Total(ShareFn(a), {t}) = a.size
    <3> DEFINE h == ShareFn(a)
    <3>1. h[t] = a.size /\ h[t] \in Int
      BY <1>1, <2>2
    <3> HIDE DEF t, h
    <3>2. Total(h, {t}) = h[t]
      BY <3>1, TotalOne
    <3> QED
      BY <3>1, <3>2 DEF h
  <2>4. IsFiniteSet({t})
    BY FS_Singleton
  <2> HIDE DEF f, t
  <2>5. a.size <= a.size /\ a.size - (t - f) <= a.size
    BY <1>1, <1>2
  <2> QED
    BY <1>1, <2>1, <2>3, <2>4, <2>5 DEF f, t
<1>3. CASE f # t
  <2>1. a.from < a.to /\ d \in Nat \ {0}
    BY <1>1, <1>3
  <2>2. f <= l /\ l <= t
    BY <1>1, <2>1, SecondMonotone
  <2>3. SecondsOf(a) = f..l
    BY <1>3 DEF SecondsOf
  <2> DEFINE n == l - f
             F == Total(ShareFn(a), f..l)
  <2>4. n \in Nat /\ f + n = l /\ f + n + 1 = l + 1
    BY <1>1, <2>2
  <2>5. Smaller(a.to, (l + 1) * Second) - a.from = d
    <3>1. a.to - 1 < Second * l + Second
      BY <1>1, SecondBounds
    <3>2. (l + 1) * Second = Second * l + Second /\ (l + 1) * Second \in Int
      BY <1>1
    <3>3. a.to <= (l + 1) * Second
      <4> HIDE DEF l
      <4> QED
        BY <1>1, <3>1, <3>2
    <3>4. Smaller(a.to, (l + 1) * Second) = a.to
      BY <1>1, <3>2, <3>3 DEF Smaller
    <3> QED
      BY <3>4
  <2>6. /\ d * Total(ShareFn(a), f..(f + n)) <= a.size * (Smaller(a.to, (f + n + 1) * Second) - a.from)
        /\ a.size * (Smaller(a.to, (f + n + 1) * Second) - a.from)
             <= d * Total(ShareFn(a), f..(f + n)) + (n + 1) * (d - 1)
    <3>1. f + n <= l
      BY <1>1, <2>4
    <3> HIDE DEF n
    <3> QED
      BY <1>3, <2>1, <2>4, <3>1, SharesUpTo
  <2>7. d * F <= a.size * d /\ a.size * d <= d * F + (n + 1) * (d - 1)
    BY <2>4, <2>5, <2>6
  <2>8. IsFiniteSet(f..l) /\ f..l \subseteq Nat
    BY <1>1, FS_Interval
  <2>9. F \in Int
    <3>1. \A sec \in f..l : ShareFn(a)[sec] \in Int
      BY <2>8, ShareFnTyped
    <3> QED
      BY <2>8, <3>1, TotalTyped
  <2>10. n + 1 \in Nat \ {0} /\ n + 1 - 1 = l - f
    BY <1>1, <2>4
  <2>11. F <= a.size /\ a.size - (n + 1 - 1) <= F
    <3> DEFINE N == n + 1
    <3>1. N \in Nat \ {0} /\ a.size * d <= d * F + N * (d - 1) /\ d * F <= a.size * d
      BY <2>7, <2>10
    <3> HIDE DEF F, N, d
    <3>2. F <= a.size /\ a.size - (N - 1) <= F
      BY <1>1, <2>1, <2>9, <3>1, ScaledEnd
    <3>3. N = n + 1
      BY DEF N
    <3>4. a.size - (n + 1 - 1) <= F
      BY <1>1, <2>4, <2>9, <3>2, <3>3
    <3> QED
      BY <3>2, <3>4
  <2> HIDE DEF F, n, d
  <2> HIDE DEF f, l, t
  <2>12. a.size - (t - f) <= F
    BY <1>1, <2>2, <2>9, <2>10, <2>11
  <2> QED
    BY <2>3, <2>8, <2>11, <2>12 DEF F, f, t
<1> QED
  BY <1>2, <1>3

(***************************************************************************)
(* The speed.                                                              *)
(***************************************************************************)
LEMMA SharesOutside ==
  ASSUME NEW a \in Add, a.from <= a.to, NEW sec \in Int, sec \notin SecondsOf(a)
  PROVE  ShareOf(a, sec) = 0
BY DEF SecondsOf, ShareOf

LEMMA SecondsBounded ==
  ASSUME NEW a \in Add, a.from <= a.to, NEW sec \in SecondsOf(a)
  PROVE  sec \in Nat /\ SecondOf(a.from) <= sec /\ sec <= SecondOf(a.to)
<1>1. a.from \in Nat /\ a.to \in Nat /\ a.to - 1 \in Int
  BY DEF Add
<1>2. /\ SecondOf(a.from) \in Nat /\ SecondOf(a.to) \in Nat /\ SecondOf(a.to - 1) \in Int
      /\ SecondOf(a.to - 1) <= SecondOf(a.to) /\ SecondOf(a.from) <= SecondOf(a.to)
  BY <1>1, SecondNatural, SecondMonotone, SecondBounds
<1>3. CASE SecondOf(a.from) = SecondOf(a.to)
  BY <1>2, <1>3 DEF SecondsOf
<1>4. CASE SecondOf(a.from) # SecondOf(a.to)
  BY <1>2, <1>4 DEF SecondsOf
<1> QED
  BY <1>3, <1>4

(* What an amount adds to any seconds.                                      *)
LEMMA SharesAmong ==
  ASSUME NEW a \in Add, a.from <= a.to, NEW Q, IsFiniteSet(Q), Q \subseteq Int
  PROVE  /\ Total(ShareFn(a), Q) <= a.size
         /\ (\A sec \in SecondsOf(a) \ Q : ShareOf(a, sec) = 0)
              => a.size - (SecondOf(a.to) - SecondOf(a.from)) <= Total(ShareFn(a), Q)
<1> DEFINE h == ShareFn(a)
           I == SecondsOf(a)
           P == Q \cap I
           r == SecondOf(a.to) - SecondOf(a.from)
<1>1. \A sec \in Int : h[sec] = ShareOf(a, sec) /\ h[sec] \in Nat
  BY ShareFnTyped
<1>2. IsFiniteSet(I) /\ I \subseteq Nat /\ Total(h, I) <= a.size /\ a.size - r <= Total(h, I)
  BY SharesTotal
<1>3. \A sec \in Q \ P : h[sec] = 0
  <2>1. \A sec \in Q \ P : sec \in Int /\ sec \notin I
    OBVIOUS
  <2> HIDE DEF h, I
  <2>2. \A sec \in Int : sec \notin I => ShareOf(a, sec) = 0
    BY SharesOutside DEF I
  <2> QED
    BY <1>1, <2>1, <2>2
<1>4. (\A sec \in I \ Q : ShareOf(a, sec) = 0) => \A sec \in I \ P : h[sec] = 0
  BY <1>1, <1>2
<1>5. P \in SUBSET Q /\ P \in SUBSET I
  OBVIOUS
<1>6. (\A sec \in Q : h[sec] \in Nat) /\ (\A sec \in I : h[sec] \in Nat)
  BY <1>1, <1>2
<1>7. Total(h, P) \in Nat /\ Total(h, I) \in Nat
  <2>1. IsFiniteSet(P) /\ \A sec \in P : h[sec] \in Nat
    BY <1>2, <1>5, <1>6, FS_Subset
  <2> HIDE DEF h, I, P
  <2> QED
    BY <1>2, <1>6, <2>1, TotalNatural
<1>8. a.size \in Nat /\ r \in Int
  <2>1. a.size \in Nat /\ a.from \in Nat /\ a.to \in Nat
    BY DEF Add
  <2> QED
    BY <2>1, SecondNatural
<1> HIDE DEF h, I, P, r
<1>9. Total(h, P) = Total(h, Q)
  BY <1>3, <1>5, <1>6, TotalPart
<1>10. Total(h, P) <= Total(h, I)
  BY <1>2, <1>5, <1>6, TotalPart
<1>11. (\A sec \in I \ Q : ShareOf(a, sec) = 0) => Total(h, P) = Total(h, I)
  BY <1>2, <1>4, <1>5, <1>6, TotalPart
<1>12. Total(h, Q) <= a.size
  BY <1>2, <1>7, <1>8, <1>9, <1>10
<1>13. (\A sec \in I \ Q : ShareOf(a, sec) = 0) => a.size - r <= Total(h, Q)
  BY <1>2, <1>9, <1>11
<1> QED
  BY <1>12, <1>13 DEF h, I, r

(* The sums the properties speak of.                                        *)
LEMMA SumIsTotal ==
  ASSUME NEW S, IsFiniteSet(S), NEW seq
  PROVE  Sum(S, seq) = Total([i \in S |-> seq[i].size], S)
<1> DEFINE f == [i \in S |-> seq[i].size]
           it == CHOOSE h : h = [t \in SUBSET S |->
                   IF t = {} THEN 0 ELSE seq[Pick(t)].size + h[t \ {Pick(t)}]]
<1>1. PICK g : Sums(g, f, S)
  BY SumsExist
<1>2. ASSUME NEW h
      PROVE  Sums(h, f, S) <=> h = [t \in SUBSET S |->
               IF t = {} THEN 0 ELSE seq[Pick(t)].size + h[t \ {Pick(t)}]]
  <2> DEFINE X(t) == IF t = {} THEN 0 ELSE f[Pick(t)] + h[t \ {Pick(t)}]
             Y(t) == IF t = {} THEN 0 ELSE seq[Pick(t)].size + h[t \ {Pick(t)}]
  <2>1. ASSUME NEW t \in SUBSET S PROVE X(t) = Y(t)
    <3>1. t # {} => Pick(t) \in S
      BY Picked
    <3>2. t # {} => f[Pick(t)] = seq[Pick(t)].size
      BY <3>1
    <3> HIDE DEF f
    <3> QED
      BY <3>2
  <2> HIDE DEF X, Y
  <2>2. [t \in SUBSET S |-> X(t)] = [t \in SUBSET S |-> Y(t)]
    BY <2>1
  <2> QED
    BY <2>2 DEF Sums, X, Y
<1>3. Sums(it, f, S)
  <2>1. \E h : h = [t \in SUBSET S |->
                   IF t = {} THEN 0 ELSE seq[Pick(t)].size + h[t \ {Pick(t)}]]
    BY <1>1, <1>2
  <2>2. it = [t \in SUBSET S |->
                   IF t = {} THEN 0 ELSE seq[Pick(t)].size + it[t \ {Pick(t)}]]
    BY <2>1
  <2> HIDE DEF it, f
  <2> QED
    BY <1>2, <2>2
<1>4. Sum(S, seq) = it[S]
  BY DEF Sum, MapThenSumSet, MapThenFoldSet, Pick
<1> HIDE DEF it, f
<1>5. Total(f, S) = it[S]
  BY <1>3, TotalIsSums
<1> QED
  BY <1>4, <1>5 DEF f

LEMMA RoundedIsTotal ==
  ASSUME NEW S, IsFiniteSet(S)
  PROVE  MapThenSumSet(Rounded, S) = Total([i \in S |-> Rounded(i)], S)
<1> DEFINE f == [i \in S |-> Rounded(i)]
           it == CHOOSE h : h = [t \in SUBSET S |->
                   IF t = {} THEN 0 ELSE Rounded(Pick(t)) + h[t \ {Pick(t)}]]
<1>1. PICK g : Sums(g, f, S)
  BY SumsExist
<1>2. ASSUME NEW h
      PROVE  Sums(h, f, S) <=> h = [t \in SUBSET S |->
               IF t = {} THEN 0 ELSE Rounded(Pick(t)) + h[t \ {Pick(t)}]]
  <2> DEFINE X(t) == IF t = {} THEN 0 ELSE f[Pick(t)] + h[t \ {Pick(t)}]
             Y(t) == IF t = {} THEN 0 ELSE Rounded(Pick(t)) + h[t \ {Pick(t)}]
  <2>1. ASSUME NEW t \in SUBSET S PROVE X(t) = Y(t)
    <3>1. t # {} => Pick(t) \in S
      BY Picked
    <3>2. t # {} => f[Pick(t)] = Rounded(Pick(t))
      BY <3>1
    <3> HIDE DEF f
    <3> QED
      BY <3>2
  <2> HIDE DEF X, Y
  <2>2. [t \in SUBSET S |-> X(t)] = [t \in SUBSET S |-> Y(t)]
    BY <2>1
  <2> QED
    BY <2>2 DEF Sums, X, Y
<1>3. Sums(it, f, S)
  <2>1. \E h : h = [t \in SUBSET S |->
                   IF t = {} THEN 0 ELSE Rounded(Pick(t)) + h[t \ {Pick(t)}]]
    BY <1>1, <1>2
  <2>2. it = [t \in SUBSET S |->
                   IF t = {} THEN 0 ELSE Rounded(Pick(t)) + it[t \ {Pick(t)}]]
    BY <2>1
  <2> HIDE DEF it, f
  <2> QED
    BY <1>2, <2>2
<1>4. MapThenSumSet(Rounded, S) = it[S]
  BY DEF MapThenSumSet, MapThenFoldSet, Pick
<1> HIDE DEF it, f
<1>5. Total(f, S) = it[S]
  BY <1>3, TotalIsSums
<1> QED
  BY <1>4, <1>5 DEF f

Seen == {i \in 1..Len(items) : InWindow(items[i])}

Seconds == {items[i].time : i \in Seen}

(* What each amount contributes to the speed.                               *)
Parts == [k \in 1..Len(adds) |-> Total(ShareFn(adds[k]), Seconds)]

LEMMA NowBounds ==
  ASSUME Ledger
  PROVE  Now \in Nat /\ SecondOf(lastTime) <= Now /\ SecondOf(lastTime) \in Nat
<1>1. lastTime \in Nat /\ clock \in Int
  BY DEF Ledger, BeforeEpoch
<1> DEFINE n == Larger(clock, lastTime)
<1>2. n \in Nat /\ lastTime <= n
  BY <1>1 DEF Larger
<1> HIDE DEF n
<1>3. SecondOf(lastTime) <= SecondOf(n) /\ SecondOf(lastTime) \in Nat /\ SecondOf(n) \in Nat
  BY <1>1, <1>2, SecondMonotone, SecondNatural
<1> QED
  BY <1>3 DEF Now, n

LEMMA SeenItems ==
  ASSUME Ledger, NEW i \in Seen
  PROVE  /\ i \in 1..Len(items) /\ items[i].time \in Nat /\ items[i].size \in Nat
         /\ Now - Window <= items[i].time /\ items[i].time < Now
         /\ items[i].size = Expected(adds, items[i].time)
<1>1. i \in 1..Len(items) /\ items[i].time < Now /\ Now - items[i].time <= Window
  BY DEF Seen, InWindow
<1>2. items[i].time \in Nat /\ items[i].size \in Nat
  BY <1>1, ItemFields DEF Ledger
<1>3. Now \in Nat /\ SecondOf(lastTime) <= Now /\ SecondOf(lastTime) \in Nat /\ Window \in Nat
  BY NowBounds, SpeedStatAssumption
<1> DEFINE sec == items[i].time
<1>4. Now - Window <= sec /\ SecondOf(lastTime) - Window <= sec
  <2> HIDE DEF sec
  <2>1. sec \in Nat /\ Now - sec <= Window
    BY <1>1, <1>2 DEF sec
  <2> QED
    BY <1>3, <2>1
<1>5. Holds(items, sec, Expected(adds, sec))
  BY <1>2, <1>4 DEF Ledger
<1>6. items[i].size = Expected(adds, sec)
  BY <1>1, <1>5 DEF Holds
<1> QED
  BY <1>1, <1>2, <1>4, <1>6

LEMMA SecondsFinite ==
  ASSUME Ledger
  PROVE  /\ IsFiniteSet(Seen) /\ IsFiniteSet(Seconds) /\ Seconds \subseteq Nat
         /\ \A sec \in Seconds : Now - Window <= sec /\ sec < Now
<1>1. IsFiniteSet(1..Len(items))
  BY LenProperties, IndicesFinite DEF Ledger
<1>2. Seen \in SUBSET (1..Len(items))
  BY DEF Seen
<1>3. IsFiniteSet(Seen)
  BY <1>1, <1>2, FS_Subset
<1>4. \A i \in Seen : items[i].time \in Nat /\ Now - Window <= items[i].time /\ items[i].time < Now
  BY SeenItems
<1>5. IsFiniteSet(Seconds)
  <2> DEFINE p == [i \in Seen |-> items[i].time]
  <2>1. p \in Surjection(Seen, Seconds)
    BY DEF Seconds, Surjection
  <2> HIDE DEF p
  <2> QED
    BY <1>3, <2>1, FS_Surjection
<1> QED
  BY <1>3, <1>4, <1>5 DEF Seconds

LEMMA CountedInParts ==
  ASSUME Ledger
  PROVE  Counted = Total(Parts, 1..Len(adds))
<1> DEFINE A == Seen
           B == 1..Len(adds)
           F == [i \in A |-> [k \in B |-> ShareOf(adds[k], items[i].time)]]
           G == [k \in B |-> [i \in A |-> ShareOf(adds[k], items[i].time)]]
           r == [i \in A |-> items[i].size]
           p == [i \in A |-> items[i].time]
<1>1. IsFiniteSet(A) /\ IsFiniteSet(B)
  BY SecondsFinite, LenProperties, IndicesFinite DEF Ledger, Past
<1>2. \A i \in A : items[i].time \in Nat /\ items[i].time \in Int
  BY SeenItems
<1>3. \A k \in B : adds[k] \in Add /\ adds[k].from <= adds[k].to
  BY PastFields DEF Ledger
<1>4. \A i \in A, k \in B : ShareOf(adds[k], items[i].time) \in Nat
  BY <1>2, <1>3, ShareNatural
<1>5. \A i \in A, k \in B : F[i][k] \in Int /\ G[k][i] = F[i][k]
  BY <1>4
<1>6. \A i \in A : r[i] = Total(F[i], B)
  <2>1. ASSUME NEW i \in A PROVE r[i] = Total(F[i], B)
    <3>1. items[i].size = Expected(adds, items[i].time)
      BY SeenItems
    <3> QED
      BY <3>1 DEF Expected
  <2> QED
    BY <2>1
<1>7. ASSUME NEW k \in B PROVE Parts[k] = Total(G[k], A)
  <2> DEFINE h == ShareFn(adds[k])
             g == G[k]
  <2>1. \A i \in A : g[i] \in Int /\ g[i] = h[p[i]]
    <3>1. \A sec \in Int : h[sec] = ShareOf(adds[k], sec)
      BY DEF ShareFn
    <3>2. \A i \in A : g[i] = ShareOf(adds[k], items[i].time) /\ p[i] = items[i].time
      OBVIOUS
    <3> HIDE DEF h, g, p
    <3> QED
      BY <1>2, <1>4, <3>1, <3>2
  <2>2. \A i, j \in A : p[i] = p[j] => i = j
    <3>1. ASSUME NEW i \in A, NEW j \in A, items[i].time = items[j].time PROVE i = j
      <4>1. i \in 1..Len(items) /\ j \in 1..Len(items) /\ items[i].time \in Nat /\ Len(items) \in Nat
        BY SeenItems, LenProperties DEF Ledger
      <4>2. (i < j => items[i].time < items[j].time) /\ (j < i => items[j].time < items[i].time)
        BY <4>1 DEF Ledger, Ordered
      <4>3. i = j \/ i < j \/ j < i
        BY <4>1
      <4> QED
        BY <3>1, <4>1, <4>2, <4>3
    <3> QED
      BY <3>1
  <2>3. {p[i] : i \in A} = Seconds
    BY DEF Seconds
  <2>f. IsFiniteSet(A)
    BY <1>1
  <2> HIDE DEF h, g, p, A, B, F, G, r
  <2>4. Total(g, A) = Total(h, {p[i] : i \in A})
    BY <2>f, <2>1, <2>2, TotalImage
  <2> QED
    <3>1. Parts[k] = Total(h, Seconds)
      BY DEF Parts, h, B
    <3> QED
      BY <2>3, <2>4, <3>1 DEF g
<1>8. Counted = Total(r, A)
  BY <1>1, SumIsTotal DEF Counted, Seen
<1> HIDE DEF A, B, F, G, r, p
<1>9. Total(r, A) = Total(Parts, B)
  BY <1>1, <1>5, <1>6, <1>7, TotalSwap
<1> QED
  BY <1>8, <1>9 DEF B

LEMMA PartsBounded ==
  ASSUME Ledger, NEW k \in 1..Len(adds)
  PROVE  /\ Parts[k] \in Nat /\ Parts[k] <= adds[k].size
         /\ k \notin Touching => Parts[k] = 0
         /\ k \in Inside => adds[k].size - Rounded(k) <= Parts[k]
<1> DEFINE a == adds[k]
           h == ShareFn(a)
           Q == Seconds
<1>1. /\ a \in Add /\ a.from <= a.to /\ a.size \in Nat /\ a.from \in Nat /\ a.to \in Nat
      /\ Len(adds) \in Nat
  BY PastFields, LenProperties DEF Ledger, Past
<1>2. IsFiniteSet(Q) /\ Q \subseteq Nat /\ Q \subseteq Int
  BY SecondsFinite
<1>3. Parts[k] = Total(h, Q)
  BY DEF Parts
<1>4. \A sec \in Int : h[sec] = ShareOf(a, sec) /\ h[sec] \in Nat
  BY <1>1, ShareFnTyped
<1>5. Total(h, Q) \in Nat
  <2>1. \A sec \in Q : h[sec] \in Nat
    BY <1>2, <1>4
  <2> HIDE DEF h, Q
  <2> QED
    BY <1>2, <2>1, TotalNatural
<1>6. Total(h, Q) <= a.size
  <2> HIDE DEF Q
  <2> QED
    BY <1>1, <1>2, SharesAmong
<1>7. Window \in Nat /\ Now \in Nat /\ Second \in Nat \ {0}
  BY NowBounds, SpeedStatAssumption
<1>8. ASSUME k \notin Touching PROVE Total(h, Q) = 0
  <2>1. ~ (a.to >= WindowStart)
    BY <1>8 DEF Touching
  <2>2. SecondOf(a.to) < Now - Window
    <3> DEFINE s == SecondOf(a.to)
               w == Now - Window
    <3>0. a.to \in Int
      BY <1>1
    <3>a. s \in Int /\ Second * s <= a.to
      BY <3>0, SecondBounds
    <3>1. s \in Int /\ w \in Int /\ Second * s <= a.to
      BY <1>7, <3>a
    <3>2. WindowStart = w * Second /\ w * Second = Second * w /\ Second * w \in Int /\ Second * s \in Int
      BY <1>7, <3>1 DEF WindowStart
    <3> HIDE DEF s, w
    <3>3. ASSUME w <= s PROVE FALSE
      <4>1. Second * w <= Second * s
        <5>1. CASE w = s
          BY <3>2, <5>1
        <5>2. CASE w < s
          <6>1. Second * w + Second <= Second * s
            BY <1>7, <3>1, <5>2, NextMultiple
          <6> QED
            BY <1>7, <3>2, <6>1
        <5> QED
          BY <3>1, <3>3, <5>1, <5>2
      <4> QED
        BY <1>1, <2>1, <3>1, <3>2, <4>1
    <3>4. s < w
      BY <3>1, <3>3
    <3> QED
      BY <3>4 DEF s, w
  <2>3. ASSUME NEW sec \in Q PROVE h[sec] = 0
    <3>1. Now - Window <= sec /\ sec \in Int
      BY <1>2, SecondsFinite
    <3>2. sec \notin SecondsOf(a)
      <4>1. ASSUME sec \in SecondsOf(a) PROVE FALSE
        <5>1. sec <= SecondOf(a.to) /\ SecondOf(a.to) \in Nat
          BY <1>1, <4>1, SecondsBounded, SecondNatural
        <5> QED
          BY <1>7, <2>2, <3>1, <5>1
      <4> QED
        BY <4>1
    <3> QED
      BY <1>1, <1>4, <3>1, <3>2, SharesOutside
  <2> HIDE DEF h, Q
  <2> QED
    BY <1>2, <2>3, TotalZero
<1>9. ASSUME k \in Inside PROVE a.size - Rounded(k) <= Total(h, Q)
  <2>1. a.from >= WindowStart /\ SecondOf(a.to) < Now
    BY <1>9 DEF Inside
  <2>2. Now - Window <= SecondOf(a.from)
    <3> DEFINE s == SecondOf(a.from)
               w == Now - Window
    <3>0. a.from \in Int
      BY <1>1
    <3>a. s \in Int /\ a.from < Second * s + Second
      BY <3>0, SecondBounds
    <3>1. s \in Int /\ w \in Int /\ a.from < Second * s + Second
      BY <1>7, <3>a
    <3>2. WindowStart = w * Second /\ w * Second = Second * w /\ Second * w \in Int /\ Second * s \in Int
      BY <1>7, <3>1 DEF WindowStart
    <3> HIDE DEF s, w
    <3>3. ASSUME s < w PROVE FALSE
      <4>1. Second * s + Second <= Second * w
        BY <1>7, <3>1, <3>3, NextMultiple
      <4> QED
        BY <1>1, <1>7, <2>1, <3>1, <3>2, <4>1
    <3>4. w <= s
      BY <3>1, <3>3
    <3> QED
      BY <3>4 DEF s, w
  <2>3. ASSUME NEW sec \in SecondsOf(a) \ Q PROVE ShareOf(a, sec) = 0
    <3>1. sec \in Nat /\ SecondOf(a.from) <= sec /\ sec <= SecondOf(a.to)
      BY <1>1, SecondsBounded
    <3>2. SecondOf(a.from) \in Nat /\ SecondOf(a.to) \in Nat /\ SecondOf(lastTime) \in Nat
          /\ SecondOf(lastTime) <= Now
      BY <1>1, SecondNatural, NowBounds
    <3>3. /\ Now - sec <= Window /\ sec < Now /\ SecondOf(lastTime) - Window <= sec
      BY <1>7, <2>1, <2>2, <3>1, <3>2
    <3>4. Holds(items, sec, Expected(adds, sec))
      BY <3>1, <3>3 DEF Ledger
    <3>5. ASSUME NEW i \in 1..Len(items), items[i].time = sec PROVE FALSE
      <4>1. i \in Seen
        BY <3>3, <3>5 DEF Seen, InWindow
      <4>2. sec \in Seconds
        BY <3>5, <4>1 DEF Seconds
      <4> QED
        BY <4>2
    <3>6. Expected(adds, sec) = 0
      BY <3>4, <3>5 DEF Holds
    <3> DEFINE e == [j \in 1..Len(adds) |-> ShareOf(adds[j], sec)]
    <3>7. Total(e, 1..Len(adds)) = 0 /\ IsFiniteSet(1..Len(adds))
      BY <1>1, <3>6, IndicesFinite DEF Expected
    <3>8. \A j \in 1..Len(adds) : e[j] \in Nat
      <4>1. \A j \in 1..Len(adds) : adds[j] \in Add /\ adds[j].from <= adds[j].to
        BY PastFields DEF Ledger
      <4>2. sec \in Int
        BY <3>1
      <4> QED
        BY <4>1, <4>2, ShareNatural
    <3>9. e[k] = ShareOf(a, sec)
      OBVIOUS
    <3> HIDE DEF e
    <3>10. e[k] = 0
      BY <3>7, <3>8, TotalTerm
    <3> QED
      BY <3>9, <3>10
  <2>4. a.size - (SecondOf(a.to) - SecondOf(a.from)) <= Total(h, Q)
    <3> HIDE DEF Q
    <3> QED
      BY <1>1, <1>2, <2>3, SharesAmong
  <2> QED
    BY <2>4 DEF Rounded
<1> QED
  BY <1>3, <1>5, <1>6, <1>8, <1>9

LEMMA SpeedBounded == Ledger => SpeedOfWindow
<1> SUFFICES ASSUME Ledger PROVE SpeedOfWindow
  OBVIOUS
<1> DEFINE K == 1..Len(adds)
           size == [k \in K |-> adds[k].size]
           lost == [k \in K |-> Rounded(k)]
           least == [k \in K |-> adds[k].size - Rounded(k)]
           T == Touching
           I == Inside
<1>1. Len(adds) \in Nat /\ IsFiniteSet(K) /\ T \in SUBSET K /\ I \in SUBSET K
  BY LenProperties, IndicesFinite DEF Ledger, Past, Touching, Inside
<1>2. IsFiniteSet(T) /\ IsFiniteSet(I)
  BY <1>1, FS_Subset
<1>3. \A k \in K : /\ adds[k].size \in Nat /\ Rounded(k) \in Int
  <2>1. ASSUME NEW k \in K PROVE adds[k].size \in Nat /\ Rounded(k) \in Int
    <3>1. adds[k].size \in Nat /\ adds[k].from \in Nat /\ adds[k].to \in Nat
      BY PastFields DEF Ledger
    <3>2. SecondOf(adds[k].from) \in Nat /\ SecondOf(adds[k].to) \in Nat
      BY <3>1, SecondNatural
    <3> QED
      BY <3>1, <3>2 DEF Rounded
  <2> QED
    BY <2>1
<1>4. \A k \in K : /\ size[k] \in Nat /\ lost[k] \in Int /\ least[k] \in Int
                   /\ size[k] \in Int /\ size[k] = least[k] + lost[k]
  BY <1>3
<1>5. \A k \in K : /\ Parts[k] \in Nat /\ Parts[k] <= size[k]
                   /\ (k \notin T => Parts[k] = 0)
                   /\ (k \in I => least[k] <= Parts[k])
  BY PartsBounded
<1>6. Counted = Total(Parts, K)
  BY CountedInParts
<1>7. Sum(T, adds) = Total(size, T) /\ Sum(I, adds) = Total(size, I)
  <2> DEFINE s(S) == [i \in S |-> adds[i].size]
  <2>1. ASSUME NEW S \in SUBSET K, IsFiniteSet(S) PROVE Sum(S, adds) = Total(size, S)
    <3>1. Sum(S, adds) = Total(s(S), S)
      BY <2>1, SumIsTotal
    <3>2. \A i \in S : s(S)[i] = size[i] /\ s(S)[i] \in Int
      BY <1>3
    <3> HIDE DEF s, size, K
    <3>3. Total(s(S), S) = Total(size, S)
      BY <2>1, <3>2, TotalSame
    <3> QED
      BY <3>1, <3>3
  <2> HIDE DEF size, K, T, I
  <2> QED
    BY <1>1, <1>2, <2>1
<1>8. MapThenSumSet(Rounded, I) = Total(lost, I)
  <2> DEFINE s == [i \in I |-> Rounded(i)]
  <2>1. MapThenSumSet(Rounded, I) = Total(s, I)
    BY <1>2, RoundedIsTotal
  <2>2. \A i \in I : s[i] = lost[i] /\ s[i] \in Int
    BY <1>1, <1>3
  <2> HIDE DEF s, lost, K, I
  <2>3. Total(s, I) = Total(lost, I)
    BY <1>2, <2>2, TotalSame
  <2> QED
    BY <2>1, <2>3
<1> HIDE DEF K, size, lost, least, T, I
<1>9. Total(Parts, K) = Total(Parts, T)
  <2>1. \A k \in K \ T : Parts[k] = 0
    BY <1>5
  <2>2. \A k \in K : Parts[k] \in Nat
    BY <1>5
  <2> QED
    BY <1>1, <2>1, <2>2, TotalPart
<1>10. Total(Parts, T) <= Total(size, T)
  <2>1. \A k \in T : Parts[k] \in Int /\ size[k] \in Int /\ Parts[k] <= size[k]
    BY <1>1, <1>4, <1>5
  <2> QED
    BY <1>2, <2>1, TotalMonotone
<1>11. Total(Parts, I) <= Total(Parts, K)
  <2>1. \A k \in K : Parts[k] \in Nat
    BY <1>5
  <2> QED
    BY <1>1, <2>1, TotalPart
<1>12. Total(least, I) <= Total(Parts, I)
  <2>1. \A k \in I : least[k] \in Int /\ Parts[k] \in Int /\ least[k] <= Parts[k]
    BY <1>1, <1>4, <1>5
  <2> QED
    BY <1>2, <2>1, TotalMonotone
<1>13. Total(size, I) = Total(least, I) + Total(lost, I)
  <2>1. \A k \in I : least[k] \in Int /\ lost[k] \in Int /\ size[k] = least[k] + lost[k]
    BY <1>1, <1>4
  <2> QED
    BY <1>2, <2>1, TotalSum
<1>14. /\ Total(least, I) \in Int /\ Total(lost, I) \in Int /\ Total(Parts, I) \in Int
       /\ Total(Parts, K) \in Int
  <2>1. /\ \A k \in I : least[k] \in Int
        /\ \A k \in I : lost[k] \in Int
        /\ \A k \in I : Parts[k] \in Int
        /\ \A k \in K : Parts[k] \in Int
    BY <1>1, <1>4, <1>5
  <2> QED
    BY <1>1, <1>2, <2>1, TotalTyped
<1>15. Counted <= Sum(T, adds)
  BY <1>6, <1>7, <1>9, <1>10
<1>16. Counted >= Sum(I, adds) - MapThenSumSet(Rounded, I)
  <2> DEFINE a == Total(least, I)
             b == Total(lost, I)
             c == Total(Parts, I)
             e == Total(Parts, K)
             s == Total(size, I)
  <2>1. a <= c /\ c <= e /\ s = a + b /\ a \in Int /\ b \in Int /\ c \in Int /\ e \in Int
    BY <1>11, <1>12, <1>13, <1>14
  <2> HIDE DEF a, b, c, e, s
  <2>2. e >= s - b
    BY <2>1
  <2> QED
    BY <1>6, <1>7, <1>8, <2>2 DEF b, e, s
<1> QED
  BY <1>15, <1>16 DEF SpeedOfWindow, T, I

(* get_speed counts the bytes of its window: no amount from before the window,
   and all of one from inside it but for the bytes that add_data's rounding
   loses, less than one a second; for clocks that jump either way, pauses of
   any length, and any number of amounts in any number of seconds.          *)
THEOREM SpeedIsOfWindow == Spec => []SpeedOfWindow
<1>1. Ledger => SpeedOfWindow
  BY SpeedBounded
<1> QED
  BY <1>1, StatInvariance, PTL
=============================================================================
