------------------------- MODULE Subsequence_proofs -------------------------
(***************************************************************************)
(* What a selection of rows is: the places of the selected positions are   *)
(* those positions, each once and in order.                                *)
(***************************************************************************)
EXTENDS Subsequence, TLAPS, FiniteSetTheorems, SequenceTheorems

(* Later positions have higher ranks. *)
LEMMA RankIncreases ==
    ASSUME NEW K \in SUBSET Nat, IsFiniteSet(K), NEW j \in K, NEW k \in K
    PROVE  /\ Rank(K, k) \in 1..Cardinality(K)
           /\ j < k => Rank(K, j) < Rank(K, k)
<1> DEFINE Upto(n) == {m \in K : m <= n}
<1>1. /\ IsFiniteSet(Upto(j)) /\ IsFiniteSet(Upto(k))
      /\ Cardinality(Upto(k)) <= Cardinality(K)
  BY FS_Subset
<1>2. /\ Cardinality(Upto(j)) \in Nat /\ Cardinality(Upto(k)) \in Nat
      /\ Cardinality(K) \in Nat
  BY <1>1, FS_CardinalityType
<1>3. Cardinality(Upto(k)) # 0
  <2>1. k \in Upto(k)
    OBVIOUS
  <2> QED BY <1>1, <2>1, FS_EmptySet
<1>4. ASSUME j < k PROVE Cardinality(Upto(j)) < Cardinality(Upto(k))
  <2>1. Upto(j) \subseteq Upto(k)
    <3>1. \A m \in K : m \in Nat
      OBVIOUS
    <3>2. \A m \in K : m <= j => m <= k
      BY <1>4, <3>1
    <3> QED BY <3>2
  <2>2. k \in Upto(k) /\ k \notin Upto(j)
    BY <1>4
  <2>3. /\ Cardinality(Upto(j)) <= Cardinality(Upto(k))
        /\ Cardinality(Upto(k)) = Cardinality(Upto(j)) => Upto(k) = Upto(j)
    BY <1>1, <2>1, FS_Subset
  <2> QED BY <1>2, <2>2, <2>3
<1> QED BY <1>1, <1>2, <1>3, <1>4 DEF Rank

(* The places of K are the positions of K, each once and in order. *)
Enumerated(K) ==
    /\ Cardinality(K) \in Nat /\ K \subseteq Nat \ {0}
    /\ \A n \in 1..Cardinality(K) : Place(K, n) \in K
    /\ \A m, n \in 1..Cardinality(K) : m < n => Place(K, m) < Place(K, n)
    /\ \A k \in K : \E n \in 1..Cardinality(K) : Place(K, n) = k

(* So it is for every set of positions of a sequence. *)
LEMMA PlaceFacts ==
    ASSUME NEW b \in Nat, NEW K \in SUBSET (1..b)
    PROVE  Enumerated(K)
<1> DEFINE N == Cardinality(K)
<1> DEFINE rank == [k \in K |-> Rank(K, k)]
<1>0. K \subseteq Nat \ {0} /\ K \in SUBSET Nat /\ IsFiniteSet(K)
  <2>1. IsFiniteSet(1..b)
    BY FS_Interval
  <2>2. IsFiniteSet(K)
    BY <2>1, FS_Subset
  <2>3. 1..b \subseteq Nat \ {0}
    OBVIOUS
  <2> QED BY <2>2, <2>3
<1>1. N \in Nat /\ IsFiniteSet(1..N) /\ Cardinality(1..N) = N
  <2>1. N \in Nat
    BY <1>0, FS_CardinalityType
  <2> QED BY <2>1, FS_Interval
<1>2. \A j, k \in K : /\ Rank(K, k) \in 1..N
                      /\ j < k => Rank(K, j) < Rank(K, k)
  BY <1>0, RankIncreases
<1>3. \A j, k \in K : Rank(K, j) = Rank(K, k) => j = k
  BY <1>0, <1>1, <1>2
<1>4. rank \in Injection(K, 1..N)
  BY <1>2, <1>3 DEF Injection, IsInjective
<1>5. rank \in Surjection(K, 1..N)
  BY <1>0, <1>1, <1>4, FS_Injection
<1>6. \A n \in 1..N : \E k \in K : Rank(K, k) = n
  BY <1>5 DEF Surjection
<1>7. \A n \in 1..N : Place(K, n) \in K /\ Rank(K, Place(K, n)) = n
  BY <1>6 DEF Place
<1>8. ASSUME NEW m \in 1..N, NEW n \in 1..N, m < n PROVE Place(K, m) < Place(K, n)
  <2>1. Place(K, m) \in K /\ Place(K, n) \in K /\ Place(K, m) \in Nat /\ Place(K, n) \in Nat
    BY <1>0, <1>7
  <2>2. ~(Place(K, n) < Place(K, m)) /\ Place(K, n) # Place(K, m)
    BY <1>1, <1>2, <1>7, <1>8, <2>1
  <2> QED BY <2>1, <2>2
<1>9. \A k \in K : \E n \in 1..N : Place(K, n) = k
  BY <1>2, <1>3, <1>7
<1> QED BY <1>0, <1>1, <1>7, <1>8, <1>9 DEF Enumerated

(* A selection from a sequence. *)
LEMMA PickFacts ==
    ASSUME NEW s, NEW K, Enumerated(K)
    PROVE  /\ Len(Pick(s, K)) = Cardinality(K)
           /\ DOMAIN Pick(s, K) = 1..Cardinality(K)
           /\ \A m \in 1..Cardinality(K) : Pick(s, K)[m] = s[Place(K, m)]
           /\ Pick(s, K) \in Seq({s[k] : k \in K})
<1>1. DOMAIN Pick(s, K) = 1..Cardinality(K)
  BY DEF Pick
<1>2. Pick(s, K) \in Seq({s[k] : k \in K})
  BY DEF Pick, Enumerated
<1>3. Len(Pick(s, K)) = Cardinality(K)
  BY <1>1, <1>2 DEF Enumerated
<1>4. \A m \in 1..Cardinality(K) : Pick(s, K)[m] = s[Place(K, m)]
  BY DEF Pick
<1> QED BY <1>1, <1>2, <1>3, <1>4

(* Its elements are of the type of the selected ones. *)
LEMMA PickType ==
    ASSUME NEW s, NEW K, Enumerated(K), NEW S, \A k \in K : s[k] \in S
    PROVE  Pick(s, K) \in Seq(S)
<1>1. \A m \in 1..Cardinality(K) : s[Place(K, m)] \in S
  BY DEF Enumerated
<1> QED BY <1>1 DEF Pick, Enumerated

(* An empty selection, and one that is not. *)
LEMMA PickEmpty ==
    ASSUME NEW s, NEW K, Enumerated(K)
    PROVE  Pick(s, K) = <<>> <=> K = {}
<1>1. Pick(s, K) \in Seq({s[k] : k \in K}) /\ Len(Pick(s, K)) = Cardinality(K)
  BY PickFacts
<1>2. Cardinality(K) = 0 => K = {}
  BY DEF Enumerated
<1>3. K = {} => Cardinality(K) = 0
  BY FS_EmptySet
<1> QED BY <1>1, <1>2, <1>3

(* Sequences behind each other. *)
LEMMA ConcatFacts ==
    ASSUME NEW S, NEW s \in Seq(S), NEW t \in Seq(S)
    PROVE  /\ s \o t \in Seq(S) /\ Len(s \o t) = Len(s) + Len(t)
           /\ DOMAIN (s \o t) = 1..(Len(s) + Len(t))
           /\ Len(s) \in Nat /\ Len(t) \in Nat
           /\ DOMAIN s = 1..Len(s) /\ DOMAIN t = 1..Len(t)
           /\ \A k \in 1..Len(s) : (s \o t)[k] = s[k]
           /\ \A k \in 1..Len(t) : (s \o t)[Len(s) + k] = t[k]
           /\ \A k \in (Len(s) + 1)..(Len(s) + Len(t)) : (s \o t)[k] = t[k - Len(s)]
OBVIOUS

(* All of a sequence is the sequence. *)
LEMMA PickAll ==
    ASSUME NEW S, NEW s \in Seq(S)
    PROVE  Pick(s, DOMAIN s) = s
<1> DEFINE n == Len(s)
<1>1. n \in Nat /\ DOMAIN s = 1..n /\ s = [m \in 1..n |-> s[m]]
  OBVIOUS
<1>2. Cardinality(1..n) = n /\ IsFiniteSet(1..n)
  BY <1>1, FS_Interval
<1>3. ASSUME NEW k \in 1..n PROVE Rank(1..n, k) = k
  <2>1. {j \in 1..n : j <= k} = 1..k
    BY <1>1
  <2>2. Cardinality(1..k) = k
    BY FS_Interval
  <2> QED BY <2>1, <2>2 DEF Rank
<1>4. \A m \in 1..n : Place(1..n, m) = m
  BY <1>3 DEF Place
<1> QED BY <1>1, <1>2, <1>4 DEF Pick

(* The elements of u are those of s at K and those of t at L: each has its *)
(* own origin, a position of s or (negative) one of t.                     *)
Joined(u, s, K, t, L) ==
    \E org \in [DOMAIN u -> Int] :
        /\ \A k \in DOMAIN u : \/ org[k] \in K /\ u[k] = s[org[k]]
                               \/ -org[k] \in L /\ u[k] = t[-org[k]]
        /\ \A k, l \in DOMAIN u : org[k] = org[l] => k = l
        /\ \A k \in K : \E l \in DOMAIN u : org[l] = k /\ u[l] = s[k]
        /\ \A k \in L : \E l \in DOMAIN u : org[l] = -k /\ u[l] = t[k]

(* What remains of s followed by what is selected from t. *)
LEMMA JoinFacts ==
    ASSUME NEW S, NEW s \in Seq(S), NEW t \in Seq(S),
           NEW K \in SUBSET DOMAIN s, NEW L \in SUBSET DOMAIN t
    PROVE  /\ Pick(s, K) \o Pick(t, L) \in Seq(S)
           /\ Joined(Pick(s, K) \o Pick(t, L), s, K, t, L)
<1> DEFINE u == Pick(s, K) \o Pick(t, L)
           p == Cardinality(K)
           q == Cardinality(L)
           org == [k \in 1..(p + q) |-> IF k <= p THEN Place(K, k) ELSE -Place(L, k - p)]
<1>1. Enumerated(K) /\ Enumerated(L)
  <2>1. /\ Len(s) \in Nat /\ K \in SUBSET (1..Len(s))
        /\ Len(t) \in Nat /\ L \in SUBSET (1..Len(t))
    OBVIOUS
  <2> QED BY <2>1, PlaceFacts
<1>2. /\ p \in Nat /\ Len(Pick(s, K)) = p
      /\ \A m \in 1..p : Place(K, m) \in K /\ Pick(s, K)[m] = s[Place(K, m)]
      /\ \A l, m \in 1..p : l < m => Place(K, l) < Place(K, m)
      /\ \A k \in K : \E m \in 1..p : Place(K, m) = k
  <2>1. Len(Pick(s, K)) = p /\ \A m \in 1..p : Pick(s, K)[m] = s[Place(K, m)]
    BY <1>1, PickFacts
  <2> QED BY <1>1, <2>1 DEF Enumerated
<1>3. /\ q \in Nat /\ Len(Pick(t, L)) = q
      /\ \A m \in 1..q : Place(L, m) \in L /\ Pick(t, L)[m] = t[Place(L, m)]
      /\ \A l, m \in 1..q : l < m => Place(L, l) < Place(L, m)
      /\ \A k \in L : \E m \in 1..q : Place(L, m) = k
  <2>1. Len(Pick(t, L)) = q /\ \A m \in 1..q : Pick(t, L)[m] = t[Place(L, m)]
    BY <1>1, PickFacts
  <2> QED BY <1>1, <2>1 DEF Enumerated
<1>4. Pick(s, K) \in Seq(S) /\ Pick(t, L) \in Seq(S)
  BY <1>1, PickType
<1>5. u \in Seq(S) /\ Len(u) = p + q /\ DOMAIN u = 1..(p + q)
  <2>1. u \in Seq(S) /\ Len(u) = Len(Pick(s, K)) + Len(Pick(t, L))
    BY <1>4
  <2> QED BY <1>2, <1>3, <2>1
<1>6. \A k \in 1..(p + q) : u[k] = IF k <= p THEN Pick(s, K)[k] ELSE Pick(t, L)[k - p]
  <2> DEFINE v == Pick(s, K)
             w == Pick(t, L)
  <2>1. v \in Seq(S) /\ w \in Seq(S) /\ Len(v) = p /\ Len(w) = q /\ p \in Nat /\ q \in Nat
    BY <1>2, <1>3, <1>4
  <2> HIDE DEF v, w, p, q
  <2>2. /\ \A k \in 1..p : (v \o w)[k] = v[k]
        /\ \A k \in (p + 1)..(p + q) : (v \o w)[k] = w[k - p]
    BY <2>1, ConcatFacts
  <2>3. \A k \in 1..(p + q) : (v \o w)[k] = IF k <= p THEN v[k] ELSE w[k - p]
    <3> SUFFICES ASSUME NEW k \in 1..(p + q)
                 PROVE  (v \o w)[k] = IF k <= p THEN v[k] ELSE w[k - p]
      OBVIOUS
    <3>1. k \in 1..p \/ (k \in (p + 1)..(p + q) /\ ~(k <= p))
      BY <2>1
    <3>2. k \in 1..p => k <= p
      BY <2>1
    <3> QED BY <2>2, <3>1, <3>2
  <2> QED BY <2>3 DEF v, w
<1> HIDE DEF u, p, q
<1>7. K \subseteq Nat \ {0} /\ L \subseteq Nat \ {0}
  BY <1>1 DEF Enumerated
<1>8. org \in [DOMAIN u -> Int]
  BY <1>2, <1>3, <1>5, <1>7
<1>9. \A k \in DOMAIN u :
         IF k <= p THEN org[k] = Place(K, k) /\ org[k] > 0 /\ org[k] \in K /\ u[k] = s[org[k]]
                   ELSE /\ k - p \in 1..q /\ org[k] = -Place(L, k - p) /\ org[k] < 0
                        /\ -org[k] \in L /\ u[k] = t[-org[k]]
  <2> SUFFICES ASSUME NEW k \in 1..(p + q)
               PROVE  IF k <= p THEN /\ org[k] = Place(K, k) /\ org[k] > 0 /\ org[k] \in K
                                     /\ u[k] = s[org[k]]
                                ELSE /\ k - p \in 1..q /\ org[k] = -Place(L, k - p) /\ org[k] < 0
                                     /\ -org[k] \in L /\ u[k] = t[-org[k]]
    BY <1>5
  <2>1. CASE k <= p
    <3>1. k \in 1..p /\ org[k] = Place(K, k) /\ u[k] = Pick(s, K)[k]
      BY <1>2, <1>6, <2>1
    <3> QED BY <1>2, <1>7, <2>1, <3>1
  <2>2. CASE ~(k <= p)
    <3>0. k - p \in 1..q
      BY <1>2, <1>3, <2>2
    <3>1. k - p \in 1..q /\ org[k] = -Place(L, k - p) /\ u[k] = Pick(t, L)[k - p]
      BY <1>6, <2>2, <3>0
    <3>2. Place(L, k - p) \in L /\ Place(L, k - p) \in Nat \ {0} /\ u[k] = t[Place(L, k - p)]
      BY <1>3, <1>7, <3>1
    <3>3. -org[k] = Place(L, k - p) /\ org[k] < 0
      BY <3>1, <3>2
    <3> QED BY <2>2, <3>1, <3>2, <3>3
  <2> QED BY <2>1, <2>2
<1>10. ASSUME NEW k \in DOMAIN u, NEW l \in DOMAIN u, k < l PROVE org[k] # org[l]
  <2>1. CASE l <= p
    <3>1. k \in 1..p /\ l \in 1..p /\ org[k] = Place(K, k) /\ org[l] = Place(K, l)
      BY <1>2, <1>3, <1>5, <1>9, <1>10, <2>1
    <3>2. Place(K, k) < Place(K, l) /\ Place(K, k) \in Nat /\ Place(K, l) \in Nat
      BY <1>2, <1>7, <1>10, <3>1
    <3> QED BY <3>1, <3>2
  <2>2. CASE k <= p /\ ~(l <= p)
    <3>1. org[k] > 0 /\ org[l] < 0 /\ org[k] \in Int /\ org[l] \in Int
      BY <1>8, <1>9, <2>2
    <3> QED BY <3>1
  <2>3. CASE ~(k <= p)
    <3>1. /\ k - p \in 1..q /\ l - p \in 1..q /\ k - p < l - p
          /\ org[k] = -Place(L, k - p) /\ org[l] = -Place(L, l - p)
      <4>0. k \in 1..(p + q) /\ l \in 1..(p + q) /\ p \in Nat /\ q \in Nat
        BY <1>2, <1>3, <1>5
      <4>1. ~(l <= p) /\ k - p < l - p
        BY <1>10, <2>3, <4>0
      <4> QED BY <1>9, <2>3, <4>1
    <3>2. /\ Place(L, k - p) < Place(L, l - p)
          /\ Place(L, k - p) \in Nat /\ Place(L, l - p) \in Nat
      BY <1>3, <1>7, <3>1
    <3> QED BY <3>1, <3>2
  <2> QED BY <2>1, <2>2, <2>3
<1>11. \A k, l \in DOMAIN u : org[k] = org[l] => k = l
  <2>1. DOMAIN u \subseteq Int
    BY <1>2, <1>3, <1>5
  <2>2. ASSUME NEW k \in DOMAIN u, NEW l \in DOMAIN u, k # l PROVE k < l \/ l < k
    BY <2>1, <2>2
  <2> HIDE DEF org
  <2> QED BY <1>10, <2>2
<1>12. ASSUME NEW k \in K PROVE \E l \in DOMAIN u : org[l] = k /\ u[l] = s[k]
  <2>1. PICK m \in 1..p : Place(K, m) = k
    BY <1>2
  <2>2. m \in DOMAIN u /\ m <= p /\ org[m] = k
    BY <1>2, <1>3, <1>5, <2>1
  <2> HIDE DEF org
  <2> QED BY <1>9, <2>2
<1>13. ASSUME NEW k \in L PROVE \E l \in DOMAIN u : org[l] = -k /\ u[l] = t[k]
  <2>1. PICK m \in 1..q : Place(L, m) = k
    BY <1>3
  <2>2. p + m \in DOMAIN u /\ ~(p + m <= p) /\ org[p + m] = -k
    BY <1>2, <1>3, <1>5, <2>1
  <2>3. -org[p + m] = k
    <3> HIDE DEF org
    <3> QED BY <1>7, <2>2
  <2> HIDE DEF org
  <2> QED BY <1>9, <2>2, <2>3
<1> HIDE DEF org
<1>14. \A k \in DOMAIN u : \/ org[k] \in K /\ u[k] = s[org[k]]
                           \/ -org[k] \in L /\ u[k] = t[-org[k]]
  BY <1>9
<1>15. Joined(u, s, K, t, L)
  BY <1>8, <1>11, <1>12, <1>13, <1>14 DEF Joined
<1> QED BY <1>5, <1>15 DEF u

----------------------------------------------------------------------------
(* Sequences that arise from others by leaving elements out, and, unless   *)
(* `ordered' says so, by moving them.                                      *)

Embeds(f, u, s, ordered) ==
    /\ f \in [DOMAIN u -> DOMAIN s]
    /\ \A k \in DOMAIN u : u[k] = s[f[k]]
    /\ \A j, k \in DOMAIN u : j < k => f[j] # f[k] /\ (ordered => f[j] < f[k])

Inside(u, s, ordered) == \E f : Embeds(f, u, s, ordered)

(* Nothing of s is missing in u. *)
Covers(u, s) == \A k \in DOMAIN s : \E l \in DOMAIN u : u[l] = s[k]

(* A sequence lies inside itself, and the empty one inside all. *)
LEMMA InsideSelf ==
    ASSUME NEW S, NEW s \in Seq(S), NEW ordered
    PROVE  Inside(s, s, ordered) /\ Inside(<<>>, s, ordered) /\ Covers(s, s)
<1> DEFINE f == [k \in DOMAIN s |-> k]
<1>1. Embeds(f, s, s, ordered)
  BY DEF Embeds
<1> DEFINE g == [k \in {} |-> k]
<1>2. DOMAIN <<>> = {}
  OBVIOUS
<1>3. Embeds(g, <<>>, s, ordered)
  <2>1. g \in [{} -> DOMAIN s]
    OBVIOUS
  <2> HIDE DEF g
  <2> QED BY <1>2, <2>1 DEF Embeds
<1> QED BY <1>1, <1>3 DEF Inside, Covers

(* To be inside is transitive, and weaker where order does not matter. *)
LEMMA InsideChain ==
    ASSUME NEW S, NEW s \in Seq(S), NEW t \in Seq(S), NEW u \in Seq(S),
           NEW o \in BOOLEAN, NEW p \in BOOLEAN, Inside(u, t, o), Inside(t, s, p)
    PROVE  Inside(u, s, o /\ p)
<1>1. PICK f : Embeds(f, u, t, o)
  BY DEF Inside
<1>2. PICK g : Embeds(g, t, s, p)
  BY DEF Inside
<1> DEFINE h == [k \in DOMAIN u |-> g[f[k]]]
<1>3. DOMAIN u \subseteq Int /\ DOMAIN t \subseteq Int /\ DOMAIN s \subseteq Int
  OBVIOUS
<1>4. /\ \A k \in DOMAIN u : f[k] \in DOMAIN t /\ u[k] = t[f[k]]
      /\ \A j, k \in DOMAIN u : j < k => f[j] # f[k] /\ (o => f[j] < f[k])
  BY <1>1 DEF Embeds
<1>5. /\ \A k \in DOMAIN t : g[k] \in DOMAIN s /\ t[k] = s[g[k]]
      /\ \A j, k \in DOMAIN t : j < k => g[j] # g[k] /\ (p => g[j] < g[k])
  BY <1>2 DEF Embeds
<1>6. h \in [DOMAIN u -> DOMAIN s] /\ \A k \in DOMAIN u : u[k] = s[h[k]]
  BY <1>4, <1>5
<1>7. ASSUME NEW j \in DOMAIN u, NEW k \in DOMAIN u, j < k
      PROVE  h[j] # h[k] /\ (o /\ p => h[j] < h[k])
  <2>1. f[j] \in DOMAIN t /\ f[k] \in DOMAIN t /\ f[j] # f[k] /\ (o => f[j] < f[k])
    BY <1>4, <1>7
  <2>2. f[j] < f[k] \/ f[k] < f[j]
    BY <1>3, <2>1
  <2>3. g[f[j]] # g[f[k]] /\ (o /\ p => g[f[j]] < g[f[k]])
    BY <1>5, <2>1, <2>2
  <2> QED BY <2>3
<1> HIDE DEF h
<1>8. Embeds(h, u, s, o /\ p)
  BY <1>6, <1>7 DEF Embeds
<1> QED BY <1>8 DEF Inside

(* The parts may be embedded one by one. *)
LEMMA InsideConcat ==
    ASSUME NEW S, NEW s \in Seq(S), NEW t \in Seq(S), NEW u \in Seq(S), NEW v \in Seq(S),
           NEW o, Inside(u, s, o), Inside(v, t, o)
    PROVE  Inside(u \o v, s \o t, o)
<1>1. PICK f : Embeds(f, u, s, o)
  BY DEF Inside
<1>2. PICK g : Embeds(g, v, t, o)
  BY DEF Inside
<1> DEFINE p == Len(u)
           q == Len(v)
           a == Len(s)
           b == Len(t)
           w == u \o v
           r == s \o t
           h == [k \in 1..(p + q) |-> IF k <= p THEN f[k] ELSE a + g[k - p]]
<1>3. /\ p \in Nat /\ q \in Nat /\ DOMAIN u = 1..p /\ DOMAIN v = 1..q /\ DOMAIN w = 1..(p + q)
      /\ \A k \in 1..p : w[k] = u[k]
      /\ \A k \in (p + 1)..(p + q) : w[k] = v[k - p]
  BY ConcatFacts
<1>4. /\ a \in Nat /\ b \in Nat /\ DOMAIN s = 1..a /\ DOMAIN t = 1..b /\ DOMAIN r = 1..(a + b)
      /\ \A k \in 1..a : r[k] = s[k]
      /\ \A k \in 1..b : r[a + k] = t[k]
  BY ConcatFacts
<1>5. /\ \A k \in 1..p : f[k] \in 1..a /\ u[k] = s[f[k]]
      /\ \A j, k \in 1..p : j < k => f[j] # f[k] /\ (o => f[j] < f[k])
  BY <1>1, <1>3, <1>4 DEF Embeds
<1>6. /\ \A k \in 1..q : g[k] \in 1..b /\ v[k] = t[g[k]]
      /\ \A j, k \in 1..q : j < k => g[j] # g[k] /\ (o => g[j] < g[k])
  BY <1>2, <1>3, <1>4 DEF Embeds
<1> HIDE DEF p, q, a, b, w, r
<1>7. ASSUME NEW k \in 1..(p + q)
      PROVE  IF k <= p THEN /\ k \in 1..p /\ h[k] = f[k] /\ h[k] \in 1..a /\ w[k] = r[h[k]]
                       ELSE /\ k - p \in 1..q /\ h[k] = a + g[k - p] /\ h[k] \in (a + 1)..(a + b)
                            /\ w[k] = r[h[k]]
  <2>1. CASE k <= p
    <3>1. k \in 1..p /\ h[k] = f[k]
      BY <1>3, <2>1
    <3> HIDE DEF h
    <3> QED BY <1>3, <1>4, <1>5, <2>1, <3>1
  <2>2. CASE ~(k <= p)
    <3>1. k - p \in 1..q /\ h[k] = a + g[k - p] /\ k \in (p + 1)..(p + q)
      BY <1>3, <2>2
    <3>2. g[k - p] \in 1..b /\ v[k - p] = t[g[k - p]] /\ w[k] = v[k - p]
      BY <1>3, <1>6, <3>1
    <3>3. r[a + g[k - p]] = t[g[k - p]]
      BY <1>4, <3>2
    <3> HIDE DEF h
    <3> QED BY <1>4, <2>2, <3>1, <3>2, <3>3
  <2> QED BY <2>1, <2>2
<1>8. h \in [1..(p + q) -> 1..(a + b)]
  <2>1. ASSUME NEW k \in 1..(p + q) PROVE h[k] \in 1..(a + b)
    <3>1. h[k] \in 1..a \/ h[k] \in (a + 1)..(a + b)
      BY <1>7
    <3> HIDE DEF h
    <3> QED BY <1>4, <3>1
  <2> QED BY <2>1
<1> HIDE DEF h
<1>9. ASSUME NEW j \in 1..(p + q), NEW k \in 1..(p + q), j < k
      PROVE  h[j] # h[k] /\ (o => h[j] < h[k])
  <2>1. CASE k <= p
    <3>1. j \in 1..p /\ k \in 1..p /\ h[j] = f[j] /\ h[k] = f[k]
      BY <1>3, <1>7, <1>9, <2>1
    <3> QED BY <1>5, <1>9, <3>1
  <2>2. CASE ~(j <= p)
    <3>1. j - p \in 1..q /\ k - p \in 1..q /\ h[j] = a + g[j - p] /\ h[k] = a + g[k - p]
      BY <1>3, <1>7, <1>9, <2>2
    <3>2. /\ g[j - p] \in 1..b /\ g[k - p] \in 1..b
          /\ g[j - p] # g[k - p] /\ (o => g[j - p] < g[k - p])
      BY <1>3, <1>6, <1>9, <3>1
    <3> QED BY <1>4, <3>1, <3>2
  <2>3. CASE j <= p /\ ~(k <= p)
    <3>1. h[j] \in 1..a /\ h[k] \in (a + 1)..(a + b)
      BY <1>7, <2>3
    <3> QED BY <1>4, <3>1
  <2> QED BY <1>3, <1>9, <2>1, <2>2, <2>3
<1>10. \A k \in 1..(p + q) : w[k] = r[h[k]]
  BY <1>7
<1>11. Embeds(h, w, r, o)
  BY <1>3, <1>4, <1>8, <1>9, <1>10 DEF Embeds
<1> QED BY <1>11 DEF Inside, w, r

(* And nothing is missing if nothing is missing in the parts. *)
LEMMA CoversConcat ==
    ASSUME NEW S, NEW s \in Seq(S), NEW t \in Seq(S), NEW u \in Seq(S), NEW v \in Seq(S),
           Covers(u, s), Covers(v, t)
    PROVE  Covers(u \o v, s \o t)
<1> DEFINE w == u \o v
           r == s \o t
<1>1. /\ Len(u) \in Nat /\ Len(v) \in Nat /\ DOMAIN u = 1..Len(u) /\ DOMAIN v = 1..Len(v)
      /\ DOMAIN w = 1..(Len(u) + Len(v))
      /\ \A k \in 1..Len(u) : w[k] = u[k]
      /\ \A k \in 1..Len(v) : w[Len(u) + k] = v[k]
  BY ConcatFacts
<1>2. /\ Len(s) \in Nat /\ Len(t) \in Nat /\ DOMAIN s = 1..Len(s) /\ DOMAIN t = 1..Len(t)
      /\ DOMAIN r = 1..(Len(s) + Len(t))
      /\ \A k \in 1..Len(s) : r[k] = s[k]
      /\ \A k \in (Len(s) + 1)..(Len(s) + Len(t)) : r[k] = t[k - Len(s)]
  BY ConcatFacts
<1> HIDE DEF w, r
<1>3. ASSUME NEW k \in DOMAIN r PROVE \E l \in DOMAIN w : w[l] = r[k]
  <2>1. CASE k <= Len(s)
    <3>1. k \in DOMAIN s /\ r[k] = s[k]
      BY <1>2, <2>1
    <3>2. PICK l \in DOMAIN u : u[l] = s[k]
      BY <3>1 DEF Covers
    <3>3. l \in DOMAIN w /\ w[l] = u[l]
      BY <1>1
    <3> QED BY <3>1, <3>2, <3>3
  <2>2. CASE ~(k <= Len(s))
    <3>0. k \in (Len(s) + 1)..(Len(s) + Len(t)) /\ k - Len(s) \in 1..Len(t)
      BY <1>2, <2>2
    <3>1. k - Len(s) \in DOMAIN t /\ r[k] = t[k - Len(s)]
      BY <1>2, <3>0
    <3>2. PICK l \in DOMAIN v : v[l] = t[k - Len(s)]
      BY <3>1 DEF Covers
    <3>3. Len(u) + l \in DOMAIN w /\ w[Len(u) + l] = v[l]
      BY <1>1
    <3> QED BY <3>1, <3>2, <3>3
  <2> QED BY <2>1, <2>2
<1> QED BY <1>3 DEF Covers, w, r

----------------------------------------------------------------------------
(* Sequences of values d[p], for positions p. *)

(* Each element of u has a position of its own in P. *)
Traces(u, d, P, ordered) ==
    \E h \in [DOMAIN u -> P] :
        /\ \A k \in DOMAIN u : u[k] = d[h[k]]
        /\ \A j, k \in DOMAIN u : j < k => h[j] # h[k] /\ (ordered => h[j] < h[k])

(* u has the values of all positions in P, in their order. *)
Lists(u, d, P) ==
    \E h \in [DOMAIN u -> P] :
        /\ \A k \in DOMAIN u : u[k] = d[h[k]]
        /\ \A j, k \in DOMAIN u : j < k => h[j] < h[k]
        /\ \A p \in P : \E k \in DOMAIN u : h[k] = p

(* What has positions in P lies inside what lists P. *)
LEMMA TracedInside ==
    ASSUME NEW S, NEW u \in Seq(S), NEW w \in Seq(S), NEW d, NEW P \in SUBSET Int, NEW o,
           Traces(u, d, P, o), Lists(w, d, P)
    PROVE  Inside(u, w, o)
<1>1. PICK h \in [DOMAIN u -> P] :
        /\ \A k \in DOMAIN u : u[k] = d[h[k]]
        /\ \A j, k \in DOMAIN u : j < k => h[j] # h[k] /\ (o => h[j] < h[k])
  BY DEF Traces
<1>2. PICK g \in [DOMAIN w -> P] :
        /\ \A k \in DOMAIN w : w[k] = d[g[k]]
        /\ \A j, k \in DOMAIN w : j < k => g[j] < g[k]
        /\ \A p \in P : \E k \in DOMAIN w : g[k] = p
  BY DEF Lists
<1>3. DOMAIN u \subseteq Int /\ DOMAIN w \subseteq Int
  OBVIOUS
<1> DEFINE f == [k \in DOMAIN u |-> CHOOSE l \in DOMAIN w : g[l] = h[k]]
<1>4. \A k \in DOMAIN u : f[k] \in DOMAIN w /\ g[f[k]] = h[k]
  <2> SUFFICES ASSUME NEW k \in DOMAIN u
               PROVE  f[k] \in DOMAIN w /\ g[f[k]] = h[k]
    OBVIOUS
  <2>1. \E l \in DOMAIN w : g[l] = h[k]
    BY <1>1, <1>2
  <2>2. f[k] = CHOOSE l \in DOMAIN w : g[l] = h[k]
    OBVIOUS
  <2> QED BY <2>1, <2>2
<1>5. f \in [DOMAIN u -> DOMAIN w]
  BY <1>4
<1> HIDE DEF f
<1>6. ASSUME NEW j \in DOMAIN u, NEW k \in DOMAIN u, j < k
      PROVE  f[j] # f[k] /\ (o => f[j] < f[k])
  <2>1. h[j] # h[k] /\ (o => h[j] < h[k]) /\ h[j] \in Int /\ h[k] \in Int
    BY <1>1, <1>6
  <2>2. f[j] # f[k]
    BY <1>4, <2>1
  <2>3. ASSUME o PROVE f[j] < f[k]
    <3>1. f[j] \in DOMAIN w /\ f[k] \in DOMAIN w /\ (f[k] < f[j] => h[k] < h[j])
      BY <1>2, <1>4
    <3>2. ~(f[k] < f[j])
      BY <2>1, <2>3, <3>1
    <3> QED BY <1>3, <2>2, <3>1, <3>2
  <2> QED BY <2>2, <2>3
<1>7. ASSUME NEW k \in DOMAIN u PROVE u[k] = w[f[k]]
  <2>1. f[k] \in DOMAIN w /\ g[f[k]] = h[k]
    BY <1>4
  <2>2. w[f[k]] = d[g[f[k]]]
    BY <1>2, <2>1
  <2> QED BY <1>1, <2>1, <2>2
<1>8. Embeds(f, u, w, o)
  BY <1>5, <1>6, <1>7 DEF Embeds
<1> QED BY <1>8 DEF Inside

(* Selections of listed positions. *)
LEMMA ListedInside ==
    ASSUME NEW S, NEW u \in Seq(S), NEW w \in Seq(S), NEW d,
           NEW R \in SUBSET Int, NEW P \in SUBSET R, Lists(u, d, P), Lists(w, d, R)
    PROVE  Inside(u, w, TRUE) /\ (P = R => Covers(u, w))
<1>1. PICK h \in [DOMAIN u -> P] :
        /\ \A k \in DOMAIN u : u[k] = d[h[k]]
        /\ \A j, k \in DOMAIN u : j < k => h[j] < h[k]
        /\ \A p \in P : \E k \in DOMAIN u : h[k] = p
  BY DEF Lists
<1>2. \A j, k \in DOMAIN u : j < k => h[j] # h[k] /\ (TRUE => h[j] < h[k])
  <2>1. \A k \in DOMAIN u : h[k] \in Int
    BY <1>1
  <2> QED BY <1>1, <2>1
<1>3. Traces(u, d, R, TRUE)
  <2>1. h \in [DOMAIN u -> R]
    BY <1>1
  <2> QED BY <1>1, <1>2, <2>1 DEF Traces
<1>4. Inside(u, w, TRUE)
  BY <1>3, TracedInside
<1>5. ASSUME P = R, NEW k \in DOMAIN w PROVE \E l \in DOMAIN u : u[l] = w[k]
  <2>1. PICK p \in R : w[k] = d[p]
    BY DEF Lists
  <2>2. PICK l \in DOMAIN u : h[l] = p
    BY <1>1, <1>5
  <2> QED BY <1>1, <2>1, <2>2
<1> QED BY <1>4, <1>5 DEF Covers

(* Two of them behind each other. *)
LEMMA ListedApart ==
    ASSUME NEW S, NEW u \in Seq(S), NEW v \in Seq(S), NEW w \in Seq(S), NEW d,
           NEW R \in SUBSET Int, NEW P \in SUBSET R, NEW Q \in SUBSET R, NEW o,
           Lists(u, d, P), Lists(v, d, Q), Lists(w, d, R),
           P \cap Q = {}, o => \A p \in P, q \in Q : p < q
    PROVE  Inside(u \o v, w, o) /\ (P \cup Q = R => Covers(u \o v, w))
<1>1. PICK h \in [DOMAIN u -> P] :
        /\ \A k \in DOMAIN u : u[k] = d[h[k]]
        /\ \A j, k \in DOMAIN u : j < k => h[j] < h[k]
        /\ \A p \in P : \E k \in DOMAIN u : h[k] = p
  BY DEF Lists
<1>2. PICK g \in [DOMAIN v -> Q] :
        /\ \A k \in DOMAIN v : v[k] = d[g[k]]
        /\ \A j, k \in DOMAIN v : j < k => g[j] < g[k]
        /\ \A p \in Q : \E k \in DOMAIN v : g[k] = p
  BY DEF Lists
<1> DEFINE a == Len(u)
           b == Len(v)
           x == u \o v
           f == [k \in 1..(a + b) |-> IF k <= a THEN h[k] ELSE g[k - a]]
<1>3. /\ x \in Seq(S) /\ a \in Nat /\ b \in Nat
      /\ DOMAIN u = 1..a /\ DOMAIN v = 1..b /\ DOMAIN x = 1..(a + b)
      /\ \A k \in 1..a : x[k] = u[k]
      /\ \A k \in 1..b : x[a + k] = v[k]
      /\ \A k \in (a + 1)..(a + b) : x[k] = v[k - a]
  BY ConcatFacts
<1> HIDE DEF a, b, x
<1>4. ASSUME NEW k \in 1..(a + b)
      PROVE  IF k <= a THEN k \in 1..a /\ f[k] = h[k] /\ f[k] \in P /\ x[k] = d[f[k]]
                       ELSE /\ k - a \in 1..b /\ f[k] = g[k - a] /\ f[k] \in Q
                            /\ x[k] = d[f[k]]
  <2>1. CASE k <= a
    <3>1. k \in 1..a /\ f[k] = h[k]
      BY <1>3, <2>1
    <3> HIDE DEF f
    <3> QED BY <1>1, <1>3, <2>1, <3>1
  <2>2. CASE ~(k <= a)
    <3>1. k - a \in 1..b /\ f[k] = g[k - a] /\ k \in (a + 1)..(a + b)
      BY <1>3, <2>2
    <3> HIDE DEF f
    <3>2. x[k] = v[k - a] /\ v[k - a] = d[g[k - a]]
      BY <1>2, <1>3, <3>1
    <3> QED BY <1>2, <1>3, <2>2, <3>1, <3>2
  <2> QED BY <2>1, <2>2
<1>5. f \in [1..(a + b) -> R] /\ \A k \in 1..(a + b) : f[k] \in Int
  <2>1. \A k \in 1..(a + b) : f[k] \in R
    BY <1>4
  <2> QED BY <2>1
<1> HIDE DEF f
<1>6. ASSUME NEW j \in 1..(a + b), NEW k \in 1..(a + b), j < k
      PROVE  f[j] # f[k] /\ (o => f[j] < f[k])
  <2>1. CASE k <= a
    <3>1. j \in 1..a /\ k \in 1..a /\ f[j] = h[j] /\ f[k] = h[k]
      BY <1>3, <1>4, <1>6, <2>1
    <3>2. f[j] < f[k]
      BY <1>1, <1>3, <1>6, <3>1
    <3> QED BY <1>5, <3>2
  <2>2. CASE ~(j <= a)
    <3>1. j - a \in 1..b /\ k - a \in 1..b /\ f[j] = g[j - a] /\ f[k] = g[k - a] /\ j - a < k - a
      BY <1>3, <1>4, <1>6, <2>2
    <3>2. f[j] < f[k]
      BY <1>2, <1>3, <3>1
    <3> QED BY <1>5, <3>2
  <2>3. CASE j <= a /\ ~(k <= a)
    <3>1. f[j] \in P /\ f[k] \in Q
      BY <1>4, <2>3
    <3> QED BY <3>1
  <2> QED BY <1>3, <1>6, <2>1, <2>2, <2>3
<1>7. \A k \in 1..(a + b) : x[k] = d[f[k]]
  BY <1>4
<1>8. Traces(x, d, R, o)
  BY <1>3, <1>5, <1>6, <1>7 DEF Traces
<1>9. Inside(x, w, o)
  BY <1>3, <1>8, TracedInside
<1>10. ASSUME P \cup Q = R, NEW k \in DOMAIN w PROVE \E l \in DOMAIN x : x[l] = w[k]
  <2>1. PICK p \in R : w[k] = d[p]
    BY DEF Lists
  <2>2. CASE p \in P
    <3>1. PICK l \in DOMAIN u : h[l] = p
      BY <1>1, <2>2
    <3>2. l \in DOMAIN x /\ x[l] = u[l]
      BY <1>3
    <3> QED BY <1>1, <2>1, <3>1, <3>2
  <2>3. CASE p \in Q
    <3>1. PICK l \in DOMAIN v : g[l] = p
      BY <1>2, <2>3
    <3>2. a + l \in DOMAIN x /\ x[a + l] = v[l]
      BY <1>3
    <3> QED BY <1>2, <2>1, <3>1, <3>2
  <2> QED BY <1>10, <2>2, <2>3
<1> QED BY <1>9, <1>10 DEF Covers, x

(* One position more, behind the others: x is added at the end. *)
Grows(u, w, x) == Inside(u, Append(w, x), TRUE) /\ Covers(u, w)

(* So it is for what lists these positions. *)
LEMMA ListedMore ==
    ASSUME NEW S, NEW u \in Seq(S), NEW w \in Seq(S), NEW c, NEW d,
           NEW P \in SUBSET Int, NEW t \in Int, \A p \in P : p < t /\ c[p] = d[p],
           d[t] \in S, Lists(w, c, P), Lists(u, d, P \cup {t})
    PROVE  Grows(u, w, d[t])
<1>1. PICK g \in [DOMAIN w -> P] :
        /\ \A k \in DOMAIN w : w[k] = c[g[k]]
        /\ \A j, k \in DOMAIN w : j < k => g[j] < g[k]
        /\ \A p \in P : \E k \in DOMAIN w : g[k] = p
  BY DEF Lists
<1> DEFINE n == Len(w)
           x == Append(w, d[t])
           h == [k \in 1..(n + 1) |-> IF k <= n THEN g[k] ELSE t]
<1>2. /\ n \in Nat /\ DOMAIN w = 1..n /\ x \in Seq(S) /\ DOMAIN x = 1..(n + 1)
      /\ \A k \in 1..n : x[k] = w[k]
      /\ x[n + 1] = d[t]
  OBVIOUS
<1> HIDE DEF n, x
<1>3. ASSUME NEW k \in 1..n PROVE h[k] = g[k] /\ h[k] \in P /\ h[k] < t
  <2>1. k <= n /\ k \in 1..(n + 1) /\ k \in DOMAIN w
    BY <1>2
  <2>2. h[k] = g[k]
    BY <2>1
  <2> HIDE DEF h
  <2> QED BY <1>1, <2>1, <2>2
<1>4. h[n + 1] = t
  BY <1>2
<1>5. h \in [DOMAIN x -> P \cup {t}]
  BY <1>1, <1>2
<1> HIDE DEF h
<1>6. \A k \in 1..(n + 1) : k \in 1..n \/ k = n + 1
  BY <1>2
<1>7. ASSUME NEW k \in DOMAIN x PROVE x[k] = d[h[k]]
  <2>1. CASE k \in 1..n
    <3>1. x[k] = w[k] /\ w[k] = c[g[k]] /\ h[k] = g[k] /\ h[k] \in P
      BY <1>1, <1>2, <1>3, <2>1
    <3> QED BY <3>1
  <2>2. CASE k = n + 1
    BY <1>2, <1>4, <2>2
  <2> QED BY <1>2, <1>6, <2>1, <2>2
<1>8. ASSUME NEW j \in DOMAIN x, NEW k \in DOMAIN x, j < k PROVE h[j] < h[k]
  <2>1. j \in 1..n
    BY <1>2, <1>8
  <2>2. CASE k \in 1..n
    BY <1>1, <1>2, <1>3, <1>8, <2>1, <2>2
  <2>3. CASE k = n + 1
    BY <1>3, <1>4, <2>1, <2>3
  <2> QED BY <1>2, <1>6, <2>2, <2>3
<1>9. ASSUME NEW p \in P \cup {t} PROVE \E k \in DOMAIN x : h[k] = p
  <2>1. CASE p \in P
    <3>1. PICK k \in DOMAIN w : g[k] = p
      BY <1>1, <2>1
    <3> QED BY <1>2, <1>3, <3>1
  <2>2. CASE p = t
    BY <1>2, <1>4, <2>2
  <2> QED BY <2>1, <2>2
<1>10. Lists(x, d, P \cup {t})
  BY <1>5, <1>7, <1>8, <1>9 DEF Lists
<1>11. Inside(u, x, TRUE) /\ Covers(u, x)
  BY <1>2, <1>10, ListedInside
<1>12. Covers(u, w)
  BY <1>2, <1>11 DEF Covers
<1> QED BY <1>11, <1>12 DEF x, Grows

----------------------------------------------------------------------------
(* Tails of sequences. *)

(* What is left of s behind its first a elements. *)
Behind(s, a) == SubSeq(s, a + 1, Len(s))

(* Its elements. *)
LEMMA BehindFacts ==
    ASSUME NEW S, NEW s \in Seq(S), NEW a \in Nat
    PROVE  /\ Behind(s, a) \in Seq(S)
           /\ Len(Behind(s, a)) = IF a <= Len(s) THEN Len(s) - a ELSE 0
           /\ \A k \in 1..(Len(s) - a) : Behind(s, a)[k] = s[a + k]
<1>1. Len(s) \in Nat /\ \A k \in (a + 1)..Len(s) : s[k] \in S
  OBVIOUS
<1>2. /\ Behind(s, a) \in Seq(S)
      /\ Len(Behind(s, a)) = IF a + 1 <= Len(s) THEN Len(s) - (a + 1) + 1 ELSE 0
      /\ \A k \in 1..(Len(s) - (a + 1) + 1) : Behind(s, a)[k] = s[a + 1 + k - 1]
  BY <1>1, SubSeqProperties DEF Behind
<1> DEFINE u == Behind(s, a)
           n == Len(s)
<1> HIDE DEF u, n
<1>3. Len(u) = IF a <= n THEN n - a ELSE 0
  BY <1>1, <1>2 DEF u, n
<1>4. ASSUME NEW k \in 1..(n - a) PROVE u[k] = s[a + k]
  <2>1. k \in 1..(n - (a + 1) + 1) /\ a + 1 + k - 1 = a + k
    BY <1>1 DEF n
  <2>2. u[k] = s[a + 1 + k - 1]
    BY <1>2, <2>1 DEF u, n
  <2> QED BY <2>1, <2>2
<1> QED BY <1>2, <1>3, <1>4 DEF u, n

(* A shorter tail lies inside a longer one, and a head inside the whole. *)
LEMMA SubSeqInside ==
    ASSUME NEW S, NEW s \in Seq(S)
    PROVE  /\ \A a, b \in Nat : a <= b => Inside(Behind(s, b), Behind(s, a), TRUE)
           /\ \A m \in 0..Len(s) : /\ SubSeq(s, 1, m) \in Seq(S) /\ Len(SubSeq(s, 1, m)) = m
                                   /\ \A k \in 1..m : SubSeq(s, 1, m)[k] = s[k]
                                   /\ Inside(SubSeq(s, 1, m), s, TRUE)
<1>0. Len(s) \in Nat
  OBVIOUS
<1>1. ASSUME NEW a \in Nat, NEW b \in Nat, a <= b PROVE Inside(Behind(s, b), Behind(s, a), TRUE)
  <2> DEFINE u == Behind(s, b)
             t == Behind(s, a)
             f == [k \in DOMAIN u |-> k + b - a]
  <2>1. /\ u \in Seq(S) /\ Len(u) = (IF b <= Len(s) THEN Len(s) - b ELSE 0)
        /\ \A k \in 1..(Len(s) - b) : u[k] = s[b + k]
    BY BehindFacts
  <2>2. /\ t \in Seq(S) /\ Len(t) = (IF a <= Len(s) THEN Len(s) - a ELSE 0)
        /\ \A k \in 1..(Len(s) - a) : t[k] = s[a + k]
    BY BehindFacts
  <2> HIDE DEF u, t
  <2>3. DOMAIN u = 1..Len(u) /\ DOMAIN t = 1..Len(t)
    BY <2>1, <2>2
  <2>4. ASSUME NEW k \in DOMAIN u
        PROVE  k + b - a \in DOMAIN t /\ u[k] = t[k + b - a]
    <3>1. k \in 1..(Len(s) - b)
      BY <1>0, <2>1, <2>3
    <3>2. k + b - a \in 1..(Len(s) - a) /\ Len(t) = Len(s) - a
      BY <1>0, <1>1, <2>2, <3>1
    <3>3. u[k] = s[b + k] /\ t[k + b - a] = s[a + (k + b - a)]
      BY <2>1, <2>2, <3>1, <3>2
    <3>4. a + (k + b - a) = b + k
      BY <3>1
    <3> QED BY <2>3, <3>2, <3>3, <3>4
  <2>5. \A k \in DOMAIN u : f[k] = k + b - a
    OBVIOUS
  <2>6. f \in [DOMAIN u -> DOMAIN t]
    BY <2>4
  <2> HIDE DEF f
  <2>7. \A j, k \in DOMAIN u : j < k => f[j] # f[k] /\ (TRUE => f[j] < f[k])
    BY <2>3, <2>5
  <2>8. \A k \in DOMAIN u : u[k] = t[f[k]]
    BY <2>4, <2>5
  <2>9. Embeds(f, u, t, TRUE)
    BY <2>6, <2>7, <2>8 DEF Embeds
  <2> QED BY <2>9 DEF Inside, u, t
<1>2. ASSUME NEW m \in 0..Len(s)
      PROVE  /\ SubSeq(s, 1, m) \in Seq(S) /\ Len(SubSeq(s, 1, m)) = m
             /\ \A k \in 1..m : SubSeq(s, 1, m)[k] = s[k]
             /\ Inside(SubSeq(s, 1, m), s, TRUE)
  <2> DEFINE u == SubSeq(s, 1, m)
             f == [k \in DOMAIN u |-> k]
  <2>1. \A k \in 1..m : s[k] \in S
    OBVIOUS
  <2>2. /\ u \in Seq(S) /\ Len(u) = (IF 1 <= m THEN m - 1 + 1 ELSE 0)
        /\ \A k \in 1..(m - 1 + 1) : u[k] = s[1 + k - 1]
    BY <2>1, SubSeqProperties
  <2> HIDE DEF u
  <2>3. Len(u) = m /\ DOMAIN u = 1..m /\ DOMAIN u \subseteq DOMAIN s
    BY <1>0, <2>2
  <2>4. ASSUME NEW k \in 1..m PROVE u[k] = s[k]
    <3>1. k \in 1..(m - 1 + 1) /\ 1 + k - 1 = k
      OBVIOUS
    <3> QED BY <2>2, <3>1
  <2>5. f \in [DOMAIN u -> DOMAIN s] /\ \A k \in DOMAIN u : f[k] = k
    BY <2>3
  <2> HIDE DEF f
  <2>6. Embeds(f, u, s, TRUE)
    BY <2>3, <2>4, <2>5 DEF Embeds
  <2> QED BY <2>2, <2>3, <2>4, <2>6 DEF Inside, u
<1> QED BY <1>1, <1>2

(* The tail of a sequence that got longer, and a tail cut in two. *)
LEMMA BehindConcat ==
    ASSUME NEW S, NEW s \in Seq(S), NEW t \in Seq(S), NEW a \in 0..Len(s)
    PROVE  /\ Behind(s \o t, a) = Behind(s, a) \o t
           /\ \A b \in a..Len(s) : /\ SubSeq(s, a + 1, b) \in Seq(S)
                                   /\ SubSeq(s, a + 1, b) \o Behind(s, b) = Behind(s, a)
<1>0. /\ Len(s) \in Nat /\ Len(t) \in Nat /\ a \in Nat /\ s \o t \in Seq(S)
      /\ Len(s \o t) = Len(s) + Len(t)
  OBVIOUS
<1>1. Behind(s \o t, a) = Behind(s, a) \o t
  <2> DEFINE u == Behind(s \o t, a)
             v == Behind(s, a)
             w == v \o t
             r == s \o t
  <2>0. r \in Seq(S) /\ a \in Nat /\ a <= Len(s) /\ a <= Len(r) /\ Len(r) = Len(s) + Len(t)
    BY <1>0
  <2> HIDE DEF r
  <2>1. /\ u \in Seq(S) /\ Len(u) = Len(r) - a
        /\ \A k \in 1..(Len(r) - a) : u[k] = r[a + k]
    <3>1. u = Behind(r, a)
      BY DEF r
    <3> QED BY <2>0, <3>1, BehindFacts
  <2>2. /\ v \in Seq(S) /\ Len(v) = Len(s) - a
        /\ \A k \in 1..(Len(s) - a) : v[k] = s[a + k]
    BY <2>0, BehindFacts
  <2> HIDE DEF u, v
  <2>3. /\ w \in Seq(S) /\ Len(w) = Len(v) + Len(t)
        /\ \A k \in 1..Len(v) : w[k] = v[k]
        /\ \A k \in (Len(v) + 1)..(Len(v) + Len(t)) : w[k] = t[k - Len(v)]
    <3>1. v \in Seq(S) /\ t \in Seq(S)
      BY <2>2
    <3> QED BY <3>1, ConcatFacts
  <2>4. /\ \A k \in 1..Len(s) : r[k] = s[k]
        /\ \A k \in (Len(s) + 1)..(Len(s) + Len(t)) : r[k] = t[k - Len(s)]
    BY ConcatFacts DEF r
  <2>5. Len(r) = Len(s) + Len(t)
    BY <2>0
  <2> HIDE DEF w
  <2>6. ASSUME NEW k \in 1..Len(u) PROVE u[k] = w[k]
    <3>1. k \in 1..(Len(r) - a) /\ u[k] = r[a + k]
      BY <1>0, <2>1, <2>5
    <3>2. CASE k <= Len(s) - a
      <4>1. k \in 1..(Len(s) - a) /\ a + k \in 1..Len(s) /\ k \in 1..Len(v)
        BY <1>0, <2>2, <3>1, <3>2
      <4> QED BY <2>2, <2>3, <2>4, <3>1, <4>1
    <3>3. CASE ~(k <= Len(s) - a)
      <4>1. /\ a + k \in (Len(s) + 1)..(Len(s) + Len(t))
            /\ k \in (Len(v) + 1)..(Len(v) + Len(t))
            /\ a + k - Len(s) = k - Len(v)
        BY <1>0, <2>2, <2>5, <3>1, <3>3
      <4>2. r[a + k] = t[a + k - Len(s)] /\ w[k] = t[k - Len(v)]
        BY <2>3, <2>4, <4>1
      <4> QED BY <3>1, <4>1, <4>2
    <3> QED BY <3>2, <3>3
  <2>7. Len(u) = Len(w)
    BY <1>0, <2>0, <2>1, <2>2, <2>3
  <2>8. u = w
    BY <2>1, <2>3, <2>6, <2>7, SeqEqual
  <2> QED BY <2>8 DEF u, v, w, r
<1>2. ASSUME NEW b \in a..Len(s)
      PROVE  /\ SubSeq(s, a + 1, b) \in Seq(S)
             /\ SubSeq(s, a + 1, b) \o Behind(s, b) = Behind(s, a)
  <2>1. a + 1 \in 1..(Len(s) + 1) /\ b \in (a + 1) - 1..Len(s) /\ Len(s) \in b..Len(s)
    BY <1>0
  <2>2. \A k \in (a + 1)..b : s[k] \in S
    BY <1>0
  <2>3. SubSeq(s, a + 1, b) \in Seq(S)
    BY <1>0, <2>2, SubSeqProperties
  <2>4. SubSeq(s, a + 1, b) \o SubSeq(s, b + 1, Len(s)) = SubSeq(s, a + 1, Len(s))
    BY <2>1, ConcatAdjacentSubSeq
  <2> QED BY <2>3, <2>4 DEF Behind
<1> QED BY <1>1, <1>2

-----------------------------------------------------------------------------
(* Tables: rows in the order of their ids.                                 *)

(* A table whose row ids order it. *)
Listed(rows) == rows \in Seq(Range(rows))

(* A list of none. *)
LEMMA NoRow == Listed(<<>>) /\ Range(<<>>) = {} /\ Len(<<>>) = 0
  BY DEF Listed, Range

(* A list of one row. *)
LEMMA OneRow == ASSUME NEW e PROVE Listed(<<e>>) /\ Range(<<e>>) = {e} /\ <<e>> # <<>>
<1>1. Range(<<e>>) = {e}
  BY DEF Range
<1> QED BY <1>1 DEF Listed

(* A selection of the rows of a table. *)
LEMMA PickRows ==
    ASSUME NEW q, Listed(q), NEW K \in SUBSET DOMAIN q
    PROVE  Listed(Pick(q, K)) /\ Range(Pick(q, K)) = {q[k] : k \in K}
<1>1. Len(q) \in Nat /\ DOMAIN q = 1..Len(q)
  BY DEF Listed
<1>2. Enumerated(K)
  BY <1>1, PlaceFacts
<1>3. /\ DOMAIN Pick(q, K) = 1..Cardinality(K)
      /\ \A m \in 1..Cardinality(K) : Pick(q, K)[m] = q[Place(K, m)]
      /\ Pick(q, K) \in Seq({q[k] : k \in K})
  BY <1>2, PickFacts
<1>4. /\ \A m \in 1..Cardinality(K) : Place(K, m) \in K
      /\ \A k \in K : \E m \in 1..Cardinality(K) : Place(K, m) = k
  BY <1>2 DEF Enumerated
<1>5. Range(Pick(q, K)) = {q[k] : k \in K}
  BY <1>3, <1>4 DEF Range
<1> QED BY <1>3, <1>5 DEF Listed

(* A table with more rows behind. *)
LEMMA ConcatRows ==
    ASSUME NEW q, Listed(q), NEW p, Listed(p)
    PROVE  Listed(q \o p) /\ Range(q \o p) = Range(q) \cup Range(p)
<1> DEFINE S == Range(q) \cup Range(p)
<1>1. q \in Seq(S) /\ p \in Seq(S)
  BY DEF Listed
<1>2. /\ q \o p \in Seq(S) /\ DOMAIN (q \o p) = 1..(Len(q) + Len(p))
      /\ Len(q) \in Nat /\ Len(p) \in Nat
      /\ DOMAIN q = 1..Len(q) /\ DOMAIN p = 1..Len(p)
      /\ \A k \in 1..Len(q) : (q \o p)[k] = q[k]
      /\ \A k \in 1..Len(p) : (q \o p)[Len(q) + k] = p[k]
  BY <1>1, ConcatFacts
<1>3. Range(q \o p) \subseteq S
  BY <1>2 DEF Range
<1>4. Range(q) \subseteq Range(q \o p)
  <2>1. \A k \in 1..Len(q) : k \in DOMAIN (q \o p)
    BY <1>2
  <2> QED BY <2>1, <1>2 DEF Range
<1>5. Range(p) \subseteq Range(q \o p)
  <2>1. \A k \in 1..Len(p) : Len(q) + k \in DOMAIN (q \o p)
    BY <1>2
  <2> QED BY <2>1, <1>2 DEF Range
<1>6. Range(q \o p) = S
  BY <1>3, <1>4, <1>5
<1> QED BY <1>2, <1>6 DEF Listed

(* Rows behind rows, by position. *)
LEMMA ConcatList ==
    ASSUME NEW q, Listed(q), NEW p, Listed(p)
    PROVE  /\ Listed(q \o p) /\ Len(q \o p) = Len(q) + Len(p)
           /\ Len(q) \in Nat /\ Len(p) \in Nat
           /\ DOMAIN q = 1..Len(q) /\ DOMAIN p = 1..Len(p)
           /\ DOMAIN (q \o p) = 1..(Len(q) + Len(p))
           /\ \A k \in 1..Len(q) : (q \o p)[k] = q[k]
           /\ \A k \in (Len(q) + 1)..(Len(q) + Len(p)) : (q \o p)[k] = p[k - Len(q)]
<1> DEFINE S == Range(q) \cup Range(p)
<1>1. q \in Seq(S) /\ p \in Seq(S)
  BY DEF Listed
<1>2. Listed(q \o p)
  BY ConcatRows
<1> HIDE DEF S
<1> QED BY <1>1, <1>2, ConcatFacts

(* A table built row by row from another. *)
LEMMA MappedRows ==
    ASSUME NEW q, NEW n \in Nat, q = [x \in 1..n |-> q[x]]
    PROVE  Listed(q)
  BY DEF Listed, Range

(* A table and a row behind. *)
LEMMA AppendRow ==
    ASSUME NEW q, Listed(q), NEW r
    PROVE  Listed(Append(q, r)) /\ Range(Append(q, r)) = Range(q) \cup {r}
<1> DEFINE S == Range(q) \cup {r}
<1>1. q \in Seq(S) /\ r \in S
  BY DEF Listed
<1>2. /\ Append(q, r) \in Seq(S) /\ DOMAIN Append(q, r) = 1..(Len(q) + 1)
      /\ Len(q) \in Nat /\ DOMAIN q = 1..Len(q)
      /\ \A k \in 1..Len(q) : Append(q, r)[k] = q[k]
      /\ Append(q, r)[Len(q) + 1] = r
  BY <1>1
<1>3. Range(Append(q, r)) \subseteq S
  BY <1>2 DEF Range
<1>4. S \subseteq Range(Append(q, r))
  <2>1. \A k \in 1..Len(q) : k \in DOMAIN Append(q, r)
    BY <1>2
  <2>2. Len(q) + 1 \in DOMAIN Append(q, r)
    BY <1>2
  <2> QED BY <2>1, <2>2, <1>2 DEF Range
<1>5. Range(Append(q, r)) = S
  BY <1>3, <1>4
<1> QED BY <1>2, <1>5 DEF Listed

(* A set of positions that is not empty has a first one. *)
LEMMA FirstExists ==
    ASSUME NEW b \in Nat, NEW K \in SUBSET (1..b), K # {}
    PROVE  \E m \in K : \A n \in K : m <= n
<1>1. Enumerated(K)
  BY PlaceFacts
<1>2. Cardinality(K) \in Nat /\ Cardinality(K) # 0
  <2>1. PICK k \in K : TRUE
    OBVIOUS
  <2>2. PICK n \in 1..Cardinality(K) : Place(K, n) = k
    BY <1>1, <2>1 DEF Enumerated
  <2>3. Cardinality(K) \in Nat
    BY <1>1 DEF Enumerated
  <2> QED BY <2>2, <2>3
<1>3. 1 \in 1..Cardinality(K)
  BY <1>2
<1>4. Place(K, 1) \in K
  BY <1>1, <1>3 DEF Enumerated
<1>5. \A n \in K : Place(K, 1) <= n
  <2> TAKE n \in K
  <2>1. PICK m \in 1..Cardinality(K) : Place(K, m) = n
    BY <1>1 DEF Enumerated
  <2>2. m = 1 \/ Place(K, 1) < Place(K, m)
    BY <1>1, <1>3 DEF Enumerated
  <2>3. Place(K, 1) \in Nat /\ n \in Nat
    <3>1. \A k \in K : k \in Nat
      OBVIOUS
    <3> QED BY <3>1, <1>4
  <2> QED BY <2>1, <2>2, <2>3
<1> QED BY <1>4, <1>5

(* A set of positions that is not empty has a last one. *)
LEMMA LastExists ==
    ASSUME NEW b \in Nat, NEW K \in SUBSET (1..b), K # {}
    PROVE  \E m \in K : \A n \in K : n <= m
<1>1. Enumerated(K)
  BY PlaceFacts
<1> DEFINE c == Cardinality(K)
<1>2. c \in Nat /\ c # 0
  <2>1. PICK k \in K : TRUE
    OBVIOUS
  <2>2. PICK n \in 1..c : Place(K, n) = k
    BY <1>1, <2>1 DEF Enumerated
  <2>3. c \in Nat
    BY <1>1 DEF Enumerated
  <2> QED BY <2>2, <2>3
<1>3. c \in 1..c
  BY <1>2
<1>4. Place(K, c) \in K
  BY <1>1, <1>3 DEF Enumerated
<1>5. \A n \in K : n <= Place(K, c)
  <2> TAKE n \in K
  <2>1. PICK m \in 1..c : Place(K, m) = n
    BY <1>1 DEF Enumerated
  <2>2. m = c \/ Place(K, m) < Place(K, c)
    BY <1>1, <1>2, <1>3 DEF Enumerated
  <2>3. Place(K, c) \in Nat /\ n \in Nat
    <3>1. \A k \in K : k \in Nat
      OBVIOUS
    <3> QED BY <3>1, <1>4
  <2> QED BY <2>1, <2>2, <2>3
<1> QED BY <1>4, <1>5

(* What holds of 0 and of the next number holds up to any bound. *)
LEMMA CountUp ==
    ASSUME NEW l \in Nat, NEW T, 0 \in T, \A n \in 0..(l - 1) : n \in T => n + 1 \in T
    PROVE  \A n \in 0..l : n \in T
<1> DEFINE K == {n \in 1..l : n \notin T}
<1> SUFFICES ASSUME K # {} PROVE FALSE
  OBVIOUS
<1>1. K \in SUBSET (1..l)
  OBVIOUS
<1>2. PICK m \in K : \A n \in K : m <= n
  <2> HIDE DEF K
  <2> QED BY <1>1, FirstExists
<1>3. m \in 1..l /\ m \notin T
  OBVIOUS
<1>4. m - 1 \in 0..(l - 1)
  BY <1>3
<1>5. m - 1 \notin K
  BY <1>2, <1>3
<1>6. m - 1 \in T
  BY <1>3, <1>4, <1>5
<1>7. (m - 1) + 1 \in T
  BY <1>4, <1>6
<1> QED BY <1>3, <1>7
=============================================================================
