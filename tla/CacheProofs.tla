----------------------------- MODULE CacheProofs -----------------------------
(***************************************************************************)
(* The cache's structures stay consistent, its eviction loop ends and      *)
(* takes the oldest entries, and hits are current, for every set of keys,  *)
(* hash function, body sizes, budget and clock.                            *)
(***************************************************************************)
EXTENDS Cache, Integers, TLAPS, WellFoundedInduction

-----------------------------------------------------------------------------
(* Induction, for a set of naturals.                                       *)

LEMMA Induct ==
    ASSUME NEW T \in SUBSET Nat, 0 \in T, \A n \in T : n + 1 \in T
    PROVE  T = Nat
<1> DEFINE Below == {z \in Nat \X Nat : z[1] < z[2]}
<1>1. SUFFICES ASSUME Nat \ T # {}
               PROVE  FALSE
    OBVIOUS
<1>2. IsWellFoundedOn(Below, Nat)
    BY NatLessThanWellFounded DEF OpToRel
<1>3. PICK x \in Nat \ T : \A y \in Nat \ T : ~(<<y, x>> \in Below)
    BY <1>1, <1>2, WFMin
<1>4. x - 1 \in Nat /\ x - 1 \in Nat \ T
    BY <1>3
<1>5. <<x - 1, x>> \in Below
    BY <1>4
<1>6. QED  BY <1>3, <1>4, <1>5

-----------------------------------------------------------------------------
(* Removing an element from a list that holds each element once.           *)

\* Every element but the i-th, in their order.
OneLess(w, s, i) ==
    /\ Len(w) = Len(s) - 1
    /\ \A j \in 1..(Len(s) - 1) : w[j] = IF j < i THEN s[j] ELSE s[j + 1]

LEMMA WithoutSeq ==
    ASSUME NEW S, NEW s \in Seq(S), IsInjective(s), NEW i \in DOMAIN s
    PROVE  Without(s, s[i]) \in Seq(S) /\ OneLess(Without(s, s[i]), s, i)
<1>1. Len(s) \in Nat /\ DOMAIN s = 1..Len(s) /\ i \in 1..Len(s)
    OBVIOUS
<1>2. Position(s[i], s) = i
    BY DEF Position, IsInjective
<1> DEFINE a == SubSeq(s, 1, i - 1)
           b == SubSeq(s, i + 1, Len(s))
<1>3. a \in Seq(S) /\ Len(a) = i - 1 /\ \A j \in 1..(i - 1) : a[j] = s[j]
    BY <1>1
<1>4. b \in Seq(S) /\ Len(b) = Len(s) - i /\ \A j \in 1..(Len(s) - i) : b[j] = s[i + j]
    BY <1>1
<1>5. Without(s, s[i]) = a \o b
    BY <1>2 DEF Without, RemoveAt
<1> HIDE DEF a, b
<1>6. a \o b \in Seq(S) /\ Len(a \o b) = Len(s) - 1
  <2>1. a \in Seq(S) /\ b \in Seq(S)
      BY <1>3, <1>4
  <2>3. a \o b \in Seq(S)
      BY <2>1
  <2>4. Len(a \o b) = Len(a) + Len(b)
      BY <2>1
  <2>2. QED  BY <1>1, <1>3, <1>4, <2>3, <2>4
<1>7. ASSUME NEW j \in 1..(Len(s) - 1)
      PROVE  (a \o b)[j] = IF j < i THEN s[j] ELSE s[j + 1]
  <2>1. CASE j < i
      BY <1>1, <1>3, <1>4, <2>1
  <2>2. CASE ~(j < i)
    <3>1. j - (i - 1) \in 1..(Len(s) - i) /\ j > i - 1 /\ j <= Len(s) - 1 /\ Len(s) - 1 = (i - 1) + (Len(s) - i)
        BY <1>1, <2>2
    <3>4. (a \o b)[j] = b[j - (i - 1)]
      <4>1. j > Len(a) /\ j <= Len(a) + Len(b) /\ j \in Int
          BY <1>3, <1>4, <3>1
      <4>2. (a \o b)[j] = b[j - Len(a)]
        <5>1. a \in Seq(S) /\ b \in Seq(S)
            BY <1>3, <1>4
        <5>2. QED  BY <4>1, <5>1
      <4>3. QED  BY <1>3, <4>2
    <3>2. i + (j - (i - 1)) = j + 1
        BY <1>1
    <3>3. QED  BY <1>4, <2>2, <3>1, <3>2, <3>4
  <2>3. QED  BY <2>1, <2>2
<1>8. QED  BY <1>5, <1>6, <1>7 DEF OneLess

\* The elements of l come in this order in s.
Ordered(l, s) ==
    \A a, b \in DOMAIN l : (a < b) =>
        \E c, d \in DOMAIN s : c < d /\ l[a] = s[c] /\ l[b] = s[d]

LEMMA WithoutElement ==
    ASSUME NEW S, NEW s \in Seq(S), IsInjective(s), NEW k \in ToSet(s)
    PROVE  /\ Without(s, k) \in Seq(S) /\ IsInjective(Without(s, k))
           /\ ToSet(Without(s, k)) = ToSet(s) \ {k}
           /\ Ordered(Without(s, k), s)
<1>1. PICK i \in DOMAIN s : k = s[i]
    BY DEF ToSet
<1> DEFINE w == Without(s, k)
<1>2. w \in Seq(S) /\ OneLess(w, s, i)
    BY <1>1, WithoutSeq
<1> HIDE DEF w
<1>3. Len(s) \in Nat /\ DOMAIN s = 1..Len(s) /\ i \in 1..Len(s) /\ DOMAIN w = 1..(Len(s) - 1)
    BY <1>2 DEF OneLess
<1>4. \A j \in DOMAIN w : w[j] = IF j < i THEN s[j] ELSE s[j + 1]
    BY <1>2, <1>3 DEF OneLess
<1>5. \A a, b \in DOMAIN s : s[a] = s[b] => a = b
    BY DEF IsInjective
<1>6. IsInjective(w)
  <2>1. ASSUME NEW a \in DOMAIN w, NEW b \in DOMAIN w, w[a] = w[b]
        PROVE  a = b
    <3>1. /\ a \in DOMAIN s /\ a + 1 \in DOMAIN s /\ b \in DOMAIN s /\ b + 1 \in DOMAIN s
          /\ a \in Int /\ b \in Int /\ i \in Int
        BY <1>3
    <3>2. QED  BY <1>4, <1>5, <2>1, <3>1
  <2>2. QED  BY <2>1 DEF IsInjective
<1>7. ToSet(w) = ToSet(s) \ {k}
  <2>1. ASSUME NEW j \in DOMAIN w
        PROVE  w[j] \in ToSet(s) \ {k}
    <3>1. j \in DOMAIN s /\ j + 1 \in DOMAIN s /\ j \in Int /\ i \in Int
        BY <1>3
    <3>2. CASE j < i
        BY <1>1, <1>4, <1>5, <3>1, <3>2 DEF ToSet
    <3>3. CASE ~(j < i)
      <4>1. w[j] = s[j + 1] /\ j + 1 # i
          BY <1>4, <3>1, <3>3
      <4>2. QED  BY <1>1, <1>5, <3>1, <4>1 DEF ToSet
    <3>4. QED  BY <3>2, <3>3
  <2>2. ASSUME NEW j \in DOMAIN s, s[j] # k
        PROVE  s[j] \in ToSet(w)
    <3>1. j \in Int /\ i \in Int /\ j # i
        BY <1>1, <1>3, <2>2
    <3>2. CASE j < i
      <4>1. j \in DOMAIN w /\ w[j] = s[j]
          BY <1>3, <1>4, <3>2
      <4>2. QED  BY <4>1 DEF ToSet
    <3>3. CASE ~(j < i)
      <4>1. j - 1 \in DOMAIN w /\ ~(j - 1 < i) /\ (j - 1) + 1 = j
          BY <1>3, <3>1, <3>3
      <4>2. w[j - 1] = s[j]
          BY <1>4, <4>1
      <4>3. QED  BY <4>1, <4>2 DEF ToSet
    <3>4. QED  BY <3>2, <3>3
  <2>3. QED  BY <2>1, <2>2 DEF ToSet
<1>8. Ordered(w, s)
  <2>1. ASSUME NEW a \in DOMAIN w, NEW b \in DOMAIN w, a < b
        PROVE  \E c, d \in DOMAIN s : c < d /\ w[a] = s[c] /\ w[b] = s[d]
    <3> DEFINE At(j) == IF j < i THEN j ELSE j + 1
    <3>1. At(a) \in DOMAIN s /\ At(b) \in DOMAIN s /\ At(a) < At(b)
        BY <1>3, <2>1
    <3>2. w[a] = s[At(a)] /\ w[b] = s[At(b)]
        BY <1>4
    <3>3. QED  BY <3>1, <3>2
  <2>2. QED  BY <2>1 DEF Ordered
<1>9. QED  BY <1>2, <1>6, <1>7, <1>8 DEF w

-----------------------------------------------------------------------------
(* The byte count.                                                         *)

\* A list of keys each of which has an entry with a size.
Sized(l, e) == l \in Seq(Keys) /\ \A n \in DOMAIN l : e[l[n]].size \in Nat

\* The entry for n of the table of sums t.
SumRow(l, e, t, n) == IF n = 0 THEN 0 ELSE t[n - 1] + e[l[n]].size

LEMMA SumExists ==
    ASSUME NEW l, NEW e, Len(l) \in Nat
    PROVE  \E t : t = [n \in 0..Len(l) |-> SumRow(l, e, t, n)]
<1> DEFINE D == 0..Len(l)
           Good(k) == \E t : t = [n \in D |-> t[n]] /\ \A n \in D : n <= k => t[n] = SumRow(l, e, t, n)
           T == {k \in Nat : Good(k)}
<1>1. 0 \in T
  <2> DEFINE t == [n \in D |-> 0]
  <2>1. t = [n \in D |-> t[n]] /\ \A n \in D : n <= 0 => t[n] = SumRow(l, e, t, n)
      BY DEF SumRow
  <2> HIDE DEF t
  <2>2. QED  BY <2>1
<1>2. ASSUME NEW k \in T
      PROVE  k + 1 \in T
  <2>1. PICK t : t = [n \in D |-> t[n]] /\ \A n \in D : n <= k => t[n] = SumRow(l, e, t, n)
      BY <1>2
  <2> DEFINE u == [n \in D |-> IF n = k + 1 THEN SumRow(l, e, t, n) ELSE t[n]]
  <2>2. u = [n \in D |-> u[n]]
      OBVIOUS
  <2>3. ASSUME NEW n \in D, n <= k + 1
        PROVE  u[n] = SumRow(l, e, u, n)
    <3>1. SumRow(l, e, u, n) = SumRow(l, e, t, n)
      <4>1. CASE n = 0
          BY <4>1 DEF SumRow
      <4>2. CASE n # 0
        <5>1. n - 1 \in D /\ n - 1 # k + 1
            BY <2>3, <4>2
        <5>2. u[n - 1] = t[n - 1]
            BY <5>1
        <5>3. QED  BY <5>2 DEF SumRow
      <4>3. QED  BY <4>1, <4>2
    <3>2. CASE n = k + 1
        BY <3>1, <3>2
    <3>3. CASE n # k + 1
      <4>1. n <= k
          BY <2>3, <3>3
      <4>2. QED  BY <2>1, <3>1, <3>3, <4>1
    <3>4. QED  BY <3>2, <3>3
  <2> HIDE DEF u, D
  <2>4. Good(k + 1)
      BY <2>2, <2>3
  <2>5. QED  BY <2>4
<1>3. T = Nat
  <2>1. T \in SUBSET Nat
      OBVIOUS
  <2> HIDE DEF T
  <2>2. QED  BY <1>1, <1>2, <2>1, Induct
<1>4. Good(Len(l))
  <2> HIDE DEF Good
  <2>1. QED  BY <1>3
<1>5. PICK t : t = [n \in D |-> t[n]] /\ \A n \in D : n <= Len(l) => t[n] = SumRow(l, e, t, n)
    BY <1>4
<1>6. t = [n \in D |-> SumRow(l, e, t, n)]
    BY <1>5
<1>7. QED  BY <1>6

\* The sum over a list grows by one entry at a time.
LEMMA SumSteps ==
    ASSUME NEW l, NEW e, Sized(l, e)
    PROVE  /\ SizeUpTo(l, e)[0] = 0
           /\ \A n \in 0..Len(l) : SizeUpTo(l, e)[n] \in Nat
           /\ \A n \in DOMAIN l : SizeUpTo(l, e)[n] = SizeUpTo(l, e)[n - 1] + e[l[n]].size
<1> DEFINE f == SizeUpTo(l, e)
<1>1. Len(l) \in Nat /\ DOMAIN l = 1..Len(l)
    BY DEF Sized
<1>2. f = CHOOSE t : t = [n \in 0..Len(l) |-> SumRow(l, e, t, n)]
    BY DEF SizeUpTo, SumRow
<1>3. f = [n \in 0..Len(l) |-> SumRow(l, e, f, n)]
    BY <1>1, <1>2, SumExists
<1> HIDE DEF f
<1>4. f[0] = 0
  <2>1. 0 \in 0..Len(l)
      BY <1>1
  <2>2. f[0] = SumRow(l, e, f, 0)
      BY <1>3, <2>1
  <2>3. QED  BY <2>2 DEF SumRow
<1>5. ASSUME NEW n \in DOMAIN l
      PROVE  f[n] = f[n - 1] + e[l[n]].size
  <2>1. n \in 0..Len(l) /\ n # 0
      BY <1>1
  <2>2. f[n] = SumRow(l, e, f, n)
      BY <1>3, <2>1
  <2>3. QED  BY <2>1, <2>2 DEF SumRow
<1>6. \A n \in 0..Len(l) : f[n] \in Nat
  <2> DEFINE T == {n \in Nat : n <= Len(l) => f[n] \in Nat}
  <2>1. T \in SUBSET Nat /\ 0 \in T
      BY <1>4
  <2>2. ASSUME NEW n \in T
        PROVE  n + 1 \in T
    <3>1. ASSUME n + 1 <= Len(l)
          PROVE  f[n + 1] \in Nat
      <4>1. n + 1 \in DOMAIN l /\ (n + 1) - 1 = n /\ n <= Len(l)
          BY <1>1, <3>1
      <4>2. f[n + 1] = f[n] + e[l[n + 1]].size
          BY <1>5, <4>1
      <4>3. e[l[n + 1]].size \in Nat /\ f[n] \in Nat
          BY <2>2, <4>1 DEF Sized
      <4>4. QED  BY <4>2, <4>3
    <3>2. QED  BY <3>1
  <2> HIDE DEF T
  <2>3. T = Nat
      BY <2>1, <2>2, Induct
  <2>4. QED  BY <1>1, <2>3 DEF T
<1>7. QED  BY <1>4, <1>5, <1>6 DEF f

\* The sum over the whole list.
Bytes(l, e) == SizeUpTo(l, e)[Len(l)]

\* Two lists that begin with n entries of the same sizes.
LEMMA SumSame ==
    ASSUME NEW l, NEW e, Sized(l, e), NEW m, NEW f, Sized(m, f), NEW k \in Nat, k <= Len(l), k <= Len(m),
           \A n \in 1..k : f[m[n]].size = e[l[n]].size
    PROVE  SizeUpTo(m, f)[k] = SizeUpTo(l, e)[k]
<1> DEFINE T == {n \in Nat : n <= k => SizeUpTo(m, f)[n] = SizeUpTo(l, e)[n]}
<1>0. Len(l) \in Nat /\ DOMAIN l = 1..Len(l) /\ Len(m) \in Nat /\ DOMAIN m = 1..Len(m)
    BY DEF Sized
<1>1. T \in SUBSET Nat /\ 0 \in T
    BY SumSteps
<1>2. ASSUME NEW n \in T
      PROVE  n + 1 \in T
  <2>1. ASSUME n + 1 <= k
        PROVE  SizeUpTo(m, f)[n + 1] = SizeUpTo(l, e)[n + 1]
    <3>1. n + 1 \in DOMAIN l /\ n + 1 \in DOMAIN m /\ (n + 1) - 1 = n /\ n <= k /\ n + 1 \in 1..k
        BY <1>0, <2>1
    <3>2. SizeUpTo(m, f)[n + 1] = SizeUpTo(m, f)[n] + f[m[n + 1]].size
        BY <3>1, SumSteps
    <3>3. SizeUpTo(l, e)[n + 1] = SizeUpTo(l, e)[n] + e[l[n + 1]].size
        BY <3>1, SumSteps
    <3>4. SizeUpTo(m, f)[n] = SizeUpTo(l, e)[n]
        BY <1>2, <3>1
    <3>5. QED  BY <3>1, <3>2, <3>3, <3>4
  <2>2. QED  BY <2>1
<1> HIDE DEF T
<1>3. T = Nat
    BY <1>1, <1>2, Induct
<1>4. QED  BY <1>3 DEF T

\* An entry that leaves the list takes its size from the sum.
LEMMA SumWithout ==
    ASSUME NEW l, NEW e, Sized(l, e), NEW w, NEW f, Sized(w, f), NEW i \in DOMAIN l, OneLess(w, l, i),
           \A n \in DOMAIN l : (n # i) => (f[l[n]] = e[l[n]])
    PROVE  Bytes(w, f) = Bytes(l, e) - e[l[i]].size
<1> DEFINE F(n) == SizeUpTo(l, e)[n]
           G(n) == SizeUpTo(w, f)[n]
           x == e[l[i]].size
           T == {n \in Nat : n <= Len(w) => G(n) = IF n < i THEN F(n) ELSE F(n + 1) - x}
<1>1. /\ Len(l) \in Nat /\ DOMAIN l = 1..Len(l) /\ i \in 1..Len(l) /\ DOMAIN w = 1..Len(w)
      /\ Len(w) = Len(l) - 1 /\ \A j \in DOMAIN w : w[j] = IF j < i THEN l[j] ELSE l[j + 1]
    BY DEF Sized, OneLess
<1>2. /\ F(0) = 0 /\ G(0) = 0
      /\ \A n \in 0..Len(l) : F(n) \in Nat
      /\ \A n \in DOMAIN l : F(n) = F(n - 1) + e[l[n]].size
      /\ \A n \in DOMAIN w : G(n) = G(n - 1) + f[w[n]].size
    BY SumSteps
<1>3. x \in Nat
    BY DEF Sized
<1>4. \A n \in DOMAIN l : e[l[n]].size \in Nat
    BY DEF Sized
<1> HIDE DEF F, G, x
<1>5. 0 \in T
  <2>1. i \in Nat /\ 0 < i
      BY <1>1
  <2>2. QED  BY <1>2, <2>1
<1>6. ASSUME NEW n \in T
      PROVE  n + 1 \in T
  <2>1. ASSUME n + 1 <= Len(w)
        PROVE  G(n + 1) = IF n + 1 < i THEN F(n + 1) ELSE F((n + 1) + 1) - x
    <3>1. /\ n \in Nat /\ i \in Nat /\ n <= Len(w) /\ n + 1 \in DOMAIN w /\ (n + 1) - 1 = n
          /\ n + 1 \in DOMAIN l /\ n + 2 \in DOMAIN l /\ (n + 2) - 1 = n + 1 /\ (n + 1) + 1 = n + 2
          /\ n \in 0..Len(l) /\ n + 1 \in 0..Len(l) /\ n + 2 \in 0..Len(l)
        BY <1>1, <2>1
    <3>2. G(n + 1) = G(n) + f[w[n + 1]].size
      <4>1. G(n + 1) = G((n + 1) - 1) + f[w[n + 1]].size
          BY <1>2, <3>1
      <4>2. QED  BY <3>1, <4>1
    <3>3. G(n) = IF n < i THEN F(n) ELSE F(n + 1) - x
        BY <1>6, <3>1
    <3>4. F(n + 1) = F(n) + e[l[n + 1]].size
      <4>1. F(n + 1) = F((n + 1) - 1) + e[l[n + 1]].size
          BY <1>2, <3>1
      <4>2. QED  BY <3>1, <4>1
    <3>5. F(n + 2) = F(n + 1) + e[l[n + 2]].size
      <4>1. F(n + 2) = F((n + 2) - 1) + e[l[n + 2]].size
          BY <1>2, <3>1
      <4>2. QED  BY <3>1, <4>1
    <3>6. F(n) \in Nat /\ F(n + 1) \in Nat /\ F(n + 2) \in Nat
        BY <1>2, <3>1
    <3>7. CASE n + 1 < i
      <4>1. w[n + 1] = l[n + 1] /\ n < i /\ n + 1 # i
          BY <1>1, <3>1, <3>7
      <4>2. f[w[n + 1]].size = e[l[n + 1]].size
          BY <3>1, <4>1
      <4>3. G(n + 1) = F(n + 1)
          BY <3>2, <3>3, <3>4, <4>1, <4>2
      <4>4. QED  BY <3>7, <4>3
    <3>8. CASE ~(n + 1 < i)
      <4>1. w[n + 1] = l[(n + 1) + 1]
          BY <1>1, <3>1, <3>8
      <4>2. w[n + 1] = l[n + 2] /\ n + 2 # i
          BY <3>1, <3>8, <4>1
      <4>3. f[w[n + 1]].size = e[l[n + 2]].size
          BY <3>1, <4>2
      <4>4. G(n) = F(n + 1) - x
        <5>1. CASE n < i
          <6>1. n + 1 = i
              BY <3>1, <3>8, <5>1
          <6>2. F(n + 1) = F(n) + x
              BY <3>4, <6>1 DEF x
          <6>3. QED  BY <1>3, <3>3, <3>6, <5>1, <6>2
        <5>2. CASE ~(n < i)
            BY <3>3, <5>2
        <5>3. QED  BY <5>1, <5>2
      <4>5. e[l[n + 2]].size \in Nat
          BY <1>4, <3>1
      <4>6. G(n + 1) = F(n + 2) - x
        <5>1. G(n + 1) = (F(n + 1) - x) + e[l[n + 2]].size
            BY <3>2, <4>3, <4>4
        <5>2. QED  BY <1>3, <3>5, <3>6, <4>5, <5>1
      <4>7. QED  BY <3>1, <3>8, <4>6
    <3>9. QED  BY <3>7, <3>8
  <2>2. n + 1 \in Nat
      OBVIOUS
  <2>3. QED  BY <2>1, <2>2
<1>7. T = Nat
  <2>1. T \in SUBSET Nat
      OBVIOUS
  <2> HIDE DEF T
  <2>2. QED  BY <1>5, <1>6, <2>1, Induct
<1>8. G(Len(w)) = F(Len(l)) - x
  <2>1. Len(w) \in Nat /\ Len(w) \in T /\ Len(w) <= Len(w) /\ Len(w) + 1 = Len(l)
      BY <1>1, <1>7
  <2>2. G(Len(w)) = IF Len(w) < i THEN F(Len(w)) ELSE F(Len(w) + 1) - x
      BY <2>1
  <2>3. CASE Len(w) < i
    <3>1. i = Len(l) /\ Len(l) - 1 = Len(w) /\ Len(l) \in DOMAIN l
        BY <1>1, <2>1, <2>3
    <3>2. F(Len(l)) = F(Len(w)) + x
      <4>1. F(Len(l)) = F(Len(l) - 1) + e[l[Len(l)]].size
          BY <1>2, <3>1
      <4>2. QED  BY <3>1, <4>1 DEF x
    <3>3. F(Len(w)) \in Nat
      <4>1. Len(w) \in 0..Len(l)
          BY <1>1
      <4>2. QED  BY <1>2, <4>1
    <3>4. QED  BY <1>3, <2>2, <2>3, <3>2, <3>3
  <2>4. CASE ~(Len(w) < i)
      BY <2>1, <2>2, <2>4
  <2>5. QED  BY <2>3, <2>4
<1>9. QED  BY <1>8 DEF F, G, x, Bytes

\* An entry that joins the list adds its size to the sum.
LEMMA SumAppend ==
    ASSUME NEW l, NEW e, Sized(l, e), NEW k \in Keys, NEW f, f[k].size \in Nat,
           \A n \in DOMAIN l : f[l[n]] = e[l[n]]
    PROVE  /\ Bytes(l, e) \in Nat
           /\ Bytes(Append(l, k), f) = Bytes(l, e) + f[k].size
<1> DEFINE m == Append(l, k)
<1>1. /\ Len(l) \in Nat /\ DOMAIN l = 1..Len(l) /\ m \in Seq(Keys) /\ Len(m) = Len(l) + 1
      /\ (\A n \in 1..Len(l) : m[n] = l[n]) /\ m[Len(l) + 1] = k
    BY DEF Sized
<1>2. DOMAIN m = 1..(Len(l) + 1)
    BY <1>1
<1> HIDE DEF m
<1>3. Sized(m, f)
  <2>1. ASSUME NEW n \in DOMAIN m
        PROVE  f[m[n]].size \in Nat
    <3>1. n \in DOMAIN l \/ n = Len(l) + 1
        BY <1>1, <1>2
    <3>2. CASE n \in DOMAIN l
        BY <1>1, <3>2 DEF Sized
    <3>3. CASE n = Len(l) + 1
        BY <1>1, <3>3
    <3>4. QED  BY <3>1, <3>2, <3>3
  <2>2. QED  BY <1>1, <2>1 DEF Sized
<1>4. Len(l) <= Len(l) /\ Len(l) <= Len(m)
    BY <1>1
<1>5. \A n \in 1..Len(l) : f[m[n]].size = e[l[n]].size
    BY <1>1
<1>6. SizeUpTo(m, f)[Len(l)] = SizeUpTo(l, e)[Len(l)]
    BY <1>1, <1>3, <1>4, <1>5, SumSame
<1>7. SizeUpTo(m, f)[Len(l) + 1] = SizeUpTo(m, f)[Len(l)] + f[k].size
  <2>1. Len(l) + 1 \in DOMAIN m /\ (Len(l) + 1) - 1 = Len(l)
      BY <1>1, <1>2
  <2>2. SizeUpTo(m, f)[Len(l) + 1] = SizeUpTo(m, f)[(Len(l) + 1) - 1] + f[m[Len(l) + 1]].size
      BY <1>3, <2>1, SumSteps
  <2>3. QED  BY <1>1, <2>1, <2>2
<1>8. Bytes(l, e) \in Nat
  <2>1. Len(l) \in 0..Len(l)
      BY <1>1
  <2>2. QED  BY <2>1, SumSteps DEF Bytes
<1>9. QED  BY <1>1, <1>6, <1>7, <1>8 DEF Bytes, m

\* An empty list has no bytes.
LEMMA SumEmpty ==
    ASSUME NEW l \in Seq(Keys), Len(l) = 0, NEW e
    PROVE  Bytes(l, e) = 0
<1>1. Sized(l, e)
    BY DEF Sized
<1>2. QED  BY <1>1, SumSteps DEF Bytes

-----------------------------------------------------------------------------
(* Contents that are consistent stay so when an entry is unlinked.         *)

Entries == [body : Bodies, size : Nat, expiry : Nat]

LiveIn(e) == {k \in Keys : e[k] # NULL}
OfBucket(e, h) == {k \in LiveIn(e) : Hash[k] = h}

LruSound(l, e) == l \in Seq(Keys) /\ IsInjective(l) /\ ToSet(l) = LiveIn(e)
ChainSound(c, e, h) == c[h] \in Seq(Keys) /\ IsInjective(c[h]) /\ ToSet(c[h]) = OfBucket(e, h)

Sound(c) ==
    /\ c.entry \in [Keys -> Entries \cup {NULL}]
    /\ LruSound(c.lru, c.entry)
    /\ c.chain = [h \in Buckets |-> c.chain[h]]
    /\ \A h \in Buckets : ChainSound(c.chain, c.entry, h)
    /\ c.size = Bytes(c.lru, c.entry)

LEMMA SoundSized ==
    ASSUME NEW c, Sound(c)
    PROVE  Sized(c.lru, c.entry)
<1>1. ASSUME NEW n \in DOMAIN c.lru
      PROVE  c.entry[c.lru[n]].size \in Nat
  <2>1. c.lru[n] \in Keys /\ c.entry[c.lru[n]] # NULL
      BY DEF Sound, LruSound, LiveIn, ToSet
  <2>2. c.entry[c.lru[n]] \in Entries
      BY <2>1 DEF Sound
  <2>3. QED  BY <2>2 DEF Entries
<1>2. QED  BY <1>1 DEF Sized, Sound, LruSound

LEMMA UnlinkSound ==
    ASSUME NEW c, Sound(c), NEW k \in LiveIn(c.entry)
    PROVE  /\ Sound(Unlink(c, k))
           /\ LiveIn(Unlink(c, k).entry) = LiveIn(c.entry) \ {k}
           /\ Ordered(Unlink(c, k).lru, c.lru)
           /\ \A j \in Keys \ {k} : Unlink(c, k).entry[j] = c.entry[j]
           /\ \E i \in DOMAIN c.lru : c.lru[i] = k /\ OneLess(Unlink(c, k).lru, c.lru, i)
<1> DEFINE u == Unlink(c, k)
           e == c.entry
           f == u.entry
           l == c.lru
           w == u.lru
<1>1. k \in Keys /\ e[k] # NULL /\ Hash[k] \in Buckets
    BY HashAssumption DEF LiveIn
<1>2. /\ e \in [Keys -> Entries \cup {NULL}] /\ l \in Seq(Keys) /\ IsInjective(l)
      /\ ToSet(l) = LiveIn(e) /\ c.size = Bytes(l, e)
    BY DEF Sound, LruSound
<1>3. f = [e EXCEPT ![k] = NULL] /\ w = Without(l, k) /\ u.size = c.size - e[k].size
    BY DEF Unlink
<1>4. u.chain = [c.chain EXCEPT ![Hash[k]] = Without(@, k)]
    BY DEF Unlink
<1>5. Sized(l, e) /\ k \in ToSet(l)
    BY <1>2, SoundSized
<1> HIDE DEF u, e, f, l, w
<1>6. f \in [Keys -> Entries \cup {NULL}] /\ f[k] = NULL /\ \A j \in Keys \ {k} : f[j] = e[j]
    BY <1>1, <1>2, <1>3
<1>7. LiveIn(f) = LiveIn(e) \ {k}
    BY <1>6 DEF LiveIn
<1>8. PICK i \in DOMAIN l : l[i] = k
    BY <1>5 DEF ToSet
<1>9. w \in Seq(Keys) /\ OneLess(w, l, i)
    BY <1>2, <1>3, <1>8, WithoutSeq
<1>10. IsInjective(w) /\ ToSet(w) = LiveIn(f) /\ Ordered(w, l)
  <2>1. l \in Seq(Keys) /\ IsInjective(l) /\ k \in ToSet(l)
      BY <1>2, <1>5
  <2>2. /\ IsInjective(Without(l, k)) /\ ToSet(Without(l, k)) = ToSet(l) \ {k}
        /\ Ordered(Without(l, k), l)
      BY <2>1, WithoutElement
  <2>3. QED  BY <1>2, <1>3, <1>7, <2>2
<1>11. Sized(w, f)
  <2>1. ASSUME NEW n \in DOMAIN w
        PROVE  f[w[n]].size \in Nat
    <3>1. w[n] \in LiveIn(f)
        BY <1>10 DEF ToSet
    <3>2. f[w[n]] \in Entries
        BY <1>6, <3>1 DEF LiveIn
    <3>3. QED  BY <3>2 DEF Entries
  <2>2. QED  BY <1>9, <2>1 DEF Sized
<1>12. Bytes(w, f) = Bytes(l, e) - e[l[i]].size
  <2>1. \A n \in DOMAIN l : (n # i) => (f[l[n]] = e[l[n]])
    <3>1. ASSUME NEW n \in DOMAIN l, n # i
          PROVE  f[l[n]] = e[l[n]]
      <4>1. l[n] \in Keys /\ l[n] # k
          BY <1>2, <1>8, <3>1 DEF IsInjective
      <4>2. QED  BY <1>6, <4>1
    <3>2. QED  BY <3>1
  <2>2. QED  BY <1>5, <1>9, <1>11, <2>1, SumWithout
<1>13. ASSUME NEW h \in Buckets
       PROVE  ChainSound(u.chain, f, h)
  <2>1. c.chain[h] \in Seq(Keys) /\ IsInjective(c.chain[h]) /\ ToSet(c.chain[h]) = OfBucket(e, h)
      BY DEF Sound, ChainSound, e
  <2>2. CASE h = Hash[k]
    <3>1. u.chain[h] = Without(c.chain[h], k)
        BY <1>4, <2>2 DEF Sound
    <3>2. k \in ToSet(c.chain[h])
        BY <2>1, <2>2 DEF OfBucket, e
    <3>3. /\ u.chain[h] \in Seq(Keys) /\ IsInjective(u.chain[h])
          /\ ToSet(u.chain[h]) = ToSet(c.chain[h]) \ {k}
        BY <2>1, <3>1, <3>2, WithoutElement
    <3>4. OfBucket(f, h) = OfBucket(e, h) \ {k}
        BY <1>7 DEF OfBucket
    <3>5. QED  BY <2>1, <3>3, <3>4 DEF ChainSound
  <2>3. CASE h # Hash[k]
    <3>1. u.chain[h] = c.chain[h]
        BY <1>4, <2>3 DEF Sound
    <3>2. OfBucket(f, h) = OfBucket(e, h)
        BY <1>7, <2>3 DEF OfBucket
    <3>3. QED  BY <2>1, <3>1, <3>2 DEF ChainSound
  <2>4. QED  BY <2>2, <2>3
<1>14. u.chain = [h \in Buckets |-> u.chain[h]]
    BY <1>4 DEF Sound
<1>15. Sound(u)
    BY <1>2, <1>3, <1>6, <1>8, <1>9, <1>10, <1>12, <1>13, <1>14 DEF Sound, LruSound, f, w
<1>16. QED  BY <1>6, <1>7, <1>8, <1>9, <1>10, <1>15 DEF u, e, f, l, w

-----------------------------------------------------------------------------
(* The eviction loop.                                                      *)

\* The entry for n of the table of contents t.
EvictRow(t, n) == IF n = 0 THEN Contents ELSE Unlink(t[n - 1], Head(t[n - 1].lru))

LEMMA EvictionsExist ==
    ASSUME Len(lru) \in Nat
    PROVE  \E t : t = [n \in 0..Len(lru) |-> EvictRow(t, n)]
<1> DEFINE D == 0..Len(lru)
           Good(k) == \E t : t = [n \in D |-> t[n]] /\ \A n \in D : n <= k => t[n] = EvictRow(t, n)
           T == {k \in Nat : Good(k)}
<1>1. 0 \in T
  <2> DEFINE t == [n \in D |-> Contents]
  <2>1. t = [n \in D |-> t[n]] /\ \A n \in D : n <= 0 => t[n] = EvictRow(t, n)
      BY DEF EvictRow
  <2> HIDE DEF t
  <2>2. QED  BY <2>1
<1>2. ASSUME NEW k \in T
      PROVE  k + 1 \in T
  <2>1. PICK t : t = [n \in D |-> t[n]] /\ \A n \in D : n <= k => t[n] = EvictRow(t, n)
      BY <1>2
  <2> DEFINE u == [n \in D |-> IF n = k + 1 THEN EvictRow(t, n) ELSE t[n]]
  <2>2. u = [n \in D |-> u[n]]
      OBVIOUS
  <2>3. ASSUME NEW n \in D, n <= k + 1
        PROVE  u[n] = EvictRow(u, n)
    <3>1. EvictRow(u, n) = EvictRow(t, n)
      <4>1. CASE n = 0
          BY <4>1 DEF EvictRow
      <4>2. CASE n # 0
        <5>1. n - 1 \in D /\ n - 1 # k + 1
            BY <2>3, <4>2
        <5>2. u[n - 1] = t[n - 1]
            BY <5>1
        <5>3. QED  BY <5>2 DEF EvictRow
      <4>3. QED  BY <4>1, <4>2
    <3>2. CASE n = k + 1
        BY <3>1, <3>2
    <3>3. CASE n # k + 1
      <4>1. n <= k
          BY <2>3, <3>3
      <4>2. QED  BY <2>1, <3>1, <3>3, <4>1
    <3>4. QED  BY <3>2, <3>3
  <2> HIDE DEF u, D
  <2>4. Good(k + 1)
      BY <2>2, <2>3
  <2>5. QED  BY <2>4
<1>3. T = Nat
  <2>1. T \in SUBSET Nat
      OBVIOUS
  <2> HIDE DEF T
  <2>2. QED  BY <1>1, <1>2, <2>1, Induct
<1>4. Good(Len(lru))
  <2> HIDE DEF Good
  <2>1. QED  BY <1>3
<1>5. PICK t : t = [n \in D |-> t[n]] /\ \A n \in D : n <= Len(lru) => t[n] = EvictRow(t, n)
    BY <1>4
<1>6. t = [n \in D |-> EvictRow(t, n)]
    BY <1>5
<1>7. QED  BY <1>6

LEMMA EvictionSteps ==
    ASSUME Len(lru) \in Nat
    PROVE  /\ Evictions[0] = Contents
           /\ \A n \in 1..Len(lru) :
                 Evictions[n] = Unlink(Evictions[n - 1], Head(Evictions[n - 1].lru))
<1>1. Evictions = CHOOSE t : t = [n \in 0..Len(lru) |-> EvictRow(t, n)]
    BY DEF Evictions, EvictRow
<1>2. Evictions = [n \in 0..Len(lru) |-> EvictRow(Evictions, n)]
    BY <1>1, EvictionsExist
<1>3. 0 \in 0..Len(lru) /\ \A n \in 1..Len(lru) : n \in 0..Len(lru) /\ n # 0
    OBVIOUS
<1>4. \A n \in 0..Len(lru) : Evictions[n] = EvictRow(Evictions, n)
    BY <1>2
<1>5. QED  BY <1>3, <1>4 DEF EvictRow

\* After n evictions the list lacks its first n elements and nothing else has
\* changed.
Evicted(n) ==
    /\ Sound(Evictions[n])
    /\ Len(Evictions[n].lru) = Len(lru) - n
    /\ \A j \in 1..(Len(lru) - n) : Evictions[n].lru[j] = lru[j + n]
    /\ \A k \in Keys : Evictions[n].entry[k] # NULL => Evictions[n].entry[k] = entry[k]

LEMMA EvictionsRight ==
    ASSUME Sound(Contents), NEW n \in 0..Len(lru)
    PROVE  Evicted(n)
<1> DEFINE T == {k \in Nat : k <= Len(lru) => Evicted(k)}
<1>1. Len(lru) \in Nat /\ Contents.lru = lru /\ Contents.entry = entry
    BY DEF Sound, LruSound, Contents
<1>2. 0 \in T
  <2>1. Evictions[0] = Contents
      BY <1>1, EvictionSteps
  <2>2. \A j \in 1..(Len(lru) - 0) : lru[j] = lru[j + 0]
      BY <1>1
  <2>3. QED  BY <1>1, <2>1, <2>2 DEF Evicted
<1>3. ASSUME NEW k \in T
      PROVE  k + 1 \in T
  <2>1. ASSUME k + 1 <= Len(lru)
        PROVE  Evicted(k + 1)
    <3> DEFINE c == Evictions[k]
               d == Evictions[k + 1]
               x == Head(c.lru)
    <3>1. Evicted(k)
      <4>1. k <= Len(lru)
          BY <1>1, <2>1
      <4>2. QED  BY <4>1
    <3>2. d = Unlink(c, x)
      <4>1. k + 1 \in 1..Len(lru) /\ (k + 1) - 1 = k
          BY <1>1, <2>1
      <4>2. Evictions[k + 1] = Unlink(Evictions[(k + 1) - 1], Head(Evictions[(k + 1) - 1].lru))
          BY <1>1, <4>1, EvictionSteps
      <4>3. QED  BY <4>1, <4>2
    <3>3. /\ Sound(c) /\ Len(c.lru) = Len(lru) - k /\ \A j \in 1..(Len(lru) - k) : c.lru[j] = lru[j + k]
          /\ \A y \in Keys : c.entry[y] # NULL => c.entry[y] = entry[y]
        BY <3>1 DEF Evicted
    <3> HIDE DEF c, d
    <3>4. c.lru \in Seq(Keys) /\ IsInjective(c.lru) /\ ToSet(c.lru) = LiveIn(c.entry)
        BY <3>3 DEF Sound, LruSound
    <3>5. x = c.lru[1] /\ 1 \in DOMAIN c.lru /\ Len(c.lru) \in Nat /\ Len(c.lru) >= 1
      <4>1. Len(c.lru) >= 1 /\ Len(c.lru) \in Nat
          BY <1>1, <2>1, <3>3, <3>4
      <4>2. QED  BY <3>4, <4>1
    <3>6. x \in LiveIn(c.entry)
        BY <3>4, <3>5 DEF ToSet
    <3> HIDE DEF x
    <3>7. /\ Sound(d) /\ \A j \in Keys \ {x} : d.entry[j] = c.entry[j]
          /\ LiveIn(d.entry) = LiveIn(c.entry) \ {x}
        BY <3>2, <3>3, <3>6, UnlinkSound
    <3>8. PICK i \in DOMAIN c.lru : c.lru[i] = x /\ OneLess(d.lru, c.lru, i)
        BY <3>2, <3>3, <3>6, UnlinkSound
    <3>9. i = 1
        BY <3>4, <3>5, <3>8 DEF IsInjective
    <3>10. Len(d.lru) = Len(lru) - (k + 1)
        BY <1>1, <3>3, <3>8 DEF OneLess
    <3>11. ASSUME NEW j \in 1..(Len(lru) - (k + 1))
           PROVE  d.lru[j] = lru[j + (k + 1)]
      <4>1. /\ j \in 1..(Len(c.lru) - 1) /\ ~(j < 1) /\ j + 1 \in 1..(Len(lru) - k)
            /\ (j + 1) + k = j + (k + 1)
          BY <1>1, <3>3
      <4>2. d.lru[j] = c.lru[j + 1]
          BY <3>8, <3>9, <4>1 DEF OneLess
      <4>3. c.lru[j + 1] = lru[(j + 1) + k]
          BY <3>3, <4>1
      <4>4. QED  BY <4>1, <4>2, <4>3
    <3>12. ASSUME NEW y \in Keys, d.entry[y] # NULL
           PROVE  d.entry[y] = entry[y]
      <4>1. y # x
          BY <3>7, <3>12 DEF LiveIn
      <4>2. QED  BY <3>3, <3>7, <3>12, <4>1
    <3>13. QED  BY <3>7, <3>10, <3>11, <3>12 DEF Evicted, d
  <2>2. QED  BY <2>1
<1>4. T = Nat
  <2>1. T \in SUBSET Nat
      OBVIOUS
  <2> HIDE DEF T
  <2>2. QED  BY <1>2, <1>3, <2>1, Induct
<1>5. QED  BY <1>1, <1>4

\* With everything evicted nothing is left, so that whatever is admitted fits.
LEMMA LoopAlwaysEnds ==
    ASSUME Sound(Contents), NEW size \in Nat, Admissible(size)
    PROVE  LoopEnds(size)
<1> DEFINE n == Len(lru)
           c == Evictions[n]
<1>1. n \in Nat /\ n \in 0..n
    BY DEF Sound, LruSound, Contents
<1>2. Evicted(n)
    BY <1>1, EvictionsRight
<1>3. Sound(c) /\ Len(c.lru) = 0
    BY <1>1, <1>2 DEF Evicted
<1> HIDE DEF c
<1>4. c.lru \in Seq(Keys) /\ c.size = Bytes(c.lru, c.entry)
    BY <1>3 DEF Sound, LruSound
<1>5. c.size = 0
    BY <1>3, <1>4, SumEmpty
<1>6. size <= MaxSize
    BY SizeAssumption DEF Admissible
<1>7. MayStop(n, size)
    BY <1>5, <1>6 DEF MayStop, c
<1>8. QED  BY <1>1, <1>7 DEF LoopEnds

-----------------------------------------------------------------------------
(* Steps.                                                                  *)

InOrder(l, r) == \A i, j \in DOMAIN l : (i < j) => <<l[i], l[j]>> \in r

CacheInv ==
    /\ Sound(Contents)
    /\ now \in Nat
    /\ latest = entry
    /\ InOrder(lru, recency)

LEMMA Fields ==
    /\ Contents.chain = chain /\ Contents.lru = lru
    /\ Contents.entry = entry /\ Contents.size = total_size
  BY DEF Contents

LEMMA FieldsNext ==
    /\ Contents'.chain = chain' /\ Contents'.lru = lru'
    /\ Contents'.entry = entry' /\ Contents'.size = total_size'
  BY DEF Contents

\* What consistency says of the cache itself.
LEMMA SoundCache ==
    ASSUME Sound(Contents)
    PROVE  /\ entry \in [Keys -> Entries \cup {NULL}]
           /\ lru \in Seq(Keys) /\ IsInjective(lru) /\ ToSet(lru) = LiveIn(entry)
           /\ chain = [h \in Buckets |-> chain[h]]
           /\ \A h \in Buckets : ChainSound(chain, entry, h)
           /\ total_size = Bytes(lru, entry)
  BY Fields DEF Sound, LruSound

LEMMA SoundNext ==
    ASSUME entry' \in [Keys -> Entries \cup {NULL}], LruSound(lru', entry'),
           chain' = [h \in Buckets |-> chain'[h]], \A h \in Buckets : ChainSound(chain', entry', h),
           total_size' = Bytes(lru', entry')
    PROVE  Sound(Contents)'
  BY FieldsNext DEF Sound

LEMMA FoundIsLive ==
    ASSUME Sound(Contents), NEW k \in Keys
    PROVE  Found(k) <=> entry[k] # NULL
<1>1. Hash[k] \in Buckets
    BY HashAssumption
<1>2. ToSet(chain[Hash[k]]) = OfBucket(entry, Hash[k])
    BY <1>1, SoundCache DEF ChainSound
<1>3. Found(k) <=> k \in ToSet(chain[Hash[k]])
    BY DEF Found, ToSet
<1>4. QED  BY <1>2, <1>3 DEF OfBucket, LiveIn

LEMMA NewEntryType ==
    ASSUME now \in Nat, NEW b \in Bodies, NEW ttl \in Ttls
    PROVE  NewEntry(b, ttl) \in Entries /\ NewEntry(b, ttl) # NULL /\ NewEntry(b, ttl).size = SizeOf[b]
<1>1. SizeOf[b] \in Nat /\ ttl \in Nat
    BY SizeAssumption, TimeAssumption
<1>2. NewEntry(b, ttl) \in Entries
    BY <1>1 DEF NewEntry, Entries
<1>3. QED  BY <1>2, NullAssumption DEF NewEntry, Entries

\* An entry joins consistent contents at the most recently used end.
LEMMA Joins ==
    ASSUME NEW c, Sound(c), NEW k \in Keys, c.entry[k] = NULL, NEW x \in Entries
    PROVE  /\ [c.entry EXCEPT ![k] = x] \in [Keys -> Entries \cup {NULL}]
           /\ LiveIn([c.entry EXCEPT ![k] = x]) = LiveIn(c.entry) \cup {k}
           /\ LruSound(Append(c.lru, k), [c.entry EXCEPT ![k] = x])
           /\ c.size \in Nat
           /\ Bytes(Append(c.lru, k), [c.entry EXCEPT ![k] = x]) = c.size + x.size
<1> DEFINE e == c.entry
           f == [c.entry EXCEPT ![k] = x]
           l == c.lru
           m == Append(c.lru, k)
<1>1. /\ e \in [Keys -> Entries \cup {NULL}] /\ l \in Seq(Keys) /\ IsInjective(l)
      /\ ToSet(l) = LiveIn(e) /\ c.size = Bytes(l, e) /\ Sized(l, e)
    BY SoundSized DEF Sound, LruSound
<1>2. x # NULL /\ x.size \in Nat
    BY NullAssumption DEF Entries
<1>3. f \in [Keys -> Entries \cup {NULL}] /\ f[k] = x /\ \A j \in Keys \ {k} : f[j] = e[j]
    BY <1>1
<1>4. /\ Len(l) \in Nat /\ DOMAIN l = 1..Len(l) /\ m \in Seq(Keys) /\ DOMAIN m = 1..(Len(l) + 1)
      /\ (\A n \in 1..Len(l) : m[n] = l[n]) /\ m[Len(l) + 1] = k
    BY <1>1
<1>5. e[k] = NULL
    OBVIOUS
<1> HIDE DEF e, f, l, m
<1>6. LiveIn(f) = LiveIn(e) \cup {k}
    BY <1>2, <1>3 DEF LiveIn
<1>7. k \notin ToSet(l)
    BY <1>1, <1>5 DEF LiveIn
<1>8. \A n \in DOMAIN m : n \in DOMAIN l \/ n = Len(l) + 1
    BY <1>4
<1>9. ToSet(m) = ToSet(l) \cup {k}
  <2>1. Len(l) + 1 \in DOMAIN m /\ DOMAIN l \subseteq DOMAIN m
      BY <1>4
  <2>2. QED  BY <1>4, <1>8, <2>1 DEF ToSet
<1>10. IsInjective(m)
  <2>1. ASSUME NEW a \in DOMAIN m, NEW b \in DOMAIN m, m[a] = m[b]
        PROVE  a = b
      BY <1>1, <1>4, <1>7, <1>8, <2>1 DEF IsInjective, ToSet
  <2>2. QED  BY <2>1 DEF IsInjective
<1>11. \A n \in DOMAIN l : f[l[n]] = e[l[n]]
  <2>1. ASSUME NEW n \in DOMAIN l
        PROVE  f[l[n]] = e[l[n]]
    <3>1. l[n] \in Keys /\ l[n] # k
        BY <1>1, <1>7 DEF ToSet
    <3>2. QED  BY <1>3, <3>1
  <2>2. QED  BY <2>1
<1>12. Bytes(l, e) \in Nat /\ Bytes(Append(l, k), f) = Bytes(l, e) + f[k].size
  <2>1. Sized(l, e) /\ f[k].size \in Nat
      BY <1>1, <1>2, <1>3
  <2>2. QED  BY <1>11, <2>1, SumAppend
<1>13. m = Append(l, k)
    BY DEF m, l
<1>14. QED  BY <1>1, <1>3, <1>4, <1>6, <1>9, <1>10, <1>12, <1>13 DEF LruSound, e, f, l, m

\* The order of use survives removals and uses.
LEMMA OrderRemoved ==
    ASSUME InOrder(lru, recency), NEW m, Ordered(m, lru), \A n \in DOMAIN m : entry'[m[n]] # NULL
    PROVE  InOrder(m, {r \in recency : Kept(r)})
<1>1. ASSUME NEW i \in DOMAIN m, NEW j \in DOMAIN m, i < j
      PROVE  <<m[i], m[j]>> \in {r \in recency : Kept(r)}
  <2>1. PICK a \in DOMAIN lru, b \in DOMAIN lru : a < b /\ m[i] = lru[a] /\ m[j] = lru[b]
      BY <1>1 DEF Ordered
  <2>2. <<m[i], m[j]>> \in recency
      BY <2>1 DEF InOrder
  <2>3. Kept(<<m[i], m[j]>>)
      BY DEF Kept
  <2>4. QED  BY <2>2, <2>3
<1>2. QED  BY <1>1 DEF InOrder

LEMMA OrderUsed ==
    ASSUME InOrder(lru, recency), NEW m \in Seq(Keys), Ordered(m, lru),
           NEW k, \A n \in DOMAIN m : entry'[m[n]] # NULL /\ m[n] # k,
           Used(k), lru' = Append(m, k)
    PROVE  InOrder(lru', recency')
<1> DEFINE w == lru'
<1>1. /\ Len(m) \in Nat /\ DOMAIN m = 1..Len(m) /\ DOMAIN w = 1..(Len(m) + 1)
      /\ (\A n \in 1..Len(m) : w[n] = m[n]) /\ w[Len(m) + 1] = k
    OBVIOUS
<1> HIDE DEF w
<1>2. ASSUME NEW i \in DOMAIN w, NEW j \in DOMAIN w, i < j
      PROVE  <<w[i], w[j]>> \in recency'
  <2>1. i \in DOMAIN m /\ w[i] = m[i] /\ m[i] \in Keys \ {k} /\ entry'[m[i]] # NULL
      BY <1>1, <1>2
  <2>2. CASE j \in DOMAIN m
    <3>1. <<m[i], m[j]>> \in {r \in recency : Kept(r)}
        BY <1>2, <2>1, <2>2, OrderRemoved DEF InOrder
    <3>2. <<m[i], m[j]>>[1] = m[i] /\ <<m[i], m[j]>>[2] = m[j] /\ m[j] # k /\ w[j] = m[j]
        BY <1>1, <2>2
    <3>3. QED  BY <2>1, <3>1, <3>2 DEF Used
  <2>3. CASE j = Len(m) + 1
      BY <1>1, <2>1, <2>3 DEF Used
  <2>4. QED  BY <1>1, <2>2, <2>3
<1>3. QED  BY <1>2 DEF InOrder, w

-----------------------------------------------------------------------------
(* The operations preserve the invariant.                                  *)

LEMMA InitCache == Init => CacheInv
<1>1. SUFFICES ASSUME Init
               PROVE  CacheInv
    OBVIOUS
<1>2. /\ lru = <<>> /\ entry = [k \in Keys |-> NULL] /\ chain = [h \in Buckets |-> <<>>]
      /\ total_size = 0 /\ now \in Nat /\ latest = entry
    BY <1>1, TimeAssumption DEF Init
<1>3. lru \in Seq(Keys) /\ Len(lru) = 0 /\ DOMAIN lru = {}
    BY <1>2
<1>4. LiveIn(entry) = {} /\ \A h \in Buckets : OfBucket(entry, h) = {}
    BY <1>2 DEF LiveIn, OfBucket
<1>5. LruSound(lru, entry)
    BY <1>3, <1>4 DEF LruSound, IsInjective, ToSet
<1>6. \A h \in Buckets : ChainSound(chain, entry, h)
    BY <1>2, <1>4 DEF ChainSound, IsInjective, ToSet
<1>7. total_size = Bytes(lru, entry)
    BY <1>2, <1>3, SumEmpty
<1>8. entry \in [Keys -> Entries \cup {NULL}]
    BY <1>2
<1>9. chain = [h \in Buckets |-> chain[h]]
    BY <1>2
<1>10. Sound(Contents)
    BY <1>5, <1>6, <1>7, <1>8, <1>9, Fields DEF Sound
<1>11. QED  BY <1>2, <1>3, <1>10 DEF CacheInv, InOrder

LEMMA IdleStep ==
    ASSUME CacheInv, UNCHANGED <<chain, lru, entry, total_size, latest, recency>>, now' \in Nat
    PROVE  CacheInv'
<1>1. Contents' = Contents
    BY DEF Contents
<1>2. Sound(Contents)'
    BY <1>1 DEF CacheInv, Sound, LruSound, ChainSound, LiveIn, OfBucket
<1>3. QED  BY <1>2 DEF CacheInv, InOrder

\* Entries are only removed.
LEMMA RemovalStep ==
    ASSUME CacheInv, NEW c, Sound(c), Becomes(c), Ordered(c.lru, lru), Removed, now' = now,
           \A j \in Keys : c.entry[j] # NULL => c.entry[j] = entry[j]
    PROVE  CacheInv'
<1>1. chain' = c.chain /\ lru' = c.lru /\ entry' = c.entry /\ total_size' = c.size
    BY DEF Becomes
<1>2. Sound(Contents)'
    BY <1>1, SoundNext DEF Sound
<1>3. entry' \in [Keys -> Entries \cup {NULL}] /\ ToSet(lru') = LiveIn(entry')
    BY <1>1 DEF Sound, LruSound
<1>4. latest' = entry'
  <2>1. latest = entry /\ latest' = [j \in Keys |-> IF entry'[j] = NULL THEN NULL ELSE latest[j]]
      BY DEF CacheInv, Removed
  <2>2. \A j \in Keys : latest'[j] = entry'[j]
      BY <1>1, <2>1
  <2>3. QED  BY <1>3, <2>1, <2>2
<1>5. InOrder(lru', recency')
  <2>1. \A n \in DOMAIN lru' : entry'[lru'[n]] # NULL
      BY <1>3 DEF ToSet, LiveIn
  <2>2. InOrder(lru', {r \in recency : Kept(r)})
      BY <1>1, <2>1, OrderRemoved DEF CacheInv
  <2>3. QED  BY <2>2 DEF Removed
<1>6. InOrder(lru, recency)'
    BY <1>5 DEF InOrder
<1>7. QED  BY <1>2, <1>4, <1>6 DEF CacheInv

\* The entry of k is moved to the most recently used end, with what it holds
\* replaced by x.
LEMMA TouchStep ==
    ASSUME CacheInv, NEW k \in Keys, Found(k), NEW x \in Entries,
           Touch(k), Used(k), entry' = [entry EXCEPT ![k] = x], chain' = chain, now' = now,
           total_size' = total_size - entry[k].size + x.size,
           latest' = [latest EXCEPT ![k] = x]
    PROVE  CacheInv'
<1> DEFINE c == Unlink(Contents, k)
<1>1. Sound(Contents) /\ InOrder(lru, recency) /\ latest = entry
    BY DEF CacheInv
<1>2. /\ entry \in [Keys -> Entries \cup {NULL}] /\ lru \in Seq(Keys) /\ IsInjective(lru)
      /\ ToSet(lru) = LiveIn(entry) /\ chain = [h \in Buckets |-> chain[h]]
      /\ \A h \in Buckets : ChainSound(chain, entry, h)
    BY <1>1, SoundCache
<1>3. entry[k] # NULL /\ k \in LiveIn(entry)
    BY <1>1, FoundIsLive DEF LiveIn
<1>4. /\ Sound(c) /\ LiveIn(c.entry) = LiveIn(entry) \ {k} /\ Ordered(c.lru, lru)
  <2>1. k \in LiveIn(Contents.entry)
      BY <1>3, Fields
  <2>2. /\ Sound(c) /\ LiveIn(c.entry) = LiveIn(Contents.entry) \ {k}
        /\ Ordered(c.lru, Contents.lru)
      BY <1>1, <2>1, UnlinkSound
  <2>3. QED  BY <2>2, Fields
<1>5. /\ c.lru = Without(lru, k) /\ c.entry = [entry EXCEPT ![k] = NULL]
      /\ c.size = total_size - entry[k].size
    BY Fields DEF Unlink
<1> HIDE DEF c
<1>6. c.entry[k] = NULL /\ [c.entry EXCEPT ![k] = x] = entry'
    BY <1>2, <1>5
<1>7. lru' = Append(c.lru, k)
    BY <1>5 DEF Touch
<1>8. /\ entry' \in [Keys -> Entries \cup {NULL}] /\ LruSound(lru', entry')
      /\ LiveIn(entry') = LiveIn(c.entry) \cup {k} /\ Bytes(lru', entry') = c.size + x.size
  <2>1. Sound(c) /\ c.entry[k] = NULL
      BY <1>4, <1>6
  <2>2. /\ [c.entry EXCEPT ![k] = x] \in [Keys -> Entries \cup {NULL}]
        /\ LiveIn([c.entry EXCEPT ![k] = x]) = LiveIn(c.entry) \cup {k}
        /\ LruSound(Append(c.lru, k), [c.entry EXCEPT ![k] = x])
        /\ Bytes(Append(c.lru, k), [c.entry EXCEPT ![k] = x]) = c.size + x.size
      BY <2>1, Joins
  <2>3. QED  BY <1>6, <1>7, <2>2
<1>9. LiveIn(entry') = LiveIn(entry)
    BY <1>3, <1>4, <1>8
<1>10. \A h \in Buckets : ChainSound(chain', entry', h)
    BY <1>2, <1>9 DEF ChainSound, OfBucket
<1>11. total_size' = Bytes(lru', entry')
    BY <1>5, <1>8
<1>12. Sound(Contents)'
    BY <1>2, <1>8, <1>10, <1>11, SoundNext
<1>13. InOrder(lru', recency')
  <2>1. c.lru \in Seq(Keys) /\ ToSet(c.lru) = LiveIn(entry') \ {k}
      BY <1>4, <1>9 DEF Sound, LruSound
  <2>2. \A n \in DOMAIN c.lru : entry'[c.lru[n]] # NULL /\ c.lru[n] # k
      BY <2>1 DEF ToSet, LiveIn
  <2>3. QED  BY <1>1, <1>4, <1>7, <2>1, <2>2, OrderUsed
<1>14. InOrder(lru, recency)'
    BY <1>13 DEF InOrder
<1>15. latest' = entry'
    BY <1>1
<1>16. now' \in Nat
    BY DEF CacheInv
<1>17. QED  BY <1>12, <1>14, <1>15, <1>16 DEF CacheInv

LEMMA HitStep ==
    ASSUME CacheInv, NEW k \in Keys, GetHit(k) \/ GetNoMemory(k)
    PROVE  CacheInv'
<1>1. /\ Found(k) /\ Touch(k) /\ Used(k) /\ UNCHANGED <<chain, entry, total_size, now, latest>>
    BY DEF GetHit, GetNoMemory
<1>2. /\ Sound(Contents) /\ latest = entry /\ entry \in [Keys -> Entries \cup {NULL}]
      /\ total_size = Bytes(lru, entry)
    BY SoundCache DEF CacheInv
<1>3. entry[k] \in Entries
  <2>1. entry[k] # NULL
      BY <1>1, <1>2, FoundIsLive
  <2>2. QED  BY <1>2, <2>1
<1>4. entry' = [entry EXCEPT ![k] = entry[k]] /\ latest' = [latest EXCEPT ![k] = entry[k]]
    BY <1>1, <1>2
<1>5. total_size' = total_size - entry[k].size + entry[k].size
  <2>1. total_size \in Nat
    <3>1. Sized(lru, entry)
        BY <1>2, SoundSized, Fields
    <3>2. Len(lru) \in 0..Len(lru)
        BY <3>1 DEF Sized
    <3>3. QED  BY <1>2, <3>1, <3>2, SumSteps DEF Bytes
  <2>2. entry[k].size \in Nat
      BY <1>3 DEF Entries
  <2>3. QED  BY <1>1, <2>1, <2>2
<1>6. QED  BY <1>1, <1>3, <1>4, <1>5, TouchStep

LEMMA UpdateStep ==
    ASSUME CacheInv, NEW k \in Keys, NEW b \in Bodies, NEW ttl \in Ttls, PutUpdate(k, b, ttl)
    PROVE  CacheInv'
<1> DEFINE x == NewEntry(b, ttl)
<1>1. x \in Entries /\ x # NULL /\ x.size = SizeOf[b]
    BY NewEntryType DEF CacheInv
<1>2. /\ Found(k) /\ Touch(k) /\ Used(k) /\ chain' = chain /\ now' = now
      /\ entry' = [entry EXCEPT ![k] = x] /\ total_size' = total_size - entry[k].size + SizeOf[b]
      /\ Stored(k, x)
    BY DEF PutUpdate, ReplaceSize
<1> HIDE DEF x
<1>3. latest' = [latest EXCEPT ![k] = x]
  <2>1. entry \in [Keys -> Entries \cup {NULL}] /\ latest = entry
      BY SoundCache DEF CacheInv
  <2>2. latest' = [j \in Keys |-> IF j = k THEN x ELSE IF entry'[j] = NULL THEN NULL ELSE latest[j]]
      BY <1>2 DEF Stored
  <2>3. \A j \in Keys : latest'[j] = IF j = k THEN x ELSE latest[j]
      BY <1>2, <2>1, <2>2
  <2>4. QED  BY <2>1, <2>2, <2>3
<1>4. total_size' = total_size - entry[k].size + x.size
    BY <1>1, <1>2
<1>5. QED  BY <1>1, <1>2, <1>3, <1>4, TouchStep

LEMMA ExpiredStep ==
    ASSUME CacheInv, NEW k \in Keys, GetExpired(k)
    PROVE  CacheInv'
<1> DEFINE c == Unlink(Contents, k)
<1>1. Found(k) /\ Becomes(c) /\ Removed /\ now' = now
    BY DEF GetExpired
<1>2. Sound(Contents) /\ k \in LiveIn(Contents.entry)
    BY <1>1, Fields, FoundIsLive DEF CacheInv, LiveIn
<1>3. /\ Sound(c) /\ Ordered(c.lru, Contents.lru)
      /\ \A j \in Keys \ {k} : c.entry[j] = Contents.entry[j]
    BY <1>2, UnlinkSound
<1>4. c.entry[k] = NULL
    BY <1>2, Fields DEF Unlink, Sound
<1> HIDE DEF c
<1>5. Ordered(c.lru, lru) /\ \A j \in Keys : c.entry[j] # NULL => c.entry[j] = entry[j]
    BY <1>3, <1>4, Fields
<1>6. QED  BY <1>1, <1>3, <1>5, RemovalStep

\* What is left after evictions is in the order it was.
LEMMA EvictedOrder ==
    ASSUME Sound(Contents), NEW n \in 0..Len(lru), Evicted(n)
    PROVE  Ordered(Evictions[n].lru, lru)
<1> DEFINE m == Evictions[n].lru
<1>1. /\ m \in Seq(Keys) /\ Len(m) = Len(lru) - n /\ \A j \in 1..(Len(lru) - n) : m[j] = lru[j + n]
    BY DEF Evicted, Sound, LruSound
<1> HIDE DEF m
<1>2. Len(lru) \in Nat /\ DOMAIN lru = 1..Len(lru) /\ n \in Nat /\ DOMAIN m = 1..(Len(lru) - n)
    BY <1>1, SoundCache
<1>3. ASSUME NEW a \in DOMAIN m, NEW b \in DOMAIN m, a < b
      PROVE  \E i, j \in DOMAIN lru : i < j /\ m[a] = lru[i] /\ m[b] = lru[j]
  <2>1. a + n \in DOMAIN lru /\ b + n \in DOMAIN lru /\ a + n < b + n
      BY <1>2, <1>3
  <2>2. m[a] = lru[a + n] /\ m[b] = lru[b + n]
      BY <1>1, <1>2
  <2>3. QED  BY <2>1, <2>2
<1>4. QED  BY <1>3 DEF Ordered, m

LEMMA NoMemoryStep ==
    ASSUME CacheInv, NEW k \in Keys, NEW b \in Bodies, PutNoMemory(k, b)
    PROVE  CacheInv'
<1>1. Sound(Contents)
    BY DEF CacheInv
<1>2. PICK n \in 0..Len(lru) : Becomes(Evictions[n])
    BY DEF PutNoMemory
<1>3. Evicted(n)
    BY <1>1, EvictionsRight
<1>4. Ordered(Evictions[n].lru, lru)
    BY <1>1, <1>3, EvictedOrder
<1>5. Removed /\ now' = now
    BY DEF PutNoMemory
<1>6. Sound(Evictions[n]) /\ \A j \in Keys : Evictions[n].entry[j] # NULL => Evictions[n].entry[j] = entry[j]
    BY <1>3 DEF Evicted
<1>7. QED  BY <1>2, <1>4, <1>5, <1>6, RemovalStep

\* A new entry is linked at the head of its chain.
LEMMA Prepend ==
    ASSUME NEW s \in Seq(Keys), IsInjective(s), NEW k \in Keys, k \notin ToSet(s)
    PROVE  <<k>> \o s \in Seq(Keys) /\ IsInjective(<<k>> \o s) /\ ToSet(<<k>> \o s) = ToSet(s) \cup {k}
<1> DEFINE m == <<k>> \o s
<1>1. /\ Len(s) \in Nat /\ DOMAIN s = 1..Len(s) /\ m \in Seq(Keys) /\ DOMAIN m = 1..(Len(s) + 1)
      /\ m[1] = k
    OBVIOUS
<1>2. \A n \in 1..Len(s) : m[n + 1] = s[n]
    BY <1>1
<1> HIDE DEF m
<1>3. ASSUME NEW n \in DOMAIN m
      PROVE  n = 1 \/ (n - 1 \in DOMAIN s /\ m[n] = s[n - 1])
  <2>1. n \in Nat /\ (n = 1 \/ n - 1 \in 1..Len(s)) /\ (n - 1) + 1 = n
      BY <1>1
  <2>2. QED  BY <1>1, <1>2, <2>1
<1>4. IsInjective(m)
  <2>1. ASSUME NEW a \in DOMAIN m, NEW b \in DOMAIN m, m[a] = m[b]
        PROVE  a = b
    <3>1. a \in Int /\ b \in Int
        BY <1>1
    <3>2. CASE a = 1 \/ b = 1
        BY <1>1, <1>3, <2>1, <3>2 DEF ToSet
    <3>3. CASE a # 1 /\ b # 1
      <4>1. s[a - 1] = s[b - 1] /\ a - 1 \in DOMAIN s /\ b - 1 \in DOMAIN s
          BY <1>3, <2>1, <3>3
      <4>2. a - 1 = b - 1
          BY <4>1 DEF IsInjective
      <4>3. QED  BY <3>1, <4>2
    <3>4. QED  BY <3>2, <3>3
  <2>2. QED  BY <2>1 DEF IsInjective
<1>5. ToSet(m) = ToSet(s) \cup {k}
  <2>1. ASSUME NEW n \in DOMAIN s
        PROVE  s[n] \in ToSet(m)
    <3>1. n + 1 \in DOMAIN m /\ m[n + 1] = s[n]
        BY <1>1, <1>2
    <3>2. QED  BY <3>1 DEF ToSet
  <2>2. k \in ToSet(m)
    <3>1. 1 \in DOMAIN m
        BY <1>1
    <3>2. QED  BY <1>1, <3>1 DEF ToSet
  <2>3. QED  BY <1>1, <1>3, <2>1, <2>2 DEF ToSet
<1>6. QED  BY <1>1, <1>4, <1>5 DEF m

\* What an insertion does: after n evictions the entry is linked in.
Linked(c, k, x) ==
    /\ c.entry[k] = NULL
    /\ chain' = [c.chain EXCEPT ![Hash[k]] = <<k>> \o @]
    /\ lru' = Append(c.lru, k)
    /\ entry' = [c.entry EXCEPT ![k] = x]

LEMMA Insertion ==
    ASSUME CacheInv, NEW k \in Keys, NEW b \in Bodies, NEW ttl \in Ttls, PutInsert(k, b, ttl)
    PROVE  /\ entry[k] = NULL
           /\ \E n \in 0..Len(lru) :
                /\ Evicted(n)
                /\ Linked(Evictions[n], k, NewEntry(b, ttl))
                /\ total_size' = Evictions[n].size + SizeOf[b]
<1>1. Sound(Contents) /\ ~Found(k)
    BY DEF CacheInv, PutInsert
<1>2. entry[k] = NULL
    BY <1>1, FoundIsLive
<1>3. PICK n \in 0..Len(lru) :
                /\ chain' = [Evictions[n].chain EXCEPT ![Hash[k]] = <<k>> \o @]
                /\ lru' = Append(Evictions[n].lru, k)
                /\ entry' = [Evictions[n].entry EXCEPT ![k] = NewEntry(b, ttl)]
                /\ total_size' = Evictions[n].size + SizeOf[b]
    BY DEF PutInsert
<1>4. Evicted(n)
    BY <1>1, EvictionsRight
<1>5. Evictions[n].entry[k] = NULL
    BY <1>2, <1>4 DEF Evicted
<1>6. Linked(Evictions[n], k, NewEntry(b, ttl)) /\ total_size' = Evictions[n].size + SizeOf[b]
    BY <1>3, <1>5 DEF Linked
<1>7. QED  BY <1>2, <1>4, <1>6

LEMMA InsertStep ==
    ASSUME CacheInv, NEW k \in Keys, NEW b \in Bodies, NEW ttl \in Ttls, PutInsert(k, b, ttl)
    PROVE  CacheInv'
<1> DEFINE x == NewEntry(b, ttl)
<1>1. x \in Entries /\ x # NULL /\ x.size = SizeOf[b]
    BY NewEntryType DEF CacheInv
<1>2. entry[k] = NULL /\ now' = now /\ Used(k) /\ Stored(k, x) /\ Sound(Contents)
    BY Insertion DEF PutInsert, CacheInv
<1>3. \E n \in 0..Len(lru) :
            Evicted(n) /\ Linked(Evictions[n], k, x) /\ total_size' = Evictions[n].size + SizeOf[b]
    BY Insertion
<1>4. PICK n \in 0..Len(lru) :
            Evicted(n) /\ Linked(Evictions[n], k, x) /\ total_size' = Evictions[n].size + SizeOf[b]
    BY <1>3
<1> DEFINE c == Evictions[n]
<1>5. Ordered(c.lru, lru)
    BY <1>2, <1>4, EvictedOrder
<1>6. Sound(c) /\ \A j \in Keys : c.entry[j] # NULL => c.entry[j] = entry[j]
    BY <1>4 DEF Evicted
<1>7. Linked(c, k, x) /\ total_size' = c.size + SizeOf[b]
    BY <1>4
<1> HIDE DEF c
<1>8. /\ Sound(c) /\ c.entry[k] = NULL /\ chain' = [c.chain EXCEPT ![Hash[k]] = <<k>> \o @]
      /\ lru' = Append(c.lru, k) /\ entry' = [c.entry EXCEPT ![k] = x] /\ total_size' = c.size + SizeOf[b]
      /\ Ordered(c.lru, lru)
      /\ \A j \in Keys : c.entry[j] # NULL => c.entry[j] = entry[j]
    BY <1>5, <1>6, <1>7 DEF Linked
<1> HIDE DEF x, c
<1>9. /\ entry' \in [Keys -> Entries \cup {NULL}] /\ LruSound(lru', entry')
      /\ LiveIn(entry') = LiveIn(c.entry) \cup {k} /\ Bytes(lru', entry') = c.size + x.size
  <2>1. Sound(c) /\ c.entry[k] = NULL
      BY <1>8
  <2>2. /\ [c.entry EXCEPT ![k] = x] \in [Keys -> Entries \cup {NULL}]
        /\ LiveIn([c.entry EXCEPT ![k] = x]) = LiveIn(c.entry) \cup {k}
        /\ LruSound(Append(c.lru, k), [c.entry EXCEPT ![k] = x])
        /\ Bytes(Append(c.lru, k), [c.entry EXCEPT ![k] = x]) = c.size + x.size
      BY <1>1, <2>1, Joins
  <2>3. QED  BY <1>8, <2>2
<1>10. k \notin LiveIn(c.entry) /\ Hash[k] \in Buckets
    BY <1>8, HashAssumption DEF LiveIn
<1>11. ASSUME NEW h \in Buckets
      PROVE  ChainSound(chain', entry', h)
  <2>1. c.chain[h] \in Seq(Keys) /\ IsInjective(c.chain[h]) /\ ToSet(c.chain[h]) = OfBucket(c.entry, h)
      BY <1>8 DEF Sound, ChainSound
  <2>2. CASE h = Hash[k]
    <3>1. chain'[h] = <<k>> \o c.chain[h]
        BY <1>8, <2>2 DEF Sound
    <3>2. k \notin ToSet(c.chain[h])
        BY <1>10, <2>1 DEF OfBucket
    <3>3. /\ chain'[h] \in Seq(Keys) /\ IsInjective(chain'[h])
          /\ ToSet(chain'[h]) = ToSet(c.chain[h]) \cup {k}
        BY <2>1, <3>1, <3>2, Prepend
    <3>4. OfBucket(entry', h) = OfBucket(c.entry, h) \cup {k}
        BY <1>9, <2>2 DEF OfBucket
    <3>5. QED  BY <2>1, <3>3, <3>4 DEF ChainSound
  <2>3. CASE h # Hash[k]
    <3>1. chain'[h] = c.chain[h]
        BY <1>8, <2>3 DEF Sound
    <3>2. OfBucket(entry', h) = OfBucket(c.entry, h)
        BY <1>9, <2>3 DEF OfBucket
    <3>3. QED  BY <2>1, <3>1, <3>2 DEF ChainSound
  <2>4. QED  BY <2>2, <2>3
<1>12. chain' = [h \in Buckets |-> chain'[h]]
    BY <1>8 DEF Sound
<1>13. total_size' = Bytes(lru', entry')
    BY <1>1, <1>8, <1>9
<1>14. Sound(Contents)'
    BY <1>9, <1>11, <1>12, <1>13, SoundNext
<1>15. InOrder(lru', recency')
  <2>1. c.lru \in Seq(Keys) /\ ToSet(c.lru) = LiveIn(c.entry)
      BY <1>8 DEF Sound, LruSound
  <2>2. \A j \in DOMAIN c.lru : entry'[c.lru[j]] # NULL /\ c.lru[j] # k
    <3>1. ASSUME NEW j \in DOMAIN c.lru
          PROVE  entry'[c.lru[j]] # NULL /\ c.lru[j] # k
      <4>1. c.lru[j] \in LiveIn(c.entry)
          BY <2>1 DEF ToSet
      <4>2. c.lru[j] \in LiveIn(entry')
          BY <1>9, <4>1
      <4>3. QED  BY <1>10, <4>1, <4>2 DEF LiveIn
    <3>2. QED  BY <3>1
  <2>3. InOrder(lru, recency)
      BY DEF CacheInv
  <2>4. QED  BY <1>2, <1>8, <2>1, <2>2, <2>3, OrderUsed
<1>16. InOrder(lru, recency)'
    BY <1>15 DEF InOrder
<1>17. latest' = entry'
  <2>1. latest = entry
      BY DEF CacheInv
  <2>2. latest' = [j \in Keys |-> IF j = k THEN x ELSE IF entry'[j] = NULL THEN NULL ELSE latest[j]]
      BY <1>2 DEF Stored
  <2>3. \A j \in Keys : latest'[j] = entry'[j]
    <3>1. ASSUME NEW j \in Keys
          PROVE  latest'[j] = entry'[j]
      <4>1. CASE j = k
          BY <1>8, <2>2, <4>1 DEF Sound
      <4>2. CASE j # k
        <5>1. entry'[j] = c.entry[j]
            BY <1>8, <4>2 DEF Sound
        <5>2. latest'[j] = IF entry'[j] = NULL THEN NULL ELSE entry[j]
            BY <2>1, <2>2, <4>2
        <5>3. QED  BY <1>8, <5>1, <5>2
      <4>3. QED  BY <4>1, <4>2
    <3>2. QED  BY <3>1
  <2>4. QED  BY <1>9, <2>2, <2>3
<1>18. now' \in Nat
    BY <1>2 DEF CacheInv
<1>19. QED  BY <1>14, <1>16, <1>17, <1>18 DEF CacheInv

LEMMA CleanupStep ==
    ASSUME CacheInv, CacheCleanup
    PROVE  CacheInv'
<1>1. /\ chain' = [h \in Buckets |-> <<>>] /\ lru' = <<>> /\ total_size' = 0 /\ now' = now
      /\ entry' = [k \in Keys |-> IF k \in ToSet(lru) THEN NULL ELSE entry[k]] /\ Removed
    BY DEF CacheCleanup
<1>2. ToSet(lru) = LiveIn(entry)
    BY SoundCache DEF CacheInv
<1>3. entry' = [k \in Keys |-> NULL]
    BY <1>1, <1>2 DEF LiveIn
<1>4. lru' \in Seq(Keys) /\ Len(lru') = 0 /\ DOMAIN lru' = {}
    BY <1>1
<1>5. LiveIn(entry') = {} /\ \A h \in Buckets : OfBucket(entry', h) = {}
    BY <1>3 DEF LiveIn, OfBucket
<1>6. LruSound(lru', entry')
    BY <1>4, <1>5 DEF LruSound, IsInjective, ToSet
<1>7. \A h \in Buckets : ChainSound(chain', entry', h)
    BY <1>1, <1>5 DEF ChainSound, IsInjective, ToSet
<1>8. total_size' = Bytes(lru', entry')
    BY <1>1, <1>4, SumEmpty
<1>9. Sound(Contents)'
  <2>1. chain' = [h \in Buckets |-> chain'[h]]
      BY <1>1
  <2>2. entry' \in [Keys -> Entries \cup {NULL}]
      BY <1>3
  <2>3. QED  BY <1>6, <1>7, <1>8, <2>1, <2>2, SoundNext
<1>10. latest' = entry'
    BY <1>1, <1>3 DEF Removed
<1>11. InOrder(lru, recency)'
    BY <1>4 DEF InOrder
<1>12. now' \in Nat
    BY <1>1 DEF CacheInv
<1>13. QED  BY <1>9, <1>10, <1>11, <1>12 DEF CacheInv

LEMMA NextCache ==
    ASSUME CacheInv, [Next]_vars
    PROVE  CacheInv'
<1>1. now \in Nat
    BY DEF CacheInv
<1>2. CASE UNCHANGED vars
    BY <1>1, <1>2, IdleStep DEF vars
<1>3. CASE CacheInit
    BY <1>1, <1>3, IdleStep DEF CacheInit
<1>4. CASE CacheCleanup
    BY <1>4, CleanupStep
<1>5. CASE ClockChanges
  <2>1. now' \in Nat
      BY <1>5, TimeAssumption DEF ClockChanges
  <2>2. QED  BY <1>5, <2>1, IdleStep DEF ClockChanges
<1>6. ASSUME NEW k \in Keys, Get(k)
      PROVE  CacheInv'
  <2>1. CASE GetMiss(k)
      BY <1>1, <2>1, IdleStep DEF GetMiss
  <2>2. CASE GetExpired(k)
      BY <2>2, ExpiredStep
  <2>3. CASE GetHit(k) \/ GetNoMemory(k)
      BY <2>3, HitStep
  <2>4. QED  BY <1>6, <2>1, <2>2, <2>3 DEF Get
<1>7. ASSUME NEW k \in Keys, NEW b \in Bodies, PutRefused(k, b)
      PROVE  CacheInv'
    BY <1>1, <1>7, IdleStep DEF PutRefused
<1>8. ASSUME NEW k \in Keys, NEW b \in Bodies, PutNoMemory(k, b)
      PROVE  CacheInv'
    BY <1>8, NoMemoryStep
<1>9. ASSUME NEW k \in Keys, NEW b \in Bodies, NEW ttl \in Ttls, PutUpdate(k, b, ttl)
      PROVE  CacheInv'
    BY <1>9, UpdateStep
<1>10. ASSUME NEW k \in Keys, NEW b \in Bodies, NEW ttl \in Ttls, PutInsert(k, b, ttl)
       PROVE  CacheInv'
    BY <1>10, InsertStep
<1>11. QED  BY <1>2, <1>3, <1>4, <1>5, <1>6, <1>7, <1>8, <1>9, <1>10 DEF Next

-----------------------------------------------------------------------------
(* The theorems.                                                           *)

\* The inductive invariant of the cache, the conjunction of what follows.
THEOREM CacheInvariant == Spec => []CacheInv
<1>1. Init => CacheInv
    BY InitCache
<1>2. CacheInv /\ [Next]_vars => CacheInv'
    BY NextCache
<1>3. QED  BY <1>1, <1>2, PTL DEF Spec

LEMMA SoundAgrees ==
    ASSUME Sound(Contents)
    PROVE  StructuresAgree
<1>1. /\ IsInjective(lru) /\ ToSet(lru) = LiveIn(entry)
      /\ \A h \in Buckets : ChainSound(chain, entry, h)
      /\ total_size = Bytes(lru, entry)
    BY SoundCache
<1>2. QED  BY <1>1 DEF StructuresAgree, Live, LiveIn, ChainSound, OfBucket, Bytes

\* The chains, the LRU list and the byte count of cache.c always hold the same
\* entries, each once.
THEOREM StructuresTheorem == Spec => []StructuresAgree
<1>1. CacheInv => StructuresAgree
    BY SoundAgrees DEF CacheInv
<1>2. QED  BY <1>1, CacheInvariant, PTL

\* The loop of cache_put that evicts entries always comes to an end.
THEOREM EvictionTheorem == Spec => []EvictionEnds
<1>1. CacheInv => EvictionEnds
    BY LoopAlwaysEnds, SizeAssumption DEF CacheInv, EvictionEnds
<1>2. QED  BY <1>1, CacheInvariant, PTL

\* cache_get hands out what cache_put stored last, and only before it expires.
THEOREM HitTheorem == Spec => HitIsLatest
<1> DEFINE Current(k) == /\ latest[k] # NULL /\ entry[k].body = latest[k].body
                         /\ latest[k].expiry = 0 \/ now <= latest[k].expiry
<1>1. ASSUME CacheInv, NEW k \in Keys, GetHit(k)
      PROVE  Current(k)
  <2>1. Sound(Contents) /\ latest = entry /\ now \in Nat /\ Found(k) /\ ~Expired(k)
      BY <1>1 DEF CacheInv, GetHit
  <2>2. entry[k] # NULL /\ entry[k] \in Entries
      BY <2>1, FoundIsLive, SoundCache
  <2>3. entry[k].expiry \in Nat
      BY <2>2 DEF Entries
  <2>4. QED  BY <2>1, <2>2, <2>3 DEF Expired
<1>2. CacheInv => \A k \in Keys : GetHit(k) => Current(k)
    BY <1>1
<1>3. QED  BY <1>2, CacheInvariant, PTL DEF HitIsLatest

\* cache_put evicts the entries used least recently.
THEOREM LruTheorem == Spec => EvictsLeastRecentlyUsed
<1> DEFINE Older(a, b) == (entry'[a] = NULL /\ entry'[b] # NULL) => <<a, b>> \in recency
<1>1. ASSUME CacheInv, [Next]_vars, Inserts, NEW a \in ToSet(lru), NEW b \in ToSet(lru),
             entry'[a] = NULL, entry'[b] # NULL
      PROVE  <<a, b>> \in recency
  <2>1. Sound(Contents) /\ entry \in [Keys -> Entries \cup {NULL}]
      BY <1>1, SoundCache DEF CacheInv
  <2>2. PICK k \in Keys : entry[k] = NULL /\ entry'[k] # NULL
      BY <1>1 DEF Inserts
  <2>3. PICK j \in Keys, y \in Bodies, ttl \in Ttls : PutInsert(j, y, ttl)
    <3>1. ~(UNCHANGED entry)
        BY <2>2
    <3>2. ~CacheCleanup
        BY <2>2 DEF CacheCleanup
    <3>3. ASSUME NEW j \in Keys, GetExpired(j)
          PROVE  FALSE
      <4>1. entry' = [entry EXCEPT ![j] = NULL]
          BY <3>3, Fields DEF GetExpired, Becomes, Unlink
      <4>2. QED  BY <2>1, <2>2, <4>1
    <3>4. ASSUME NEW j \in Keys, NEW y \in Bodies, PutNoMemory(j, y)
          PROVE  FALSE
      <4>1. PICK n \in 0..Len(lru) : Becomes(Evictions[n])
          BY <3>4 DEF PutNoMemory
      <4>2. Evicted(n)
          BY <2>1, EvictionsRight
      <4>3. QED  BY <2>2, <4>1, <4>2 DEF Becomes, Evicted
    <3>5. ASSUME NEW j \in Keys, NEW y \in Bodies, NEW ttl \in Ttls, PutUpdate(j, y, ttl)
          PROVE  FALSE
      <4>1. entry[j] # NULL /\ entry' = [entry EXCEPT ![j] = NewEntry(y, ttl)]
          BY <2>1, <3>5, FoundIsLive DEF PutUpdate
      <4>2. QED  BY <2>1, <2>2, <4>1
    <3>6. QED  BY <1>1, <3>1, <3>2, <3>3, <3>4, <3>5
               DEF Next, vars, CacheInit, ClockChanges, Get, GetMiss, GetHit, GetNoMemory, PutRefused
  <2>4. entry[j] = NULL /\ \E n \in 0..Len(lru) :
              Evicted(n) /\ Linked(Evictions[n], j, NewEntry(y, ttl))
    <3>1. CacheInv /\ PutInsert(j, y, ttl)
        BY <1>1, <2>3
    <3>2. QED  BY <3>1, Insertion
  <2>5. PICK n \in 0..Len(lru) : Evicted(n) /\ Linked(Evictions[n], j, NewEntry(y, ttl))
      BY <2>4
  <2> DEFINE c == Evictions[n]
  <2>6. /\ Sound(c) /\ Len(c.lru) = Len(lru) - n /\ \A i \in 1..(Len(lru) - n) : c.lru[i] = lru[i + n]
        /\ entry' = [c.entry EXCEPT ![j] = NewEntry(y, ttl)]
      BY <2>5 DEF Evicted, Linked
  <2> HIDE DEF c
  <2>7. /\ c.entry \in [Keys -> Entries \cup {NULL}] /\ c.lru \in Seq(Keys)
        /\ ToSet(c.lru) = LiveIn(c.entry)
      BY <2>6 DEF Sound, LruSound
  <2>8. /\ lru \in Seq(Keys) /\ IsInjective(lru) /\ ToSet(lru) = LiveIn(entry)
        /\ Len(lru) \in Nat /\ DOMAIN lru = 1..Len(lru)
      BY <2>1, SoundCache
  <2>9. /\ a \in Keys /\ b \in Keys /\ a # j /\ b # j
      BY <2>4, <2>8 DEF LiveIn
  <2>10. c.entry[a] = NULL /\ c.entry[b] # NULL
      BY <1>1, <2>6, <2>7, <2>9
  <2>11. PICK p \in DOMAIN lru, q \in DOMAIN lru : lru[p] = a /\ lru[q] = b
      BY DEF ToSet
  <2>12. p <= n
    <3>1. SUFFICES ASSUME p > n
                   PROVE  FALSE
        BY <2>8
    <3>2. p - n \in 1..(Len(lru) - n) /\ (p - n) + n = p
        BY <2>8, <3>1
    <3>3. c.lru[p - n] = a /\ p - n \in DOMAIN c.lru
      <4>1. c.lru[p - n] = lru[(p - n) + n]
          BY <2>6, <3>2
      <4>2. p - n \in DOMAIN c.lru
          BY <2>6, <2>7, <3>2
      <4>3. QED  BY <2>11, <3>2, <4>1, <4>2
    <3>4. QED  BY <2>7, <2>10, <3>3 DEF ToSet, LiveIn
  <2>13. q > n
    <3>1. b \in ToSet(c.lru)
        BY <2>7, <2>9, <2>10 DEF LiveIn
    <3>2. PICK i \in DOMAIN c.lru : c.lru[i] = b
        BY <3>1 DEF ToSet
    <3>3. i \in 1..(Len(lru) - n)
      <4>1. DOMAIN c.lru = 1..Len(c.lru) /\ Len(c.lru) = Len(lru) - n
          BY <2>6, <2>7
      <4>2. QED  BY <4>1
    <3>4. i + n \in DOMAIN lru /\ i + n > n
        BY <2>8, <3>3
    <3>5. lru[i + n] = b
        BY <2>6, <3>2, <3>3
    <3>6. q = i + n
        BY <2>8, <2>11, <3>4, <3>5 DEF IsInjective
    <3>7. QED  BY <3>4, <3>6
  <2>14. p < q
      BY <2>8, <2>12, <2>13
  <2>15. QED  BY <1>1, <2>11, <2>14 DEF CacheInv, InOrder
<1>2. CacheInv /\ [Next]_vars =>
        [Inserts => \A a, b \in ToSet(lru) : Older(a, b)]_vars
    BY <1>1
<1>3. QED  BY <1>2, CacheInvariant, PTL DEF Spec, EvictsLeastRecentlyUsed
==============================================================================
