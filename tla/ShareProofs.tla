------------------------------ MODULE ShareProofs ------------------------------
(***************************************************************************)
(* Two accounts of shares, both exact, for every value of the constants.    *)
(*                                                                         *)
(* What the rate limiter grants an address.  The token bucket holds what    *)
(* the rate law still allows, no more and no less, and a transfer that is   *)
(* let through keeps the address within its average.  This is about         *)
(* addresses that are found again once they have an entry, those that leave *)
(* room for a terminator in ip[].                                          *)
(*                                                                         *)
(* What the load balancer gives each backend.  It counts the connections    *)
(* exactly, prefers healthy backends, and selects every healthy backend as  *)
(* often as its weight says, wherever the rotation stands.                 *)
(***************************************************************************)
EXTENDS RateLimit, LoadBalancer, TLAPS, SequenceTheorems, WellFoundedInduction,
        FiniteSetTheorems

Entry == [ip : Ips, ended : BOOLEAN, tokens : Nat, last_refill : Nat]
Grant == [at : Nat, peak : Nat]

RateTypes ==
    /\ clock \in Nat /\ setback \in BOOLEAN
    /\ limiters \in Seq(Entry)
    /\ admitted \in [Ips -> Seq(Grant)]

\* A bucket is never over its size, and was refilled in the past unless the
\* clock was set back.
BucketInv ==
    \A m \in DOMAIN limiters :
        limiters[m].tokens <= MaxTokens /\ (setback \/ limiters[m].last_refill <= clock)

\* The requests a were let through before the latest time the clock showed
\* since, which is its time unless the clock was set back.
Past(a) ==
    \A i \in DOMAIN a : a[i].at <= a[i].peak /\ clock <= a[i].peak /\ (setback \/ a[i].peak = clock)

HistoryInv == \A ip \in Ips : Past(admitted[ip])

\* An address has at most one bucket, which strcmp finds, and has one once a
\* request of it was let through.
FoundInv ==
    /\ \A m \in DOMAIN limiters : (limiters[m].ip \in Short) => limiters[m].ended
    /\ \A m, n \in DOMAIN limiters :
          (limiters[m].ip = limiters[n].ip /\ limiters[m].ip \in Short) => (m = n)
    /\ \A ip \in Short : (admitted[ip] # <<>>) => \E m \in DOMAIN limiters : limiters[m].ip = ip

\* Up to when the bucket l was refilled since the request g: not at all while
\* the clock has not come back to the last refill before it.
Reach(l, g) == IF l.last_refill > g.peak THEN g.at ELSE l.last_refill

\* What the rate law allowed the bucket l to have spent, from the i-th of the
\* requests a on, and what it has spent and still holds.
Allowed(l, a, i) == MaxTokens + (Reach(l, a[i]) - a[i].at) * Requests
Spent(l, a, i) == l.tokens + (Len(a) - i + 1) * Window

\* No run of requests has spent more than allowed, and unless the bucket is
\* full or the clock was set back some run has spent exactly that.
Balanced(l, a) ==
    /\ \A i \in DOMAIN a : a[i].at <= l.last_refill /\ Spent(l, a, i) <= Allowed(l, a, i)
    /\ \/ setback \/ l.tokens = MaxTokens
       \/ \E i \in DOMAIN a : Spent(l, a, i) = Allowed(l, a, i)

LedgerInv ==
    \A m \in DOMAIN limiters :
        (limiters[m].ip \in Short) => Balanced(limiters[m], admitted[limiters[m].ip])

RateInv == RateTypes /\ BucketInv /\ HistoryInv /\ FoundInv /\ LedgerInv

-----------------------------------------------------------------------------
(* Numbers.                                                                *)

\* A set of naturals that is not empty has a least element.
LEMMA Least ==
    ASSUME NEW T \in SUBSET Nat, T # {}
    PROVE  \E x \in T : \A y \in T : x <= y
<1> DEFINE Below == {z \in Nat \X Nat : z[1] < z[2]}
<1>1. IsWellFoundedOn(Below, Nat)
    BY NatLessThanWellFounded DEF OpToRel
<1>2. PICK x \in T : \A y \in T : ~(<<y, x>> \in Below)
    BY <1>1, WFMin
<1>3. ASSUME NEW y \in T
      PROVE  x <= y
  <2>1. <<y, x>> \in Nat \X Nat /\ <<y, x>>[1] = y /\ <<y, x>>[2] = x
      OBVIOUS
  <2>2. QED  BY <1>2, <2>1
<1>4. QED  BY <1>3

\* A set of naturals with 0 and every successor holds them all.
LEMMA Steps ==
    ASSUME NEW T \in SUBSET Nat, 0 \in T, \A k \in T : k + 1 \in T
    PROVE  T = Nat
<1>1. SUFFICES ASSUME Nat \ T # {} PROVE FALSE
    OBVIOUS
<1>2. PICK k \in Nat \ T : \A m \in Nat \ T : k <= m
    BY <1>1, Least
<1>3. k # 0 /\ k - 1 \in T
    BY <1>2
<1>4. QED  BY <1>2, <1>3

LEMMA MinIsLeast ==
    ASSUME NEW T \in SUBSET Nat, T # {}
    PROVE  Min(T) \in T /\ \A y \in T : Min(T) <= y
  BY Least DEF Min

LEMMA MinOfTwo ==
    ASSUME NEW x \in Nat, NEW y \in Nat
    PROVE  Min({x, y}) = IF x <= y THEN x ELSE y
<1>1. Min({x, y}) \in {x, y} /\ \A z \in {x, y} : Min({x, y}) <= z
    BY MinIsLeast
<1>2. QED  BY <1>1

LEMMA MaxOfTwo ==
    ASSUME NEW x \in Int, NEW y \in Int
    PROVE  Max({x, y}) = IF x >= y THEN x ELSE y
<1> DEFINE m == IF x >= y THEN x ELSE y
<1>1. m \in {x, y} /\ \A z \in {x, y} : m >= z
    OBVIOUS
<1>2. \A z \in {x, y} : (\A u \in {x, y} : z >= u) => (z = m)
    OBVIOUS
<1> HIDE DEF m
<1>3. QED  BY <1>1, <1>2 DEF Max, m

\* The refill over two stretches of time is the sum of the refills.
LEMMA Stretches ==
    ASSUME NEW a \in Nat, NEW l \in Nat, NEW n \in Nat
    PROVE  (n - a) * Requests = (l - a) * Requests + (n - l) * Requests
  BY RateAssumption

LEMMA OneMore ==
    ASSUME NEW k \in Int
    PROVE  (k + 1) * Window = k * Window + Window
  BY WindowAssumption

LEMMA Together ==
    ASSUME NEW x \in Int, NEW y \in Int
    PROVE  (x + y) * Requests = x * Requests + y * Requests
  BY RateAssumption

LEMMA MaxTokensIsNat == MaxTokens \in Nat
  BY RateAssumption, WindowAssumption DEF MaxTokens

-----------------------------------------------------------------------------
(* Refilling and spending keep the account.                                *)

LEMMA GrantIs ==
    ASSUME NEW a \in Seq(Grant), NEW i \in DOMAIN a
    PROVE  a[i] \in Grant /\ a[i].at \in Nat /\ a[i].peak \in Nat /\ i \in Nat /\ Len(a) \in Nat
<1>1. a[i] \in Grant /\ i \in Nat /\ Len(a) \in Nat
    OBVIOUS
<1>2. QED  BY <1>1 DEF Grant

LEMMA SinceIs ==
    ASSUME clock \in Nat, NEW l \in Entry
    PROVE  /\ SinceRefill(l) \in Nat
           /\ SinceRefill(l) = IF clock > l.last_refill THEN clock - l.last_refill ELSE 0
<1>1. l.last_refill \in Nat /\ clock - l.last_refill \in Int
    BY DEF Entry
<1>2. Max({0, clock - l.last_refill}) = IF 0 >= clock - l.last_refill THEN 0 ELSE clock - l.last_refill
    BY <1>1, MaxOfTwo
<1>3. QED  BY <1>1, <1>2 DEF SinceRefill

LEMMA RefilledIs ==
    ASSUME clock \in Nat, NEW l \in Entry, l.tokens <= MaxTokens
    PROVE  /\ Refilled(l) \in Entry
           /\ Refilled(l).ip = l.ip /\ Refilled(l).ended = l.ended
           /\ Refilled(l).last_refill = IF clock > l.last_refill THEN clock ELSE l.last_refill
           /\ Refilled(l).tokens <= MaxTokens
           /\ LET t == l.tokens + SinceRefill(l) * Requests
              IN  Refilled(l).tokens = IF t <= MaxTokens THEN t ELSE MaxTokens
<1> DEFINE since == SinceRefill(l)
           t == l.tokens + since * Requests
<1>1. l.tokens \in Nat /\ l.last_refill \in Nat
    BY DEF Entry
<1>2. since \in Nat /\ since = IF clock > l.last_refill THEN clock - l.last_refill ELSE 0
    BY SinceIs
<1>3. since * Requests \in Nat
    BY <1>2, RateAssumption
<1>4. t \in Nat
    BY <1>1, <1>3
<1>5. Min({t, MaxTokens}) = IF t <= MaxTokens THEN t ELSE MaxTokens
    BY <1>4, MinOfTwo, MaxTokensIsNat
<1>6. Min({t, MaxTokens}) \in Nat /\ Min({t, MaxTokens}) <= MaxTokens
    BY <1>4, <1>5, MaxTokensIsNat
<1>7. Refilled(l) = [l EXCEPT !.tokens = Min({t, MaxTokens}), !.last_refill = l.last_refill + since]
    BY DEF Refilled
<1>8. l.last_refill + since = IF clock > l.last_refill THEN clock ELSE l.last_refill
    BY <1>1, <1>2
<1>9. l.last_refill + since \in Nat
    BY <1>1, <1>2
<1> HIDE DEF t, since
<1>10. QED  BY <1>5, <1>6, <1>7, <1>8, <1>9 DEF Entry, t, since

\* What the rate law allows grows by the refill.
LEMMA AllowanceGrows ==
    ASSUME clock \in Nat, NEW l \in Entry, l.tokens <= MaxTokens,
           NEW a \in Seq(Grant), Past(a), NEW i \in DOMAIN a
    PROVE  /\ Allowed(l, a, i) \in Int
           /\ Allowed(Refilled(l), a, i) = Allowed(l, a, i) + SinceRefill(l) * Requests
<1> DEFINE r == Refilled(l)
           g == a[i]
           since == SinceRefill(l)
           reach == Reach(l, g)
<1>1. g \in Grant /\ g.at \in Nat /\ g.peak \in Nat /\ clock <= g.peak
    BY GrantIs DEF Past
<1>2. l.last_refill \in Nat
    BY DEF Entry
<1>3. since \in Nat /\ since = IF clock > l.last_refill THEN clock - l.last_refill ELSE 0
    BY SinceIs
<1>4. r.last_refill = IF clock > l.last_refill THEN clock ELSE l.last_refill
    BY RefilledIs
<1> HIDE DEF r, g, since
<1>5. reach \in Nat /\ Reach(r, g) = reach + since
    BY <1>1, <1>2, <1>3, <1>4 DEF Reach
<1> HIDE DEF reach
<1>6. ((reach + since) - g.at) * Requests = (reach - g.at) * Requests + since * Requests
  <2>1. (reach + since) - g.at = (reach - g.at) + since /\ reach - g.at \in Int
      BY <1>1, <1>3, <1>5
  <2>2. ((reach - g.at) + since) * Requests = (reach - g.at) * Requests + since * Requests
    <3>1. since \in Int /\ reach - g.at \in Int
        BY <1>3, <2>1
    <3>2. QED  BY <3>1, Together, Zenon
  <2>3. QED  BY <2>1, <2>2
<1>7. (reach - g.at) * Requests \in Int /\ since * Requests \in Int
    BY <1>1, <1>3, <1>5, RateAssumption
<1>8. QED  BY <1>5, <1>6, <1>7, MaxTokensIsNat DEF Allowed, r, g, since, reach

LEMMA RefillBalances ==
    ASSUME clock \in Nat, NEW l \in Entry, l.tokens <= MaxTokens,
           NEW a \in Seq(Grant), Past(a), Balanced(l, a)
    PROVE  Balanced(Refilled(l), a)
<1> DEFINE gain == SinceRefill(l) * Requests
           r == Refilled(l)
<1>1. l.tokens \in Nat /\ l.last_refill \in Nat /\ SinceRefill(l) \in Nat
    BY SinceIs DEF Entry
<1>2. gain \in Nat
    BY <1>1, RateAssumption
<1>3. /\ r.tokens = IF l.tokens + gain <= MaxTokens THEN l.tokens + gain ELSE MaxTokens
      /\ l.last_refill <= r.last_refill /\ r.last_refill \in Nat
    BY <1>1, RefilledIs
<1>4. ASSUME NEW i \in DOMAIN a
      PROVE  /\ a[i].at <= r.last_refill
             /\ Allowed(r, a, i) = Allowed(l, a, i) + gain
             /\ Allowed(l, a, i) \in Int
             /\ Spent(r, a, i) = Spent(l, a, i) + (r.tokens - l.tokens)
             /\ Spent(l, a, i) \in Int
  <2>1. a[i] \in Grant /\ a[i].at \in Nat /\ i \in Nat /\ Len(a) \in Nat
      BY GrantIs
  <2>2. a[i].at \in Nat /\ a[i].at <= l.last_refill
      BY <2>1 DEF Balanced
  <2>3. Allowed(l, a, i) \in Int /\ Allowed(r, a, i) = Allowed(l, a, i) + gain
      BY AllowanceGrows
  <2>4. (Len(a) - i + 1) * Window \in Int
      BY <2>1, WindowAssumption
  <2>5. r.tokens \in Int
      BY <1>1, <1>2, <1>3, MaxTokensIsNat
  <2> HIDE DEF gain, r
  <2>6. a[i].at <= r.last_refill
      BY <1>1, <1>3, <2>2
  <2>7. Spent(l, a, i) \in Int
      BY <1>1, <2>4 DEF Spent
  <2>8. Spent(r, a, i) = Spent(l, a, i) + (r.tokens - l.tokens)
      BY <1>1, <2>4, <2>5 DEF Spent
  <2>9. QED  BY <2>3, <2>6, <2>7, <2>8
<1> HIDE DEF gain, r
<1>5. ASSUME NEW i \in DOMAIN a
      PROVE  a[i].at <= r.last_refill /\ Spent(r, a, i) <= Allowed(r, a, i)
  <2>1. Spent(l, a, i) <= Allowed(l, a, i)
      BY DEF Balanced
  <2>2. QED  BY <1>1, <1>2, <1>3, <1>4, <2>1, MaxTokensIsNat
<1>6. setback \/ r.tokens = MaxTokens \/ \E i \in DOMAIN a : Spent(r, a, i) = Allowed(r, a, i)
  <2>1. CASE l.tokens + gain > MaxTokens
      BY <1>1, <1>2, <1>3, <2>1, MaxTokensIsNat
  <2>2. CASE l.tokens + gain <= MaxTokens /\ l.tokens = MaxTokens
      BY <1>1, <1>2, <1>3, <2>2, MaxTokensIsNat
  <2>3. ASSUME l.tokens + gain <= MaxTokens,
               NEW i \in DOMAIN a, Spent(l, a, i) = Allowed(l, a, i)
        PROVE  Spent(r, a, i) = Allowed(r, a, i)
      BY <1>1, <1>2, <1>3, <1>4, <2>3, MaxTokensIsNat
  <2>4. QED  BY <1>1, <1>2, <2>1, <2>2, <2>3, MaxTokensIsNat DEF Balanced
<1>7. QED  BY <1>5, <1>6 DEF Balanced, r

LEMMA SpendBalances ==
    ASSUME clock \in Nat, NEW l \in Entry, clock <= l.last_refill,
           l.tokens <= MaxTokens, l.tokens >= Window,
           NEW a \in Seq(Grant), Balanced(l, a)
    PROVE  Balanced([l EXCEPT !.tokens = @ - Window], Append(a, [at |-> clock, peak |-> clock]))
<1> DEFINE r == [l EXCEPT !.tokens = @ - Window]
           g == [at |-> clock, peak |-> clock]
           b == Append(a, g)
           n == Len(a) + 1
<1>1. r.tokens = l.tokens - Window /\ r.last_refill = l.last_refill
    BY DEF Entry
<1>2. /\ l.tokens \in Nat /\ Len(a) \in Nat /\ Window \in Nat /\ r.tokens \in Int
      /\ l.last_refill \in Nat
    BY <1>1, WindowAssumption DEF Entry
<1>3. Len(b) = n /\ DOMAIN b = 1..n /\ b[n] = g /\ DOMAIN a = 1..Len(a)
    OBVIOUS
<1>4. \A i \in DOMAIN a : b[i] = a[i] /\ i \in DOMAIN b
    BY <1>2, <1>3
<1> HIDE DEF r, b
<1>5. Spent(r, b, n) = l.tokens /\ Allowed(r, b, n) = MaxTokens
  <2>1. (n - n + 1) * Window = Window
      BY <1>2
  <2>2. Reach(r, g) = clock
      BY <1>1, <1>2 DEF Reach
  <2>3. (clock - clock) * Requests = 0
      BY RateAssumption
  <2>4. QED  BY <1>1, <1>2, <1>3, <2>1, <2>2, <2>3, MaxTokensIsNat DEF Spent, Allowed
<1>6. ASSUME NEW i \in DOMAIN a
      PROVE  Spent(r, b, i) = Spent(l, a, i) /\ Allowed(r, b, i) = Allowed(l, a, i)
  <2>1. (n - i + 1) * Window = (Len(a) - i + 1) * Window + Window
    <3>1. Len(a) - i + 1 \in Int /\ n - i + 1 = (Len(a) - i + 1) + 1
        BY <1>2, <1>3
    <3>2. QED  BY <3>1, OneMore
  <2>2. (Len(a) - i + 1) * Window \in Int
      BY <1>2, <1>3
  <2>3. Spent(r, b, i) = Spent(l, a, i)
      BY <1>1, <1>2, <1>3, <2>1, <2>2, SMTT(40) DEF Spent
  <2>4. Reach(r, b[i]) = Reach(l, a[i]) /\ b[i] = a[i]
      BY <1>1, <1>4 DEF Reach
  <2>5. QED  BY <2>3, <2>4 DEF Allowed
<1>7. ASSUME NEW i \in DOMAIN b
      PROVE  b[i].at <= r.last_refill /\ Spent(r, b, i) <= Allowed(r, b, i)
  <2>1. CASE i = n
      BY <1>1, <1>2, <1>3, <1>5, <2>1, MaxTokensIsNat
  <2>2. CASE i \in DOMAIN a
      BY <1>1, <1>4, <1>6, <2>2 DEF Balanced
  <2>3. QED  BY <1>2, <1>3, <2>1, <2>2
<1>8. setback \/ \E i \in DOMAIN b : Spent(r, b, i) = Allowed(r, b, i)
  <2>1. CASE l.tokens = MaxTokens
      BY <1>2, <1>3, <1>5, <2>1
  <2>2. ASSUME NEW i \in DOMAIN a, Spent(l, a, i) = Allowed(l, a, i)
        PROVE  i \in DOMAIN b /\ Spent(r, b, i) = Allowed(r, b, i)
      BY <1>4, <1>6, <2>2
  <2>3. QED  BY <2>1, <2>2 DEF Balanced
<1>9. QED  BY <1>7, <1>8 DEF Balanced, r, b

-----------------------------------------------------------------------------
(* The list of buckets.                                                    *)

\* What get_rate_limiter returns: a bucket of the list, or a new full one.
LEMMA Visited ==
    ASSUME RateInv, NEW ip \in Ips, NEW l \in Limiters(ip)
    PROVE  /\ l \in Entry /\ l.ip = ip
           /\ l.tokens <= MaxTokens /\ (setback \/ l.last_refill <= clock)
           /\ (ip \in Short) => (l.ended /\ Balanced(l, admitted[ip]))
           /\ \/ \E m \in DOMAIN limiters :
                   /\ l = limiters[m]
                   /\ \A e : Store(limiters, ip, e) = [limiters EXCEPT ![m] = e]
              \/ /\ \A e : Store(limiters, ip, e) = <<e>> \o limiters
                 /\ (ip \in Short) => \A m \in DOMAIN limiters : limiters[m].ip # ip
<1> USE DEF RateInv, RateTypes
<1> DEFINE M == Matches(limiters, ip)
<1>1. DOMAIN limiters \subseteq Nat /\ \A m \in DOMAIN limiters : limiters[m] \in Entry
    OBVIOUS
<1>2. CASE M # {}
  <2>1. M \in SUBSET Nat /\ M \subseteq DOMAIN limiters
      BY <1>1 DEF Matches
  <2>2. Min(M) \in M
      BY <1>2, <2>1, MinIsLeast
  <2> DEFINE k == Min(M)
  <2>3. k \in DOMAIN limiters /\ limiters[k].ip = ip /\ l = limiters[k]
      BY <1>2, <2>2 DEF Matches, Limiters
  <2>4. \A e : Store(limiters, ip, e) = [limiters EXCEPT ![k] = e]
      BY <1>2 DEF Store
  <2> HIDE DEF k
  <2>5. QED  BY <1>1, <2>3, <2>4 DEF BucketInv, FoundInv, LedgerInv
<1>3. CASE M = {}
  <2>1. PICK z \in Terminated(ip) :
            l = [ip |-> ip, ended |-> z, tokens |-> MaxTokens, last_refill |-> clock]
      BY <1>3 DEF Limiters
  <2>2. z \in BOOLEAN /\ ((ip \in Short) => z)
      BY <2>1 DEF Terminated, Short
  <2>3. l \in Entry
      BY <2>1, <2>2, MaxTokensIsNat DEF Entry
  <2>4. \A e : Store(limiters, ip, e) = <<e>> \o limiters
      BY <1>3 DEF Store
  <2>5. ASSUME ip \in Short
        PROVE  \A m \in DOMAIN limiters : limiters[m].ip # ip
      BY <1>3, <2>5 DEF Matches, FoundInv
  <2>6. ASSUME ip \in Short
        PROVE  Balanced(l, admitted[ip])
    <3>1. admitted[ip] = <<>>
        BY <2>5, <2>6 DEF FoundInv
    <3>2. QED  BY <2>1, <3>1 DEF Balanced
  <2>7. QED  BY <2>1, <2>2, <2>3, <2>4, <2>5, <2>6, MaxTokensIsNat
<1>4. QED  BY <1>2, <1>3

\* A call that leaves the visited bucket as e, and its requests as a, keeps the
\* invariant if it keeps the account of e.
LEMMA StoreStep ==
    ASSUME RateInv, NEW ip \in Ips, NEW l \in Limiters(ip),
           NEW e \in Entry, e.ip = ip, e.ended = l.ended,
           e.tokens <= MaxTokens, setback \/ e.last_refill <= clock,
           NEW a \in Seq(Grant), Past(a), (ip \in Short) => Balanced(e, a),
           limiters' = Store(limiters, ip, e),
           admitted' = [admitted EXCEPT ![ip] = a],
           clock' = clock, setback' = setback
    PROVE  RateInv'
<1>1. /\ clock \in Nat /\ limiters \in Seq(Entry) /\ admitted \in [Ips -> Seq(Grant)]
      /\ setback \in BOOLEAN /\ BucketInv /\ HistoryInv /\ FoundInv /\ LedgerInv
    BY DEF RateInv, RateTypes
<1> DEFINE Entries == \A m \in DOMAIN limiters : limiters[m] \in Entry /\ limiters[m].ip \in Ips
<1>2. Entries
  <2>1. \A m \in DOMAIN limiters : limiters[m] \in Entry
      BY <1>1
  <2>2. QED  BY <2>1 DEF Entry
<1>3. /\ clock' \in Nat /\ admitted' \in [Ips -> Seq(Grant)] /\ admitted'[ip] = a
      /\ \A j \in Ips \ {ip} : admitted'[j] = admitted[j]
    BY <1>1
<1>4. (ip \in Short) => e.ended
    BY Visited
<1>past. HistoryInv'
  <2>1. ASSUME NEW j \in Ips
        PROVE  Past(admitted'[j])
      BY <1>1, <1>3 DEF HistoryInv
  <2>2. QED  BY <2>1 DEF HistoryInv, Past
<1>5. ASSUME NEW m \in DOMAIN limiters, l = limiters[m], limiters' = [limiters EXCEPT ![m] = e]
      PROVE  RateInv'
  <2>1. /\ limiters' \in Seq(Entry) /\ DOMAIN limiters' = DOMAIN limiters
        /\ limiters'[m] = e /\ limiters[m].ip = ip
        /\ \A n \in DOMAIN limiters \ {m} : limiters'[n] = limiters[n]
      BY <1>1, <1>5, Visited
  <2>2. BucketInv'
      BY <1>1, <2>1 DEF BucketInv, MaxTokens
  <2>3. FoundInv'
    <3>1. \A n \in DOMAIN limiters : limiters'[n].ip = limiters[n].ip
        BY <2>1
    <3>2. ASSUME NEW n \in DOMAIN limiters, limiters'[n].ip \in Short
          PROVE  limiters'[n].ended
      <4>1. CASE n = m
          BY <1>4, <2>1, <3>2, <4>1
      <4>2. CASE n # m
          BY <1>1, <2>1, <3>2, <4>2 DEF FoundInv
      <4>3. QED  BY <4>1, <4>2
    <3>3. \A n, k \in DOMAIN limiters :
             (limiters'[n].ip = limiters'[k].ip /\ limiters'[n].ip \in Short) => (n = k)
        BY <1>1, <3>1 DEF FoundInv
    <3>4. ASSUME NEW j \in Short, admitted'[j] # <<>>
          PROVE  \E n \in DOMAIN limiters : limiters'[n].ip = j
      <4>1. CASE j = ip
          BY <2>1, <3>1, <4>1
      <4>2. CASE j # ip
        <5>1. admitted[j] # <<>>
            BY <1>3, <3>4, <4>2 DEF Short
        <5>2. PICK n \in DOMAIN limiters : limiters[n].ip = j
            BY <1>1, <5>1 DEF FoundInv
        <5>3. QED  BY <3>1, <5>2
      <4>3. QED  BY <4>1, <4>2
    <3>5. QED  BY <2>1, <3>2, <3>3, <3>4 DEF FoundInv, Short
  <2>4. ASSUME NEW n \in DOMAIN limiters, limiters'[n].ip \in Short
        PROVE  Balanced(limiters'[n], admitted'[limiters'[n].ip])
    <3>1. CASE n = m
        BY <1>3, <2>1, <2>4, <3>1
    <3>2. CASE n # m
      <4>1. limiters'[n] = limiters[n] /\ limiters[n].ip # ip
          BY <1>1, <2>1, <2>4, <3>2 DEF FoundInv
      <4>2. limiters[n].ip \in Ips
          BY <1>2
      <4>3. QED  BY <1>1, <1>3, <2>4, <4>1, <4>2 DEF LedgerInv
    <3>3. QED  BY <3>1, <3>2
  <2>5. LedgerInv'
      BY <2>1, <2>4 DEF LedgerInv, Balanced, Spent, Allowed, Reach, MaxTokens, Short
  <2>6. QED  BY <1>1, <1>3, <1>past, <2>1, <2>2, <2>3, <2>5 DEF RateInv, RateTypes, Entry, Grant
<1>6. ASSUME limiters' = <<e>> \o limiters,
             (ip \in Short) => \A m \in DOMAIN limiters : limiters[m].ip # ip
      PROVE  RateInv'
  <2>1. /\ limiters' \in Seq(Entry) /\ DOMAIN limiters' = 1..Len(limiters) + 1
        /\ limiters'[1] = e
        /\ \A n \in DOMAIN limiters' \ {1} : n - 1 \in DOMAIN limiters /\ limiters'[n] = limiters[n - 1]
        /\ \A n \in DOMAIN limiters : n + 1 \in DOMAIN limiters' /\ limiters'[n + 1] = limiters[n]
      BY <1>1, <1>6
  <2>2. BucketInv'
      BY <1>1, <2>1 DEF BucketInv, MaxTokens
  <2>3. FoundInv'
    <3>1. \A n \in DOMAIN limiters' \ {1} : n - 1 \in DOMAIN limiters /\ limiters'[n] = limiters[n - 1]
        BY <2>1
    <3>2. ASSUME NEW n \in DOMAIN limiters', limiters'[n].ip \in Short
          PROVE  limiters'[n].ended
      <4>1. CASE n = 1
          BY <1>4, <2>1, <3>2, <4>1
      <4>2. CASE n # 1
          BY <1>1, <3>1, <3>2, <4>2 DEF FoundInv
      <4>3. QED  BY <4>1, <4>2
    <3>3. ASSUME NEW n \in DOMAIN limiters', NEW k \in DOMAIN limiters',
                 limiters'[n].ip = limiters'[k].ip, limiters'[n].ip \in Short
          PROVE  n = k
      <4>1. CASE n = 1 \/ k = 1
          BY <1>6, <2>1, <3>1, <3>3, <4>1
      <4>2. CASE n # 1 /\ k # 1
        <5>1. n - 1 = k - 1
            BY <1>1, <3>1, <3>3, <4>2 DEF FoundInv
        <5>2. n \in Int /\ k \in Int
            BY <1>1, <2>1
        <5>3. QED  BY <5>1, <5>2
      <4>3. QED  BY <4>1, <4>2
    <3>4. ASSUME NEW j \in Short, admitted'[j] # <<>>
          PROVE  \E n \in DOMAIN limiters' : limiters'[n].ip = j
      <4>1. CASE j = ip
        <5>1. 1 \in DOMAIN limiters' /\ limiters'[1].ip = ip
            BY <1>1, <2>1
        <5>2. QED  BY <4>1, <5>1
      <4>2. CASE j # ip
        <5>1. admitted[j] # <<>>
            BY <1>3, <3>4, <4>2 DEF Short
        <5>2. PICK n \in DOMAIN limiters : limiters[n].ip = j
            BY <1>1, <5>1 DEF FoundInv
        <5>3. n + 1 \in DOMAIN limiters' /\ limiters'[n + 1] = limiters[n]
            BY <2>1
        <5>4. QED  BY <5>2, <5>3
      <4>3. QED  BY <4>1, <4>2
    <3>5. QED  BY <3>2, <3>3, <3>4 DEF FoundInv, Short
  <2>4. ASSUME NEW n \in DOMAIN limiters', limiters'[n].ip \in Short
        PROVE  Balanced(limiters'[n], admitted'[limiters'[n].ip])
    <3>1. CASE n = 1
        BY <1>3, <2>1, <2>4, <3>1
    <3>2. CASE n # 1
      <4>1. n - 1 \in DOMAIN limiters /\ limiters'[n] = limiters[n - 1] /\ limiters[n - 1].ip # ip
          BY <1>6, <2>1, <2>4, <3>2
      <4>2. limiters[n - 1].ip \in Ips
          BY <1>2, <4>1
      <4>3. QED  BY <1>1, <1>3, <2>4, <4>1, <4>2 DEF LedgerInv
    <3>3. QED  BY <3>1, <3>2
  <2>5. LedgerInv'
      BY <2>4 DEF LedgerInv, Balanced, Spent, Allowed, Reach, MaxTokens, Short
  <2>6. QED  BY <1>1, <1>3, <1>past, <2>1, <2>2, <2>3, <2>5 DEF RateInv, RateTypes, Entry, Grant
<1>7. QED  BY <1>5, <1>6, Visited

-----------------------------------------------------------------------------
(* The steps.                                                              *)

\* What a call finds: a bucket that is refilled, and requests of the past.
LEMMA CallFinds ==
    ASSUME RateInv, NEW ip \in Ips, NEW l \in Limiters(ip)
    PROVE  LET r == Refilled(l)
           IN  /\ clock \in Nat /\ admitted[ip] \in Seq(Grant) /\ Past(admitted[ip])
               /\ r \in Entry /\ r.ip = ip /\ r.ended = l.ended
               /\ r.tokens <= MaxTokens /\ clock <= r.last_refill
               /\ (setback \/ r.last_refill = clock)
               /\ (ip \in Short) => Balanced(r, admitted[ip])
<1>1. clock \in Nat /\ admitted[ip] \in Seq(Grant) /\ Past(admitted[ip])
    BY DEF RateInv, RateTypes, HistoryInv
<1>2. /\ l \in Entry /\ l.ip = ip /\ l.tokens <= MaxTokens
      /\ (setback \/ l.last_refill <= clock)
      /\ (ip \in Short) => Balanced(l, admitted[ip])
    BY Visited
<1>3. l.last_refill \in Nat
    BY <1>2 DEF Entry
<1> DEFINE r == Refilled(l)
<1>4. /\ r \in Entry /\ r.ip = l.ip /\ r.ended = l.ended /\ r.tokens <= MaxTokens
      /\ r.last_refill = IF clock > l.last_refill THEN clock ELSE l.last_refill
    BY <1>1, <1>2, RefilledIs
<1>5. (ip \in Short) => Balanced(r, admitted[ip])
    BY <1>1, <1>2, RefillBalances
<1> HIDE DEF r
<1>6. QED  BY <1>1, <1>2, <1>3, <1>4, <1>5 DEF r

LEMMA AllowStep ==
    ASSUME RateInv, NEW ip \in Ips, AllowRequest(ip)
    PROVE  RateInv'
<1>1. PICK l \in Limiters(ip) :
         /\ Refilled(l).tokens >= Window
         /\ limiters' = Store(limiters, ip, [Refilled(l) EXCEPT !.tokens = @ - Window])
    BY DEF AllowRequest
<1> DEFINE r == Refilled(l)
           e == [r EXCEPT !.tokens = @ - Window]
           g == [at |-> clock, peak |-> clock]
           a == Append(admitted[ip], g)
<1>2. clock \in Nat /\ admitted[ip] \in Seq(Grant) /\ Past(admitted[ip]) /\ g \in Grant
    BY CallFinds DEF Grant
<1>3. /\ r \in Entry /\ r.ip = ip /\ r.ended = l.ended
      /\ r.tokens <= MaxTokens /\ clock <= r.last_refill
      /\ (setback \/ r.last_refill = clock)
      /\ (ip \in Short) => Balanced(r, admitted[ip])
    BY CallFinds
<1>4. r.tokens >= Window
    BY <1>1
<1>5. (ip \in Short) => Balanced(e, a)
    BY <1>2, <1>3, <1>4, SpendBalances
<1>6. /\ limiters' = Store(limiters, ip, e) /\ admitted' = [admitted EXCEPT ![ip] = a]
      /\ clock' = clock /\ setback' = setback
    BY <1>1 DEF AllowRequest
<1> HIDE DEF r
<1>7. /\ e \in Entry /\ e.ip = ip /\ e.ended = l.ended
      /\ e.tokens <= MaxTokens /\ (setback \/ e.last_refill <= clock)
  <2>1. r.tokens - Window \in Nat /\ r.tokens - Window <= MaxTokens
      BY <1>3, <1>4, WindowAssumption, MaxTokensIsNat DEF Entry
  <2>2. QED  BY <1>2, <1>3, <2>1 DEF Entry
<1>8. a \in Seq(Grant) /\ Past(a)
  <2>1. a \in Seq(Grant) /\ \A i \in DOMAIN a : i \in DOMAIN admitted[ip] \/ a[i] = g
      BY <1>2
  <2>2. \A i \in DOMAIN admitted[ip] : a[i] = admitted[ip][i]
      BY <1>2
  <2>3. g.at = clock /\ g.peak = clock /\ clock <= clock
      BY <1>2
  <2> HIDE DEF a, g
  <2>4. QED  BY <1>2, <2>1, <2>2, <2>3 DEF Past
<1> HIDE DEF e, a
<1>9. QED  BY <1>5, <1>6, <1>7, <1>8, StoreStep

LEMMA RefuseStep ==
    ASSUME RateInv, NEW ip \in Ips, RefuseRequest(ip)
    PROVE  RateInv'
<1>1. PICK l \in Limiters(ip) : limiters' = Store(limiters, ip, Refilled(l))
    BY DEF RefuseRequest
<1> DEFINE r == Refilled(l)
           a == admitted[ip]
<1>2. /\ clock \in Nat /\ a \in Seq(Grant) /\ Past(a)
      /\ r \in Entry /\ r.ip = ip /\ r.ended = l.ended
      /\ r.tokens <= MaxTokens /\ (setback \/ r.last_refill = clock)
      /\ (ip \in Short) => Balanced(r, a)
    BY CallFinds
<1>3. /\ limiters' = Store(limiters, ip, r) /\ admitted' = [admitted EXCEPT ![ip] = a]
      /\ clock' = clock /\ setback' = setback
    BY <1>1 DEF RefuseRequest, RateInv, RateTypes
<1>4. setback \/ r.last_refill <= clock
    BY <1>2
<1> HIDE DEF r, a
<1>5. QED  BY <1>2, <1>3, <1>4, StoreStep

\* A change of the clock raises the peaks and nothing else.
LEMMA PeaksRise ==
    ASSUME RateInv, ClockIsSet, NEW ip \in Ips
    PROVE  LET a == admitted[ip]  b == admitted'[ip]
           IN  /\ a \in Seq(Grant) /\ b \in Seq(Grant)
               /\ Len(b) = Len(a) /\ DOMAIN b = DOMAIN a
               /\ \A i \in DOMAIN a :
                     /\ b[i].at = a[i].at
                     /\ b[i].peak = IF a[i].peak >= clock' THEN a[i].peak ELSE clock'
<1> DEFINE a == admitted[ip]
           b == admitted'[ip]
<1>1. a \in Seq(Grant) /\ Len(a) \in Nat /\ DOMAIN a = 1..Len(a) /\ clock' \in Nat
    BY BoundAssumption DEF RateInv, RateTypes, ClockIsSet
<1>2. b = [i \in DOMAIN a |-> [a[i] EXCEPT !.peak = Max({@, clock'})]]
    BY DEF ClockIsSet
<1>3. ASSUME NEW i \in DOMAIN a
      PROVE  /\ b[i] \in Grant /\ b[i].at = a[i].at
             /\ b[i].peak = IF a[i].peak >= clock' THEN a[i].peak ELSE clock'
  <2>1. a[i] \in Grant /\ a[i].peak \in Nat
      BY <1>1, GrantIs
  <2>2. Max({a[i].peak, clock'}) = IF a[i].peak >= clock' THEN a[i].peak ELSE clock'
      BY <1>1, <2>1, MaxOfTwo
  <2>3. b[i] = [a[i] EXCEPT !.peak = Max({a[i].peak, clock'})]
      BY <1>2
  <2>4. QED  BY <1>1, <2>1, <2>2, <2>3 DEF Grant
<1>4. b \in Seq(Grant) /\ Len(b) = Len(a) /\ DOMAIN b = DOMAIN a
  <2>1. DOMAIN b = 1..Len(a) /\ b = [i \in 1..Len(a) |-> b[i]]
      BY <1>1, <1>2
  <2>2. \A i \in 1..Len(a) : b[i] \in Grant
      BY <1>1, <1>3
  <2> HIDE DEF b, a
  <2>3. QED  BY <1>1, <2>1, <2>2
<1>5. QED  BY <1>1, <1>3, <1>4

LEMMA ClockStep ==
    ASSUME RateInv, ClockIsSet
    PROVE  RateInv'
<1>1. /\ clock \in Nat /\ clock' \in Nat /\ setback' \in BOOLEAN
      /\ limiters \in Seq(Entry) /\ limiters' = limiters /\ DOMAIN admitted' = Ips
    BY BoundAssumption DEF RateInv, RateTypes, ClockIsSet
<1>2. BucketInv /\ HistoryInv /\ FoundInv /\ LedgerInv
    BY DEF RateInv
<1>back. (setback => setback') /\ (~setback' => clock <= clock')
  <2>1. setback' = (setback \/ clock' < clock)
      BY DEF ClockIsSet
  <2>2. (setback => setback') /\ (~setback' => ~(clock' < clock))
      BY <2>1
  <2>3. QED  BY <1>1, <2>2
<1>3. \A m \in DOMAIN limiters : limiters[m].last_refill \in Nat /\ limiters[m].tokens \in Nat
  <2>1. \A m \in DOMAIN limiters : limiters[m] \in Entry
      BY <1>1
  <2>2. QED  BY <2>1 DEF Entry
<1>4. RateTypes'
  <2>1. \A ip \in Ips : admitted'[ip] \in Seq(Grant)
      BY PeaksRise
  <2>2. admitted' = [ip \in Ips |-> admitted'[ip]]
      BY DEF ClockIsSet
  <2>3. QED  BY <1>1, <2>1, <2>2 DEF RateTypes, Entry, Grant
<1>5. BucketInv'
  <2>1. ASSUME NEW m \in DOMAIN limiters
        PROVE  limiters[m].tokens <= MaxTokens /\ (setback' \/ limiters[m].last_refill <= clock')
    <3>1. limiters[m].tokens <= MaxTokens /\ (setback \/ limiters[m].last_refill <= clock)
        BY <1>2 DEF BucketInv
    <3>2. QED  BY <1>1, <1>3, <1>back, <3>1
  <2>2. QED  BY <1>1, <2>1 DEF BucketInv, MaxTokens
<1>6. HistoryInv'
  <2>1. ASSUME NEW ip \in Ips, NEW i \in DOMAIN admitted'[ip]
        PROVE  LET g == admitted'[ip][i]
               IN  g.at <= g.peak /\ clock' <= g.peak /\ (setback' \/ g.peak = clock')
    <3> DEFINE a == admitted[ip]
               b == admitted'[ip]
    <3>1. /\ a \in Seq(Grant) /\ DOMAIN b = DOMAIN a /\ i \in DOMAIN a /\ b[i].at = a[i].at
          /\ b[i].peak = IF a[i].peak >= clock' THEN a[i].peak ELSE clock'
        BY <2>1, PeaksRise
    <3>2. a[i].at \in Nat /\ a[i].peak \in Nat
        BY <3>1, GrantIs
    <3>3. a[i].at <= a[i].peak /\ clock <= a[i].peak /\ (setback \/ a[i].peak = clock)
        BY <1>2, <3>1 DEF HistoryInv, Past
    <3> HIDE DEF a, b
    <3>4. b[i].at <= b[i].peak /\ clock' <= b[i].peak /\ (setback' \/ b[i].peak = clock')
        BY <1>1, <1>back, <3>1, <3>2, <3>3
    <3>5. QED  BY <3>4 DEF b
  <2>2. QED  BY <2>1 DEF HistoryInv, Past
<1>7. FoundInv'
  <2>1. ASSUME NEW ip \in Short, admitted'[ip] # <<>>
        PROVE  admitted[ip] # <<>>
    <3>1. /\ admitted[ip] \in Seq(Grant) /\ admitted'[ip] \in Seq(Grant)
          /\ Len(admitted'[ip]) = Len(admitted[ip])
        BY PeaksRise DEF Short
    <3>2. QED  BY <2>1, <3>1
  <2>2. QED  BY <1>1, <1>2, <2>1 DEF FoundInv, Short
<1>8. ASSUME NEW m \in DOMAIN limiters, limiters[m].ip \in Short
      PROVE  Balanced(limiters[m], admitted[limiters[m].ip])'
  <2> DEFINE l == limiters[m]
             ip == l.ip
             a == admitted[ip]
             b == admitted'[ip]
  <2>1. /\ Balanced(l, a) /\ l.last_refill \in Nat /\ l.tokens \in Nat
        /\ (setback \/ l.last_refill <= clock) /\ l' = l /\ ip \in Ips /\ limiters'[m] = l
      BY <1>1, <1>2, <1>3, <1>8 DEF LedgerInv, BucketInv, Short
  <2> HIDE DEF l
  <2>2. /\ a \in Seq(Grant) /\ b \in Seq(Grant) /\ Len(b) = Len(a) /\ DOMAIN b = DOMAIN a
        /\ \A i \in DOMAIN a :
              /\ b[i].at = a[i].at
              /\ b[i].peak = IF a[i].peak >= clock' THEN a[i].peak ELSE clock'
      BY <2>1, PeaksRise
  <2>3. \A i \in DOMAIN a : clock <= a[i].peak /\ (setback \/ a[i].peak = clock)
      BY <1>2, <2>1 DEF HistoryInv, Past
  <2> HIDE DEF a, b
  <2>4. ASSUME NEW i \in DOMAIN a
        PROVE  /\ b[i].at <= l.last_refill
               /\ Spent(l, b, i) = Spent(l, a, i) /\ Spent(l, a, i) \in Int
               /\ Allowed(l, a, i) <= Allowed(l, b, i)
               /\ Allowed(l, a, i) \in Int /\ Allowed(l, b, i) \in Int
               /\ (setback' \/ Allowed(l, b, i) = Allowed(l, a, i))
    <3>1. a[i].at \in Nat /\ a[i].peak \in Nat /\ i \in Nat /\ Len(a) \in Nat
        BY <2>2, GrantIs
    <3>2. a[i].at <= l.last_refill
        BY <2>1 DEF Balanced
    <3>3. /\ b[i].at = a[i].at
          /\ b[i].peak = IF a[i].peak >= clock' THEN a[i].peak ELSE clock'
        BY <2>2
    <3> DEFINE u == Reach(l, a[i])
               v == Reach(l, b[i])
               d == v - u
    <3>4. /\ u \in Nat /\ v \in Nat /\ d \in Nat /\ v = u + d
          /\ (setback' \/ d = 0)
        BY <1>1, <1>back, <2>1, <2>3, <3>1, <3>2, <3>3 DEF Reach
    <3>5. Spent(l, b, i) = Spent(l, a, i)
        BY <2>2 DEF Spent
    <3>6. (Len(a) - i + 1) * Window \in Int
        BY <3>1, WindowAssumption
    <3>7. Spent(l, a, i) \in Int
        BY <2>1, <3>6 DEF Spent
    <3> HIDE DEF u, v, d
    <3>8. /\ (v - b[i].at) * Requests = (u - a[i].at) * Requests + d * Requests
          /\ d * Requests \in Nat /\ (u - a[i].at) * Requests \in Int
          /\ (d = 0) => (d * Requests = 0)
      <4>1. v - b[i].at = (u - a[i].at) + d /\ u - a[i].at \in Int
          BY <3>1, <3>3, <3>4
      <4>2. ((u - a[i].at) + d) * Requests = (u - a[i].at) * Requests + d * Requests
        <5>1. \A x, y \in Int : (x + y) * Requests = x * Requests + y * Requests
            BY Together
        <5>2. u - a[i].at \in Int /\ d \in Int
            BY <3>4, <4>1
        <5>3. QED  BY <5>1, <5>2, Zenon
      <4>3. d * Requests \in Nat /\ (u - a[i].at) * Requests \in Int
          BY <3>4, <4>1, RateAssumption
      <4>4. (d = 0) => (d * Requests = 0)
          BY RateAssumption
      <4>5. QED  BY <4>1, <4>2, <4>3, <4>4
    <3>9. /\ Allowed(l, a, i) = MaxTokens + (u - a[i].at) * Requests
          /\ Allowed(l, b, i) = MaxTokens + (v - b[i].at) * Requests
        BY DEF Allowed, u, v
    <3>10. /\ Allowed(l, a, i) \in Int /\ Allowed(l, b, i) = Allowed(l, a, i) + d * Requests
        BY <3>8, <3>9, MaxTokensIsNat
    <3>11. b[i].at <= l.last_refill
        BY <3>2, <3>3
    <3>12. QED  BY <3>4, <3>5, <3>7, <3>8, <3>10, <3>11
  <2>5. \A i \in DOMAIN b : b[i].at <= l.last_refill /\ Spent(l, b, i) <= Allowed(l, b, i)
    <3>1. ASSUME NEW i \in DOMAIN a
          PROVE  b[i].at <= l.last_refill /\ Spent(l, b, i) <= Allowed(l, b, i)
      <4>1. Spent(l, a, i) <= Allowed(l, a, i)
          BY <2>1 DEF Balanced
      <4>2. QED  BY <2>4, <4>1
    <3>2. QED  BY <2>2, <3>1
  <2>6. \/ setback' \/ l.tokens = MaxTokens
        \/ \E i \in DOMAIN b : Spent(l, b, i) = Allowed(l, b, i)
    <3>1. SUFFICES ASSUME ~setback', l.tokens # MaxTokens
                   PROVE  \E i \in DOMAIN b : Spent(l, b, i) = Allowed(l, b, i)
        OBVIOUS
    <3>2. PICK i \in DOMAIN a : Spent(l, a, i) = Allowed(l, a, i)
        BY <1>back, <2>1, <3>1 DEF Balanced
    <3>3. QED  BY <2>2, <2>4, <3>1, <3>2
  <2>7. b = admitted'[limiters'[m].ip] /\ limiters'[m] = l
      BY <2>1 DEF b, l
  <2>8. QED  BY <2>5, <2>6, <2>7 DEF Balanced, Spent, Allowed, Reach, MaxTokens
<1>9. LedgerInv'
    BY <1>1, <1>8 DEF LedgerInv, Short
<1>10. QED  BY <1>4, <1>5, <1>6, <1>7, <1>9 DEF RateInv

LEMMA InitRate ==
    ASSUME RateInit
    PROVE  RateInv
<1>1. clock = 0 /\ setback = FALSE /\ limiters = <<>> /\ admitted = [ip \in Ips |-> <<>>]
    BY DEF RateInit
<1>2. RateTypes
  <2>1. <<>> \in Seq(Grant) /\ <<>> \in Seq(Entry)
      OBVIOUS
  <2>2. QED  BY <1>1, <2>1 DEF RateTypes
<1>3. DOMAIN limiters = {} /\ \A ip \in Ips : DOMAIN admitted[ip] = {}
    BY <1>1
<1>4. BucketInv /\ LedgerInv /\ HistoryInv
    BY <1>3 DEF BucketInv, LedgerInv, HistoryInv, Past
<1>5. FoundInv
    BY <1>1, <1>3 DEF FoundInv, Short
<1>6. QED  BY <1>2, <1>4, <1>5 DEF RateInv

LEMMA NextRate ==
    ASSUME RateInv, [RateNext]_rateVars
    PROVE  RateInv'
<1>1. CASE ClockIsSet
    BY <1>1, ClockStep
<1>2. CASE RateLimitCleanup
  <2>1. limiters' = <<>> /\ admitted' = [ip \in Ips |-> <<>>] /\ clock' = clock /\ setback' = setback
      BY <1>2 DEF RateLimitCleanup
  <2>2. DOMAIN limiters' = {} /\ \A ip \in Ips : DOMAIN admitted'[ip] = {}
      BY <2>1
  <2>3. RateTypes'
      BY <2>1 DEF RateInv, RateTypes
  <2>4. BucketInv' /\ LedgerInv' /\ HistoryInv'
      BY <2>2 DEF BucketInv, LedgerInv, HistoryInv, Past
  <2>5. FoundInv'
      BY <2>1, <2>2 DEF FoundInv, Short
  <2>6. QED  BY <2>3, <2>4, <2>5 DEF RateInv
<1>3. ASSUME UNCHANGED <<clock, limiters, setback, admitted>>
      PROVE  RateInv'
    BY <1>3 DEF RateInv, RateTypes, BucketInv, HistoryInv, Past, FoundInv, LedgerInv, Balanced,
                Spent, Allowed, Reach, MaxTokens, Short
<1>4. ASSUME NEW ip \in Ips, AllowRequest(ip) \/ RefuseRequest(ip)
      PROVE  RateInv'
    BY <1>4, AllowStep, RefuseStep
<1>5. CASE \/ CleanupOldEntries \/ UNCHANGED rateVars
           \/ \E ip \in Ips : NoMemory(ip)
           \/ \E ip \in Ips, n \in Chunks :
                 AllowTransfer(ip, n) \/ RefuseTransfer(ip, n) \/ UpdateBandwidth(ip, n)
  <2>1. UNCHANGED <<clock, limiters, setback, admitted>>
      BY <1>5 DEF CleanupOldEntries, NoMemory, AllowTransfer, RefuseTransfer, UpdateBandwidth, rateVars
  <2>2. QED  BY <1>3, <2>1
<1>6. QED  BY <1>1, <1>2, <1>4, <1>5 DEF RateNext

-----------------------------------------------------------------------------
(* The theorems.                                                           *)

\* The inductive invariant of the limiter.
THEOREM RateInvariant == RateSpec => []RateInv
<1>1. RateInit => RateInv
    BY InitRate
<1>2. RateInv /\ [RateNext]_rateVars => RateInv'
    BY NextRate
<1>3. QED  BY <1>1, <1>2, PTL DEF RateSpec

\* What the account says about the rate law: a run of requests is not overdrawn,
\* and would be by one more when a bucket that is refilled up to clock holds less
\* than a token, unless nothing is ever refilled.
LEMMA NotOverdrawn ==
    ASSUME RateInv, NEW ip \in Short, NEW i \in DOMAIN admitted[ip]
    PROVE  ~Overdrawn(ip, i, 0)
<1> DEFINE a == admitted[ip]
<1>1. PICK m \in DOMAIN limiters : limiters[m].ip = ip
  <2>1. a # <<>>
      OBVIOUS
  <2>2. QED  BY <2>1 DEF RateInv, FoundInv
<1> DEFINE l == limiters[m]
<1>2. l \in Entry /\ a \in Seq(Grant)
    BY DEF RateInv, RateTypes, Short
<1>3. Balanced(l, a)
    BY <1>1 DEF RateInv, LedgerInv
<1>4. a[i].at <= a[i].peak
    BY DEF RateInv, HistoryInv, Past, Short
<1> HIDE DEF l
<1>5. /\ a[i].at \in Nat /\ a[i].peak \in Nat /\ i \in Nat /\ Len(a) \in Nat
      /\ l.tokens \in Nat /\ l.last_refill \in Nat
  <2>1. a[i].at \in Nat /\ a[i].peak \in Nat /\ i \in Nat /\ Len(a) \in Nat
      BY <1>2, GrantIs
  <2>2. QED  BY <1>2, <2>1 DEF Entry
<1> HIDE DEF a
<1>6. Spent(l, a, i) <= Allowed(l, a, i) /\ i \in DOMAIN a
    BY <1>3 DEF Balanced, a
<1> DEFINE reach == Reach(l, a[i])
           later == (a[i].peak - reach) * Requests
           before == (reach - a[i].at) * Requests
           cost == (Len(a) - i + 1) * Window
<1>7. reach \in Nat /\ reach <= a[i].peak
    BY <1>4, <1>5 DEF Reach
<1>8. (a[i].peak - a[i].at) * Requests = before + later
    BY <1>5, <1>7, Stretches, Zenon
<1>9. later \in Nat /\ before \in Int /\ cost \in Int
  <2>1. a[i].peak - reach \in Nat /\ reach - a[i].at \in Int /\ Len(a) - i + 1 \in Int
      BY <1>5, <1>7
  <2> HIDE DEF reach
  <2>2. later \in Nat
      BY <2>1, RateAssumption
  <2>3. before \in Int
      BY <2>1, RateAssumption
  <2>4. cost \in Int
      BY <2>1, WindowAssumption
  <2>5. QED  BY <2>2, <2>3, <2>4
<1>10. l.tokens + cost <= MaxTokens + before
    BY <1>6 DEF Spent, Allowed
<1>11. Len(a) - i + 1 + 0 = Len(a) - i + 1
    BY <1>5
<1> HIDE DEF later, before, cost, reach
<1>12. ~(cost > MaxTokens + (before + later))
    BY <1>5, <1>9, <1>10, MaxTokensIsNat
<1>13. QED  BY <1>8, <1>11, <1>12 DEF Overdrawn, a, cost

LEMMA WouldOverdraw ==
    ASSUME RateInv, ~setback, NEW ip \in Short, RefuseRequest(ip)
    PROVE  Requests = 0 \/ \E i \in DOMAIN admitted[ip] : Overdrawn(ip, i, 1)
<1> DEFINE a == admitted[ip]
<1>1. PICK l \in Limiters(ip) : Refilled(l).tokens < Window
    BY DEF RefuseRequest
<1> DEFINE r == Refilled(l)
<1>2. ip \in Ips
    BY DEF Short
<1>3. /\ clock \in Nat /\ a \in Seq(Grant) /\ Past(a)
      /\ r \in Entry /\ r.last_refill = clock /\ Balanced(r, a)
    BY <1>2, CallFinds
<1>4. r.tokens \in Nat /\ r.tokens < Window
    BY <1>1, <1>3 DEF Entry
<1> HIDE DEF r
<1>5. CASE r.tokens = MaxTokens
  <2>1. Requests * Window < Window
      BY <1>4, <1>5 DEF MaxTokens
  <2>2. QED  BY <2>1, RateAssumption, WindowAssumption
<1>6. ASSUME NEW i \in DOMAIN a, Spent(r, a, i) = Allowed(r, a, i)
      PROVE  Overdrawn(ip, i, 1)
  <2>1. a[i].at \in Nat /\ i \in Nat /\ Len(a) \in Nat /\ Window \in Nat
      BY <1>3, GrantIs, WindowAssumption
  <2>2. a[i].peak = clock
      BY <1>3 DEF Past
  <2> DEFINE cost == (Len(a) - i + 1) * Window
             allowed == (clock - a[i].at) * Requests
  <2>3. cost \in Int /\ allowed \in Int
      BY <1>3, <2>1, RateAssumption
  <2>4. (Len(a) - i + 1 + 1) * Window = cost + Window
    <3>1. Len(a) - i + 1 \in Int
        BY <2>1
    <3>2. QED  BY <3>1, OneMore
  <2>5. Reach(r, a[i]) = clock
      BY <1>3, <2>2 DEF Reach
  <2>6. r.tokens + cost = MaxTokens + allowed
      BY <1>6, <2>5 DEF Spent, Allowed
  <2> HIDE DEF cost, allowed, a
  <2>7. cost + Window > MaxTokens + allowed
      BY <1>4, <2>1, <2>3, <2>6, MaxTokensIsNat
  <2>8. QED  BY <2>2, <2>4, <2>7 DEF Overdrawn, a, allowed
<1>7. QED  BY <1>3, <1>5, <1>6 DEF Balanced

\* The rate law of the token bucket for every address of up to 14 characters,
\* whatever happens to the other addresses, those of full length included, and
\* however the clock is set.
THEOREM RateTheorem == RateSpec => []RequestRate
<1>1. RateInv => RequestRate
    BY NotOverdrawn DEF RequestRate, WithinRate
<1>2. QED  BY <1>1, RateInvariant, PTL

\* ratelimit_check_request refuses no address of up to 14 characters without
\* need while the clock is not set back: one more request would have broken the
\* rate law.
THEOREM RefusalTheorem == RateSpec => RefusalJustified
<1>1. RateInv /\ [RateNext]_rateVars
        => [\A ip \in Short : (~setback /\ RefuseRequest(ip)) =>
              Requests = 0 \/ \E i \in DOMAIN admitted[ip] : Overdrawn(ip, i, 1)]_rateVars
    BY WouldOverdraw
<1>2. QED  BY <1>1, RateInvariant, PTL DEF RateSpec, RefusalJustified
-----------------------------------------------------------------------------
(* The bandwidth windows.                                                  *)

TrackerEntry ==
    [ip : Ips, ended : BOOLEAN, bytes : Nat, window_start : Nat, last_activity : Nat]

\* In a list of trackers every address that strcmp can find has one at most.
OneEach(list) ==
    /\ \A m \in DOMAIN list : (list[m].ip \in Short) => list[m].ended
    /\ \A m, n \in DOMAIN list : (list[m].ip = list[n].ip /\ list[m].ip \in Short) => (m = n)

TrackerInv ==
    /\ clock \in Nat
    /\ trackers \in Seq(TrackerEntry)
    /\ OneEach(trackers)

\* What get_bandwidth_tracker returns: a tracker of the list or a new one.
LEMMA TrackerVisited ==
    ASSUME TrackerInv, NEW ip \in Ips, NEW t \in Trackers(ip)
    PROVE  /\ t \in TrackerEntry /\ t.ip = ip
           /\ (ip \in Short) => t.ended
           /\ \/ \E m \in DOMAIN trackers :
                   /\ trackers[m].ip = ip
                   /\ \A e : Store(trackers, ip, e) = [trackers EXCEPT ![m] = e]
              \/ /\ \A e : Store(trackers, ip, e) = <<e>> \o trackers
                 /\ (ip \in Short) => \A m \in DOMAIN trackers : trackers[m].ip # ip
<1> DEFINE M == Matches(trackers, ip)
<1>1. /\ DOMAIN trackers \subseteq Nat /\ clock \in Nat
      /\ \A m \in DOMAIN trackers : trackers[m] \in TrackerEntry
    BY DEF TrackerInv
<1>2. CASE M # {}
  <2>1. M \in SUBSET Nat /\ M \subseteq DOMAIN trackers
      BY <1>1 DEF Matches
  <2>2. Min(M) \in M
      BY <1>2, <2>1, MinIsLeast
  <2> DEFINE k == Min(M)
  <2>3. k \in DOMAIN trackers /\ trackers[k].ip = ip /\ t = Renewed(trackers[k])
      BY <1>2, <2>2 DEF Matches, Trackers
  <2>4. \A e : Store(trackers, ip, e) = [trackers EXCEPT ![k] = e]
      BY <1>2 DEF Store
  <2> HIDE DEF k
  <2>5. trackers[k] \in TrackerEntry
      BY <1>1, <2>3
  <2>6. t \in TrackerEntry /\ t.ip = ip /\ t.ended = trackers[k].ended
    <3> DEFINE o == trackers[k]
    <3> HIDE DEF o
    <3>1. o \in TrackerEntry /\ o.ip = ip /\ t = Renewed(o)
        BY <2>3, <2>5 DEF o
    <3>2. CASE t = [o EXCEPT !.bytes = 0, !.window_start = clock, !.last_activity = clock]
      <4>1. clock \in Nat
          BY <1>1
      <4>2. t \in TrackerEntry /\ t.ip = o.ip /\ t.ended = o.ended
        <5>1. o \in TrackerEntry /\ clock \in Nat
            BY <3>1, <4>1
        <5>2. o = [ip |-> o.ip, ended |-> o.ended, bytes |-> o.bytes,
                   window_start |-> o.window_start, last_activity |-> o.last_activity]
            BY <5>1 DEF TrackerEntry
        <5>3. t = [ip |-> o.ip, ended |-> o.ended, bytes |-> 0,
                   window_start |-> clock, last_activity |-> clock]
            BY <5>2, <3>2
        <5>4. o.ip \in Ips /\ o.ended \in BOOLEAN
            BY <5>1 DEF TrackerEntry
        <5>5. QED  BY <5>1, <5>3, <5>4 DEF TrackerEntry
      <4>3. QED  BY <3>1, <4>1, <4>2 DEF o
    <3>3. CASE t = [o EXCEPT !.last_activity = clock]
        BY <1>1, <3>1, <3>3 DEF TrackerEntry, o
    <3>4. QED  BY <3>1, <3>2, <3>3 DEF Renewed
  <2>7. (ip \in Short) => t.ended
      BY <2>3, <2>6 DEF TrackerInv, OneEach
  <2>8. QED  BY <2>3, <2>4, <2>6, <2>7
<1>3. CASE M = {}
  <2>1. PICK z \in Terminated(ip) :
            t = [ip |-> ip, ended |-> z, bytes |-> 0, window_start |-> clock, last_activity |-> clock]
      BY <1>3 DEF Trackers
  <2>2. z \in BOOLEAN /\ ((ip \in Short) => z)
      BY <2>1 DEF Terminated, Short
  <2>3. t \in TrackerEntry /\ t.ip = ip /\ t.ended = z
      BY <1>1, <2>1, <2>2 DEF TrackerEntry
  <2>4. \A e : Store(trackers, ip, e) = <<e>> \o trackers
      BY <1>3 DEF Store
  <2>5. ASSUME ip \in Short
        PROVE  \A m \in DOMAIN trackers : trackers[m].ip # ip
      BY <1>3, <2>5 DEF Matches, TrackerInv, OneEach
  <2>6. QED  BY <2>2, <2>3, <2>4, <2>5
<1>4. QED  BY <1>2, <1>3

\* A call leaves one tracker of the address behind.
LEMMA TrackerStored ==
    ASSUME TrackerInv, NEW ip \in Ips, NEW t \in Trackers(ip),
           NEW e \in TrackerEntry, e.ip = ip, e.ended = t.ended,
           trackers' = Store(trackers, ip, e), clock' = clock
    PROVE  /\ TrackerInv'
           /\ (ip \in Short) => \A x \in ToSet(trackers') : (x.ip = ip) => (x = e)
<1>1. clock \in Nat /\ trackers \in Seq(TrackerEntry)
    BY DEF TrackerInv
<1>2. (ip \in Short) => e.ended
    BY TrackerVisited
<1>3. CASE \E m \in DOMAIN trackers :
              /\ trackers[m].ip = ip
              /\ \A f : Store(trackers, ip, f) = [trackers EXCEPT ![m] = f]
  <2>1. PICK m \in DOMAIN trackers :
              /\ trackers[m].ip = ip
              /\ \A f : Store(trackers, ip, f) = [trackers EXCEPT ![m] = f]
      BY <1>3
  <2>2. trackers' = [trackers EXCEPT ![m] = e]
      BY <2>1
  <2>3. /\ trackers' \in Seq(TrackerEntry) /\ DOMAIN trackers' = DOMAIN trackers
        /\ \A n \in DOMAIN trackers : trackers'[n] = IF n = m THEN e ELSE trackers[n]
      BY <1>1, <2>1, <2>2
  <2>4. \A n \in DOMAIN trackers : trackers'[n].ip = trackers[n].ip
      BY <2>1, <2>3
  <2>5. OneEach(trackers)'
    <3>1. \A n \in DOMAIN trackers : (trackers[n].ip \in Short) => trackers'[n].ended
        BY <1>2, <2>1, <2>3 DEF TrackerInv, OneEach
    <3>2. QED  BY <2>3, <2>4, <3>1 DEF TrackerInv, OneEach, Short
  <2>6. ASSUME ip \in Short, NEW x \in ToSet(trackers'), x.ip = ip
        PROVE  x = e
    <3>1. PICK n \in DOMAIN trackers : x = trackers'[n]
        BY <2>3 DEF ToSet
    <3>2. n = m
        BY <2>1, <2>4, <2>6, <3>1 DEF TrackerInv, OneEach
    <3>3. QED  BY <2>3, <3>1, <3>2
  <2>7. QED  BY <1>1, <2>3, <2>5, <2>6 DEF TrackerInv
<1>4. CASE /\ \A f : Store(trackers, ip, f) = <<f>> \o trackers
           /\ (ip \in Short) => \A m \in DOMAIN trackers : trackers[m].ip # ip
  <2>1. trackers' = <<e>> \o trackers
      BY <1>4
  <2> DEFINE N == Len(trackers)
  <2>2. N \in Nat /\ DOMAIN trackers = 1..N
      BY <1>1
  <2>3. /\ trackers' \in Seq(TrackerEntry) /\ DOMAIN trackers' = 1..(N + 1)
        /\ trackers'[1] = e
        /\ \A n \in 2..(N + 1) : trackers'[n] = trackers[n - 1] /\ n - 1 \in 1..N
      BY <1>1, <2>1
  <2> HIDE DEF N
  <2>4. \A n \in DOMAIN trackers' : n = 1 \/ n \in 2..(N + 1)
      BY <2>2, <2>3
  <2>5. \A n \in 2..(N + 1) :
           (trackers'[n].ip \in Short) => (trackers'[n].ended /\ trackers'[n].ip # ip)
    <3>1. ASSUME NEW n \in 2..(N + 1)
          PROVE  (trackers'[n].ip \in Short) => (trackers'[n].ended /\ trackers'[n].ip # ip)
      <4>1. trackers'[n] = trackers[n - 1] /\ n - 1 \in DOMAIN trackers
          BY <2>2, <2>3
      <4>2. (trackers[n - 1].ip \in Short) => (trackers[n - 1].ended /\ trackers[n - 1].ip # ip)
          BY <1>4, <4>1 DEF TrackerInv, OneEach
      <4>3. QED  BY <4>1, <4>2
    <3>2. QED  BY <3>1
  <2>6. \A m, n \in DOMAIN trackers' :
           (trackers'[m].ip = trackers'[n].ip /\ trackers'[m].ip \in Short) => (m = n)
    <3>1. SUFFICES ASSUME NEW m \in DOMAIN trackers', NEW n \in DOMAIN trackers',
                          trackers'[m].ip = trackers'[n].ip, trackers'[m].ip \in Short
                   PROVE  m = n
        OBVIOUS
    <3>2. CASE m = 1 \/ n = 1
        BY <2>3, <2>4, <2>5, <3>1, <3>2
    <3>3. CASE m \in 2..(N + 1) /\ n \in 2..(N + 1)
      <4>1. /\ trackers'[m] = trackers[m - 1] /\ m - 1 \in DOMAIN trackers
            /\ trackers'[n] = trackers[n - 1] /\ n - 1 \in DOMAIN trackers
          BY <2>2, <2>3, <3>3
      <4>2. trackers[m - 1].ip = trackers[n - 1].ip /\ trackers[m - 1].ip \in Short
          BY <3>1, <4>1
      <4>3. m - 1 = n - 1
          BY <4>1, <4>2 DEF TrackerInv, OneEach
      <4>4. QED  BY <3>3, <4>3
    <3>4. QED  BY <2>4, <3>2, <3>3
  <2>7. OneEach(trackers)'
    <3>1. \A n \in DOMAIN trackers' : (trackers'[n].ip \in Short) => trackers'[n].ended
        BY <1>2, <2>3, <2>4, <2>5
    <3>2. QED  BY <2>6, <3>1 DEF OneEach, Short
  <2>8. ASSUME ip \in Short, NEW x \in ToSet(trackers'), x.ip = ip
        PROVE  x = e
    <3>1. PICK n \in DOMAIN trackers' : x = trackers'[n]
        BY DEF ToSet
    <3>2. QED  BY <2>3, <2>4, <2>5, <2>8, <3>1
  <2>9. QED  BY <1>1, <2>3, <2>7, <2>8 DEF TrackerInv
<1>5. QED  BY <1>3, <1>4, TrackerVisited

KeptRow(kept, n) ==
    IF n = 0 THEN <<>>
    ELSE IF IsIdle(trackers[n]) THEN kept[n - 1] ELSE Append(kept[n - 1], trackers[n])

LEMMA KeptExists ==
    ASSUME Len(trackers) \in Nat
    PROVE  \E l : l = [n \in 0..Len(trackers) |-> KeptRow(l, n)]
<1> DEFINE D == 0..Len(trackers)
           Good(k) == \E l : l = [n \in D |-> l[n]] /\ \A n \in D : n <= k => l[n] = KeptRow(l, n)
           T == {k \in Nat : Good(k)}
<1>1. 0 \in T
  <2> DEFINE l == [n \in D |-> <<>>]
  <2>1. l = [n \in D |-> l[n]] /\ \A n \in D : n <= 0 => l[n] = KeptRow(l, n)
      BY DEF KeptRow
  <2> HIDE DEF l
  <2>2. QED  BY <2>1
<1>2. ASSUME NEW k \in T
      PROVE  k + 1 \in T
  <2>1. PICK l : l = [n \in D |-> l[n]] /\ \A n \in D : n <= k => l[n] = KeptRow(l, n)
      BY <1>2
  <2> DEFINE u == [n \in D |-> IF n = k + 1 THEN KeptRow(l, n) ELSE l[n]]
  <2>2. u = [n \in D |-> u[n]]
      OBVIOUS
  <2>3. ASSUME NEW n \in D, n <= k + 1
        PROVE  u[n] = KeptRow(u, n)
    <3>1. KeptRow(u, n) = KeptRow(l, n)
      <4>1. CASE n = 0
          BY <4>1 DEF KeptRow
      <4>2. CASE n # 0
        <5>1. n - 1 \in D /\ n - 1 # k + 1
            BY <2>3, <4>2
        <5>2. u[n - 1] = l[n - 1]
            BY <5>1
        <5>3. QED  BY <5>2 DEF KeptRow
      <4>3. QED  BY <4>1, <4>2
    <3>2. CASE n = k + 1
        BY <3>1, <3>2
    <3>3. CASE n # k + 1
      <4>1. n <= k
          BY <2>3, <3>3
      <4>2. QED  BY <2>1, <3>1, <3>3, <4>1
    <3>4. QED  BY <3>2, <3>3
  <2> HIDE DEF u, D
  <2>4. Good(k + 1)
      BY <2>2, <2>3
  <2>5. QED  BY <2>4
<1>3. T = Nat
  <2>1. T \in SUBSET Nat
      OBVIOUS
  <2> HIDE DEF T
  <2>2. QED  BY <1>1, <1>2, <2>1, Steps
<1>4. Good(Len(trackers))
  <2> HIDE DEF Good
  <2>1. QED  BY <1>3
<1>5. PICK l : l = [n \in D |-> l[n]] /\ \A n \in D : n <= Len(trackers) => l[n] = KeptRow(l, n)
    BY <1>4
<1>6. l = [n \in D |-> KeptRow(l, n)]
    BY <1>5
<1>7. QED  BY <1>6

\* Unlinking the idle trackers leaves trackers of the list, one for each address
\* at most.
LEMMA KeptIs ==
    ASSUME TrackerInv
    PROVE  KeptTrackers \in Seq(TrackerEntry) /\ OneEach(KeptTrackers)
<1> DEFINE N == Len(trackers)
           kept == CHOOSE l : l = [n \in 0..N |-> KeptRow(l, n)]
           From(l, n) == \A x \in DOMAIN l : \E y \in 1..n : l[x] = trackers[y]
           Fine(n) == kept[n] \in Seq(TrackerEntry) /\ From(kept[n], n) /\ OneEach(kept[n])
           T == {k \in Nat : k <= N => Fine(k)}
<1>1. /\ N \in Nat /\ DOMAIN trackers = 1..N
      /\ \A m \in 1..N : trackers[m] \in TrackerEntry
    BY DEF TrackerInv
<1>2. KeptTrackers = kept[N]
    BY DEF KeptTrackers, KeptRow
<1>3. kept = [n \in 0..N |-> KeptRow(kept, n)]
  <2>1. \E l : l = [n \in 0..N |-> KeptRow(l, n)]
      BY <1>1, KeptExists
  <2>2. QED  BY <2>1
<1> HIDE DEF kept
<1>4. 0 \in T
  <2>1. kept[0] = <<>>
      BY <1>1, <1>3 DEF KeptRow
  <2>2. <<>> \in Seq(TrackerEntry) /\ DOMAIN <<>> = {}
      OBVIOUS
  <2>3. Fine(0)
      BY <2>1, <2>2 DEF OneEach
  <2>4. QED  BY <2>3
<1>5. ASSUME NEW k \in T
      PROVE  k + 1 \in T
  <2>1. ASSUME k + 1 <= N
        PROVE  Fine(k + 1)
    <3>1. k + 1 \in 0..N /\ (k + 1) - 1 = k /\ k + 1 # 0 /\ k <= N /\ k + 1 \in 1..N
        BY <1>1, <2>1
    <3>2. Fine(k)
        BY <1>5, <3>1
    <3>3. kept[k + 1] = IF IsIdle(trackers[k + 1]) THEN kept[k] ELSE Append(kept[k], trackers[k + 1])
        BY <1>3, <3>1 DEF KeptRow
    <3> DEFINE l == kept[k]
               t == trackers[k + 1]
               m == Append(l, t)
    <3>4. l \in Seq(TrackerEntry) /\ t \in TrackerEntry /\ Len(l) \in Nat /\ DOMAIN l = 1..Len(l)
        BY <1>1, <3>1, <3>2
    <3>5. \A x \in DOMAIN l : \E y \in 1..k : l[x] = trackers[y]
        BY <3>2
    <3>6. OneEach(l)
        BY <3>2
    <3> HIDE DEF l, t
    <3>7. From(l, k + 1)
        BY <3>5
    <3>8. CASE kept[k + 1] = l
        BY <3>4, <3>6, <3>7, <3>8
    <3>9. CASE kept[k + 1] = m
      <4>1. /\ m \in Seq(TrackerEntry) /\ DOMAIN m = 1..(Len(l) + 1) /\ m[Len(l) + 1] = t
            /\ \A x \in 1..Len(l) : m[x] = l[x]
          BY <3>4
      <4> HIDE DEF m
      <4>2. \A x \in DOMAIN m : x = Len(l) + 1 \/ x \in 1..Len(l)
          BY <3>4, <4>1
      <4>3. From(m, k + 1)
        <5>1. ASSUME NEW x \in DOMAIN m
              PROVE  \E y \in 1..(k + 1) : m[x] = trackers[y]
          <6>1. CASE x = Len(l) + 1
              BY <3>1, <4>1, <6>1 DEF t
          <6>2. CASE x \in 1..Len(l)
              BY <3>4, <3>7, <4>1, <6>2
          <6>3. QED  BY <4>2, <6>1, <6>2
        <5>2. QED  BY <5>1
      <4>4. \A x \in 1..Len(l) : (l[x].ip \in Short) => (l[x].ip # t.ip)
        <5>1. SUFFICES ASSUME NEW x \in 1..Len(l), l[x].ip \in Short, l[x].ip = t.ip
                       PROVE  FALSE
            OBVIOUS
        <5>2. PICK y \in 1..k : l[x] = trackers[y]
            BY <3>4, <3>5
        <5>3. y \in DOMAIN trackers /\ k + 1 \in DOMAIN trackers /\ y # k + 1
            BY <1>1, <3>1
        <5>4. trackers[y].ip = trackers[k + 1].ip /\ trackers[y].ip \in Short
            BY <5>1, <5>2 DEF t
        <5>5. QED  BY <5>3, <5>4 DEF TrackerInv, OneEach
      <4>5. (t.ip \in Short) => t.ended
          BY <1>1, <3>1 DEF TrackerInv, OneEach, t
      <4>6. \A x \in DOMAIN m : (m[x].ip \in Short) => m[x].ended
          BY <3>4, <3>6, <4>1, <4>2, <4>5 DEF OneEach
      <4>7. \A x, y \in DOMAIN m : (m[x].ip = m[y].ip /\ m[x].ip \in Short) => (x = y)
        <5>1. SUFFICES ASSUME NEW x \in DOMAIN m, NEW y \in DOMAIN m,
                              m[x].ip = m[y].ip, m[x].ip \in Short
                       PROVE  x = y
            OBVIOUS
        <5>2. CASE x = Len(l) + 1 \/ y = Len(l) + 1
            BY <4>1, <4>2, <4>4, <5>1, <5>2
        <5>3. CASE x \in 1..Len(l) /\ y \in 1..Len(l)
            BY <3>4, <3>6, <4>1, <5>1, <5>3 DEF OneEach
        <5>4. QED  BY <4>2, <5>2, <5>3
      <4>8. QED  BY <3>9, <4>1, <4>3, <4>6, <4>7 DEF OneEach
    <3>10. QED  BY <3>3, <3>8, <3>9 DEF l, t
  <2> HIDE DEF Fine
  <2>2. QED  BY <2>1
<1>6. T = Nat
  <2>1. T \in SUBSET Nat
      OBVIOUS
  <2> HIDE DEF T
  <2>2. QED  BY <1>4, <1>5, <2>1, Steps
<1>7. Fine(N)
  <2> HIDE DEF Fine
  <2>1. QED  BY <1>1, <1>6
<1>8. QED  BY <1>2, <1>7

\* A transfer that fits keeps the average of the window within the limit: n
\* bytes more than a rounded-down average of at most Limit - n.
LEMMA FittingKeepsAverage ==
    ASSUME NEW B \in Nat, NEW D \in Nat \ {0}, NEW L \in Nat, NEW n \in Nat \ {0},
           (B \div D) + n <= L
    PROVE  B + n <= L * D
<1> DEFINE q == B \div D
<1>1. q \in Nat /\ B <= q * D + (D - 1)
    BY SMT
<1> HIDE DEF q
<1>2. PICK r \in Nat : L = q + n + r
  <2>1. L - (q + n) \in Nat /\ L = q + n + (L - (q + n))
      BY <1>1 DEF q
  <2>2. QED  BY <2>1
<1>3. L * D = q * D + n * D + r * D /\ q * D \in Nat /\ r * D \in Nat
    BY <1>1, <1>2
<1>4. n * D = (n - 1) * (D - 1) + n + (D - 1) /\ (n - 1) * (D - 1) \in Nat
    OBVIOUS
<1>5. QED  BY <1>1, <1>3, <1>4

LEMMA DurationIs ==
    ASSUME clock \in Nat, NEW t \in TrackerEntry, t.window_start <= clock
    PROVE  Duration(t) \in Nat \ {0}
<1>1. t.window_start \in Nat
    BY DEF TrackerEntry
<1>2. clock - t.window_start \in Nat
    BY <1>1
<1>3. QED  BY <1>2, MaxOfTwo DEF Duration

LEMMA TrackerStep ==
    ASSUME TrackerInv, [RateNext]_rateVars
    PROVE  TrackerInv'
<1> USE WindowAssumption
<1>1. clock \in Nat /\ trackers \in Seq(TrackerEntry) /\ OneEach(trackers)
    BY DEF TrackerInv
<1>2. CASE ClockIsSet
  <2>1. clock' \in Nat /\ trackers' = trackers
      BY <1>2, BoundAssumption DEF ClockIsSet
  <2>2. QED  BY <1>1, <2>1 DEF TrackerInv, OneEach, Short
<1>3. CASE CleanupOldEntries
  <2>1. trackers' = KeptTrackers /\ clock' = clock
      BY <1>3 DEF CleanupOldEntries
  <2>2. QED  BY <1>1, <2>1, KeptIs DEF TrackerInv, OneEach, Short
<1>4. CASE RateLimitCleanup
  <2>1. trackers' = <<>> /\ clock' = clock
      BY <1>4 DEF RateLimitCleanup
  <2>2. <<>> \in Seq(TrackerEntry) /\ DOMAIN <<>> = {}
      OBVIOUS
  <2>3. QED  BY <1>1, <2>1, <2>2 DEF TrackerInv, OneEach
<1>5. ASSUME UNCHANGED <<clock, trackers>>
      PROVE  TrackerInv'
    BY <1>1, <1>5 DEF TrackerInv, OneEach, Short
<1>6. ASSUME NEW ip \in Ips, NEW t \in Trackers(ip), clock' = clock,
             NEW e, trackers' = Store(trackers, ip, e),
             e = t \/ \E n \in Chunks : e = [t EXCEPT !.bytes = @ + n]
      PROVE  TrackerInv'
  <2>1. t \in TrackerEntry /\ t.ip = ip
      BY TrackerVisited
  <2>2. e \in TrackerEntry /\ e.ip = ip /\ e.ended = t.ended
    <3>1. ASSUME NEW n \in Chunks, e = [t EXCEPT !.bytes = @ + n]
          PROVE  e \in TrackerEntry /\ e.ip = ip /\ e.ended = t.ended
      <4>1. n \in Nat
          BY BoundAssumption
      <4>2. QED  BY <2>1, <3>1, <4>1 DEF TrackerEntry
    <3>2. QED  BY <1>6, <2>1, <3>1
  <2>3. QED  BY <1>6, <2>2, TrackerStored
<1>7. ASSUME NEW ip \in Ips, NEW n \in Chunks,
             AllowTransfer(ip, n) \/ RefuseTransfer(ip, n) \/ UpdateBandwidth(ip, n)
      PROVE  TrackerInv'
    BY <1>6, <1>7 DEF AllowTransfer, RefuseTransfer, UpdateBandwidth
<1>8. CASE UNCHANGED rateVars \/ \E ip \in Ips : AllowRequest(ip) \/ RefuseRequest(ip) \/ NoMemory(ip)
    BY <1>5, <1>8 DEF AllowRequest, RefuseRequest, NoMemory, rateVars
<1>9. QED  BY <1>2, <1>3, <1>4, <1>7, <1>8 DEF RateNext

\* ratelimit_check_bandwidth lets a transfer through only if the average of its
\* window stays within the limit, also when bytes were reported without a check:
\* for every address of up to 14 characters, whatever the others are, and every
\* clock that is not behind the window.  This takes a transfer of at least a
\* byte, for the average is rounded down.
THEOREM AverageTheorem == RateSpec => AdmitsWithinAverage
<1>1. RateInit => TrackerInv
  <2>1. <<>> \in Seq(TrackerEntry) /\ DOMAIN <<>> = {}
      OBVIOUS
  <2>2. QED  BY <2>1 DEF RateInit, TrackerInv, OneEach
<1>2. TrackerInv /\ [RateNext]_rateVars => TrackerInv'
    BY TrackerStep
<1>3. ASSUME TrackerInv, NEW ip \in Short, NEW n \in Chunks \ {0}, AllowTransfer(ip, n),
             NEW x \in ToSet(trackers'), x.ip = ip, x.window_start <= clock
      PROVE  x.bytes <= Limit * Duration(x)
  <2>1. PICK t \in Trackers(ip) :
           /\ Undefined(t) \/ Fits(t, n)
           /\ trackers' = Store(trackers, ip, [t EXCEPT !.bytes = @ + n])
      BY <1>3 DEF AllowTransfer
  <2>2. ip \in Ips
      BY DEF Short
  <2>3. t \in TrackerEntry /\ t.ip = ip
      BY <1>3, <2>2, TrackerVisited
  <2>4. n \in Nat \ {0} /\ Limit \in Nat
      BY BoundAssumption, RateAssumption
  <2> DEFINE e == [t EXCEPT !.bytes = @ + n]
  <2>5. /\ e \in TrackerEntry /\ e.ip = ip /\ e.ended = t.ended
        /\ e.window_start = t.window_start /\ e.bytes = t.bytes + n
      BY <2>3, <2>4 DEF TrackerEntry
  <2>6. trackers' = Store(trackers, ip, e) /\ clock' = clock
      BY <1>3, <2>1 DEF AllowTransfer
  <2> HIDE DEF e
  <2>7. x = e
      BY <1>3, <2>2, <2>5, <2>6, TrackerStored
  <2>8. t.window_start <= clock /\ clock \in Nat /\ t.window_start \in Nat
      BY <1>3, <2>3, <2>5, <2>7 DEF TrackerInv, TrackerEntry
  <2>9. Duration(t) \in Nat \ {0} /\ Duration(e) = Duration(t) /\ t.bytes \in Nat
    <3>1. Duration(t) \in Nat \ {0}
        BY <2>3, <2>8, DurationIs
    <3>2. QED  BY <2>3, <2>5, <3>1 DEF Duration, TrackerEntry
  <2>10. ~(clock < t.window_start)
      BY <2>8
  <2>11. (t.bytes \div Duration(t)) + n <= Limit
      BY <2>1, <2>10 DEF Undefined, Fits
  <2>12. t.bytes + n <= Limit * Duration(t)
      BY <2>4, <2>9, <2>11, FittingKeepsAverage
  <2>13. QED  BY <2>5, <2>7, <2>9, <2>12
<1>4. TrackerInv =>
        [\A ip \in Short, n \in Chunks \ {0} : AllowTransfer(ip, n) =>
           \A t \in ToSet(trackers') :
              (t.ip = ip /\ t.window_start <= clock) => t.bytes <= Limit * Duration(t)]_rateVars
    BY <1>3
<1>5. QED  BY <1>1, <1>2, <1>4, PTL DEF RateSpec, AdmitsWithinAverage

-----------------------------------------------------------------------------
(* Turns of a rotation: arithmetic.                                         *)

\* How many of 0..c-1 have a remainder by T from lo up to hi - 1, hi <= T.
Part(x, w) == IF x <= 0 THEN 0 ELSE IF x >= w THEN w ELSE x
Passed(c, T, lo, hi) == (c \div T) * (hi - lo) + Part((c % T) - lo, hi - lo)

\* Quotient and remainder.
LEMMA Division ==
    ASSUME NEW c \in Nat, NEW T \in Nat \ {0}
    PROVE  /\ c \div T \in Nat /\ c % T \in 0..(T - 1)
           /\ c = (c \div T) * T + (c % T)
  OBVIOUS

\* There is only one quotient and remainder.
LEMMA DivisionIs ==
    ASSUME NEW q \in Nat, NEW T \in Nat \ {0}, NEW r \in 0..(T - 1)
    PROVE  (q * T + r) \div T = q /\ (q * T + r) % T = r
  OBVIOUS

LEMMA TimesNext ==
    ASSUME NEW q \in Nat, NEW w \in Nat
    PROVE  (q + 1) * w = q * w + w /\ q * w \in Nat
  OBVIOUS

LEMMA NextDivision ==
    ASSUME NEW c \in Nat, NEW T \in Nat \ {0}
    PROVE  IF (c % T) + 1 < T
           THEN (c + 1) \div T = c \div T /\ (c + 1) % T = (c % T) + 1
           ELSE (c + 1) \div T = (c \div T) + 1 /\ (c + 1) % T = 0
<1> DEFINE q == c \div T
           r == c % T
<1>1. q \in Nat /\ r \in 0..(T - 1) /\ c = q * T + r
    BY Division
<1>2. (q + 1) * T = q * T + T /\ q * T \in Nat
    BY <1>1
<1>3. CASE r + 1 < T
  <2>1. r + 1 \in 0..(T - 1) /\ c + 1 = q * T + (r + 1)
      BY <1>1, <1>2, <1>3
  <2>2. (q * T + (r + 1)) \div T = q /\ (q * T + (r + 1)) % T = r + 1
      BY <1>1, <2>1, DivisionIs
  <2>3. QED  BY <1>3, <2>1, <2>2
<1>4. CASE ~(r + 1 < T)
  <2>1. c + 1 = (q + 1) * T + 0 /\ 0 \in 0..(T - 1) /\ q + 1 \in Nat
      BY <1>1, <1>2, <1>4
  <2>2. ((q + 1) * T + 0) \div T = q + 1 /\ ((q + 1) * T + 0) % T = 0
      BY <2>1, DivisionIs
  <2>3. QED  BY <1>4, <2>1, <2>2
<1>5. QED  BY <1>3, <1>4

LEMMA LaterDivision ==
    ASSUME NEW c \in Nat, NEW T \in Nat \ {0}
    PROVE  (c + T) \div T = (c \div T) + 1 /\ (c + T) % T = c % T
<1> DEFINE q == c \div T
           r == c % T
<1>1. q \in Nat /\ r \in 0..(T - 1) /\ c = q * T + r
    BY Division
<1>2. (q + 1) * T = q * T + T /\ q * T \in Nat
    BY <1>1
<1>3. c + T = (q + 1) * T + r /\ q + 1 \in Nat
    BY <1>1, <1>2
<1>4. ((q + 1) * T + r) \div T = q + 1 /\ ((q + 1) * T + r) % T = r
    BY <1>1, <1>3, DivisionIs
<1>5. QED  BY <1>3, <1>4

\* One more number is counted when its remainder is in the range.
LEMMA PassedNext ==
    ASSUME NEW c \in Nat, NEW T \in Nat \ {0}, NEW lo \in Nat, NEW hi \in Nat, lo <= hi, hi <= T
    PROVE  Passed(c + 1, T, lo, hi)
             = Passed(c, T, lo, hi) + (IF lo <= c % T /\ c % T < hi THEN 1 ELSE 0)
<1> DEFINE q == c \div T
           r == c % T
           w == hi - lo
<1>1. q \in Nat /\ r \in 0..(T - 1) /\ w \in Nat
  <2>1. w \in Nat
      OBVIOUS
  <2>2. QED  BY <2>1, Division
<1>2. (q + 1) * w = q * w + w /\ q * w \in Nat
    BY <1>1, TimesNext
<1>3. CASE r + 1 < T
  <2>1. (c + 1) \div T = q /\ (c + 1) % T = r + 1
      BY <1>3, NextDivision
  <2>2. Passed(c + 1, T, lo, hi) = q * w + Part((r + 1) - lo, w)
      BY <2>1 DEF Passed
  <2>3. Part((r + 1) - lo, w) = Part(r - lo, w) + (IF lo <= r /\ r < hi THEN 1 ELSE 0)
      BY <1>1 DEF Part
  <2>4. Part(r - lo, w) \in Nat
      BY <1>1 DEF Part
  <2> HIDE DEF q, w, r
  <2>5. Passed(c, T, lo, hi) = q * w + Part(r - lo, w)
      BY DEF Passed, q, r, w
  <2>6. QED  BY <1>2, <2>2, <2>3, <2>4, <2>5 DEF r
<1>4. CASE ~(r + 1 < T)
  <2>1. (c + 1) \div T = q + 1 /\ (c + 1) % T = 0 /\ r + 1 = T
    <3>1. (c + 1) \div T = q + 1 /\ (c + 1) % T = 0
        BY <1>4, NextDivision
    <3>2. r + 1 = T
      <4> HIDE DEF r
      <4>1. QED  BY <1>1, <1>4
    <3>3. QED  BY <3>1, <3>2
  <2>2. Passed(c + 1, T, lo, hi) = (q + 1) * w + Part(0 - lo, w)
      BY <2>1 DEF Passed
  <2>3. w + Part(0 - lo, w) = Part(r - lo, w) + (IF lo <= r /\ r < hi THEN 1 ELSE 0)
      BY <1>1, <2>1 DEF Part
  <2>4. Part(r - lo, w) \in Nat /\ Part(0 - lo, w) \in Nat
      BY <1>1 DEF Part
  <2> HIDE DEF q, w, r
  <2>5. Passed(c, T, lo, hi) = q * w + Part(r - lo, w)
      BY DEF Passed, q, r, w
  <2>6. QED  BY <1>1, <1>2, <2>2, <2>3, <2>4, <2>5 DEF r
<1>5. QED  BY <1>3, <1>4

\* T numbers in a row hold each remainder once.
LEMMA PassedRound ==
    ASSUME NEW c \in Nat, NEW T \in Nat \ {0}, NEW lo \in Nat, NEW hi \in Nat, lo <= hi, hi <= T
    PROVE  Passed(c + T, T, lo, hi) = Passed(c, T, lo, hi) + (hi - lo)
<1> DEFINE q == c \div T
           w == hi - lo
           p == Part((c % T) - lo, w)
<1>1. q \in Nat /\ c % T \in 0..(T - 1) /\ w \in Nat
  <2>1. w \in Nat
      OBVIOUS
  <2>2. QED  BY <2>1, Division
<1>2. (q + 1) * w = q * w + w /\ q * w \in Nat
    BY <1>1, TimesNext
<1>3. (c + T) \div T = q + 1 /\ (c + T) % T = c % T
    BY LaterDivision
<1>4. Passed(c + T, T, lo, hi) = (q + 1) * w + p
    BY <1>3 DEF Passed
<1>5. Passed(c, T, lo, hi) = q * w + p
    BY DEF Passed
<1>6. p \in Nat
    BY <1>1 DEF Part
<1> HIDE DEF q, w, p
<1>7. QED  BY <1>1, <1>2, <1>4, <1>5, <1>6 DEF w

LEMMA PassedIsNat ==
    ASSUME NEW c \in Nat, NEW T \in Nat \ {0}, NEW lo \in Nat, NEW hi \in Nat, lo <= hi, hi <= T
    PROVE  Passed(c, T, lo, hi) \in Nat
<1>1. c \div T \in Nat /\ c % T \in 0..(T - 1)
    BY Division
<1>2. hi - lo \in Nat
    OBVIOUS
<1>3. (c \div T) * (hi - lo) \in Nat
    BY <1>1, <1>2, TimesNext
<1>4. Part((c % T) - lo, hi - lo) \in Nat
    BY <1>1, <1>2 DEF Part
<1>5. QED  BY <1>3, <1>4 DEF Passed

\* A longer stretch counts no fewer.
LEMMA PassedMonotone ==
    ASSUME NEW T \in Nat \ {0}, NEW lo \in Nat, NEW hi \in Nat, lo <= hi, hi <= T,
           NEW c \in Nat, NEW d \in Nat, c <= d
    PROVE  Passed(c, T, lo, hi) <= Passed(d, T, lo, hi)
<1> DEFINE Bad == {k \in Nat : ~(Passed(c, T, lo, hi) <= Passed(c + k, T, lo, hi))}
<1>1. ASSUME NEW k \in Nat
      PROVE  Passed(c + k, T, lo, hi) \in Nat
  <2>1. c + k \in Nat
      OBVIOUS
  <2>2. QED  BY <2>1, PassedIsNat
<1>2. Bad = {}
  <2>1. SUFFICES ASSUME Bad # {} PROVE FALSE
      OBVIOUS
  <2>2. PICK k \in Bad : \A m \in Bad : k <= m
      BY <2>1, Least
  <2>3. k # 0
    <3>1. Passed(c + 0, T, lo, hi) \in Nat /\ c + 0 = c
        BY <1>1
    <3>2. QED  BY <3>1
  <2>4. k - 1 \in Nat /\ ~(k - 1 \in Bad) /\ c + (k - 1) \in Nat /\ (c + (k - 1)) + 1 = c + k
      BY <2>2, <2>3
  <2>5. Passed(c, T, lo, hi) <= Passed(c + (k - 1), T, lo, hi)
      BY <2>4
  <2>6. Passed((c + (k - 1)) + 1, T, lo, hi) >= Passed(c + (k - 1), T, lo, hi)
    <3>1. Passed((c + (k - 1)) + 1, T, lo, hi) = Passed(c + (k - 1), T, lo, hi)
            + (IF lo <= (c + (k - 1)) % T /\ (c + (k - 1)) % T < hi THEN 1 ELSE 0)
        BY <2>4, PassedNext
    <3>2. Passed(c + (k - 1), T, lo, hi) \in Nat
        BY <2>4, <1>1
    <3>3. QED  BY <3>1, <3>2
  <2> HIDE DEF Bad
  <2>7. Passed(c, T, lo, hi) <= Passed(c + k, T, lo, hi)
    <3>1. Passed(c, T, lo, hi) \in Nat /\ Passed(c + (k - 1), T, lo, hi) \in Nat
        BY <2>4, <1>1, PassedIsNat
    <3>2. (c + (k - 1)) + 1 = c + k /\ Passed(c + k, T, lo, hi) \in Nat
        BY <2>2, <2>4, <1>1 DEF Bad
    <3>3. Passed((c + (k - 1)) + 1, T, lo, hi) = Passed(c + k, T, lo, hi)
        BY <3>2
    <3>4. QED  BY <2>5, <2>6, <3>1, <3>2, <3>3
  <2>8. QED  BY <2>2, <2>7 DEF Bad
<1>3. d - c \in Nat /\ c + (d - c) = d
    OBVIOUS
<1>4. QED  BY <1>2, <1>3
-----------------------------------------------------------------------------
(* The state of the balancer.                                               *)

Zeros == [b \in Backends |-> 0]

BalancerTypes ==
    /\ lb \in {"none", "on", "off"}
    /\ algorithm \in {"rr", "lc", "iphash", "wrr"}
    /\ servers \in Seq(Backends) /\ Len(servers) <= NumBackends
    /\ \A i, j \in 1..Len(servers) : (servers[i] = servers[j]) => (i = j)
    /\ (lb = "on") => (servers # <<>>)
    /\ current_index \in Int
    /\ active \in [Backends -> Nat]
    /\ healthy \in [Backends -> BOOLEAN]
    /\ reachable \in [Backends -> BOOLEAN]
    /\ holding \in [Callers -> Backends \cup {NoBackend}]
    /\ turns \in Nat
    /\ share \in [Backends -> Nat]

\* What the code's configuration gives the balancer.
LEMMA BalancerConstant ==
    /\ NumBackends \in Nat \ {0} /\ Weight \in [Backends -> Nat] /\ NoBackend \notin Backends
    /\ IsFiniteSet(Callers)
    /\ Algorithms \subseteq {"rr", "lc", "iphash", "wrr"}
    /\ HashOf \in [Clients -> Nat]
    /\ IntMax \in Nat /\ MaxIndex \in Int
  BY BackendAssumption, CallerAssumption, AlgorithmAssumption, AddressAssumption, LimitAssumption

-----------------------------------------------------------------------------
(* Sums over the list of backends.                                          *)

SumRow(w, s, n) ==
    IF n = 0 THEN 0
    ELSE s[n - 1] + (IF healthy[servers[n]] THEN w[servers[n]] ELSE 0)

\* s holds the sum of w over the healthy ones of the first n backends, for each n.
Sums(s, w) ==
    /\ s \in [0..Len(servers) -> Nat]
    /\ s[0] = 0
    /\ \A n \in 1..Len(servers) :
          s[n] = s[n - 1] + (IF healthy[servers[n]] THEN w[servers[n]] ELSE 0)

LEMMA SumsExist ==
    ASSUME Len(servers) \in Nat, NEW w
    PROVE  \E s : s = [n \in 0..Len(servers) |-> SumRow(w, s, n)]
<1> DEFINE D == 0..Len(servers)
           Good(k) == \E s : s = [n \in D |-> s[n]] /\ \A n \in D : n <= k => s[n] = SumRow(w, s, n)
           T == {k \in Nat : Good(k)}
<1>1. 0 \in T
  <2> DEFINE s == [n \in D |-> 0]
  <2>1. s = [n \in D |-> s[n]] /\ \A n \in D : n <= 0 => s[n] = SumRow(w, s, n)
      BY DEF SumRow
  <2> HIDE DEF s
  <2>2. QED  BY <2>1
<1>2. ASSUME NEW k \in T
      PROVE  k + 1 \in T
  <2>1. PICK s : s = [n \in D |-> s[n]] /\ \A n \in D : n <= k => s[n] = SumRow(w, s, n)
      BY <1>2
  <2> DEFINE u == [n \in D |-> IF n = k + 1 THEN SumRow(w, s, n) ELSE s[n]]
  <2>2. u = [n \in D |-> u[n]]
      OBVIOUS
  <2>3. ASSUME NEW n \in D, n <= k + 1
        PROVE  u[n] = SumRow(w, u, n)
    <3>1. SumRow(w, u, n) = SumRow(w, s, n)
      <4>1. CASE n = 0
          BY <4>1 DEF SumRow
      <4>2. CASE n # 0
        <5>1. n - 1 \in D /\ n - 1 # k + 1
            BY <2>3, <4>2
        <5>2. u[n - 1] = s[n - 1]
            BY <5>1
        <5>3. QED  BY <5>2 DEF SumRow
      <4>3. QED  BY <4>1, <4>2
    <3>2. CASE n = k + 1
        BY <3>1, <3>2
    <3>3. CASE n # k + 1
      <4>1. n <= k
          BY <2>3, <3>3
      <4>2. QED  BY <2>1, <3>1, <3>3, <4>1
    <3>4. QED  BY <3>2, <3>3
  <2> HIDE DEF u, D
  <2>4. Good(k + 1)
      BY <2>2, <2>3
  <2>5. QED  BY <2>4
<1>3. T = Nat
  <2>1. T \in SUBSET Nat
      OBVIOUS
  <2> HIDE DEF T
  <2>2. QED  BY <1>1, <1>2, <2>1, Steps
<1>4. Good(Len(servers))
  <2> HIDE DEF Good
  <2>1. QED  BY <1>3
<1>5. PICK s : s = [n \in D |-> s[n]] /\ \A n \in D : n <= Len(servers) => s[n] = SumRow(w, s, n)
    BY <1>4
<1>6. s = [n \in D |-> SumRow(w, s, n)]
    BY <1>5
<1>7. QED  BY <1>6

\* The sums that weighted selection and the history use.
LEMMA SumsAre ==
    ASSUME BalancerTypes, NEW w \in [Backends -> Nat]
    PROVE  Sums(UpTo(w), w)
<1> DEFINE s == UpTo(w)
           N == Len(servers)
           T == {k \in Nat : k <= N => s[k] \in Nat}
<1>1. N \in Nat /\ \A n \in 1..N : servers[n] \in Backends
    BY DEF BalancerTypes
<1>2. s = CHOOSE f : f = [n \in 0..N |-> SumRow(w, f, n)]
    BY DEF UpTo, num_servers, SumRow
<1>3. s = [n \in 0..N |-> SumRow(w, s, n)]
  <2> HIDE DEF s
  <2>1. \E f : f = [n \in 0..N |-> SumRow(w, f, n)]
      BY <1>1, SumsExist
  <2>2. QED  BY <1>2, <2>1
<1> HIDE DEF s
<1>4. s[0] = 0
    BY <1>1, <1>3 DEF SumRow
<1>5. \A n \in 1..N : s[n] = s[n - 1] + (IF healthy[servers[n]] THEN w[servers[n]] ELSE 0)
    BY <1>1, <1>3 DEF SumRow
<1>6. 0 \in T
    BY <1>4
<1>7. ASSUME NEW k \in T
      PROVE  k + 1 \in T
  <2>1. CASE k + 1 <= N
    <3>1. k + 1 \in 1..N /\ (k + 1) - 1 = k /\ s[k] \in Nat
        BY <1>1, <1>7, <2>1
    <3>2. w[servers[k + 1]] \in Nat
        BY <1>1, <3>1
    <3>3. s[k + 1] = s[k] + (IF healthy[servers[k + 1]] THEN w[servers[k + 1]] ELSE 0)
        BY <1>5, <3>1
    <3>4. QED  BY <3>1, <3>2, <3>3
  <2>2. QED  BY <2>1
<1>8. T = Nat
  <2>1. T \in SUBSET Nat
      OBVIOUS
  <2> HIDE DEF T
  <2>2. QED  BY <1>6, <1>7, <2>1, Steps
<1>9. \A n \in 0..N : s[n] \in Nat
    BY <1>8
<1>10. DOMAIN s = 0..N /\ s = [n \in 0..N |-> s[n]]
    BY <1>3
<1>11. s \in [0..N -> Nat]
    BY <1>9, <1>10
<1>12. QED  BY <1>4, <1>5, <1>11 DEF Sums, s

\* A sum over more backends is no smaller, and the same when they are all
\* unhealthy.
LEMMA SumsGrow ==
    ASSUME BalancerTypes, NEW w \in [Backends -> Nat], NEW s, Sums(s, w),
           NEW m \in 0..Len(servers), NEW n \in 0..Len(servers), m <= n
    PROVE  /\ s[m] <= s[n]
           /\ (\A i \in (m + 1)..n : ~healthy[servers[i]]) => (s[m] = s[n])
<1> DEFINE N == Len(servers)
           Flat(k) == \A i \in (m + 1)..k : ~healthy[servers[i]]
           T == {d \in Nat : m + d <= N => /\ s[m] <= s[m + d]
                                           /\ Flat(m + d) => (s[m] = s[m + d])}
<1>1. N \in Nat /\ \A i \in 1..N : servers[i] \in Backends
    BY DEF BalancerTypes
<1>2. \A i \in 0..N : s[i] \in Nat
    BY DEF Sums
<1>3. 0 \in T
    BY <1>1, <1>2
<1>4. ASSUME NEW d \in T
      PROVE  d + 1 \in T
  <2>1. CASE m + (d + 1) <= N
    <3>1. m + d \in 0..N /\ m + (d + 1) \in 1..N /\ (m + (d + 1)) - 1 = m + d
        BY <1>1, <2>1
    <3>2. s[m] <= s[m + d] /\ (Flat(m + d) => (s[m] = s[m + d]))
        BY <1>4, <3>1
    <3>3. s[m + (d + 1)] = s[m + d] + (IF healthy[servers[m + (d + 1)]]
                                       THEN w[servers[m + (d + 1)]] ELSE 0)
        BY <3>1 DEF Sums
    <3>4. w[servers[m + (d + 1)]] \in Nat
        BY <1>1, <3>1
    <3>5. s[m] \in Nat /\ s[m + d] \in Nat
        BY <1>2, <3>1
    <3>6. s[m] <= s[m + (d + 1)]
        BY <3>2, <3>3, <3>4, <3>5
    <3>7. ASSUME Flat(m + (d + 1))
          PROVE  s[m] = s[m + (d + 1)]
      <4>1. ~healthy[servers[m + (d + 1)]]
          BY <3>7, <3>1
      <4>2. Flat(m + d)
          BY <3>7, <3>1
      <4>3. s[m + (d + 1)] = s[m + d]
          BY <4>1, <3>3, <3>5
      <4>4. QED  BY <4>2, <4>3, <3>2
    <3> HIDE DEF Flat
    <3>8. QED  BY <3>6, <3>7
  <2>2. QED  BY <2>1
<1>5. T = Nat
  <2>1. T \in SUBSET Nat
      OBVIOUS
  <2> HIDE DEF T
  <2>2. QED  BY <1>3, <1>4, <2>1, Steps
<1>6. n - m \in T /\ m + (n - m) = n
    BY <1>5
<1>7. QED  BY <1>6

\* A turn falls into the range of exactly one backend.
LEMMA TurnTaken ==
    ASSUME BalancerTypes, NEW w \in [Backends -> Nat], NEW s, Sums(s, w),
           NEW T, T = s[Len(servers)], T # 0, NEW v \in Nat,
           NEW p \in 1..Len(servers), s[p - 1] <= v % T, v % T < s[p]
    PROVE  \A i \in 1..Len(servers) :
              Passed(v + 1, T, s[i - 1], s[i])
                = Passed(v, T, s[i - 1], s[i]) + (IF i = p THEN 1 ELSE 0)
<1> DEFINE N == Len(servers)
           r == v % T
<1>1. N \in Nat /\ \A i \in 0..N : s[i] \in Nat
  <2>1. N \in Nat
      BY DEF BalancerTypes
  <2>2. QED  BY <2>1 DEF Sums
<1>2. s[p] <= T /\ p \in 0..N /\ p - 1 \in 0..N
    BY <1>1, SumsGrow
<1>3. T \in Nat \ {0} /\ s[p] \in Nat /\ s[p - 1] \in Nat
  <2>1. N \in 0..N
      BY <1>1
  <2>2. s[N] \in Nat /\ s[p] \in Nat /\ s[p - 1] \in Nat
      BY <1>1, <1>2, <2>1
  <2>3. QED  BY <2>2
<1>4. r \in Nat
  <2>1. v % T \in 0..(T - 1)
      BY <1>3, Division
  <2>2. QED  BY <1>3, <2>1
<1>5. ASSUME NEW i \in 1..N
      PROVE  Passed(v + 1, T, s[i - 1], s[i])
               = Passed(v, T, s[i - 1], s[i]) + (IF i = p THEN 1 ELSE 0)
  <2>1. i \in 0..N /\ i - 1 \in 0..N /\ s[i - 1] \in Nat /\ s[i] \in Nat
      BY <1>1
  <2>2. s[i - 1] <= s[i]
      BY <2>1, SumsGrow
  <2>3. s[i] <= T
      BY <1>1, <2>1, SumsGrow
  <2>4. (s[i - 1] <= r /\ r < s[i]) <=> (i = p)
    <3>1. CASE i < p
      <4>1. s[i] <= s[p - 1]
          BY <1>2, <2>1, <3>1, SumsGrow
      <4> HIDE DEF r
      <4>2. QED  BY <1>3, <1>4, <2>1, <3>1, <4>1 DEF r
    <3>2. CASE i > p
      <4>1. s[p] <= s[i - 1]
          BY <1>2, <2>1, <3>2, SumsGrow
      <4> HIDE DEF r
      <4>2. QED  BY <1>3, <1>4, <2>1, <3>2, <4>1 DEF r
    <3>3. CASE i = p
        BY <3>3
    <3>4. QED  BY <3>1, <3>2, <3>3
  <2>5. Passed(v + 1, T, s[i - 1], s[i]) = Passed(v, T, s[i - 1], s[i])
            + (IF s[i - 1] <= v % T /\ v % T < s[i] THEN 1 ELSE 0)
    <3> DEFINE lo == s[i - 1]
               hi == s[i]
    <3>1. lo \in Nat /\ hi \in Nat /\ lo <= hi /\ hi <= T /\ T \in Nat \ {0}
        BY <1>3, <2>1, <2>2, <2>3
    <3> HIDE DEF lo, hi
    <3>2. Passed(v + 1, T, lo, hi)
            = Passed(v, T, lo, hi) + (IF lo <= v % T /\ v % T < hi THEN 1 ELSE 0)
        BY <3>1, PassedNext, ZenonT(60)
    <3>3. QED  BY <3>2 DEF lo, hi
  <2>6. QED  BY <2>4, <2>5
<1>6. QED  BY <1>5

-----------------------------------------------------------------------------
(* The selections.                                                          *)

\* The position where round-robin starts to look, counted from 0.
Start ==
    IF CRem(current_index, Len(servers)) > 0 THEN CRem(current_index, Len(servers)) ELSE 0

\* The backend k positions further on, around the end of the list.
Around(k) == servers[((Start + k) % Len(servers)) + 1]

\* Round-robin passes over k backends and takes the next.
Skips(k) ==
    /\ k \in 0..Len(servers)
    /\ k = Len(servers) \/ healthy[Around(k)]
    /\ \A j \in 0..(k - 1) : ~healthy[Around(j)]

LEMMA StartIs ==
    ASSUME BalancerTypes, servers # <<>>
    PROVE  /\ Len(servers) \in Nat \ {0}
           /\ Start \in 0..(Len(servers) - 1)
           /\ (current_index \in Nat) => (Start = current_index % Len(servers))
<1> DEFINE N == Len(servers)
<1>1. N \in Nat \ {0} /\ current_index \in Int
    BY DEF BalancerTypes
<1>2. CASE current_index >= 0
  <2>1. current_index \in Nat /\ current_index % N \in 0..(N - 1)
    <3>1. current_index \in Nat
        BY <1>1, <1>2
    <3>2. QED  BY <3>1, <1>1, Division
  <2>2. CRem(current_index, N) = current_index % N
      BY <1>2 DEF CRem
  <2>3. Start = current_index % N
      BY <2>1, <2>2 DEF Start
  <2>4. QED  BY <1>1, <2>1, <2>3
<1>3. CASE ~(current_index >= 0)
  <2>1. -current_index \in Nat
      BY <1>1, <1>3
  <2>2. (-current_index) % N \in 0..(N - 1)
      BY <1>1, <2>1, Division
  <2>3. CRem(current_index, N) = -((-current_index) % N)
      BY <1>3 DEF CRem
  <2>4. Start = 0
      BY <2>2, <2>3 DEF Start
  <2>5. QED  BY <1>1, <1>3, <2>4
<1>4. QED  BY <1>2, <1>3

\* Every position is reached from any other within one round.
LEMMA Reached ==
    ASSUME NEW N \in Nat \ {0}, NEW b \in 0..(N - 1), NEW i \in 1..N
    PROVE  \E j \in 0..(N - 1) : ((b + j) % N) + 1 = i
<1>1. CASE i - 1 >= b
  <2>1. (i - 1) - b \in 0..(N - 1) /\ b + ((i - 1) - b) = 0 * N + (i - 1) /\ i - 1 \in 0..(N - 1)
      BY <1>1
  <2>2. (0 * N + (i - 1)) % N = i - 1
      BY <2>1, DivisionIs
  <2>3. QED  BY <2>1, <2>2
<1>2. CASE ~(i - 1 >= b)
  <2>1. ((i - 1) - b) + N \in 0..(N - 1) /\ b + (((i - 1) - b) + N) = 1 * N + (i - 1)
        /\ i - 1 \in 0..(N - 1)
      BY <1>2
  <2>2. (1 * N + (i - 1)) % N = i - 1
    <3> DEFINE r == i - 1
    <3>1. 1 \in Nat /\ r \in 0..(N - 1)
        BY <2>1
    <3> HIDE DEF r
    <3>2. (1 * N + r) % N = r
        BY <3>1, DivisionIs
    <3>3. QED  BY <3>2 DEF r
  <2> DEFINE j == ((i - 1) - b) + N
  <2>3. j \in 0..(N - 1) /\ b + j = 1 * N + (i - 1)
      BY <2>1
  <2> HIDE DEF j
  <2>4. (b + j) % N = i - 1
      BY <2>2, <2>3
  <2>5. ((b + j) % N) + 1 = i
      BY <2>4
  <2>6. QED  BY <2>3, <2>5
<1>3. QED  BY <1>1, <1>2

LEMMA HealthyIs ==
    ASSUME BalancerTypes
    PROVE  /\ Listed = {servers[i] : i \in 1..Len(servers)}
           /\ (Healthy # {}) <=> \E i \in 1..Len(servers) : healthy[servers[i]]
<1>1. DOMAIN servers = 1..Len(servers)
    BY DEF BalancerTypes
<1>2. Listed = {servers[i] : i \in 1..Len(servers)}
    BY <1>1 DEF Listed, ToSet
<1>3. QED  BY <1>2 DEF Healthy

LEMMA RoundRobinIs ==
    ASSUME BalancerTypes, servers # <<>>
    PROVE  \E k : /\ Skips(k)
                  /\ RoundRobin = [backend |-> Around(k), advance |-> 1 + k]
                  /\ (Healthy # {}) => (k < Len(servers) /\ healthy[Around(k)])
<1> DEFINE N == Len(servers)
           T == {k \in 0..N : k = N \/ healthy[Around(k)]}
<1>1. N \in Nat \ {0} /\ Start \in 0..(N - 1)
    BY StartIs
<1>2. \E k \in 0..N : Skips(k)
  <2>1. N \in T /\ T \in SUBSET Nat
      BY <1>1
  <2>2. PICK k \in T : \A j \in T : k <= j
    <3> HIDE DEF T
    <3>1. QED  BY <2>1, Least
  <2>3. ASSUME NEW j \in 0..(k - 1)
        PROVE  ~healthy[Around(j)]
    <3>1. j \in 0..N /\ ~(k <= j)
        BY <1>1, <2>2
    <3>2. QED  BY <2>2, <3>1
  <2>4. QED  BY <2>2, <2>3 DEF Skips
<1> DEFINE k == CHOOSE x \in 0..N : /\ x = N \/ healthy[Around(x)]
                                    /\ \A j \in 0..(x - 1) : ~healthy[Around(j)]
<1>3. Skips(k)
    BY <1>2 DEF Skips
<1>4. RoundRobin = [backend |-> Around(k), advance |-> 1 + k]
    BY DEF RoundRobin, Choice, At, num_servers, Around, Start
<1> HIDE DEF k
<1>5. ASSUME Healthy # {}
      PROVE  k < N /\ healthy[Around(k)]
  <2>1. PICK i \in 1..N : healthy[servers[i]]
      BY <1>5, HealthyIs
  <2>2. PICK j \in 0..(N - 1) : ((Start + j) % N) + 1 = i
      BY <1>1, Reached
  <2>3. healthy[Around(j)]
      BY <2>1, <2>2 DEF Around
  <2>4. k # N
      BY <2>3, <1>3 DEF Skips
  <2>5. QED  BY <1>1, <1>3, <2>4 DEF Skips
<1>6. QED  BY <1>3, <1>4, <1>5

LEMMA AroundIsBackend ==
    ASSUME BalancerTypes, servers # <<>>, NEW k \in Nat
    PROVE  /\ ((Start + k) % Len(servers)) + 1 \in 1..Len(servers)
           /\ Around(k) \in Backends
<1>1. Len(servers) \in Nat \ {0} /\ Start + k \in Nat
  <2>1. Len(servers) \in Nat \ {0} /\ Start \in 0..(Len(servers) - 1)
      BY StartIs
  <2>2. QED  BY <2>1
<1>2. (Start + k) % Len(servers) \in 0..(Len(servers) - 1)
    BY <1>1, Division
<1>3. ((Start + k) % Len(servers)) + 1 \in 1..Len(servers)
    BY <1>1, <1>2
<1>4. QED  BY <1>3 DEF Around, BalancerTypes

\* The first of the least busy healthy backends.
LEMMA LeastConnectionsIs ==
    ASSUME BalancerTypes
    PROVE  \/ LeastConnections = [backend |-> NoBackend, advance |-> 0] /\ Healthy = {}
           \/ \E i \in 1..Len(servers) :
                 /\ healthy[servers[i]]
                 /\ LeastConnections = [backend |-> servers[i], advance |-> 0]
<1> DEFINE best == {i \in DOMAIN servers :
                      /\ healthy[servers[i]]
                      /\ \A j \in DOMAIN servers :
                           healthy[servers[j]] => active[servers[i]] <= active[servers[j]]}
           loads == {active[servers[i]] : i \in {j \in DOMAIN servers : healthy[servers[j]]}}
<1>1. DOMAIN servers = 1..Len(servers) /\ Len(servers) \in Nat
    BY DEF BalancerTypes
<1>2. \A i \in DOMAIN servers : active[servers[i]] \in Nat
    BY <1>1 DEF BalancerTypes
<1>3. LeastConnections = IF best = {} THEN [backend |-> NoBackend, advance |-> 0]
                            ELSE [backend |-> servers[Min(best)], advance |-> 0]
    BY DEF LeastConnections, Choice
<1>4. CASE best = {}
  <2>1. ASSUME Healthy # {} PROVE FALSE
    <3>1. loads # {}
        BY <1>1, <2>1, HealthyIs
    <3>2. loads \in SUBSET Nat
        BY <1>2
    <3>3. PICK l \in loads : \A m \in loads : l <= m
      <4> HIDE DEF loads
      <4>1. QED  BY <3>1, <3>2, Least
    <3>4. PICK i \in DOMAIN servers : healthy[servers[i]] /\ l = active[servers[i]]
        OBVIOUS
    <3>5. i \in best
        BY <3>3, <3>4
    <3>6. QED  BY <1>4, <3>5
  <2>2. QED  BY <1>3, <1>4, <2>1
<1>5. CASE best # {}
  <2>1. best \in SUBSET Nat
      BY <1>1
  <2>2. Min(best) \in best
    <3> HIDE DEF best
    <3>1. \E x \in best : \A y \in best : x <= y
        BY <1>5, <2>1, Least
    <3>2. QED  BY <3>1 DEF Min
  <2>3. QED  BY <1>1, <1>3, <1>5, <2>2
<1>6. QED  BY <1>4, <1>5

\* Weighted selection takes the healthy backend into whose range the index
\* falls, and there is one unless all weights are zero.
LEMMA WeightedIs ==
    ASSUME BalancerTypes, NEW s, s = UpTo(Weight), NEW T, T = s[Len(servers)]
    PROVE  IF T = 0 THEN WeightedRoundRobin = [backend |-> NoBackend, advance |-> 0]
           ELSE \E p \in 1..Len(servers) :
                   /\ healthy[servers[p]]
                   /\ WeightedRoundRobin = [backend |-> servers[p], advance |-> 1]
                   /\ (current_index \in Nat) =>
                        s[p - 1] <= current_index % T /\ current_index % T < s[p]
<1> DEFINE N == Len(servers)
           target == CRem(current_index, T)
           x == IF target > 0 THEN target ELSE 0
           hit == {i \in DOMAIN servers : healthy[servers[i]] /\ s[i] > target}
<1>1. N \in Nat /\ DOMAIN servers = 1..N /\ current_index \in Int
    BY DEF BalancerTypes
<1>2. Sums(s, Weight) /\ Weight \in [Backends -> Nat]
    BY SumsAre, BalancerConstant
<1>3. WeightedRoundRobin = IF T = 0 THEN [backend |-> NoBackend, advance |-> 0]
                              ELSE [backend |-> servers[Min(hit)], advance |-> 1]
    BY DEF WeightedRoundRobin, Choice, num_servers
<1>4. (\A i \in 0..N : s[i] \in Nat) /\ s[0] = 0 /\ T \in Nat
  <2>1. \A i \in 0..N : s[i] \in Nat
      BY <1>1, <1>2 DEF Sums
  <2>2. N \in 0..N
      BY <1>1
  <2>3. QED  BY <1>2, <2>1, <2>2 DEF Sums
<1>5. ASSUME T # 0
      PROVE  \E p \in 1..N :
                /\ healthy[servers[p]]
                /\ WeightedRoundRobin = [backend |-> servers[p], advance |-> 1]
                /\ (current_index \in Nat) =>
                     s[p - 1] <= current_index % T /\ current_index % T < s[p]
  <2>1. /\ x \in 0..(T - 1) /\ target \in Int /\ target <= x
        /\ (current_index \in Nat) => (target = current_index % T /\ x = current_index % T)
    <3>1. CASE current_index >= 0
      <4>1. current_index \in Nat
          BY <1>1, <3>1
      <4>2. current_index % T \in 0..(T - 1)
          BY <1>4, <1>5, <4>1, Division
      <4>3. target = current_index % T
          BY <3>1 DEF CRem
      <4>4. QED  BY <1>4, <4>2, <4>3
    <3>2. CASE ~(current_index >= 0)
      <4>1. -current_index \in Nat
          BY <1>1, <3>2
      <4>2. (-current_index) % T \in 0..(T - 1)
          BY <1>4, <1>5, <4>1, Division
      <4>3. target = -((-current_index) % T)
          BY <3>2 DEF CRem
      <4> HIDE DEF target
      <4>4. QED  BY <1>1, <1>4, <1>5, <3>2, <4>2, <4>3
    <3>3. QED  BY <3>1, <3>2
  <2> HIDE DEF target, x
  <2> DEFINE over == {i \in 1..N : s[i] > x}
  <2>2. PICK q \in over : \A i \in over : q <= i
    <3>1. N \in over
      <4>1. N \in 0..N /\ s[N] > x
          BY <1>1, <1>4, <2>1
      <4>2. N # 0
          BY <1>4, <1>5
      <4>3. QED  BY <1>1, <4>1, <4>2
    <3>2. over \in SUBSET Nat
        BY <1>1
    <3> HIDE DEF over
    <3>3. QED  BY <3>1, <3>2, Least
  <2>3. s[q - 1] <= x
    <3>1. CASE q = 1
        BY <1>4, <2>1, <3>1
    <3>2. CASE q # 1
      <4>1. q - 1 \in 1..N /\ q - 1 \notin over
          BY <1>1, <2>2, <3>2
      <4>2. s[q - 1] \in Nat /\ ~(s[q - 1] > x)
          BY <1>4, <4>1
      <4>3. QED  BY <2>1, <4>2
    <3>3. QED  BY <3>1, <3>2
  <2>4. healthy[servers[q]]
    <3>1. q \in 1..N /\ q - 1 \in 0..N /\ s[q] > x /\ s[q] \in Nat /\ s[q - 1] \in Nat
        BY <1>1, <1>4, <2>2
    <3>2. s[q] = s[q - 1] + (IF healthy[servers[q]] THEN Weight[servers[q]] ELSE 0)
        BY <1>2, <3>1 DEF Sums
    <3>3. QED  BY <2>1, <2>3, <3>1, <3>2
  <2>5. q \in hit
    <3>1. s[q] \in Nat /\ s[q] > x /\ q \in 1..N
        BY <1>1, <1>4, <2>2
    <3>2. s[q] > target
        BY <2>1, <3>1
    <3>3. QED  BY <1>1, <2>4, <3>1, <3>2
  <2> DEFINE p == Min(hit)
  <2>6. p \in hit /\ \A i \in hit : p <= i
    <3>1. hit \in SUBSET Nat
        BY <1>1
    <3> HIDE DEF hit
    <3>2. \E i \in hit : \A j \in hit : i <= j
        BY <2>5, <3>1, Least
    <3>3. QED  BY <3>2 DEF Min
  <2> HIDE DEF p
  <2>7. p \in 1..N /\ healthy[servers[p]] /\ s[p] > target
      BY <1>1, <2>6
  <2>8. ASSUME current_index \in Nat
        PROVE  p = q
    <3>1. target = x
        BY <2>1, <2>8
    <3>2. p \in over
        BY <2>7, <3>1
    <3>3. p <= q /\ q <= p /\ q \in 1..N
        BY <2>2, <2>5, <2>6, <3>2
    <3>4. QED  BY <1>1, <2>7, <3>3
  <2>9. ASSUME current_index \in Nat
        PROVE  s[p - 1] <= current_index % T /\ current_index % T < s[p]
    <3>1. s[q] > x /\ s[q] \in Nat /\ s[q - 1] \in Nat
        BY <1>1, <1>4, <2>2
    <3>2. QED  BY <2>1, <2>3, <2>8, <2>9, <3>1
  <2>10. WeightedRoundRobin = [backend |-> servers[p], advance |-> 1]
      BY <1>3, <1>5 DEF p
  <2>11. QED  BY <2>7, <2>9, <2>10
<1>6. QED  BY <1>3, <1>5

-----------------------------------------------------------------------------
(* A rotation counted in turns.                                             *)

Ones == [b \in Backends |-> 1]

\* How many turns round-robin has given when the index stands at c: those of
\* the healthy backends only, h in a round of all.
TurnsAt(s, c) == (c \div Len(servers)) * s[Len(servers)] + s[c % Len(servers)]

\* The backends that round-robin passes over are unhealthy, up to the end of
\* the list and from its head.
LEMMA PassedOver ==
    ASSUME BalancerTypes, servers # <<>>, NEW k, Skips(k), k < Len(servers)
    PROVE  /\ \A i \in (Start + 1)..(Start + k) : (i <= Len(servers)) => ~healthy[servers[i]]
           /\ \A i \in 1..(Start + k - Len(servers)) : ~healthy[servers[i]]
<1> DEFINE N == Len(servers)
           b == Start
<1>1. N \in Nat \ {0} /\ b \in 0..(N - 1) /\ k \in 0..N
    BY StartIs DEF Skips
<1> HIDE DEF b
<1>2. ASSUME NEW i \in (b + 1)..(b + k), i <= N
      PROVE  ~healthy[servers[i]]
  <2> DEFINE j == i - b - 1
             r == i - 1
  <2>1. j \in 0..(k - 1) /\ r \in 0..(N - 1) /\ b + j = 0 * N + r /\ r + 1 = i
      BY <1>1, <1>2
  <2> HIDE DEF j, r
  <2>2. (0 * N + r) % N = r
    <3>1. 0 \in Nat
        OBVIOUS
    <3>2. QED  BY <1>1, <2>1, <3>1, DivisionIs
  <2>3. ~healthy[servers[((b + j) % N) + 1]]
      BY <2>1 DEF Skips, Around, b
  <2>4. QED  BY <2>1, <2>2, <2>3
<1>3. ASSUME NEW i \in 1..(b + k - N)
      PROVE  ~healthy[servers[i]]
  <2> DEFINE j == N - b + i - 1
             r == i - 1
  <2>1. j \in 0..(k - 1) /\ r \in 0..(N - 1) /\ b + j = 1 * N + r /\ r + 1 = i
      BY <1>1, <1>3
  <2> HIDE DEF j, r
  <2>2. (1 * N + r) % N = r
    <3>1. 1 \in Nat
        OBVIOUS
    <3>2. QED  BY <1>1, <2>1, <3>1, DivisionIs
  <2>3. ~healthy[servers[((b + j) % N) + 1]]
      BY <2>1 DEF Skips, Around, b
  <2>4. QED  BY <2>1, <2>2, <2>3
<1>4. QED  BY <1>2, <1>3 DEF b

\* Round-robin is weighted selection with equal weights: it takes the backend
\* whose turn it is, and the turns given grow by one.
LEMMA RoundRobinTurn ==
    ASSUME BalancerTypes, servers # <<>>, current_index \in Nat, NEW s, Sums(s, Ones),
           NEW k, Skips(k), k < Len(servers), healthy[Around(k)],
           NEW p, p = ((Start + k) % Len(servers)) + 1,
           NEW h, h = s[Len(servers)], NEW v, v = TurnsAt(s, current_index)
    PROVE  /\ p \in 1..Len(servers) /\ h \in Nat \ {0} /\ v \in Nat
           /\ s[p - 1] <= v % h /\ v % h < s[p]
           /\ TurnsAt(s, current_index + (1 + k)) = v + 1
<1> DEFINE N == Len(servers)
           b == current_index % N
           q == current_index \div N
<1>1. N \in Nat \ {0} /\ Start = b /\ k \in 0..N /\ k < N
    BY StartIs DEF Skips
<1>2. q \in Nat /\ b \in 0..(N - 1) /\ current_index = q * N + b
    BY <1>1, Division
<1>3. (\A i \in 0..N : s[i] \in Nat) /\ s[0] = 0 /\ h \in Nat
  <2>1. \A i \in 0..N : s[i] \in Nat
      BY <1>1 DEF Sums
  <2>2. N \in 0..N
      BY <1>1
  <2>3. QED  BY <2>1, <2>2 DEF Sums
<1>4. p \in 1..N /\ healthy[servers[p]]
  <2>1. k \in Nat
      BY <1>1
  <2>2. QED  BY <2>1, AroundIsBackend DEF Around
<1>5. s[p] = s[p - 1] + 1 /\ s[p] <= h /\ s[p - 1] \in Nat /\ s[p] \in Nat
  <2>1. p \in 0..N /\ p - 1 \in 0..N /\ N \in 0..N /\ p <= N
      BY <1>1, <1>4
  <2>2. Ones[servers[p]] = 1 /\ Ones \in [Backends -> Nat]
      BY <1>4 DEF Ones, BalancerTypes
  <2>3. s[p] = s[p - 1] + 1
      BY <1>4, <2>2 DEF Sums
  <2>4. s[p] <= s[N]
      BY <2>1, <2>2, SumsGrow
  <2>5. QED  BY <1>3, <2>1, <2>3, <2>4
<1>6. v = q * h + s[b] /\ s[b] \in Nat /\ q * h \in Nat
  <2>1. b \in 0..N
      BY <1>1, <1>2
  <2>2. s[b] \in Nat
      BY <1>3, <2>1
  <2>3. q * h \in Nat
      BY <1>2, <1>3, TimesNext
  <2>4. QED  BY <2>2, <2>3 DEF TurnsAt
<1>7. (q + 1) * h = q * h + h /\ (q + 1) * N = q * N + N /\ q * N \in Nat
    BY <1>1, <1>2, <1>3, TimesNext
<1>8. \A m \in 0..N, n \in 0..N :
        (m <= n /\ \A i \in (m + 1)..n : ~healthy[servers[i]]) => (s[m] = s[n])
  <2>1. Ones \in [Backends -> Nat]
      BY DEF Ones
  <2>2. QED  BY <2>1, SumsGrow
<1>9. /\ \A i \in (b + 1)..(b + k) : (i <= N) => ~healthy[servers[i]]
      /\ \A i \in 1..(b + k - N) : ~healthy[servers[i]]
    BY <1>1, PassedOver
<1>10. \A d \in Nat, r \in 0..(N - 1) :
          TurnsAt(s, d * N + r) = d * h + s[r]
  <2>1. ASSUME NEW d \in Nat, NEW r \in 0..(N - 1)
        PROVE  TurnsAt(s, d * N + r) = d * h + s[r]
    <3>1. (d * N + r) \div N = d /\ (d * N + r) % N = r
        BY <1>1, DivisionIs
    <3>2. QED  BY <3>1 DEF TurnsAt
  <2>2. QED  BY <2>1
<1>11. \A d \in Nat, r \in Nat : (h # 0 /\ r < h) => (d * h + r) % h = r
  <2>1. ASSUME NEW d \in Nat, NEW r \in Nat, h # 0, r < h
        PROVE  (d * h + r) % h = r
    <3>1. r \in 0..(h - 1) /\ h \in Nat \ {0}
        BY <1>3, <2>1
    <3>2. QED  BY <3>1, DivisionIs
  <2>2. QED  BY <2>1
<1> HIDE DEF b, q, N
<1>12. CASE b + k < N
  <2> DEFINE r == b + k
  <2>1. r \in 0..(N - 1) /\ r \in 0..N /\ b \in 0..N /\ b <= r
      BY <1>1, <1>2, <1>12
  <2>2. (0 * N + r) % N = r
    <3>1. 0 \in Nat
        OBVIOUS
    <3> HIDE DEF r
    <3>2. QED  BY <1>1, <2>1, <3>1, DivisionIs
  <2>3. p = r + 1
      BY <1>1, <2>1, <2>2 DEF N
  <2>4. s[b] = s[r]
    <3>1. \A i \in (b + 1)..r : ~healthy[servers[i]]
        BY <1>1, <1>2, <1>9, <1>12
    <3> HIDE DEF r
    <3>2. QED  BY <1>8, <2>1, <3>1
  <2>5. s[p - 1] = s[b] /\ h # 0 /\ s[b] < h
      BY <1>3, <1>5, <2>1, <2>3, <2>4
  <2>6. v % h = s[b]
      BY <1>2, <1>6, <1>11, <2>5
  <2>7. current_index + (1 + k) = q * N + (r + 1)
      BY <1>1, <1>2, <1>7
  <2>8. CASE r + 1 < N
    <3>1. r + 1 \in 0..(N - 1)
        BY <1>1, <2>1, <2>8
    <3>2. TurnsAt(s, current_index + (1 + k)) = q * h + s[p]
        BY <1>2, <1>10, <2>3, <2>7, <3>1
    <3>3. q * h + s[p] = (q * h + s[b]) + 1
        BY <1>5, <1>6, <2>5
    <3>4. TurnsAt(s, current_index + (1 + k)) = v + 1 /\ v \in Nat
        BY <1>6, <3>2, <3>3
    <3>5. s[p - 1] <= v % h /\ v % h < s[p] /\ h \in Nat \ {0}
        BY <1>3, <1>5, <2>5, <2>6
    <3>6. QED  BY <1>4, <3>4, <3>5 DEF N
  <2>9. CASE ~(r + 1 < N)
    <3>1. r + 1 = N /\ p = N /\ h = s[b] + 1
        BY <1>1, <1>3, <1>5, <2>1, <2>3, <2>5, <2>9 DEF N
    <3>2. current_index + (1 + k) = (q + 1) * N + 0 /\ q + 1 \in Nat /\ 0 \in 0..(N - 1)
        BY <1>1, <1>2, <1>7, <2>7, <3>1
    <3>3. TurnsAt(s, current_index + (1 + k)) = (q + 1) * h + s[0]
        BY <1>10, <3>2
    <3>4. (q + 1) * h + s[0] = (q * h + s[b]) + 1
        BY <1>3, <1>6, <1>7, <3>1
    <3>5. TurnsAt(s, current_index + (1 + k)) = v + 1 /\ v \in Nat
        BY <1>6, <3>3, <3>4
    <3>6. s[p - 1] <= v % h /\ v % h < s[p] /\ h \in Nat \ {0}
        BY <1>3, <1>5, <2>5, <2>6
    <3>7. QED  BY <1>4, <3>5, <3>6 DEF N
  <2>10. QED  BY <2>8, <2>9
<1>13. CASE ~(b + k < N)
  <2> DEFINE r == b + k - N
  <2>1. r \in 0..(N - 1) /\ r + 1 \in 0..(N - 1) /\ r \in 0..N /\ b \in 0..N /\ 0 \in 0..N /\ N \in 0..N
      BY <1>1, <1>2, <1>13
  <2>2. (1 * N + r) % N = r
    <3>1. 1 \in Nat
        OBVIOUS
    <3> HIDE DEF r
    <3>2. QED  BY <1>1, <2>1, <3>1, DivisionIs
  <2>3. p = r + 1
    <3>1. b + k = 1 * N + r
        BY <1>1, <1>2
    <3>2. QED  BY <1>1, <2>1, <2>2, <3>1 DEF N
  <2>4. s[b] = s[N] /\ s[0] = s[r]
    <3>1. \A i \in (b + 1)..N : ~healthy[servers[i]]
        BY <1>1, <1>2, <1>9, <1>13
    <3>2. \A i \in (0 + 1)..r : ~healthy[servers[i]]
        BY <1>9
    <3>3. b <= N /\ 0 <= r
        BY <1>1, <1>2, <2>1
    <3> HIDE DEF r
    <3>4. QED  BY <1>8, <2>1, <3>1, <3>2, <3>3
  <2>5. s[b] = h /\ s[p - 1] = 0 /\ s[p] = 1 /\ h # 0
      BY <1>3, <1>5, <2>1, <2>3, <2>4 DEF N
  <2>6. v = (q + 1) * h + 0 /\ q + 1 \in Nat
      BY <1>2, <1>3, <1>6, <1>7, <2>5
  <2>7. v % h = 0
      BY <1>3, <1>11, <2>5, <2>6
  <2>8. current_index + (1 + k) = (q + 1) * N + (r + 1)
      BY <1>1, <1>2, <1>7
  <2>9. TurnsAt(s, current_index + (1 + k)) = (q + 1) * h + s[r + 1]
      BY <1>10, <2>1, <2>6, <2>8
  <2>10. TurnsAt(s, current_index + (1 + k)) = v + 1
      BY <1>2, <1>3, <1>6, <1>7, <2>3, <2>5, <2>6, <2>9
  <2>11. QED  BY <1>3, <1>4, <1>6, <2>5, <2>6, <2>7, <2>10, SMTT(40) DEF N
<1>14. QED  BY <1>12, <1>13

-----------------------------------------------------------------------------
(* Types, and the count of connections.                                     *)

\* What is selected is a backend of the list, a healthy one if there is any.
LEMMA SelectIs ==
    ASSUME BalancerTypes, servers # <<>>, NEW c \in Clients
    PROVE  /\ Select(c).backend \in Backends \cup {NoBackend}
           /\ Select(c).advance \in Nat
           /\ Select(c).advance <= Len(servers) + 1
           /\ Select(c).backend # NoBackend =>
                healthy[Select(c).backend] \/ Healthy = {}
<1> DEFINE Fine(s) == /\ s.backend \in Backends \cup {NoBackend}
                      /\ s.advance \in Nat
                      /\ s.advance <= Len(servers) + 1
                      /\ s.backend # NoBackend => (healthy[s.backend] \/ Healthy = {})
<1>1. Len(servers) \in Nat \ {0} /\ \A i \in 1..Len(servers) : servers[i] \in Backends
    BY StartIs DEF BalancerTypes
<1>2. Fine(RoundRobin)
  <2>1. PICK k : /\ Skips(k)
                 /\ RoundRobin = [backend |-> Around(k), advance |-> 1 + k]
                 /\ (Healthy # {}) => (k < Len(servers) /\ healthy[Around(k)])
      BY RoundRobinIs
  <2>2. k \in 0..Len(servers) /\ k \in Nat
      BY <1>1, <2>1 DEF Skips
  <2>3. Around(k) \in Backends
      BY <2>2, AroundIsBackend
  <2>4. QED  BY <1>1, <2>1, <2>2, <2>3
<1>3. Fine(LeastConnections)
  <2>1. CASE LeastConnections = [backend |-> NoBackend, advance |-> 0] /\ Healthy = {}
      BY <1>1, <2>1
  <2>2. CASE \E i \in 1..Len(servers) :
                 /\ healthy[servers[i]]
                 /\ LeastConnections = [backend |-> servers[i], advance |-> 0]
      BY <1>1, <2>2
  <2>3. QED  BY <2>1, <2>2, LeastConnectionsIs
<1>4. Fine(IpHash(c))
  <2> DEFINE x == servers[(HashOf[c] % Len(servers)) + 1]
  <2>1. IpHash(c) = IF healthy[x] THEN [backend |-> x, advance |-> 0] ELSE RoundRobin
      BY DEF IpHash, At, num_servers, Choice
  <2>2. x \in Backends
    <3>1. HashOf[c] \in Nat
        BY BalancerConstant
    <3>2. HashOf[c] % Len(servers) \in 0..(Len(servers) - 1)
        BY <1>1, <3>1, Division
    <3>3. (HashOf[c] % Len(servers)) + 1 \in 1..Len(servers)
        BY <1>1, <3>2
    <3>4. QED  BY <1>1, <3>3
  <2> HIDE DEF x
  <2>3. CASE healthy[x]
    <3>1. IpHash(c) = [backend |-> x, advance |-> 0]
        BY <2>1, <2>3
    <3>2. QED  BY <1>1, <2>2, <2>3, <3>1
  <2>4. CASE ~healthy[x]
    <3>1. IpHash(c) = RoundRobin
        BY <2>1, <2>4
    <3> HIDE DEF Fine
    <3>2. QED  BY <1>2, <3>1
  <2>5. QED  BY <2>3, <2>4
<1>5. Fine(WeightedRoundRobin)
  <2> DEFINE s == UpTo(Weight)
             T == s[Len(servers)]
  <2>1. IF T = 0 THEN WeightedRoundRobin = [backend |-> NoBackend, advance |-> 0]
        ELSE \E p \in 1..Len(servers) :
                /\ healthy[servers[p]]
                /\ WeightedRoundRobin = [backend |-> servers[p], advance |-> 1]
    <3> HIDE DEF s, T
    <3>1. s = UpTo(Weight) /\ T = s[Len(servers)]
        BY DEF s, T
    <3>2. QED  BY <3>1, WeightedIs
  <2> HIDE DEF s, T
  <2>2. CASE T = 0
    <3>1. WeightedRoundRobin = [backend |-> NoBackend, advance |-> 0]
        BY <2>1, <2>2
    <3>2. QED  BY <1>1, <3>1
  <2>3. CASE T # 0
    <3>1. PICK p \in 1..Len(servers) :
             /\ healthy[servers[p]]
             /\ WeightedRoundRobin = [backend |-> servers[p], advance |-> 1]
        BY <2>1, <2>3
    <3>2. QED  BY <1>1, <3>1
  <2>4. QED  BY <2>2, <2>3
<1>6. \/ Select(c) = RoundRobin \/ Select(c) = LeastConnections
      \/ Select(c) = IpHash(c) \/ Select(c) = WeightedRoundRobin
    BY DEF Select, BalancerTypes
<1>7. Fine(Select(c))
  <2> HIDE DEF Fine
  <2>1. QED  BY <1>2, <1>3, <1>4, <1>5, <1>6
<1>8. QED  BY <1>7

PrependRow(S, l, n) ==
    IF n = 0 THEN <<>> ELSE IF n \in S THEN <<n>> \o l[n - 1] ELSE l[n - 1]

LEMMA ListsExist ==
    ASSUME NumBackends \in Nat, NEW S
    PROVE  \E l : l = [n \in 0..NumBackends |-> PrependRow(S, l, n)]
<1> DEFINE D == 0..NumBackends
           Good(k) == \E l : l = [n \in D |-> l[n]] /\ \A n \in D : n <= k => l[n] = PrependRow(S, l, n)
           T == {k \in Nat : Good(k)}
<1>1. 0 \in T
  <2> DEFINE l == [n \in D |-> <<>>]
  <2>1. l = [n \in D |-> l[n]] /\ \A n \in D : n <= 0 => l[n] = PrependRow(S, l, n)
      BY DEF PrependRow
  <2> HIDE DEF l
  <2>2. QED  BY <2>1
<1>2. ASSUME NEW k \in T
      PROVE  k + 1 \in T
  <2>1. PICK l : l = [n \in D |-> l[n]] /\ \A n \in D : n <= k => l[n] = PrependRow(S, l, n)
      BY <1>2
  <2> DEFINE u == [n \in D |-> IF n = k + 1 THEN PrependRow(S, l, n) ELSE l[n]]
  <2>2. u = [n \in D |-> u[n]]
      OBVIOUS
  <2>3. ASSUME NEW n \in D, n <= k + 1
        PROVE  u[n] = PrependRow(S, u, n)
    <3>1. PrependRow(S, u, n) = PrependRow(S, l, n)
      <4>1. CASE n = 0
          BY <4>1 DEF PrependRow
      <4>2. CASE n # 0
        <5>1. n - 1 \in D /\ n - 1 # k + 1
            BY <2>3, <4>2
        <5>2. u[n - 1] = l[n - 1]
            BY <5>1
        <5>3. QED  BY <5>2 DEF PrependRow
      <4>3. QED  BY <4>1, <4>2
    <3>2. CASE n = k + 1
        BY <3>1, <3>2
    <3>3. CASE n # k + 1
      <4>1. n <= k
          BY <2>3, <3>3
      <4>2. QED  BY <2>1, <3>1, <3>3, <4>1
    <3>4. QED  BY <3>2, <3>3
  <2> HIDE DEF u, D
  <2>4. Good(k + 1)
      BY <2>2, <2>3
  <2>5. QED  BY <2>4
<1>3. T = Nat
  <2>1. T \in SUBSET Nat
      OBVIOUS
  <2> HIDE DEF T
  <2>2. QED  BY <1>1, <1>2, <2>1, Steps
<1>4. Good(NumBackends)
  <2> HIDE DEF Good
  <2>1. QED  BY <1>3
<1>5. PICK l : l = [n \in D |-> l[n]] /\ \A n \in D : n <= NumBackends => l[n] = PrependRow(S, l, n)
    BY <1>4
<1>6. l = [n \in D |-> PrependRow(S, l, n)]
    BY <1>5
<1>7. QED  BY <1>6

\* Each backend comes to the list once.
LEMMA PrependedIs ==
    ASSUME NEW S \in SUBSET Backends, S # {}
    PROVE  /\ Prepended(S) \in Seq(Backends) /\ Prepended(S) # <<>>
           /\ Len(Prepended(S)) <= NumBackends
           /\ \A i, j \in 1..Len(Prepended(S)) :
                 (Prepended(S)[i] = Prepended(S)[j]) => (i = j)
<1> DEFINE N == NumBackends
           list == CHOOSE l : l = [n \in 0..N |-> PrependRow(S, l, n)]
           Fine(n) == /\ list[n] \in Seq(Backends) /\ Len(list[n]) <= n
                      /\ \A i \in 1..Len(list[n]) : list[n][i] <= n
                      /\ \A i, j \in 1..Len(list[n]) : (list[n][i] = list[n][j]) => (i = j)
                      /\ \A x \in S : (x <= n) => (list[n] # <<>>)
           T == {k \in Nat : k <= N => Fine(k)}
<1>1. N \in Nat \ {0}
    BY BalancerConstant
<1>2. Prepended(S) = list[N]
    BY DEF Prepended, PrependRow
<1>3. list = [n \in 0..N |-> PrependRow(S, list, n)]
  <2>1. \E l : l = [n \in 0..N |-> PrependRow(S, l, n)]
      BY <1>1, ListsExist
  <2>2. QED  BY <2>1
<1> HIDE DEF list
<1>4. 0 \in T
  <2>1. list[0] = <<>>
      BY <1>1, <1>3 DEF PrependRow
  <2>2. \A x \in S : ~(x <= 0)
      BY <1>1 DEF Backends
  <2>3. <<>> \in Seq(Backends) /\ Len(<<>>) = 0
      OBVIOUS
  <2>4. Fine(0)
      BY <2>1, <2>2, <2>3
  <2>5. QED  BY <2>4
<1>5. ASSUME NEW k \in T
      PROVE  k + 1 \in T
  <2>1. ASSUME k + 1 <= N
        PROVE  Fine(k + 1)
    <3>1. k + 1 \in 0..N /\ (k + 1) - 1 = k /\ k + 1 # 0 /\ k <= N /\ k + 1 \in Backends
        BY <1>1, <2>1 DEF Backends
    <3>2. list[k + 1] = IF k + 1 \in S THEN <<k + 1>> \o list[k] ELSE list[k]
        BY <1>3, <3>1 DEF PrependRow
    <3>3. Fine(k)
        BY <1>5, <3>1
    <3> DEFINE l == list[k]
               m == <<k + 1>> \o l
    <3>4. l \in Seq(Backends) /\ Len(l) \in Nat
        BY <3>3
    <3>5. \A i \in 1..Len(l) : l[i] \in Nat
      <4> HIDE DEF l
      <4>1. \A i \in 1..Len(l) : l[i] \in Backends
          BY <3>4
      <4>2. QED  BY <1>1, <4>1 DEF Backends
    <3>6. CASE k + 1 \in S
      <4>1. list[k + 1] = m
          BY <3>2, <3>6
      <4>2. m \in Seq(Backends) /\ Len(m) = Len(l) + 1 /\ m[1] = k + 1 /\ m # <<>>
          BY <3>1, <3>4
      <4>3. \A i \in 2..Len(m) : m[i] = l[i - 1] /\ i - 1 \in 1..Len(l)
          BY <3>4, <4>2
      <4>4. \A i \in 1..Len(l) : l[i] <= k /\ l[i] \in Nat
          BY <3>3, <3>5
      <4>5. \A i \in 1..Len(m) : m[i] <= k + 1
        <5> HIDE DEF l, m
        <5>1. ASSUME NEW i \in 1..Len(m) PROVE m[i] <= k + 1
          <6>1. CASE i = 1
              BY <4>2, <6>1
          <6>2. CASE i # 1
            <7>1. i \in 2..Len(m)
                BY <6>2, <3>4, <4>2
            <7>2. QED  BY <4>3, <4>4, <7>1, SMTT(40)
          <6>3. QED  BY <6>1, <6>2
        <5>2. QED  BY <5>1
      <4>6. \A i, j \in 1..Len(l) : (l[i] = l[j]) => (i = j)
          BY <3>3
      <4>7. ASSUME NEW i \in 1..Len(m), NEW j \in 1..Len(m), m[i] = m[j]
            PROVE  i = j
        <5> HIDE DEF l, m
        <5>1. i = 1 \/ i \in 2..Len(m)
            BY <3>4, <4>2
        <5>2. j = 1 \/ j \in 2..Len(m)
            BY <3>4, <4>2
        <5>3. \A x \in 2..Len(m) : m[x] # k + 1
            BY <4>3, <4>4, SMTT(40)
        <5>4. CASE i = 1 \/ j = 1
            BY <4>2, <4>7, <5>1, <5>2, <5>3, <5>4
        <5>5. CASE i \in 2..Len(m) /\ j \in 2..Len(m)
          <6>1. l[i - 1] = l[j - 1] /\ i - 1 \in 1..Len(l) /\ j - 1 \in 1..Len(l)
              BY <4>3, <4>7, <5>5
          <6>2. i - 1 = j - 1
              BY <4>6, <6>1
          <6>3. QED  BY <5>5, <6>2
        <5>6. QED  BY <5>1, <5>2, <5>4, <5>5
      <4>8. Len(m) <= k + 1
          BY <3>3, <3>4, <4>2
      <4> HIDE DEF l, m
      <4>9. QED  BY <4>1, <4>2, <4>5, <4>7, <4>8
    <3>7. CASE k + 1 \notin S
      <4>1. list[k + 1] = list[k]
          BY <3>2, <3>7
      <4>2. \A i \in 1..Len(l) : l[i] <= k + 1
        <5>1. \A i \in 1..Len(l) : l[i] <= k /\ l[i] \in Nat
            BY <3>3, <3>5
        <5> HIDE DEF l
        <5>2. QED  BY <5>1
      <4>3. \A x \in S : (x <= k + 1) => (x <= k)
          BY <3>1, <3>7 DEF Backends
      <4>4. QED  BY <3>3, <4>1, <4>2, <4>3
    <3>8. QED  BY <3>6, <3>7
  <2> HIDE DEF Fine
  <2>2. QED  BY <2>1
<1>6. T = Nat
  <2>1. T \in SUBSET Nat
      OBVIOUS
  <2> HIDE DEF T
  <2>2. QED  BY <1>4, <1>5, <2>1, Steps
<1>7. Fine(N)
  <2> HIDE DEF Fine
  <2>1. QED  BY <1>1, <1>6
<1>8. \E x \in S : x <= N
  <2>1. PICK x \in S : TRUE
      OBVIOUS
  <2>2. x \in 1..N
      BY DEF Backends
  <2>3. QED  BY <1>1, <2>2
<1>9. QED  BY <1>2, <1>7, <1>8

\* active_connections of each backend is the number of callers that hold it.
Counted ==
    \A b \in Backends : active[b] = Cardinality({p \in Callers : holding[p] = b})

LEMMA BalancerStarts ==
    ASSUME BalancerInit
    PROVE  BalancerTypes /\ Counted
<1>1. BalancerTypes
    BY BalancerConstant DEF BalancerInit, BalancerTypes
<1>2. ASSUME NEW b \in Backends
      PROVE  active[b] = Cardinality({p \in Callers : holding[p] = b})
  <2>1. {p \in Callers : holding[p] = b} = {}
      BY BalancerConstant DEF BalancerInit
  <2>2. Cardinality({}) = 0
      BY FS_EmptySet
  <2>3. active[b] = 0
      BY BalancerConstant DEF BalancerInit
  <2>4. QED  BY <2>1, <2>2, <2>3
<1>3. QED  BY <1>1, <1>2 DEF Counted

LEMMA SelectTypes ==
    ASSUME BalancerTypes, NEW p \in Callers, NEW c \in Clients,
           SelectBackend(p, c)
    PROVE  BalancerTypes'
<1> DEFINE s == Select(c)
<1>1. servers # <<>>
    BY DEF SelectBackend, BalancerTypes
<1>2. s.backend \in Backends /\ s.advance \in Nat
    BY <1>1, SelectIs DEF SelectBackend
<1> HIDE DEF s
<1>3. /\ active' = [active EXCEPT ![s.backend] = @ + 1]
      /\ current_index' = Plus(current_index, s.advance)
      /\ holding' = [holding EXCEPT ![p] = s.backend]
      /\ CountTurn(s.backend)
      /\ UNCHANGED <<lb, algorithm, servers, failed, healthy, age, reachable>>
    BY DEF SelectBackend, s
<1>4. current_index' \in Int
    BY <1>2, <1>3, BalancerConstant DEF Plus, BalancerTypes
<1>5. turns' \in Nat /\ share' \in [Backends -> Nat]
  <2>1. CASE UNCHANGED <<turns, share>>
      BY <2>1 DEF BalancerTypes
  <2>2. CASE turns' = turns + 1 /\ share' = [share EXCEPT ![s.backend] = @ + 1]
      BY <1>2, <2>2 DEF BalancerTypes
  <2>3. CASE turns' = 1 /\ share' = [x \in Backends |-> IF x = s.backend THEN 1 ELSE 0]
      BY <2>3
  <2>4. QED  BY <1>3, <2>1, <2>2, <2>3, BalancerConstant DEF CountTurn
<1>6. active' \in [Backends -> Nat] /\ holding' \in [Callers -> Backends \cup {NoBackend}]
    BY <1>2, <1>3 DEF BalancerTypes
<1>7. QED  BY <1>3, <1>4, <1>5, <1>6 DEF BalancerTypes

LEMMA RestartTypes ==
    ASSUME BalancerTypes, NEW changed, Restart(changed)
    PROVE  turns' \in Nat /\ share' \in [Backends -> Nat]
<1>1. CASE turns' = 0 /\ share' = [b \in Backends |-> 0]
    BY <1>1
<1>2. CASE turns' = turns /\ share' = share
    BY <1>2 DEF BalancerTypes
<1>3. QED  BY <1>1, <1>2, BalancerConstant DEF Restart

LEMMA BalancerTypesStep ==
    ASSUME BalancerTypes, [BalancerNext]_balancerVars
    PROVE  BalancerTypes'
<1>1. CASE LbInit
  <2>1. PICK S \in SUBSET Backends : /\ S # {}
                                     /\ servers' = Prepended(S)
                                     /\ healthy' = [b \in Backends |-> b \in S]
      BY <1>1, BalancerConstant DEF LbInit
  <2>2. /\ servers' \in Seq(Backends) /\ servers' # <<>> /\ Len(servers') <= NumBackends
        /\ \A i, j \in 1..Len(servers') : (servers'[i] = servers'[j]) => (i = j)
      BY <2>1, PrependedIs
  <2>3. healthy' \in [Backends -> BOOLEAN]
      BY <2>1
  <2>4. QED  BY <1>1, <2>2, <2>3 DEF LbInit, BalancerTypes
<1>2. CASE LbCleanup
  <2>1. <<>> \in Seq(Backends) /\ Len(<<>>) = 0 /\ 0 <= NumBackends
      BY BalancerConstant
  <2>2. QED  BY <1>2, <2>1 DEF LbCleanup, BalancerTypes
<1>3. CASE RunHealthChecks
  <2>1. turns' \in Nat /\ share' \in [Backends -> Nat]
      BY <1>3, RestartTypes DEF RunHealthChecks
  <2>2. healthy' \in [Backends -> BOOLEAN]
      BY <1>3, BalancerConstant DEF RunHealthChecks, BalancerTypes
  <2>3. QED  BY <1>3, <2>1, <2>2 DEF RunHealthChecks, BalancerTypes
<1>4. CASE Tick
    BY <1>4 DEF Tick, BalancerTypes
<1>5. ASSUME NEW p \in Callers, ReleaseBackend(p)
      PROVE  BalancerTypes'
  <2>1. holding[p] \in Backends
      BY <1>5 DEF ReleaseBackend, BalancerTypes
  <2>2. active' \in [Backends -> Nat]
      BY <1>5, <2>1 DEF ReleaseBackend, BalancerTypes
  <2>3. QED  BY <1>5, <2>2 DEF ReleaseBackend, BalancerTypes
<1>6. ASSUME NEW p \in Callers, MarkFailed(p)
      PROVE  BalancerTypes'
  <2>1. turns' \in Nat /\ share' \in [Backends -> Nat]
      BY <1>6, RestartTypes DEF MarkFailed
  <2>2. healthy' \in [Backends -> BOOLEAN]
      BY <1>6 DEF MarkFailed, BalancerTypes
  <2>3. QED  BY <1>6, <2>1, <2>2 DEF MarkFailed, BalancerTypes
<1>7. ASSUME NEW p \in Callers, NEW c \in Clients, SelectBackend(p, c)
      PROVE  BalancerTypes'
    BY <1>7, SelectTypes
<1>8. ASSUME NEW b \in Fickle, GoesUpOrDown(b)
      PROVE  BalancerTypes'
    BY <1>8 DEF GoesUpOrDown, BalancerTypes
<1>9. CASE UNCHANGED balancerVars
    BY <1>9 DEF balancerVars, BalancerTypes
<1>10. QED
    BY <1>1, <1>2, <1>3, <1>4, <1>5, <1>6, <1>7, <1>8, <1>9 DEF BalancerNext, SelectNothing

\* Holders come and go one at a time.
LEMMA HoldersStep ==
    ASSUME NEW b, NEW p \in Callers
    PROVE  LET H == {q \in Callers : holding[q] = b}
               K == {q \in Callers : holding'[q] = b}
           IN  /\ Cardinality(H) \in Nat
               /\ (K = H \cup {p} /\ p \notin H) => (Cardinality(K) = Cardinality(H) + 1)
               /\ (K = H \ {p} /\ p \in H) =>
                    (Cardinality(H) > 0 /\ Cardinality(K) = Cardinality(H) - 1)
<1> DEFINE H == {q \in Callers : holding[q] = b}
           K == {q \in Callers : holding'[q] = b}
<1>1. IsFiniteSet(H)
    BY BalancerConstant, FS_Subset
<1> HIDE DEF H, K
<1>2. Cardinality(H) \in Nat
    BY <1>1, FS_CardinalityType
<1>3. ASSUME K = H \cup {p}, p \notin H
      PROVE  Cardinality(K) = Cardinality(H) + 1
    BY <1>1, <1>3, FS_AddElement
<1>4. ASSUME K = H \ {p}, p \in H
      PROVE  Cardinality(H) > 0 /\ Cardinality(K) = Cardinality(H) - 1
  <2>1. Cardinality(H \ {p}) = Cardinality(H) - 1
      BY <1>1, <1>4, FS_RemoveElement
  <2>2. Cardinality(H) # 0
      BY <1>1, <1>4, FS_EmptySet
  <2>3. QED  BY <1>2, <1>4, <2>1, <2>2
<1>5. QED  BY <1>2, <1>3, <1>4 DEF H, K

LEMMA CountedStep ==
    ASSUME BalancerTypes, Counted, [BalancerNext]_balancerVars
    PROVE  Counted'
<1>1. ASSUME UNCHANGED <<active, holding>>
      PROVE  Counted'
    BY <1>1 DEF Counted
<1>2. ASSUME NEW p \in Callers, ReleaseBackend(p)
      PROVE  Counted'
  <2>1. holding[p] \in Backends
      BY <1>2 DEF ReleaseBackend, BalancerTypes
  <2>2. /\ active' = [active EXCEPT ![holding[p]] = IF @ > 0 THEN @ - 1 ELSE @]
        /\ holding' = [holding EXCEPT ![p] = NoBackend]
      BY <1>2 DEF ReleaseBackend
  <2>3. ASSUME NEW b \in Backends
        PROVE  active'[b] = Cardinality({q \in Callers : holding'[q] = b})
    <3> DEFINE H == {q \in Callers : holding[q] = b}
               K == {q \in Callers : holding'[q] = b}
    <3>1. /\ Cardinality(H) \in Nat
          /\ (K = H \ {p} /\ p \in H) =>
                    (Cardinality(H) > 0 /\ Cardinality(K) = Cardinality(H) - 1)
        BY HoldersStep
    <3>2. active[b] = Cardinality(H)
        BY DEF Counted
    <3>3. CASE holding[p] = b
      <4>1. K = H \ {p} /\ p \in H
          BY <2>2, <3>3, BalancerConstant DEF BalancerTypes
      <4>2. active'[b] = IF active[b] > 0 THEN active[b] - 1 ELSE active[b]
          BY <2>2, <3>3 DEF BalancerTypes
      <4> HIDE DEF H, K
      <4>3. active'[b] = Cardinality(K)
          BY <3>1, <3>2, <4>1, <4>2
      <4>4. QED  BY <4>3 DEF K
    <3>4. CASE holding[p] # b
      <4>1. K = H
          BY <2>2, <3>4, BalancerConstant DEF BalancerTypes
      <4>2. active'[b] = active[b]
          BY <2>1, <2>2, <3>4 DEF BalancerTypes
      <4>3. QED  BY <3>2, <4>1, <4>2
    <3>5. QED  BY <3>3, <3>4
  <2>4. QED  BY <2>3 DEF Counted
<1>3. ASSUME NEW p \in Callers, NEW c \in Clients, SelectBackend(p, c)
      PROVE  Counted'
  <2> DEFINE x == Select(c).backend
  <2>1. x \in Backends
    <3>1. servers # <<>>
        BY <1>3 DEF SelectBackend, BalancerTypes
    <3>2. QED  BY <1>3, <3>1, SelectIs DEF SelectBackend
  <2>2. /\ active' = [active EXCEPT ![x] = @ + 1]
        /\ holding' = [holding EXCEPT ![p] = x]
        /\ holding[p] = NoBackend
      BY <1>3 DEF SelectBackend
  <2> HIDE DEF x
  <2>3. ASSUME NEW b \in Backends
        PROVE  active'[b] = Cardinality({q \in Callers : holding'[q] = b})
    <3> DEFINE H == {q \in Callers : holding[q] = b}
               K == {q \in Callers : holding'[q] = b}
    <3>1. /\ Cardinality(H) \in Nat
          /\ (K = H \cup {p} /\ p \notin H) => (Cardinality(K) = Cardinality(H) + 1)
        BY HoldersStep
    <3>2. active[b] = Cardinality(H)
        BY DEF Counted
    <3>3. CASE x = b
      <4>1. K = H \cup {p} /\ p \notin H
          BY <2>2, <3>3, BalancerConstant DEF BalancerTypes
      <4>2. active'[b] = active[b] + 1
          BY <2>2, <3>3 DEF BalancerTypes
      <4> HIDE DEF H, K
      <4>3. active'[b] = Cardinality(K)
          BY <3>1, <3>2, <4>1, <4>2
      <4>4. QED  BY <4>3 DEF K
    <3>4. CASE x # b
      <4>1. K = H
          BY <2>2, <3>4, BalancerConstant DEF BalancerTypes
      <4>2. active'[b] = active[b]
          BY <2>1, <2>2, <3>4 DEF BalancerTypes
      <4>3. QED  BY <3>2, <4>1, <4>2
    <3>5. QED  BY <3>3, <3>4
  <2>4. QED  BY <2>3 DEF Counted
<1>4. QED
  <2>1. ASSUME NEW p \in Callers, MarkFailed(p)
        PROVE  UNCHANGED <<active, holding>>
      BY <2>1 DEF MarkFailed
  <2>2. QED
      BY <1>1, <1>2, <1>3, <2>1 DEF BalancerNext, LbInit, LbCleanup, RunHealthChecks, Tick,
           SelectNothing, GoesUpOrDown, balancerVars

\* active_connections counts the callers that hold each backend
\* (ActiveMatchesHolders), for every number of backends and callers.
THEOREM HoldersTheorem ==
    BalancerSpec => []ActiveMatchesHolders
<1>1. BalancerInit => BalancerTypes /\ Counted
    BY BalancerStarts
<1>2. BalancerTypes /\ Counted /\ [BalancerNext]_balancerVars => BalancerTypes' /\ Counted'
    BY BalancerTypesStep, CountedStep
<1>3. Counted => ActiveMatchesHolders
    BY DEF Counted, ActiveMatchesHolders
<1>4. QED  BY <1>1, <1>2, <1>3, PTL DEF BalancerSpec

\* loadbalancer_select_backend hands out an unhealthy backend only when there
\* is no healthy one (HealthyPreferred), whatever the algorithm and the index.
THEOREM HealthyTheorem ==
    BalancerSpec => HealthyPreferred
<1> DEFINE Preferred ==
             \A p \in Callers, c \in Clients :
                SelectBackend(p, c) => (healthy[holding'[p]] \/ Healthy = {})
<1>1. BalancerInit => BalancerTypes
    BY BalancerStarts
<1>2. BalancerTypes /\ [BalancerNext]_balancerVars => BalancerTypes'
    BY BalancerTypesStep
<1>3. BalancerTypes => [Preferred]_balancerVars
  <2>1. ASSUME BalancerTypes, NEW p \in Callers, NEW c \in Clients, SelectBackend(p, c)
        PROVE  healthy[holding'[p]] \/ Healthy = {}
    <3>1. servers # <<>> /\ Select(c).backend # NoBackend
        BY <2>1 DEF SelectBackend, BalancerTypes
    <3>2. holding'[p] = Select(c).backend
        BY <2>1 DEF SelectBackend, BalancerTypes
    <3>3. QED  BY <2>1, <3>1, <3>2, SelectIs
  <2>2. QED  BY <2>1
<1>4. QED  BY <1>1, <1>2, <1>3, PTL DEF BalancerSpec, HealthyPreferred

-----------------------------------------------------------------------------
(* The rotation is fair.                                                    *)

\* After t turns of the round that stand at v, with s the sums of the turns,
\* f holds how many of the last t turns fell to each backend.
Account(s, v, t, f) ==
    /\ v \in Nat /\ t \in Nat /\ t <= v /\ t <= s[Len(servers)]
    /\ (s[Len(servers)] # 0) =>
         \A i \in 1..Len(servers) :
            f[servers[i]] = Passed(v, s[Len(servers)], s[i - 1], s[i])
                              - Passed(v - t, s[Len(servers)], s[i - 1], s[i])

\* The turns given so far.  Plain round-robin gives none to unhealthy backends.
Given ==
    IF algorithm = "wrr" THEN current_index ELSE TurnsAt(UpTo(Turns), current_index)

RotationInv ==
    /\ current_index \in Nat
    /\ (algorithm \notin {"rr", "wrr"} \/ lb = "none" \/ turns = 0) => (turns = 0 /\ share = Zeros)
    /\ (lb = "on" /\ Healthy # {} /\ algorithm \in {"rr", "wrr"}) =>
         Account(UpTo(Turns), Given, turns, share)

LEMMA TurnsIs ==
    ASSUME BalancerTypes
    PROVE  /\ Turns = IF algorithm = "wrr" THEN Weight ELSE Ones
           /\ Turns \in [Backends -> Nat]
           /\ Sums(UpTo(Turns), Turns)
           /\ Round = UpTo(Turns)[Len(servers)]
<1>1. Turns = IF algorithm = "wrr" THEN Weight ELSE Ones
    BY BalancerConstant DEF Turns, Ones
<1>2. Turns \in [Backends -> Nat]
    BY <1>1, BalancerConstant DEF Ones
<1>3. Sums(UpTo(Turns), Turns)
    BY <1>2, SumsAre
<1>4. Round = UpTo(Turns)[Len(servers)]
    BY DEF Round, num_servers
<1>5. QED  BY <1>1, <1>2, <1>3, <1>4

\* What sums of turns look like.
LEMMA SumsNat ==
    ASSUME BalancerTypes, NEW w \in [Backends -> Nat], NEW s, Sums(s, w)
    PROVE  /\ Len(servers) \in Nat
           /\ \A i \in 0..Len(servers) : s[i] \in Nat
           /\ s[Len(servers)] \in Nat
           /\ \A i \in 1..Len(servers) :
                 /\ s[i - 1] \in Nat /\ s[i] \in Nat
                 /\ s[i - 1] <= s[i] /\ s[i] <= s[Len(servers)]
<1> DEFINE N == Len(servers)
<1>1. N \in Nat /\ \A i \in 0..N : s[i] \in Nat
  <2>1. N \in Nat
      BY DEF BalancerTypes
  <2>2. QED  BY <2>1 DEF Sums
<1>2. N \in 0..N
    BY <1>1
<1>3. ASSUME NEW i \in 1..N
      PROVE  s[i - 1] \in Nat /\ s[i] \in Nat /\ s[i - 1] <= s[i] /\ s[i] <= s[N]
  <2>1. i \in 0..N /\ i - 1 \in 0..N /\ i <= N /\ i - 1 <= i
      BY <1>1
  <2>2. s[i - 1] <= s[i]
      BY <2>1, SumsGrow
  <2>3. s[i] <= s[N]
      BY <1>2, <2>1, SumsGrow
  <2>4. QED  BY <1>1, <2>1, <2>2, <2>3
<1>4. QED  BY <1>1, <1>2, <1>3

LEMMA AccountEmpty ==
    ASSUME BalancerTypes, NEW w \in [Backends -> Nat], NEW s, Sums(s, w), NEW v \in Nat
    PROVE  Account(s, v, 0, Zeros)
<1> DEFINE N == Len(servers)
           T == s[N]
<1>1. /\ T \in Nat
      /\ \A i \in 1..N : s[i - 1] \in Nat /\ s[i] \in Nat /\ s[i - 1] <= s[i] /\ s[i] <= T
    BY SumsNat
<1>2. ASSUME T # 0, NEW i \in 1..N
      PROVE  Zeros[servers[i]] = Passed(v, T, s[i - 1], s[i]) - Passed(v - 0, T, s[i - 1], s[i])
  <2>1. v - 0 = v
      OBVIOUS
  <2>2. Passed(v, T, s[i - 1], s[i]) \in Nat
    <3> HIDE DEF T
    <3>1. T \in Nat \ {0}
        BY <1>1, <1>2
    <3>2. QED  BY <1>1, <3>1, PassedIsNat
  <2>3. servers[i] \in Backends
      BY DEF BalancerTypes
  <2>4. QED  BY <2>1, <2>2, <2>3 DEF Zeros
<1>3. QED  BY <1>1, <1>2 DEF Account

\* A turn is given: the round goes on, or the next one begins.
LEMMA AccountStep ==
    ASSUME BalancerTypes, NEW w \in [Backends -> Nat], NEW s, Sums(s, w),
           NEW v, NEW t, NEW f \in [Backends -> Nat], Account(s, v, t, f),
           NEW T, T = s[Len(servers)], T # 0,
           NEW p \in 1..Len(servers), s[p - 1] <= v % T, v % T < s[p]
    PROVE  /\ (t < T) => Account(s, v + 1, t + 1, [f EXCEPT ![servers[p]] = @ + 1])
           /\ ~(t < T) =>
                Account(s, v + 1, 1, [x \in Backends |-> IF x = servers[p] THEN 1 ELSE 0])
<1> DEFINE N == Len(servers)
           P(x, i) == Passed(x, T, s[i - 1], s[i])
<1>1. /\ N \in Nat /\ T \in Nat \ {0}
      /\ \A i \in 1..N : s[i - 1] \in Nat /\ s[i] \in Nat /\ s[i - 1] <= s[i] /\ s[i] <= T
    BY SumsNat
<1>2. v \in Nat /\ t \in Nat /\ t <= v /\ t <= T /\ v - t \in Nat
    BY DEF Account
<1>3. \A i \in 1..N : f[servers[i]] = P(v, i) - P(v - t, i)
    BY DEF Account
<1>4. \A x \in Nat, i \in 1..N : P(x, i) \in Nat
    BY <1>1, PassedIsNat
<1>5. \A i \in 1..N : P(v + 1, i) = P(v, i) + (IF i = p THEN 1 ELSE 0)
    BY <1>2, TurnTaken
<1>6. \A i \in 1..N : servers[i] \in Backends /\ (servers[i] = servers[p] <=> i = p)
    BY SMTT(40) DEF BalancerTypes
<1> HIDE DEF P
<1>7. ASSUME t < T
      PROVE  Account(s, v + 1, t + 1, [f EXCEPT ![servers[p]] = @ + 1])
  <2> DEFINE g == [f EXCEPT ![servers[p]] = @ + 1]
  <2>1. ASSUME NEW i \in 1..N
        PROVE  g[servers[i]] = P(v + 1, i) - P((v + 1) - (t + 1), i)
    <3>1. g[servers[i]] = f[servers[i]] + (IF i = p THEN 1 ELSE 0)
        BY <1>6
    <3>2. (v + 1) - (t + 1) = v - t
        BY <1>2
    <3>3. P(v, i) \in Nat /\ P(v - t, i) \in Nat
        BY <1>2, <1>4
    <3>4. f[servers[i]] = P(v, i) - P(v - t, i) /\ P(v + 1, i) = P(v, i) + (IF i = p THEN 1 ELSE 0)
        BY <1>3, <1>5
    <3> HIDE DEF g
    <3>5. QED  BY <3>1, <3>2, <3>3, <3>4
  <2> HIDE DEF g
  <2>2. t + 1 <= T /\ t + 1 <= v + 1 /\ t + 1 \in Nat /\ v + 1 \in Nat
      BY <1>1, <1>2, <1>7
  <2>3. QED  BY <2>1, <2>2 DEF Account, P, g
<1>8. ASSUME ~(t < T)
      PROVE  Account(s, v + 1, 1, [x \in Backends |-> IF x = servers[p] THEN 1 ELSE 0])
  <2> DEFINE g == [x \in Backends |-> IF x = servers[p] THEN 1 ELSE 0]
  <2>1. ASSUME NEW i \in 1..N
        PROVE  g[servers[i]] = P(v + 1, i) - P((v + 1) - 1, i)
    <3>1. g[servers[i]] = IF i = p THEN 1 ELSE 0
        BY <1>6
    <3>2. (v + 1) - 1 = v
        BY <1>2
    <3>3. P(v, i) \in Nat
        BY <1>2, <1>4
    <3>4. P(v + 1, i) = P(v, i) + (IF i = p THEN 1 ELSE 0)
        BY <1>5
    <3> HIDE DEF g
    <3>5. QED  BY <3>1, <3>2, <3>3, <3>4
  <2> HIDE DEF g
  <2>2. 1 <= T /\ 1 <= v + 1 /\ v + 1 \in Nat
      BY <1>1, <1>2
  <2>3. QED  BY <2>1, <2>2 DEF Account, P, g
<1>9. QED  BY <1>7, <1>8

\* In a round no backend has more turns than its weight.
LEMMA AccountFair ==
    ASSUME BalancerTypes, NEW w \in [Backends -> Nat], NEW s, Sums(s, w),
           NEW v, NEW t, NEW f, Account(s, v, t, f), s[Len(servers)] # 0,
           NEW i \in 1..Len(servers)
    PROVE  f[servers[i]] <= IF healthy[servers[i]] THEN w[servers[i]] ELSE 0
<1> DEFINE N == Len(servers)
           T == s[N]
           lo == s[i - 1]
           hi == s[i]
<1>1. N \in Nat /\ T \in Nat \ {0} /\ lo \in Nat /\ hi \in Nat /\ lo <= hi /\ hi <= T
    BY SumsNat
<1>2. v \in Nat /\ t \in Nat /\ t <= T /\ v - t \in Nat /\ (v - t) + T \in Nat /\ v <= (v - t) + T
    BY <1>1 DEF Account
<1>3. f[servers[i]] = Passed(v, T, lo, hi) - Passed(v - t, T, lo, hi)
    BY DEF Account
<1>4. hi = lo + (IF healthy[servers[i]] THEN w[servers[i]] ELSE 0)
    BY DEF Sums
<1> HIDE DEF T, lo, hi
<1>5. Passed(v, T, lo, hi) <= Passed((v - t) + T, T, lo, hi)
    BY <1>1, <1>2, PassedMonotone
<1>6. Passed((v - t) + T, T, lo, hi) = Passed(v - t, T, lo, hi) + (hi - lo)
    BY <1>1, <1>2, PassedRound
<1>7. Passed(v, T, lo, hi) \in Nat /\ Passed(v - t, T, lo, hi) \in Nat
    BY <1>1, <1>2, PassedIsNat
<1>8. f[servers[i]] <= hi - lo
    BY <1>1, <1>3, <1>5, <1>6, <1>7
<1>9. (IF healthy[servers[i]] THEN w[servers[i]] ELSE 0) \in Nat
    BY DEF BalancerTypes
<1>10. QED  BY <1>1, <1>4, <1>8, <1>9

\* current_index stays below INT_MAX as long as no selection is made beyond
\* MaxIndex.
NoOverflow == MaxIndex + NumBackends < IntMax

LEMMA GivenIsNat ==
    ASSUME BalancerTypes, servers # <<>>, current_index \in Nat
    PROVE  Given \in Nat
<1> DEFINE s == UpTo(Turns)
           N == Len(servers)
<1>1. (\A i \in 0..N : s[i] \in Nat) /\ s[N] \in Nat
    BY TurnsIs, SumsNat
<1>2. N \in Nat \ {0}
    BY StartIs
<1>3. current_index \div N \in Nat /\ current_index % N \in 0..(N - 1)
    BY <1>2, Division
<1>4. s[current_index % N] \in Nat
    BY <1>1, <1>2, <1>3
<1> HIDE DEF s
<1>5. (current_index \div N) * s[N] \in Nat
    BY <1>1, <1>3, TimesNext
<1>6. TurnsAt(s, current_index) \in Nat
    BY <1>4, <1>5 DEF TurnsAt
<1>7. QED  BY <1>6 DEF Given, s

LEMMA FreshAccount ==
    (BalancerTypes /\ lb = "on" /\ current_index \in Nat)
             => Account(UpTo(Turns), Given, 0, Zeros)
<1> SUFFICES ASSUME BalancerTypes, lb = "on", current_index \in Nat
             PROVE  Account(UpTo(Turns), Given, 0, Zeros)
    OBVIOUS
<1>1. servers # <<>>
    BY DEF BalancerTypes
<1>2. Given \in Nat
    BY <1>1, GivenIsNat
<1>3. Turns \in [Backends -> Nat] /\ Sums(UpTo(Turns), Turns)
    BY TurnsIs
<1>4. QED  BY <1>2, <1>3, AccountEmpty

\* A new rotation starts with nothing counted.
LEMMA RotationStarts ==
    (BalancerTypes /\ current_index \in Nat /\ turns = 0 /\ share = Zeros) => RotationInv
<1> SUFFICES ASSUME BalancerTypes, current_index \in Nat, turns = 0, share = Zeros
             PROVE  RotationInv
    OBVIOUS
<1>1. ASSUME lb = "on"
      PROVE  Account(UpTo(Turns), Given, turns, share)
    BY <1>1, FreshAccount
<1>2. QED  BY <1>1 DEF RotationInv

LEMMA RotationStays ==
    ASSUME RotationInv, UNCHANGED <<algorithm, servers, current_index, healthy, turns, share>>,
           lb' = lb \/ lb' = "off"
    PROVE  RotationInv'
<1>1. UpTo(Turns)' = UpTo(Turns)
    BY DEF UpTo, Turns, num_servers
<1>2. Given' = Given
    BY <1>1 DEF Given, TurnsAt
<1>3. Healthy' = Healthy
    BY DEF Healthy, Listed
<1>4. Account(UpTo(Turns), Given, turns, share)
        => Account(UpTo(Turns), Given, turns, share)'
    BY <1>1, <1>2 DEF Account
<1>5. QED  BY <1>2, <1>3, <1>4 DEF RotationInv, Zeros

\* The backend whose turn it is, and the index when its turn is given.
LEMMA SelectTurn ==
    ASSUME BalancerTypes, NoOverflow, RotationInv,
           algorithm \in {"rr", "wrr"}, Healthy # {},
           NEW p \in Callers, NEW c \in Clients, SelectBackend(p, c),
           NEW s, s = UpTo(Turns), NEW T, T = s[Len(servers)]
    PROVE  /\ T # 0
           /\ Given' = Given + 1
           /\ \E i \in 1..Len(servers) :
                 /\ s[i - 1] <= Given % T /\ Given % T < s[i]
                 /\ Select(c).backend = servers[i]
<1> DEFINE N == Len(servers)
<1>1. servers # <<>> /\ current_index <= MaxIndex /\ Select(c).backend # NoBackend
      /\ current_index' = Plus(current_index, Select(c).advance)
      /\ UNCHANGED <<algorithm, servers, healthy>>
    BY DEF SelectBackend, BalancerTypes
<1>2. N \in Nat \ {0} /\ N <= NumBackends /\ current_index \in Nat
    BY <1>1, StartIs DEF BalancerTypes, RotationInv
<1>3. current_index' = current_index + Select(c).advance
  <2> DEFINE a == Select(c).advance
  <2>1. a \in Nat /\ a <= N + 1
      BY <1>1, SelectIs
  <2> HIDE DEF a
  <2>2. ~(current_index + a > IntMax)
      BY <1>1, <1>2, <2>1, BalancerConstant DEF NoOverflow
  <2>3. QED  BY <1>1, <2>2 DEF Plus, a
<1>4. UpTo(Turns)' = s
    BY <1>1 DEF UpTo, Turns, num_servers
<1>5. CASE algorithm = "wrr"
  <2>1. Turns = Weight /\ s = UpTo(Weight)
      BY <1>5, TurnsIs
  <2>2. Select(c) = WeightedRoundRobin
      BY <1>5 DEF Select
  <2>3. T # 0
      BY <1>1, <2>1, <2>2, WeightedIs
  <2>4. PICK i \in 1..N :
           /\ WeightedRoundRobin = [backend |-> servers[i], advance |-> 1]
           /\ s[i - 1] <= current_index % T /\ current_index % T < s[i]
      BY <1>2, <2>1, <2>3, WeightedIs
  <2>5. Given = current_index /\ Given' = current_index'
      BY <1>1, <1>5 DEF Given
  <2>6. Given' = Given + 1
      BY <1>3, <2>2, <2>4, <2>5
  <2>7. QED  BY <2>2, <2>3, <2>4, <2>5, <2>6
<1>6. CASE algorithm = "rr"
  <2>1. Turns = Ones /\ Sums(s, Ones)
      BY <1>6, TurnsIs
  <2>2. Select(c) = RoundRobin
      BY <1>6 DEF Select
  <2>3. PICK k : /\ Skips(k)
                 /\ RoundRobin = [backend |-> Around(k), advance |-> 1 + k]
                 /\ k < N /\ healthy[Around(k)]
      BY <1>1, RoundRobinIs
  <2> DEFINE i == ((Start + k) % N) + 1
             v == TurnsAt(s, current_index)
  <2>4. /\ i \in 1..N /\ T \in Nat \ {0} /\ v \in Nat
        /\ s[i - 1] <= v % T /\ v % T < s[i]
        /\ TurnsAt(s, current_index + (1 + k)) = v + 1
      BY <1>1, <1>2, <2>1, <2>3, RoundRobinTurn
  <2>5. Given = v
      BY <1>6 DEF Given
  <2>6. Given' = TurnsAt(s, current_index')
      BY <1>1, <1>4, <1>6 DEF Given, TurnsAt
  <2>7. current_index' = current_index + (1 + k)
      BY <1>3, <2>2, <2>3
  <2>8. Select(c).backend = servers[i]
      BY <2>2, <2>3 DEF Around
  <2>9. Given' = Given + 1
      BY <2>4, <2>5, <2>6, <2>7
  <2> HIDE DEF i, v
  <2>10. QED  BY <2>4, <2>5, <2>8, <2>9
<1>7. QED  BY <1>5, <1>6

LEMMA RotationSelect ==
    ASSUME BalancerTypes, NoOverflow, RotationInv,
           NEW p \in Callers, NEW c \in Clients, SelectBackend(p, c)
    PROVE  RotationInv'
<1> DEFINE b == Select(c).backend
           s == UpTo(Turns)
           T == s[Len(servers)]
<1>1. servers # <<>> /\ lb = "on" /\ current_index <= MaxIndex
      /\ current_index' = Plus(current_index, Select(c).advance)
      /\ UNCHANGED <<lb, algorithm, servers, healthy>>
      /\ CountTurn(b)
    BY DEF SelectBackend, BalancerTypes
<1>2. current_index' \in Nat
  <2> DEFINE a == Select(c).advance
  <2>1. a \in Nat /\ a <= Len(servers) + 1
      BY <1>1, SelectIs
  <2>2. Len(servers) \in Nat /\ Len(servers) <= NumBackends /\ current_index \in Nat
      BY DEF BalancerTypes, RotationInv
  <2> HIDE DEF a
  <2>3. ~(current_index + a > IntMax) /\ current_index + a \in Nat
      BY <1>1, <2>1, <2>2, BalancerConstant DEF NoOverflow
  <2>4. QED  BY <1>1, <2>3 DEF Plus, a
<1>3. Healthy' = Healthy /\ s' = s
    BY <1>1 DEF Healthy, Listed, UpTo, Turns, num_servers
<1>4. CASE algorithm \notin {"rr", "wrr"}
  <2>1. UNCHANGED <<turns, share>>
      BY <1>1, <1>4 DEF CountTurn
  <2>2. QED  BY <1>1, <1>2, <1>4, <2>1 DEF RotationInv, Zeros
<1>5. CASE algorithm \in {"rr", "wrr"}
  <2>1. turns \in Nat /\ share \in [Backends -> Nat]
      BY DEF BalancerTypes
  <2>2. Round = T
      BY TurnsIs
  <2>3. \/ turns < T /\ turns' = turns + 1 /\ share' = [share EXCEPT ![b] = @ + 1]
        \/ ~(turns < T) /\ turns' = 1
           /\ share' = [x \in Backends |-> IF x = b THEN 1 ELSE 0]
      BY <1>1, <1>5, <2>2, BalancerConstant DEF CountTurn
  <2>4. turns' # 0
      BY <2>1, <2>3
  <2>5. ASSUME Healthy # {}
        PROVE  Account(s, Given', turns', share')
    <3>1. Account(s, Given, turns, share)
        BY <1>1, <1>5, <2>5 DEF RotationInv
    <3> HIDE DEF s, T, b
    <3>2. s = UpTo(Turns) /\ T = s[Len(servers)] /\ b = Select(c).backend
        BY DEF s, T, b
    <3>3. /\ T # 0
          /\ Given' = Given + 1
          /\ \E i \in 1..Len(servers) :
                 /\ s[i - 1] <= Given % T /\ Given % T < s[i]
                 /\ b = servers[i]
        BY <1>5, <2>5, <3>2, SelectTurn
    <3>4. PICK i \in 1..Len(servers) :
             s[i - 1] <= Given % T /\ Given % T < s[i] /\ b = servers[i]
        BY <3>3
    <3>5. Turns \in [Backends -> Nat] /\ Sums(s, Turns)
        BY <3>2, TurnsIs
    <3>6. /\ (turns < T) => Account(s, Given + 1, turns + 1, [share EXCEPT ![b] = @ + 1])
          /\ ~(turns < T) =>
               Account(s, Given + 1, 1, [x \in Backends |-> IF x = b THEN 1 ELSE 0])
      <4> DEFINE v == Given
                 w == Turns
      <4>1. w \in [Backends -> Nat] /\ Sums(s, w) /\ Account(s, v, turns, share)
            /\ T = s[Len(servers)] /\ T # 0 /\ s[i - 1] <= v % T /\ v % T < s[i]
          BY <3>1, <3>2, <3>3, <3>4, <3>5
      <4> HIDE DEF v, w
      <4>2. /\ (turns < T) => Account(s, v + 1, turns + 1, [share EXCEPT ![servers[i]] = @ + 1])
            /\ ~(turns < T) =>
                 Account(s, v + 1, 1, [x \in Backends |-> IF x = servers[i] THEN 1 ELSE 0])
          BY <2>1, <4>1, AccountStep, ZenonT(120)
      <4>3. QED  BY <3>4, <4>2 DEF v
    <3>7. QED  BY <2>3, <3>3, <3>6
  <2> HIDE DEF s, T, b
  <2>6. ASSUME Healthy' # {}
        PROVE  Account(s, Given, turns, share)'
    <3>1. Account(s, Given', turns', share')
        BY <1>3, <2>5, <2>6
    <3>2. QED  BY <1>1, <1>3, <3>1 DEF Account
  <2>7. QED  BY <1>1, <1>2, <1>5, <2>4, <2>6 DEF RotationInv, s
<1>6. QED  BY <1>4, <1>5

LEMMA RotationStep ==
    ASSUME NoOverflow
    PROVE  BalancerTypes /\ RotationInv /\ [BalancerNext]_balancerVars => RotationInv'
<1> DEFINE Starts == BalancerTypes /\ current_index \in Nat /\ turns = 0 /\ share = Zeros
<1>1. Starts => RotationInv
    BY RotationStarts
<1>2. Starts' => RotationInv'
    BY <1>1, PTL
<1>3. SUFFICES ASSUME BalancerTypes, RotationInv, [BalancerNext]_balancerVars
               PROVE  RotationInv'
    OBVIOUS
<1>4. BalancerTypes'
    BY <1>3, BalancerTypesStep
<1>5. current_index \in Nat
    BY <1>3 DEF RotationInv
<1>6. ASSUME UNCHANGED <<algorithm, servers, current_index, healthy, turns, share>>,
             lb' = lb \/ lb' = "off"
      PROVE  RotationInv'
    BY <1>3, <1>6, RotationStays
<1>7. ASSUME UNCHANGED <<algorithm, servers, current_index, lb>>, Restart(healthy' # healthy)
      PROVE  RotationInv'
  <2>1. CASE healthy' = healthy
    <3>1. UNCHANGED <<turns, share>>
        BY <1>7, <2>1 DEF Restart
    <3>2. QED  BY <1>6, <1>7, <2>1, <3>1
  <2>2. CASE healthy' # healthy
    <3>1. turns' = 0 /\ share' = Zeros
        BY <1>7, <2>2, BalancerConstant DEF Restart, Zeros
    <3>2. Starts'
        BY <1>4, <1>5, <1>7, <3>1 DEF Zeros
    <3>3. QED  BY <1>2, <3>2
  <2>3. QED  BY <2>1, <2>2
<1>8. CASE LbInit
  <2>1. turns' = 0 /\ share' = Zeros /\ current_index' \in Nat
      BY <1>3, <1>5, <1>8 DEF LbInit, RotationInv
  <2>2. Starts'
      BY <1>4, <2>1 DEF Zeros
  <2>3. QED  BY <1>2, <2>2
<1>9. CASE LbCleanup
  <2>1. turns' = turns /\ share' = share /\ lb' = "off" /\ algorithm' = algorithm
        /\ current_index' = current_index /\ lb = "on"
      BY <1>9 DEF LbCleanup
  <2>2. QED  BY <1>3, <2>1 DEF RotationInv, Zeros
<1>10. CASE RunHealthChecks
    BY <1>7, <1>10 DEF RunHealthChecks
<1>11. CASE Tick
    BY <1>6, <1>11 DEF Tick
<1>12. ASSUME NEW p \in Callers, ReleaseBackend(p)
       PROVE  RotationInv'
    BY <1>6, <1>12 DEF ReleaseBackend
<1>13. ASSUME NEW p \in Callers, MarkFailed(p)
       PROVE  RotationInv'
    BY <1>7, <1>13 DEF MarkFailed
<1>14. ASSUME NEW p \in Callers, NEW c \in Clients, SelectBackend(p, c)
       PROVE  RotationInv'
    BY <1>3, <1>14, RotationSelect
<1>15. ASSUME NEW b \in Fickle, GoesUpOrDown(b)
       PROVE  RotationInv'
    BY <1>6, <1>15 DEF GoesUpOrDown
<1>16. CASE UNCHANGED balancerVars
    BY <1>6, <1>16 DEF balancerVars
<1>17. QED
    BY <1>3, <1>8, <1>9, <1>10, <1>11, <1>12, <1>13, <1>14, <1>15, <1>16
       DEF BalancerNext, SelectNothing

\* Round-robin and weighted selection are fair (FairShare) until current_index
\* overflows: in every round without a change of health each healthy backend
\* is selected at most as often as its weight says, wherever the round began,
\* and no unhealthy one is.
THEOREM FairShareTheorem ==
    ASSUME NoOverflow
    PROVE  BalancerSpec => []FairShare
<1>1. BalancerInit => BalancerTypes /\ RotationInv
  <2>1. BalancerInit => (current_index \in Nat /\ turns = 0 /\ share = Zeros)
      BY BalancerConstant DEF BalancerInit, Zeros
  <2>2. QED  BY <2>1, BalancerStarts, RotationStarts
<1>2. BalancerTypes /\ RotationInv /\ [BalancerNext]_balancerVars => BalancerTypes' /\ RotationInv'
    BY BalancerTypesStep, RotationStep
<1>3. BalancerTypes /\ RotationInv => FairShare
  <2>1. SUFFICES ASSUME BalancerTypes, RotationInv, lb = "on", Healthy # {},
                        NEW b \in Listed
                 PROVE  share[b] <= IF healthy[b] THEN Turns[b] ELSE 0
      BY DEF FairShare
  <2>2. PICK i \in 1..Len(servers) : b = servers[i]
      BY <2>1, HealthyIs
  <2>3. b \in Backends /\ Turns[b] \in Nat
      BY <2>1, <2>2, TurnsIs DEF BalancerTypes
  <2> DEFINE s == UpTo(Turns)
  <2>4. Sums(s, Turns) /\ Turns \in [Backends -> Nat]
      BY <2>1, TurnsIs
  <2>5. CASE share = Zeros
      BY <2>3, <2>5 DEF Zeros
  <2>6. CASE algorithm \in {"rr", "wrr"} /\ turns # 0
    <3>1. Account(s, Given, turns, share)
        BY <2>1, <2>6 DEF RotationInv
    <3> HIDE DEF s
    <3>2. s[Len(servers)] \in Nat
        BY <2>1, <2>4, SumsNat
    <3>3. s[Len(servers)] # 0
        BY <2>6, <3>1, <3>2 DEF Account
    <3>4. QED  BY <2>1, <2>2, <2>4, <3>1, <3>3, AccountFair
  <2>7. QED  BY <2>1, <2>5, <2>6 DEF RotationInv
<1>4. QED  BY <1>1, <1>2, <1>3, PTL DEF BalancerSpec
=============================================================================
