------------------------------ MODULE AccessProofs ------------------------------
(***************************************************************************)
(* For every pattern, string, pair of lists, users file and credentials:   *)
(* the matching loop of the filter decides as the wildcards are defined,   *)
(* base64_decode gives back what was encoded, and the checks together      *)
(* admit exactly the right requests.                                       *)
(***************************************************************************)
EXTENDS Access, Integers, TLAPS, WellFoundedInduction

\* A set of naturals that is not empty has a least element.
LEMMA Least ==
    ASSUME NEW T \in SUBSET Nat, T # {}
    PROVE  \E x \in T : \A y \in T : x <= y
<1> DEFINE Below == {z \in Nat \X Nat : z[1] < z[2]}
<1>1. IsWellFoundedOn(Below, Nat)
    BY NatLessThanWellFounded DEF OpToRel
<1>2. PICK x \in T : \A y \in T : ~(<<y, x>> \in Below)
    BY <1>1, WFMin
<1>3. ASSUME NEW y \in T
      PROVE  x <= y
  <2>1. <<y, x>> \in Nat \X Nat /\ <<y, x>>[1] = y /\ <<y, x>>[2] = x
      OBVIOUS
  <2>2. QED  BY <1>2, <2>1
<1>4. QED  BY <1>3

\* Induction, for a set of naturals.
LEMMA Induct ==
    ASSUME NEW T \in SUBSET Nat, 0 \in T, \A n \in T : n + 1 \in T
    PROVE  T = Nat
<1>1. SUFFICES ASSUME Nat \ T # {}
               PROVE  FALSE
    OBVIOUS
<1>2. PICK m \in Nat \ T : \A y \in Nat \ T : m <= y
    BY <1>1, Least
<1>3. m - 1 \in Nat /\ m - 1 \notin Nat \ T
    BY <1>2
<1>4. QED  BY <1>2, <1>3

-----------------------------------------------------------------------------
(* The table of Matches.                                                   *)

Table(x, y) ==
    LET Positions == 1..(Len(y) + 1)
        starts[i \in 1..(Len(x) + 1)] ==
          IF i > Len(x) THEN {Len(y) + 1}
          ELSE IF x[i] = "*" THEN {j \in Positions : \E n \in starts[i + 1] : j <= n}
          ELSE {j \in Positions : j <= Len(y) /\ x[i] \in {"?", y[j]} /\ j + 1 \in starts[i + 1]}
    IN  starts

\* The entry for i, from the table's other entries.
Row(x, y, t, i) ==
    IF i > Len(x) THEN {Len(y) + 1}
    ELSE IF x[i] = "*" THEN {j \in 1..(Len(y) + 1) : \E n \in t[i + 1] : j <= n}
    ELSE {j \in 1..(Len(y) + 1) : j <= Len(y) /\ x[i] \in {"?", y[j]} /\ j + 1 \in t[i + 1]}

LEMMA MatchesTable ==
    ASSUME NEW x, NEW y
    PROVE  Matches(x, y) <=> 1 \in Table(x, y)[1]
  BY DEF Matches, Table

\* The recursion is well-founded: the entries can be filled in from the last one.
LEMMA TableExists ==
    ASSUME NEW S, NEW x \in Seq(S), NEW y \in Seq(S)
    PROVE  \E t : t = [i \in 1..(Len(x) + 1) |-> Row(x, y, t, i)]
<1> DEFINE D == 1..(Len(x) + 1)
           P == 1..(Len(y) + 1)
           Good(k) == \E t \in [D -> SUBSET P] : \A i \in D : (i + k > Len(x) + 1) => t[i] = Row(x, y, t, i)
           T == {k \in Nat : Good(k)}
<1>1. Len(x) \in Nat /\ Len(y) \in Nat
    OBVIOUS
<1>2. 0 \in T
  <2>1. [i \in D |-> {}] \in [D -> SUBSET P]
      OBVIOUS
  <2>2. \A i \in D : ~(i + 0 > Len(x) + 1)
      BY <1>1
  <2>3. QED  BY <2>1, <2>2
<1>3. ASSUME NEW k \in T
      PROVE  k + 1 \in T
  <2>1. PICK t \in [D -> SUBSET P] : \A i \in D : (i + k > Len(x) + 1) => t[i] = Row(x, y, t, i)
      BY <1>3
  <2> DEFINE m == Len(x) + 1 - k
             r == Row(x, y, t, m)
             u == [t EXCEPT ![m] = r]
  <2>2. r \in SUBSET P
      BY <1>1 DEF Row
  <2> HIDE DEF r
  <2>3. u \in [D -> SUBSET P] /\ \A i \in D : i # m => u[i] = t[i]
      BY <2>2
  <2>4. ASSUME NEW i \in D, i + (k + 1) > Len(x) + 1
        PROVE  u[i] = Row(x, y, u, i)
    <3>1. Row(x, y, u, i) = Row(x, y, t, i)
      <4>1. CASE i > Len(x)
          BY <4>1 DEF Row
      <4>2. CASE i <= Len(x)
        <5>1. i + 1 \in D /\ i + 1 # m
            BY <1>1, <2>4, <4>2
        <5>2. u[i + 1] = t[i + 1]
            BY <2>3, <5>1
        <5>3. QED  BY <5>2 DEF Row
      <4>3. QED  BY <1>1, <4>1, <4>2
    <3>2. CASE i = m
        BY <2>2, <2>3, <3>1, <3>2 DEF r
    <3>3. CASE i # m
      <4>1. i + k > Len(x) + 1
          BY <1>1, <2>4, <3>3
      <4>2. QED  BY <2>1, <2>3, <3>1, <3>3, <4>1
    <3>4. QED  BY <3>2, <3>3
  <2> HIDE DEF u, D, P
  <2>5. Good(k + 1)
      BY <2>3, <2>4
  <2>6. QED  BY <2>5
<1>4. Good(Len(x) + 1)
  <2>1. T \in SUBSET Nat
      OBVIOUS
  <2> HIDE DEF T
  <2>2. T = Nat
      BY <1>2, <1>3, <2>1, Induct
  <2>3. Len(x) + 1 \in T
      BY <1>1, <2>2
  <2> HIDE DEF Good
  <2>4. QED  BY <2>3 DEF T
<1>5. PICK t \in [D -> SUBSET P] : \A i \in D : (i + (Len(x) + 1) > Len(x) + 1) => t[i] = Row(x, y, t, i)
    BY <1>4
<1>6. \A i \in D : t[i] = Row(x, y, t, i)
    BY <1>1, <1>5
<1>7. t = [i \in D |-> Row(x, y, t, i)]
    BY <1>6
<1>8. QED  BY <1>7

LEMMA TableRow ==
    ASSUME NEW S, NEW x \in Seq(S), NEW y \in Seq(S), NEW i \in 1..(Len(x) + 1)
    PROVE  Table(x, y)[i] = Row(x, y, Table(x, y), i)
<1>1. Table(x, y) = CHOOSE t : t = [k \in 1..(Len(x) + 1) |-> Row(x, y, t, k)]
    BY DEF Table, Row
<1>2. Table(x, y) = [k \in 1..(Len(x) + 1) |-> Row(x, y, Table(x, y), k)]
    BY <1>1, TableExists
<1>3. QED  BY <1>2

-----------------------------------------------------------------------------
(* What the table says: from which positions of y the rest of x matches.   *)

From(x, y, i, j) == j \in Table(x, y)[i]

LEMMA FromEnd ==
    ASSUME NEW S, NEW x \in Seq(S), NEW y \in Seq(S), NEW j
    PROVE  From(x, y, Len(x) + 1, j) <=> j = Len(y) + 1
<1>1. Len(x) \in Nat /\ Len(x) + 1 \in 1..(Len(x) + 1) /\ Len(x) + 1 > Len(x)
    OBVIOUS
<1>2. Table(x, y)[Len(x) + 1] = Row(x, y, Table(x, y), Len(x) + 1)
    BY <1>1, TableRow
<1>3. QED  BY <1>1, <1>2 DEF Row, From

LEMMA FromRange ==
    ASSUME NEW S, NEW x \in Seq(S), NEW y \in Seq(S), NEW i \in 1..(Len(x) + 1), NEW j, From(x, y, i, j)
    PROVE  j \in 1..(Len(y) + 1)
<1>1. Len(y) + 1 \in 1..(Len(y) + 1)
    OBVIOUS
<1>2. Table(x, y)[i] = Row(x, y, Table(x, y), i)
    BY TableRow
<1>3. Row(x, y, Table(x, y), i) \subseteq 1..(Len(y) + 1)
    BY <1>1 DEF Row
<1>4. QED  BY <1>2, <1>3 DEF From

\* A star takes any number of characters.
LEMMA FromStar ==
    ASSUME NEW S, NEW x \in Seq(S), NEW y \in Seq(S),
           NEW i \in 1..Len(x), x[i] = "*", NEW j \in 1..(Len(y) + 1)
    PROVE  From(x, y, i, j) <=> \E n \in j..(Len(y) + 1) : From(x, y, i + 1, n)
<1>1. Len(x) \in Nat /\ Len(y) \in Nat /\ i \in 1..(Len(x) + 1) /\ i + 1 \in 1..(Len(x) + 1) /\ ~(i > Len(x))
    OBVIOUS
<1>2. Table(x, y)[i] = {k \in 1..(Len(y) + 1) : \E n \in Table(x, y)[i + 1] : k <= n}
  <2>1. Table(x, y)[i] = Row(x, y, Table(x, y), i)
      BY <1>1, TableRow
  <2>2. QED  BY <1>1, <2>1 DEF Row
<1>3. \A n : From(x, y, i + 1, n) => n \in 1..(Len(y) + 1)
    BY <1>1, FromRange
<1>4. QED  BY <1>1, <1>2, <1>3 DEF From

\* Any other pattern character takes one character.
LEMMA FromChar ==
    ASSUME NEW S, NEW x \in Seq(S), NEW y \in Seq(S),
           NEW i \in 1..Len(x), x[i] # "*", NEW j \in 1..(Len(y) + 1)
    PROVE  From(x, y, i, j) <=> (j <= Len(y) /\ x[i] \in {"?", y[j]} /\ From(x, y, i + 1, j + 1))
<1>1. Len(x) \in Nat /\ i \in 1..(Len(x) + 1) /\ ~(i > Len(x))
    OBVIOUS
<1>2. Table(x, y)[i] =
        {k \in 1..(Len(y) + 1) : k <= Len(y) /\ x[i] \in {"?", y[k]} /\ k + 1 \in Table(x, y)[i + 1]}
  <2>1. Table(x, y)[i] = Row(x, y, Table(x, y), i)
      BY <1>1, TableRow
  <2>2. QED  BY <1>1, <2>1 DEF Row
<1>3. QED  BY <1>2 DEF From

\* A stretch of the pattern without stars takes as many characters.
LEMMA FromChunk ==
    ASSUME NEW S, NEW x \in Seq(S), NEW y \in Seq(S),
           NEW i \in 1..(Len(x) + 1), NEW m \in Nat, i + m <= Len(x) + 1,
           \A k \in i..(i + m - 1) : x[k] # "*",
           NEW j \in 1..(Len(y) + 1), From(x, y, i, j)
    PROVE  From(x, y, i + m, j + m)
<1> DEFINE T == {n \in Nat : (n <= m) => From(x, y, i + n, j + n)}
<1>1. Len(x) \in Nat /\ Len(y) \in Nat /\ T \in SUBSET Nat
    OBVIOUS
<1>2. 0 \in T
    OBVIOUS
<1>3. ASSUME NEW n \in T
      PROVE  n + 1 \in T
  <2>1. n \in Nat /\ n + 1 \in Nat
      OBVIOUS
  <2>2. ASSUME n + 1 <= m
        PROVE  From(x, y, i + (n + 1), j + (n + 1))
    <3>1. /\ i + n \in 1..Len(x) /\ i + n \in i..(i + m - 1) /\ i + n \in 1..(Len(x) + 1) /\ n <= m
          /\ i + (n + 1) = (i + n) + 1 /\ j + (n + 1) = (j + n) + 1
        BY <1>1, <2>1, <2>2
    <3>2. From(x, y, i + n, j + n) /\ x[i + n] # "*"
        BY <1>3, <3>1
    <3>3. j + n \in 1..(Len(y) + 1)
        BY <3>1, <3>2, FromRange
    <3>4. QED  BY <3>1, <3>2, <3>3, FromChar
  <2>3. QED  BY <2>1, <2>2
<1> HIDE DEF T
<1>4. m \in T
    BY <1>1, <1>2, <1>3, Induct
<1>5. QED  BY <1>4 DEF T

\* The table of two suffixes is a part of the table of the whole strings.
LEMMA FromSuffix ==
    ASSUME NEW S, NEW x \in Seq(S), NEW y \in Seq(S),
           NEW i \in 1..(Len(x) + 1), NEW j \in 1..(Len(y) + 1)
    PROVE  Matches(SubSeq(x, i, Len(x)), SubSeq(y, j, Len(y))) <=> From(x, y, i, j)
<1> DEFINE u == SubSeq(x, i, Len(x))
           v == SubSeq(y, j, Len(y))
           lx == Len(x) + 1 - i
           ly == Len(y) + 1 - j
           Same(k) == \A n \in 1..(ly + 1) :
                         From(u, v, lx + 1 - k, n) <=> From(x, y, i + lx - k, n + j - 1)
           T == {k \in Nat : (k <= lx) => Same(k)}
<1>1. /\ Len(x) \in Nat /\ Len(y) \in Nat /\ lx \in Nat /\ ly \in Nat
      /\ i + lx = Len(x) + 1 /\ j + ly = Len(y) + 1 /\ T \in SUBSET Nat
    OBVIOUS
<1>2. /\ u \in Seq(S) /\ Len(u) = lx /\ \A k \in 1..lx : u[k] = x[k + i - 1]
      /\ v \in Seq(S) /\ Len(v) = ly /\ \A k \in 1..ly : v[k] = y[k + j - 1]
    BY <1>1
<1> HIDE DEF u, v, lx, ly
<1>3. 0 \in T
  <2>1. ASSUME NEW n \in 1..(ly + 1)
        PROVE  From(u, v, lx + 1, n) <=> From(x, y, i + lx, n + j - 1)
    <3>1. From(u, v, lx + 1, n) <=> n = ly + 1
        BY <1>2, FromEnd
    <3>2. From(x, y, i + lx, n + j - 1) <=> n + j - 1 = Len(y) + 1
        BY <1>1, FromEnd
    <3>3. QED  BY <1>1, <3>1, <3>2
  <2>2. lx + 1 - 0 = lx + 1 /\ i + lx - 0 = i + lx
      BY <1>1
  <2>3. QED  BY <2>1, <2>2
<1>4. ASSUME NEW k \in T
      PROVE  k + 1 \in T
  <2>1. k \in Nat
      OBVIOUS
  <2>2. ASSUME k + 1 <= lx
        PROVE  Same(k + 1)
    <3> DEFINE a == lx + 1 - (k + 1)
               b == i + lx - (k + 1)
    <3>1. /\ a \in 1..lx /\ b \in 1..Len(x) /\ b = a + i - 1 /\ k <= lx
          /\ lx + 1 - k = a + 1 /\ i + lx - k = b + 1
        BY <1>1, <2>1, <2>2
    <3> HIDE DEF a, b
    <3>2. u[a] = x[b]
        BY <1>2, <3>1
    <3>3. \A n \in 1..(ly + 1) : From(u, v, a + 1, n) <=> From(x, y, b + 1, n + j - 1)
        BY <1>4, <3>1
    <3>4. ASSUME NEW n \in 1..(ly + 1)
          PROVE  From(u, v, a, n) <=> From(x, y, b, n + j - 1)
      <4>1. n + j - 1 \in 1..(Len(y) + 1) /\ n + j - 1 \in Nat
          BY <1>1
      <4>2. CASE x[b] = "*"
        <5>1. From(u, v, a, n) <=> \E c \in n..(ly + 1) : From(u, v, a + 1, c)
            BY <1>2, <3>1, <3>2, <4>2, FromStar
        <5>2. From(x, y, b, n + j - 1) <=> \E c \in (n + j - 1)..(Len(y) + 1) : From(x, y, b + 1, c)
          <6> DEFINE w == n + j - 1
          <6>1. w \in 1..(Len(y) + 1)
              BY <4>1
          <6> HIDE DEF w
          <6>2. From(x, y, b, w) <=> \E c \in w..(Len(y) + 1) : From(x, y, b + 1, c)
              BY <3>1, <4>2, <6>1, FromStar
          <6>3. QED  BY <6>2 DEF w
        <5>3. ASSUME NEW c \in n..(ly + 1), From(u, v, a + 1, c)
              PROVE  \E d \in (n + j - 1)..(Len(y) + 1) : From(x, y, b + 1, d)
          <6>1. c \in 1..(ly + 1) /\ c + j - 1 \in (n + j - 1)..(Len(y) + 1)
              BY <1>1
          <6>2. QED  BY <3>3, <5>3, <6>1
        <5>4. ASSUME NEW d \in (n + j - 1)..(Len(y) + 1), From(x, y, b + 1, d)
              PROVE  \E c \in n..(ly + 1) : From(u, v, a + 1, c)
          <6>1. d - j + 1 \in n..(ly + 1) /\ d - j + 1 \in 1..(ly + 1) /\ (d - j + 1) + j - 1 = d
              BY <1>1
          <6>2. QED  BY <3>3, <5>4, <6>1
        <5>5. QED  BY <5>1, <5>2, <5>3, <5>4
      <4>3. CASE x[b] # "*"
        <5>1. From(u, v, a, n) <=> (n <= ly /\ u[a] \in {"?", v[n]} /\ From(u, v, a + 1, n + 1))
            BY <1>2, <3>1, <3>2, <4>3, FromChar
        <5>2. From(x, y, b, n + j - 1) <=>
                (n + j - 1 <= Len(y) /\ x[b] \in {"?", y[n + j - 1]} /\ From(x, y, b + 1, (n + j - 1) + 1))
            BY <3>1, <4>1, <4>3, FromChar
        <5>3. (n <= ly) <=> (n + j - 1 <= Len(y))
            BY <1>1
        <5>4. ASSUME n <= ly
              PROVE  v[n] = y[n + j - 1] /\ (From(u, v, a + 1, n + 1) <=> From(x, y, b + 1, (n + j - 1) + 1))
          <6>1. n \in 1..ly /\ n + 1 \in 1..(ly + 1) /\ (n + 1) + j - 1 = (n + j - 1) + 1
              BY <1>1, <5>4
          <6>2. QED  BY <1>2, <3>3, <6>1
        <5>5. QED  BY <3>2, <5>1, <5>2, <5>3, <5>4
      <4>4. QED  BY <4>2, <4>3
    <3>5. QED  BY <3>4 DEF a, b
  <2> HIDE DEF Same
  <2>3. QED  BY <2>1, <2>2
<1>5. lx \in T
  <2> HIDE DEF T
  <2>1. QED  BY <1>1, <1>3, <1>4, Induct
<1>6. From(u, v, lx + 1 - lx, 1) <=> From(x, y, i + lx - lx, 1 + j - 1)
  <2>1. Same(lx) /\ 1 \in 1..(ly + 1)
      BY <1>1, <1>5
  <2>2. QED  BY <2>1
<1>7. lx + 1 - lx = 1 /\ i + lx - lx = i /\ 1 + j - 1 = j
    BY <1>1
<1>8. From(u, v, 1, 1) <=> From(x, y, i, j)
    BY <1>6, <1>7
<1>9. QED  BY <1>8, MatchesTable DEF From, u, v

-----------------------------------------------------------------------------
(* The loop of pattern_match, with pattern x and string y, at i and j, with *)
(* the last star at b and its match ending before m.                       *)

\* The pattern matches iff what is left of both matches, or a longer match of
\* the last star lets it.  Since that star only characters were matched, and at
\* the end of the string later stars were passed.
Loop(x, y, i, j, b, m) ==
    /\ i \in 1..(Len(x) + 1) /\ j \in 1..(Len(y) + 1) /\ b \in 0..(i - 1) /\ m \in 1..j
    /\ (b # 0) => /\ x[b] = "*"
                  /\ b + 1 + (j - m) <= i
                  /\ (j <= Len(y)) => (i = b + 1 + (j - m))
                  /\ \A k \in (b + 1)..(b + (j - m)) : x[k] # "*"
    /\ From(x, y, 1, 1) <=>
          \/ From(x, y, i, j)
          \/ (b # 0) /\ \E n \in (m + 1)..(Len(y) + 1) : From(x, y, b + 1, n)

LEMMA LoopStart ==
    ASSUME NEW S, NEW x \in Seq(S), NEW y \in Seq(S)
    PROVE  Loop(x, y, 1, 1, 0, 1)
<1>1. Len(x) \in Nat /\ Len(y) \in Nat
    OBVIOUS
<1>2. QED  BY <1>1 DEF Loop

\* Giving up an earlier star loses no match: what it could match further on, the
\* new one can.
LEMMA LoopStar ==
    ASSUME NEW S, NEW x \in Seq(S), NEW y \in Seq(S), NEW i, NEW j, NEW b, NEW m,
           Loop(x, y, i, j, b, m), j <= Len(y), i <= Len(x), x[i] = "*"
    PROVE  Loop(x, y, i + 1, j, i, j)
<1>1. /\ Len(x) \in Nat /\ Len(y) \in Nat
      /\ i \in 1..Len(x) /\ j \in 1..Len(y) /\ b \in 0..(i - 1) /\ m \in 1..j
      /\ j \in 1..(Len(y) + 1)
    BY DEF Loop
<1>2. From(x, y, i, j) <=> \E n \in j..(Len(y) + 1) : From(x, y, i + 1, n)
    BY <1>1, FromStar
<1>3. From(x, y, i, j) <=>
         From(x, y, i + 1, j) \/ \E n \in (j + 1)..(Len(y) + 1) : From(x, y, i + 1, n)
  <2>1. j..(Len(y) + 1) = {j} \cup (j + 1)..(Len(y) + 1)
      BY <1>1
  <2>2. QED  BY <1>2, <2>1
<1>4. ASSUME b # 0, NEW n \in (m + 1)..(Len(y) + 1), From(x, y, b + 1, n)
      PROVE  From(x, y, i, j)
  <2>1. /\ i = b + 1 + (j - m)
        /\ \A k \in (b + 1)..(b + (j - m)) : x[k] # "*"
      BY <1>4 DEF Loop
  <2> DEFINE c == b + 1
             l == j - m
             e == n + l
  <2>2. /\ c \in 1..(Len(x) + 1) /\ l \in Nat /\ c + l = i /\ c + l <= Len(x) + 1
        /\ c + l - 1 = b + (j - m) /\ n \in 1..(Len(y) + 1) /\ e > j /\ e \in Nat
      BY <1>1, <2>1
  <2>3. \A k \in c..(c + l - 1) : x[k] # "*"
      BY <2>1, <2>2
  <2>4. From(x, y, c, n)
      BY <1>4
  <2> HIDE DEF c, l
  <2>5. From(x, y, i, e)
      BY <2>2, <2>3, <2>4, FromChunk
  <2> HIDE DEF e
  <2>6. e \in 1..(Len(y) + 1)
      BY <1>1, <2>5, FromRange
  <2>7. PICK d \in e..(Len(y) + 1) : From(x, y, i + 1, d)
      BY <1>1, <2>5, <2>6, FromStar
  <2>8. d \in j..(Len(y) + 1)
      BY <1>1, <2>2, <2>6
  <2>9. QED  BY <1>2, <2>7, <2>8
<1>5. From(x, y, 1, 1) <=> From(x, y, i, j)
    BY <1>4 DEF Loop
<1>6. /\ i # 0 /\ i + 1 \in 1..(Len(x) + 1) /\ i \in 0..(i + 1 - 1) /\ j \in 1..j
      /\ i + 1 + (j - j) <= i + 1 /\ i + 1 = i + 1 + (j - j)
      /\ (i + 1)..(i + (j - j)) = {}
    BY <1>1
<1>7. QED  BY <1>1, <1>3, <1>5, <1>6 DEF Loop

LEMMA LoopCharacter ==
    ASSUME NEW S, NEW x \in Seq(S), NEW y \in Seq(S), NEW i, NEW j, NEW b, NEW m,
           Loop(x, y, i, j, b, m), j <= Len(y), i <= Len(x), x[i] # "*", x[i] \in {"?", y[j]}
    PROVE  Loop(x, y, i + 1, j + 1, b, m)
<1>1. /\ Len(x) \in Nat /\ Len(y) \in Nat
      /\ i \in 1..Len(x) /\ j \in 1..Len(y) /\ b \in 0..(i - 1) /\ m \in 1..j
      /\ j \in 1..(Len(y) + 1)
    BY DEF Loop
<1>2. From(x, y, i, j) <=> From(x, y, i + 1, j + 1)
    BY <1>1, FromChar
<1>3. /\ i + 1 \in 1..(Len(x) + 1) /\ j + 1 \in 1..(Len(y) + 1)
      /\ b \in 0..(i + 1 - 1) /\ m \in 1..(j + 1)
    BY <1>1
<1>4. ASSUME b # 0
      PROVE  /\ x[b] = "*" /\ i + 1 = b + 1 + (j + 1 - m)
             /\ \A k \in (b + 1)..(b + (j + 1 - m)) : x[k] # "*"
  <2>1. /\ x[b] = "*" /\ i = b + 1 + (j - m)
        /\ \A k \in (b + 1)..(b + (j - m)) : x[k] # "*"
      BY <1>4 DEF Loop
  <2>2. /\ i + 1 = b + 1 + (j + 1 - m)
        /\ \A k \in (b + 1)..(b + (j + 1 - m)) : k = i \/ k \in (b + 1)..(b + (j - m))
      BY <1>1, <2>1
  <2>3. QED  BY <2>1, <2>2
<1>5. i + 1 <= i + 1
    BY <1>1
<1>6. From(x, y, 1, 1) <=>
          \/ From(x, y, i + 1, j + 1)
          \/ (b # 0) /\ \E n \in (m + 1)..(Len(y) + 1) : From(x, y, b + 1, n)
    BY <1>2 DEF Loop
<1>7. QED  BY <1>3, <1>4, <1>5, <1>6 DEF Loop

\* The star takes one more character.
LEMMA LoopBack ==
    ASSUME NEW S, NEW x \in Seq(S), NEW y \in Seq(S), NEW i, NEW j, NEW b, NEW m,
           Loop(x, y, i, j, b, m), j <= Len(y), ~From(x, y, i, j), b # 0
    PROVE  Loop(x, y, b + 1, m + 1, b, m + 1)
<1>1. /\ Len(x) \in Nat /\ Len(y) \in Nat
      /\ i \in 1..(Len(x) + 1) /\ j \in 1..Len(y) /\ b \in 1..(i - 1) /\ m \in 1..j
    BY DEF Loop
<1>2. From(x, y, 1, 1) <=> \E n \in (m + 1)..(Len(y) + 1) : From(x, y, b + 1, n)
    BY DEF Loop
<1>3. (m + 1)..(Len(y) + 1) = {m + 1} \cup (m + 1 + 1)..(Len(y) + 1)
    BY <1>1
<1>4. From(x, y, 1, 1) <=>
          \/ From(x, y, b + 1, m + 1)
          \/ (b # 0) /\ \E n \in (m + 1 + 1)..(Len(y) + 1) : From(x, y, b + 1, n)
    BY <1>2, <1>3
<1>5. /\ b + 1 \in 1..(Len(x) + 1) /\ m + 1 \in 1..(Len(y) + 1)
      /\ b \in 0..(b + 1 - 1) /\ m + 1 \in 1..(m + 1)
      /\ b + 1 = b + 1 + (m + 1 - (m + 1)) /\ b + 1 <= b + 1
      /\ (b + 1)..(b + (m + 1 - (m + 1))) = {}
    BY <1>1
<1>6. x[b] = "*"
    BY DEF Loop
<1>7. QED  BY <1>4, <1>5, <1>6 DEF Loop

\* At the end of the string a star of the pattern is passed.
LEMMA LoopRest ==
    ASSUME NEW S, NEW x \in Seq(S), NEW y \in Seq(S), NEW i, NEW j, NEW b, NEW m,
           Loop(x, y, i, j, b, m), j > Len(y), i <= Len(x), x[i] = "*"
    PROVE  Loop(x, y, i + 1, j, b, m)
<1>1. /\ Len(x) \in Nat /\ Len(y) \in Nat
      /\ i \in 1..Len(x) /\ j = Len(y) + 1 /\ b \in 0..(i - 1) /\ m \in 1..j
      /\ j \in 1..(Len(y) + 1)
    BY DEF Loop
<1>2. From(x, y, i, j) <=> \E n \in j..(Len(y) + 1) : From(x, y, i + 1, n)
    BY <1>1, FromStar
<1>3. j..(Len(y) + 1) = {j}
    BY <1>1
<1>4. From(x, y, i, j) <=> From(x, y, i + 1, j)
    BY <1>2, <1>3
<1>5. i + 1 \in 1..(Len(x) + 1) /\ b \in 0..(i + 1 - 1) /\ ~(j <= Len(y))
    BY <1>1
<1>6. ASSUME b # 0
      PROVE  b + 1 + (j - m) <= i + 1
  <2>1. b + 1 + (j - m) <= i
      BY <1>6 DEF Loop
  <2>2. QED  BY <1>1, <2>1
<1>7. QED  BY <1>1, <1>4, <1>5, <1>6 DEF Loop

LEMMA LoopFails ==
    ASSUME NEW S, NEW x \in Seq(S), NEW y \in Seq(S), NEW i, NEW j, NEW m,
           Loop(x, y, i, j, 0, m), ~From(x, y, i, j)
    PROVE  ~Matches(x, y)
  BY MatchesTable DEF Loop, From

\* At the end of the string, after the stars, the answer is whether the pattern
\* is at its end.
LEMMA LoopEnds ==
    ASSUME NEW S, NEW x \in Seq(S), NEW y \in Seq(S), NEW i, NEW j, NEW b, NEW m,
           Loop(x, y, i, j, b, m), j > Len(y), i <= Len(x) => x[i] # "*"
    PROVE  Matches(x, y) <=> i > Len(x)
<1>1. /\ Len(x) \in Nat /\ Len(y) \in Nat
      /\ i \in 1..(Len(x) + 1) /\ j = Len(y) + 1 /\ b \in 0..(i - 1) /\ m \in 1..j
      /\ j \in 1..(Len(y) + 1)
    BY DEF Loop
<1>2. From(x, y, i, j) <=> i > Len(x)
  <2>1. CASE i > Len(x)
    <3>1. i = Len(x) + 1
        BY <1>1, <2>1
    <3>2. QED  BY <1>1, <2>1, <3>1, FromEnd
  <2>2. CASE i <= Len(x)
    <3>1. i \in 1..Len(x) /\ x[i] # "*" /\ ~(j <= Len(y)) /\ ~(i > Len(x))
        BY <1>1, <2>2
    <3>2. QED  BY <1>1, <3>1, FromChar
  <2>3. QED  BY <1>1, <2>1, <2>2
<1>3. ASSUME b # 0, NEW n \in (m + 1)..(Len(y) + 1), From(x, y, b + 1, n)
      PROVE  FALSE
  <2>1. /\ b + 1 + (j - m) <= i
        /\ \A k \in (b + 1)..(b + (j - m)) : x[k] # "*"
      BY <1>3 DEF Loop
  <2> DEFINE c == b + 1
             l == j - m
  <2>2. /\ c \in 1..(Len(x) + 1) /\ l \in Nat /\ c + l \in 1..(Len(x) + 1) /\ c + l <= Len(x) + 1
        /\ c + l - 1 = b + (j - m) /\ n \in 1..(Len(y) + 1) /\ n + l > Len(y) + 1
      BY <1>1, <2>1
  <2>3. \A k \in c..(c + l - 1) : x[k] # "*"
      BY <2>1, <2>2
  <2>4. From(x, y, c, n)
      BY <1>3
  <2> HIDE DEF c, l
  <2>5. From(x, y, c + l, n + l)
      BY <2>2, <2>3, <2>4, FromChunk
  <2>6. n + l \in 1..(Len(y) + 1)
      BY <2>2, <2>5, FromRange
  <2>7. QED  BY <1>1, <2>2, <2>6
<1>4. From(x, y, 1, 1) <=> i > Len(x)
    BY <1>2, <1>3 DEF Loop
<1>5. QED  BY <1>4, MatchesTable DEF From

-----------------------------------------------------------------------------
(* The filter's invariant.                                                 *)

Lists == [{"ip", "url"} -> [{"white", "black"} -> Seq(Seq(Chars))]]

FilterTypes ==
    /\ fpc \in {"idle", "list", "match", "done"}
    /\ kind \in {"ip", "url"} /\ colour \in {"white", "black"}
    /\ lists \in Lists /\ str \in Seq(Chars)
    /\ node \in Nat \ {0}
    /\ p \in Nat /\ s \in Nat /\ star \in Nat /\ ss \in Nat

\* The patterns before the node do not match, and the black list is searched
\* only when the white list had its chance.
SearchInv ==
    fpc \in {"list", "match"} =>
        /\ node <= Len(List) + 1
        /\ \A n \in 1..(node - 1) : ~Matches(List[n], str)
        /\ (colour = "white") => (lists[kind]["white"] # <<>>)
        /\ (colour = "black") => /\ ~In(lists[kind]["white"], str)
                                 /\ (kind = "ip") => (lists[kind]["white"] = <<>>)

LoopInv == fpc = "match" => (node <= Len(List) /\ Loop(Pattern, str, p, s, star, ss))

VerdictInv == fpc = "done" => (blocked <=> ShouldBlock(kind, str))

FilterInv == FilterTypes /\ SearchInv /\ LoopInv /\ VerdictInv

LEMMA ListTypes ==
    ASSUME FilterTypes
    PROVE  /\ List \in Seq(Seq(Chars)) /\ Len(List) \in Nat
           /\ \A k \in {"ip", "url"}, c \in {"white", "black"} : lists[k][c] \in Seq(Seq(Chars))
           /\ (node <= Len(List)) => (Pattern \in Seq(Chars))
<1>1. \A k \in {"ip", "url"}, c \in {"white", "black"} : lists[k][c] \in Seq(Seq(Chars))
    BY DEF FilterTypes, Lists
<1>2. List \in Seq(Seq(Chars)) /\ Len(List) \in Nat
    BY <1>1 DEF FilterTypes, List
<1>3. ASSUME node <= Len(List)
      PROVE  Pattern \in Seq(Chars)
  <2>1. node \in 1..Len(List)
      BY <1>2, <1>3 DEF FilterTypes
  <2>2. QED  BY <1>2, <2>1 DEF Pattern
<1>4. QED  BY <1>1, <1>2, <1>3

\* A list whose patterns up to its end do not match has no pattern that matches.
LEMMA NotIn ==
    ASSUME NEW l \in Seq(Seq(Chars)), NEW y, NEW n \in Nat, n > Len(l),
           \A k \in 1..(n - 1) : ~Matches(l[k], y)
    PROVE  ~In(l, y)
<1>1. DOMAIN l \subseteq 1..(n - 1)
    OBVIOUS
<1>2. QED  BY <1>1 DEF In

\* What the search concludes with when it has found a pattern, or none.
LEMMA FoundVerdict ==
    ASSUME FilterTypes, SearchInv, fpc \in {"list", "match"}, In(List, str)
    PROVE  (colour = "black") <=> ShouldBlock(kind, str)
<1>1. CASE colour = "black"
  <2>1. /\ In(lists[kind]["black"], str) /\ ~In(lists[kind]["white"], str)
        /\ ~(kind = "ip" /\ lists[kind]["white"] # <<>>)
      BY <1>1 DEF SearchInv, List
  <2>2. ShouldBlock(kind, str)
      BY <2>1 DEF ShouldBlock
  <2>3. QED  BY <1>1, <2>2
<1>2. CASE colour = "white"
    BY <1>2 DEF SearchInv, ShouldBlock, List
<1>3. QED  BY <1>1, <1>2 DEF FilterTypes

LEMMA NotFoundVerdict ==
    ASSUME FilterTypes, SearchInv, fpc = "list", ~In(List, str), ~(colour = "white" /\ kind = "url")
    PROVE  (colour = "white") <=> ShouldBlock(kind, str)
<1>1. CASE colour = "black"
    BY <1>1 DEF SearchInv, ShouldBlock, List
<1>2. CASE colour = "white"
    BY <1>2 DEF FilterTypes, SearchInv, ShouldBlock, List
<1>3. QED  BY <1>1, <1>2 DEF FilterTypes

LEMMA CheckStep ==
    ASSUME FilterInv, NEW k \in {"ip", "url"}, NEW y \in Seq(Chars), Check(k, y)
    PROVE  FilterInv'
<1>1. FilterTypes'
    BY DEF FilterInv, FilterTypes, Check, matchVars
<1>2. fpc' = "list" /\ node' = 1 /\ kind' = k /\ str' = y /\ UNCHANGED lists
      /\ colour' = IF lists[k]["white"] # <<>> THEN "white" ELSE "black"
    BY DEF Check
<1>3. Len(List') \in Nat
  <2>1. lists[k] \in [{"white", "black"} -> Seq(Seq(Chars))]
      BY DEF FilterInv, FilterTypes, Lists
  <2>2. List' = lists[k][colour'] /\ colour' \in {"white", "black"}
      BY <1>2 DEF List
  <2>3. List' \in Seq(Seq(Chars))
      BY <2>1, <2>2
  <2>4. QED  BY <2>3
<1>4. 1..(node' - 1) = {}
    BY <1>2
<1>5. ~In(<<>>, y)
    BY DEF In
<1>6. SearchInv'
    BY <1>2, <1>3, <1>4, <1>5 DEF SearchInv
<1>7. LoopInv' /\ VerdictInv'
    BY <1>2 DEF LoopInv, VerdictInv
<1>8. QED  BY <1>1, <1>6, <1>7 DEF FilterInv

LEMMA IdleStep ==
    ASSUME FilterTypes, fpc' = "idle",
           UNCHANGED <<kind, str, lists, colour, node, p, s, star, ss>>
    PROVE  FilterInv'
  BY DEF FilterInv, FilterTypes, SearchInv, LoopInv, VerdictInv

LEMMA UnchangedFilter ==
    ASSUME FilterInv, UNCHANGED filterVars
    PROVE  FilterInv'
  BY DEF FilterInv, FilterTypes, SearchInv, LoopInv, VerdictInv, filterVars, Pattern, List,
         ShouldBlock, In

\* pattern_match has returned, correctly.
LEMMA MatchedStep ==
    ASSUME FilterInv, fpc = "match", NEW found \in BOOLEAN, Matched(found), UNCHANGED matchVars,
           found <=> Matches(Pattern, str)
    PROVE  FilterInv'
<1>1. /\ FilterTypes /\ SearchInv /\ node \in 1..Len(List) /\ List \in Seq(Seq(Chars))
    BY ListTypes DEF FilterInv, FilterTypes, LoopInv
<1>2. CASE found
  <2>1. fpc' = "done" /\ blocked' = (colour = "black") /\ UNCHANGED <<kind, str, lists, colour, node>>
      BY <1>2 DEF Matched, Conclude
  <2>2. In(List, str)
      BY <1>1, <1>2 DEF In, Pattern
  <2>3. blocked' <=> ShouldBlock(kind, str)
      BY <1>1, <2>1, <2>2, FoundVerdict
  <2>4. VerdictInv'
      BY <2>1, <2>3 DEF VerdictInv, ShouldBlock, In
  <2>5. QED  BY <1>1, <2>1, <2>4 DEF FilterInv, FilterTypes, SearchInv, LoopInv, matchVars
<1>3. CASE ~found
  <2>1. fpc' = "list" /\ node' = node + 1 /\ UNCHANGED <<kind, str, lists, colour, blocked>>
      BY <1>3 DEF Matched
  <2>2. List' = List
      BY <2>1 DEF List
  <2>3. FilterTypes'
      BY <1>1, <2>1 DEF FilterTypes, matchVars
  <2>4. ASSUME NEW n \in 1..(node' - 1)
        PROVE  ~Matches(List[n], str)
    <3>1. n = node \/ n \in 1..(node - 1)
        BY <1>1, <2>1
    <3>2. QED  BY <1>1, <1>3, <3>1 DEF SearchInv, Pattern
  <2>5. node' <= Len(List) + 1
      BY <1>1, <2>1
  <2>6. SearchInv'
      BY <1>1, <2>1, <2>2, <2>4, <2>5 DEF SearchInv, In
  <2>7. QED  BY <2>1, <2>3, <2>6 DEF FilterInv, LoopInv, VerdictInv
<1>4. QED  BY <1>2, <1>3

\* A step of the loop, within the same pattern.
LEMMA MatchingStep ==
    ASSUME FilterInv, fpc = "match", Proceed("match"),
           p' \in Nat, s' \in Nat, star' \in Nat, ss' \in Nat,
           Loop(Pattern, str, p', s', star', ss')
    PROVE  FilterInv'
<1>1. fpc' = "match" /\ UNCHANGED <<kind, str, lists, colour, node, blocked>>
    BY DEF Proceed
<1>2. List' = List /\ Pattern' = Pattern
    BY <1>1 DEF List, Pattern
<1>3. FilterTypes'
    BY <1>1 DEF FilterInv, FilterTypes
<1>4. SearchInv'
    BY <1>1, <1>2 DEF FilterInv, SearchInv, In
<1>5. LoopInv'
    BY <1>1, <1>2 DEF FilterInv, LoopInv
<1>6. QED  BY <1>1, <1>3, <1>4, <1>5 DEF FilterInv, VerdictInv

\* What the character read from the pattern says about the position in it.
LEMMA AtPattern ==
    ASSUME NEW x \in Seq(Chars), NEW i \in Nat \ {0}
    PROVE  /\ At(x, i) = "*" => (i <= Len(x) /\ x[i] = "*")
           /\ At(x, i) = "end" <=> i > Len(x)
           /\ i <= Len(x) => At(x, i) = x[i]
<1>1. Len(x) \in Nat
    OBVIOUS
<1>2. ASSUME i <= Len(x)
      PROVE  At(x, i) = x[i] /\ x[i] \in Chars
    BY <1>1, <1>2 DEF At
<1>3. ASSUME i > Len(x)
      PROVE  At(x, i) = "end"
    BY <1>1, <1>3 DEF At
<1>4. QED  BY <1>1, <1>2, <1>3, CaseAssumption

LEMMA FilterNext ==
    ASSUME FilterInv, FilterStep
    PROVE  FilterInv'
<1>1. /\ FilterTypes /\ SearchInv
      /\ List \in Seq(Seq(Chars)) /\ Len(List) \in Nat
      /\ node \in Nat \ {0} /\ str \in Seq(Chars) /\ Len(str) \in Nat
    BY ListTypes DEF FilterInv, FilterTypes
<1>2. CASE TryPattern
  <2>1. /\ fpc = "list" /\ node <= Len(List) /\ fpc' = "match"
        /\ UNCHANGED <<kind, str, lists, colour, node, blocked>>
        /\ p' = 1 /\ s' = 1 /\ star' = 0 /\ ss' = 1
      BY <1>2 DEF TryPattern, Proceed
  <2>2. Pattern \in Seq(Chars)
      BY <1>1, <2>1, ListTypes
  <2>3. List' = List /\ Pattern' = Pattern
      BY <2>1 DEF List, Pattern
  <2>4. Loop(Pattern, str, 1, 1, 0, 1)
      BY <1>1, <2>2, LoopStart
  <2>5. FilterTypes'
      BY <1>1, <2>1 DEF FilterTypes
  <2>6. SearchInv'
      BY <1>1, <2>1, <2>3 DEF SearchInv, In
  <2>7. LoopInv'
      BY <2>1, <2>3, <2>4 DEF LoopInv
  <2>8. QED  BY <2>1, <2>5, <2>6, <2>7 DEF FilterInv, VerdictInv
<1>3. CASE NotFound
  <2>1. fpc = "list" /\ node > Len(List) /\ UNCHANGED matchVars
      BY <1>3 DEF NotFound
  <2>2. ~In(List, str)
      BY <1>1, <2>1, NotIn DEF SearchInv
  <2>3. CASE colour = "white" /\ kind = "url"
    <3>1. fpc' = "list" /\ colour' = "black" /\ node' = 1 /\ UNCHANGED <<kind, str, lists, blocked>>
        BY <1>3, <2>1, <2>3 DEF NotFound
    <3>2. FilterTypes'
        BY <1>1, <2>1, <3>1 DEF FilterTypes, matchVars
    <3>3. Len(List') \in Nat
      <4>1. List' = lists["url"]["black"]
          BY <2>3, <3>1 DEF List
      <4>2. List' \in Seq(Seq(Chars))
          BY <1>1, <4>1, ListTypes
      <4>3. QED  BY <4>2
    <3>4. ~In(lists'[kind']["white"], str')
        BY <2>2, <2>3, <3>1 DEF List
    <3>5. 1..(node' - 1) = {} /\ node' <= Len(List') + 1
        BY <3>1, <3>3
    <3>6. SearchInv'
        BY <2>3, <3>1, <3>4, <3>5 DEF SearchInv
    <3>7. QED  BY <3>1, <3>2, <3>6 DEF FilterInv, LoopInv, VerdictInv
  <2>4. CASE ~(colour = "white" /\ kind = "url")
    <3>1. fpc' = "done" /\ blocked' = (colour = "white") /\ UNCHANGED <<kind, str, lists, colour, node>>
        BY <1>3, <2>4 DEF NotFound, Conclude
    <3>2. (colour = "white") <=> ShouldBlock(kind, str)
        BY <1>1, <2>1, <2>2, <2>4, NotFoundVerdict
    <3>3. VerdictInv'
        BY <3>1, <3>2 DEF VerdictInv, ShouldBlock, In
    <3>4. QED  BY <1>1, <2>1, <3>1, <3>3 DEF FilterInv, FilterTypes, SearchInv, LoopInv, matchVars
  <2>5. QED  BY <2>3, <2>4
<1>4. ASSUME fpc = "match"
      PROVE  /\ Pattern \in Seq(Chars) /\ Loop(Pattern, str, p, s, star, ss)
             /\ p \in Nat \ {0} /\ s \in Nat \ {0} /\ star \in Nat /\ ss \in Nat
             /\ Len(Pattern) \in Nat
             /\ p \in 1..(Len(Pattern) + 1) /\ s \in 1..(Len(str) + 1)
  <2>1. Pattern \in Seq(Chars) /\ Loop(Pattern, str, p, s, star, ss)
      BY <1>1, <1>4, ListTypes DEF FilterInv, LoopInv
  <2>2. Len(Pattern) \in Nat
      BY <2>1
  <2>3. QED  BY <1>1, <2>1, <2>2 DEF Loop
<1>5. CASE MatchStar
  <2>1. /\ fpc = "match" /\ s <= Len(str) /\ At(Pattern, p) = "*" /\ Proceed("match")
        /\ star' = p /\ p' = p + 1 /\ ss' = s /\ s' = s
      BY <1>5 DEF MatchStar
  <2>2. p <= Len(Pattern) /\ Pattern[p] = "*"
      BY <1>4, <2>1, AtPattern
  <2>3. Loop(Pattern, str, p + 1, s, p, s)
      BY <1>1, <1>4, <2>1, <2>2, LoopStar
  <2>4. QED  BY <1>4, <2>1, <2>3, MatchingStep
<1>6. CASE MatchCharacter
  <2>1. /\ fpc = "match" /\ s <= Len(str) /\ At(Pattern, p) # "*" /\ At(Pattern, p) \in {"?", str[s]}
        /\ Proceed("match") /\ p' = p + 1 /\ s' = s + 1 /\ star' = star /\ ss' = ss
      BY <1>6 DEF MatchCharacter
  <2>2. str[s] \in Chars /\ "end" # "?"
      BY <1>1, <1>4, <2>1
  <2>3. At(Pattern, p) # "end"
      BY <2>1, <2>2, CaseAssumption
  <2>4. p <= Len(Pattern) /\ Pattern[p] = At(Pattern, p)
      BY <1>4, <2>1, <2>3, AtPattern
  <2>5. Loop(Pattern, str, p + 1, s + 1, star, ss)
      BY <1>1, <1>4, <2>1, <2>4, LoopCharacter
  <2>6. QED  BY <1>4, <2>1, <2>5, MatchingStep
<1>7. ASSUME Mismatch
      PROVE  fpc = "match" /\ s <= Len(str) /\ ~From(Pattern, str, p, s)
  <2>1. fpc = "match" /\ s <= Len(str) /\ At(Pattern, p) \notin {"*", "?", str[s]}
      BY <1>7 DEF Mismatch
  <2>2. CASE p <= Len(Pattern)
    <3>1. p \in 1..Len(Pattern) /\ Pattern[p] \notin {"*", "?", str[s]}
        BY <1>4, <2>1, <2>2, AtPattern
    <3>2. QED  BY <1>1, <1>4, <2>1, <3>1, FromChar
  <2>3. CASE p > Len(Pattern)
    <3>1. p = Len(Pattern) + 1 /\ s # Len(str) + 1
        BY <1>1, <1>4, <2>1, <2>3
    <3>2. QED  BY <1>1, <1>4, <2>1, <3>1, FromEnd
  <2>4. QED  BY <1>4, <2>1, <2>2, <2>3
<1>8. CASE MatchBack
  <2>1. /\ Mismatch /\ star # 0 /\ Proceed("match")
        /\ p' = star + 1 /\ s' = ss + 1 /\ ss' = ss + 1 /\ star' = star
      BY <1>8 DEF MatchBack
  <2>2. Loop(Pattern, str, star + 1, ss + 1, star, ss + 1)
      BY <1>1, <1>4, <1>7, <2>1, LoopBack
  <2>3. QED  BY <1>4, <1>7, <2>1, <2>2, MatchingStep
<1>9. CASE MatchFails
  <2>1. Mismatch /\ star = 0 /\ Matched(FALSE) /\ UNCHANGED matchVars
      BY <1>9 DEF MatchFails
  <2>2. ~Matches(Pattern, str)
      BY <1>1, <1>4, <1>7, <2>1, LoopFails
  <2>3. QED  BY <1>7, <2>1, <2>2, MatchedStep
<1>10. CASE MatchRest
  <2>1. /\ fpc = "match" /\ s > Len(str) /\ At(Pattern, p) = "*" /\ Proceed("match")
        /\ p' = p + 1 /\ s' = s /\ star' = star /\ ss' = ss
      BY <1>10 DEF MatchRest
  <2>2. p <= Len(Pattern) /\ Pattern[p] = "*"
      BY <1>4, <2>1, AtPattern
  <2>3. Loop(Pattern, str, p + 1, s, star, ss)
      BY <1>1, <1>4, <2>1, <2>2, LoopRest
  <2>4. QED  BY <1>4, <2>1, <2>3, MatchingStep
<1>11. CASE MatchEnds
  <2>1. /\ fpc = "match" /\ s > Len(str) /\ At(Pattern, p) # "*"
        /\ Matched(At(Pattern, p) = "end") /\ UNCHANGED matchVars
      BY <1>11 DEF MatchEnds
  <2>2. p <= Len(Pattern) => Pattern[p] # "*"
      BY <1>4, <2>1, AtPattern
  <2>3. Matches(Pattern, str) <=> p > Len(Pattern)
      BY <1>1, <1>4, <2>1, <2>2, LoopEnds
  <2>4. (At(Pattern, p) = "end") <=> p > Len(Pattern)
      BY <1>4, <2>1, AtPattern
  <2> DEFINE found == At(Pattern, p) = "end"
  <2>5. found \in BOOLEAN /\ Matched(found) /\ (found <=> Matches(Pattern, str))
      BY <2>1, <2>3, <2>4
  <2> HIDE DEF found
  <2>6. QED  BY <2>1, <2>5, MatchedStep
<1>12. QED
    BY <1>2, <1>3, <1>5, <1>6, <1>8, <1>9, <1>10, <1>11 DEF FilterStep

\* The invariant of the loop is the property that the runs check.
LEMMA LoopGivesMatch ==
    ASSUME FilterInv
    PROVE  MatchInvariant
<1>1. SUFFICES ASSUME fpc = "match"
               PROVE  MatchInvariant
    BY DEF MatchInvariant
<1>2. /\ Pattern \in Seq(Chars) /\ str \in Seq(Chars) /\ Loop(Pattern, str, p, s, star, ss)
      /\ Len(Pattern) \in Nat /\ Len(str) \in Nat
  <2>1. Pattern \in Seq(Chars) /\ str \in Seq(Chars) /\ Loop(Pattern, str, p, s, star, ss)
      BY <1>1, ListTypes DEF FilterInv, FilterTypes, LoopInv
  <2>2. QED  BY <2>1
<1>3. /\ p \in 1..(Len(Pattern) + 1) /\ s \in 1..(Len(str) + 1)
      /\ star \in 0..(p - 1) /\ ss \in 1..s
      /\ (star # 0) => (Pattern[star] = "*")
      /\ From(Pattern, str, 1, 1) <=>
            \/ From(Pattern, str, p, s)
            \/ (star # 0) /\ \E n \in (ss + 1)..(Len(str) + 1) : From(Pattern, str, star + 1, n)
    BY <1>2 DEF Loop
<1>4. Matches(Pattern, str) <=> From(Pattern, str, 1, 1)
    BY MatchesTable DEF From
<1>5. Matches(SubSeq(Pattern, p, Len(Pattern)), SubSeq(str, s, Len(str))) <=> From(Pattern, str, p, s)
    BY <1>2, <1>3, FromSuffix
<1>6. ASSUME NEW n \in (ss + 1)..(Len(str) + 1)
      PROVE  Matches(SubSeq(Pattern, star + 1, Len(Pattern)), SubSeq(str, n, Len(str)))
               <=> From(Pattern, str, star + 1, n)
  <2>1. star + 1 \in 1..(Len(Pattern) + 1) /\ n \in 1..(Len(str) + 1)
      BY <1>2, <1>3
  <2>2. QED  BY <1>2, <2>1, FromSuffix
<1>7. (star # 0) => (Pattern[star] = "*" /\ star < p /\ ss <= s)
    BY <1>2, <1>3
<1>8. Matches(Pattern, str) <=>
        \/ Matches(SubSeq(Pattern, p, Len(Pattern)), SubSeq(str, s, Len(str)))
        \/ star # 0 /\ \E n \in ss + 1..Len(str) + 1 :
             Matches(SubSeq(Pattern, star + 1, Len(Pattern)), SubSeq(str, n, Len(str)))
    BY <1>3, <1>4, <1>5, <1>6
<1>9. QED  BY <1>1, <1>3, <1>7, <1>8 DEF MatchInvariant

-----------------------------------------------------------------------------
(* The order of the checks.                                                *)

\* What has been decided when a check is due.
PlaceInv ==
    /\ case \in Cases /\ lists = case.lists
    /\ pc \in {"start", "ip", "auth", "verify", "url", "admitted", "refused", "crashed"}
    /\ pc \in {"start", "auth", "verify"} => fpc = "idle"
    /\ (pc = "ip") => (fpc # "idle" /\ kind = "ip" /\ str = case.ip)
    /\ (pc = "url") => (fpc # "idle" /\ kind = "url" /\ str = case.url)
    /\ pc \in {"auth", "verify", "url", "admitted"} => ~ShouldBlock("ip", case.ip)
    /\ (pc = "admitted") => ~ShouldBlock("url", case.url)
    /\ pc \in {"admitted", "refused", "crashed"} => fpc \in {"idle", "done"}

PassInv == FilterInv /\ PlaceInv

LEMMA CaseTypes ==
    ASSUME case \in Cases
    PROVE  case.ip \in Seq(Chars) /\ case.url \in Seq(Chars) /\ case.lists \in Lists
  BY CaseAssumption DEF Lists

LEMMA PassInit == Init => PassInv
<1>1. SUFFICES ASSUME Init
               PROVE  PassInv
    OBVIOUS
<1>2. case \in Cases /\ FilterInit(case.lists) /\ pc = "start"
    BY <1>1 DEF Init
<1>3. FilterTypes
    BY <1>2, CaseTypes DEF FilterInit, FilterTypes
<1>4. FilterInv
    BY <1>2, <1>3 DEF FilterInit, FilterInv, SearchInv, LoopInv, VerdictInv
<1>5. PlaceInv
    BY <1>2 DEF FilterInit, PlaceInv
<1>6. QED  BY <1>4, <1>5 DEF PassInv

\* A step of the filter stays within the check that is made.
LEMMA FilterFrame ==
    ASSUME FilterStep
    PROVE  fpc # "idle" /\ fpc' # "idle" /\ UNCHANGED <<kind, str, lists>> /\ fpc # "done"
  BY DEF FilterStep, TryPattern, NotFound, MatchStar, MatchCharacter, MatchBack, MatchFails,
         MatchRest, MatchEnds, Mismatch, Matched, Conclude, Proceed

LEMMA PassNext ==
    ASSUME PassInv, [Next]_vars
    PROVE  PassInv'
<1>1. /\ FilterInv /\ FilterTypes /\ VerdictInv /\ PlaceInv /\ case \in Cases
      /\ case.ip \in Seq(Chars) /\ case.url \in Seq(Chars)
    BY CaseTypes DEF PassInv, FilterInv, PlaceInv
<1>2. ASSUME UNCHANGED <<filterVars, case>>,
             pc \in {"start", "auth", "verify"} => pc' \in {pc, "refused", "crashed", "verify"},
             pc \notin {"start", "auth", "verify"} => pc' = pc,
             (pc = "start") => (pc' = "start")
      PROVE  PassInv'
  <2>1. FilterInv' /\ UNCHANGED <<fpc, kind, str, lists, case>>
      BY <1>1, <1>2, UnchangedFilter DEF filterVars
  <2>2. /\ ShouldBlock("ip", case.ip)' <=> ShouldBlock("ip", case.ip)
        /\ ShouldBlock("url", case.url)' <=> ShouldBlock("url", case.url)
      BY <2>1 DEF ShouldBlock, In
  <2>3. PlaceInv'
      BY <1>1, <1>2, <2>1, <2>2 DEF PlaceInv
  <2>4. QED  BY <2>1, <2>3 DEF PassInv
<1>3. ASSUME NEW k \in {"ip", "url"}, NEW y \in Seq(Chars), Check(k, y), UNCHANGED case,
             pc' = k, y = case[k], (k = "url") => ~ShouldBlock("ip", case.ip)
      PROVE  PassInv'
  <2>1. FilterInv'
      BY <1>1, <1>3, CheckStep
  <2>2. fpc' = "list" /\ kind' = k /\ str' = y /\ UNCHANGED <<lists, case>>
      BY <1>3 DEF Check
  <2>3. ShouldBlock("ip", case.ip)' <=> ShouldBlock("ip", case.ip)
      BY <2>2 DEF ShouldBlock, In
  <2>4. PlaceInv'
      BY <1>1, <1>3, <2>2, <2>3 DEF PlaceInv
  <2>5. QED  BY <2>1, <2>4 DEF PassInv
<1>4. CASE AcceptConnection
  <2>1. pc' = "ip" /\ Check("ip", case.ip) /\ UNCHANGED case
      BY <1>4 DEF AcceptConnection
  <2>2. QED  BY <1>1, <1>3, <2>1
<1>5. CASE AddressChecked
  <2>1. /\ pc = "ip" /\ fpc = "done" /\ fpc' = "idle"
        /\ pc' = IF blocked THEN "refused" ELSE "auth"
        /\ UNCHANGED <<kind, str, lists, colour, node, p, s, star, ss, blocked, case>>
      BY <1>5 DEF AddressChecked
  <2>2. FilterInv'
      BY <1>1, <2>1, IdleStep
  <2>3. ShouldBlock("ip", case.ip)' <=> ShouldBlock("ip", case.ip)
      BY <2>1 DEF ShouldBlock, In
  <2>4. blocked <=> ShouldBlock("ip", case.ip)
      BY <1>1, <2>1 DEF PlaceInv, VerdictInv
  <2>5. PlaceInv'
      BY <1>1, <2>1, <2>3, <2>4 DEF PlaceInv
  <2>6. QED  BY <2>2, <2>5 DEF PassInv
<1>6. CASE ReadHeader
  <2>1. pc = "auth" /\ pc' \in {"refused", "verify"} /\ UNCHANGED <<filterVars, case>>
      BY <1>6 DEF ReadHeader
  <2>2. QED  BY <1>2, <2>1
<1>7. CASE Verify
  <2>1. pc = "verify" /\ UNCHANGED case /\ pc' = "url" /\ Check("url", case.url)
      BY <1>7 DEF Verify
  <2>2. ~ShouldBlock("ip", case.ip)
      BY <1>1, <2>1 DEF PlaceInv
  <2>3. QED  BY <1>1, <1>3, <2>1, <2>2
<1>7r. CASE Refuse
  <2>1. pc = "verify" /\ pc' \in {"refused", "crashed"} /\ UNCHANGED <<filterVars, case>>
      BY <1>7r DEF Refuse
  <2>2. QED  BY <1>2, <2>1
<1>8. CASE NoAuth
  <2>1. pc = "auth" /\ pc' = "url" /\ Check("url", case.url) /\ UNCHANGED case
      BY <1>8 DEF NoAuth
  <2>2. ~ShouldBlock("ip", case.ip)
      BY <1>1, <2>1 DEF PlaceInv
  <2>3. QED  BY <1>1, <1>3, <2>1, <2>2
<1>9. CASE UrlChecked
  <2>1. /\ pc = "url" /\ fpc = "done" /\ pc' = IF blocked THEN "refused" ELSE "admitted"
        /\ UNCHANGED <<fpc, kind, str, lists, case>> /\ UNCHANGED filterVars
      BY <1>9 DEF UrlChecked, filterVars
  <2>2. FilterInv'
      BY <1>1, <2>1, UnchangedFilter
  <2>3. /\ ShouldBlock("ip", case.ip)' <=> ShouldBlock("ip", case.ip)
        /\ ShouldBlock("url", case.url)' <=> ShouldBlock("url", case.url)
      BY <2>1 DEF ShouldBlock, In
  <2>4. blocked <=> ShouldBlock("url", case.url)
      BY <1>1, <2>1 DEF PlaceInv, VerdictInv
  <2>5. PlaceInv'
      BY <1>1, <2>1, <2>3, <2>4 DEF PlaceInv
  <2>6. QED  BY <2>2, <2>5 DEF PassInv
<1>10. CASE FilterStep /\ UNCHANGED <<credVars, pc, case>>
  <2>1. /\ fpc # "idle" /\ fpc' # "idle" /\ fpc # "done"
        /\ UNCHANGED <<kind, str, lists, pc, case>>
      BY <1>10, FilterFrame
  <2>2. FilterInv'
      BY <1>1, <1>10, FilterNext
  <2>3. /\ ShouldBlock("ip", case.ip)' <=> ShouldBlock("ip", case.ip)
        /\ ShouldBlock("url", case.url)' <=> ShouldBlock("url", case.url)
      BY <2>1 DEF ShouldBlock, In
  <2>4. PlaceInv'
      BY <1>1, <2>1, <2>3 DEF PlaceInv
  <2>5. QED  BY <2>2, <2>4 DEF PassInv
<1>11. CASE CredStep /\ UNCHANGED <<filterVars, pc, case>>
  <2>1. pc' = pc
      BY <1>11
  <2>2. QED  BY <1>2, <1>11, <2>1
<1>12. CASE UNCHANGED vars
  <2>1. pc' = pc /\ UNCHANGED <<filterVars, case>>
      BY <1>12 DEF vars
  <2>2. QED  BY <1>2, <2>1
<1>13. QED
    BY <1>4, <1>5, <1>6, <1>7, <1>7r, <1>8, <1>9, <1>10, <1>11, <1>12 DEF Next, Step, Over

-----------------------------------------------------------------------------
(* The decoder, for every sequence of bytes.                               *)

Sextets64 == 0..63
Codes == 0..Pad

Byte(b, n) == IF n <= Len(b) THEN b[n] ELSE 0

\* The four sextets of the bytes 3m + 1 to 3m + 3.
LEMMA Sextets ==
    ASSUME NEW b \in Seq(Bytes), NEW m \in Nat
    PROVE  /\ Byte(b, 3 * m + 1) \in Bytes /\ Byte(b, 3 * m + 2) \in Bytes /\ Byte(b, 3 * m + 3) \in Bytes
           /\ Sextet(b, 4 * m) = Byte(b, 3 * m + 1) \div 4
           /\ Sextet(b, 4 * m + 1) = (Byte(b, 3 * m + 1) % 4) * 16 + Byte(b, 3 * m + 2) \div 16
           /\ Sextet(b, 4 * m + 2) = (Byte(b, 3 * m + 2) % 16) * 4 + Byte(b, 3 * m + 3) \div 64
           /\ Sextet(b, 4 * m + 3) = Byte(b, 3 * m + 3) % 64
<1>1. ASSUME NEW n \in Nat \ {0}
      PROVE  Byte(b, n) \in Bytes
  <2>1. Len(b) \in Nat /\ 0 \in Bytes
      BY DEF Bytes
  <2>2. QED  BY <2>1 DEF Byte
<1>2. /\ (4 * m) \div 4 = m /\ (4 * m) % 4 = 0
      /\ (4 * m + 1) \div 4 = m /\ (4 * m + 1) % 4 = 1
      /\ (4 * m + 2) \div 4 = m /\ (4 * m + 2) % 4 = 2
      /\ (4 * m + 3) \div 4 = m /\ (4 * m + 3) % 4 = 3
    OBVIOUS
<1>3. Sextet(b, 4 * m) = Byte(b, 3 * m + 1) \div 4
  <2> DEFINE k == 4 * m
  <2>1. k \div 4 = m /\ k % 4 = 0
      BY <1>2
  <2> HIDE DEF k
  <2>2. Sextet(b, k) = Byte(b, 3 * m + 1) \div 4
      BY <2>1 DEF Sextet, Byte
  <2>3. QED  BY <2>2 DEF k
<1>4. Sextet(b, 4 * m + 1) = (Byte(b, 3 * m + 1) % 4) * 16 + Byte(b, 3 * m + 2) \div 16
    BY <1>2 DEF Sextet, Byte
<1>5. Sextet(b, 4 * m + 2) = (Byte(b, 3 * m + 2) % 16) * 4 + Byte(b, 3 * m + 3) \div 64
    BY <1>2 DEF Sextet, Byte
<1>6. Sextet(b, 4 * m + 3) = Byte(b, 3 * m + 3) % 64
  <2> DEFINE k == 4 * m + 3
  <2>1. k \div 4 = m /\ k % 4 = 3
      BY <1>2
  <2> HIDE DEF k
  <2>2. Sextet(b, k) = Byte(b, 3 * m + 3) % 64
      BY <2>1 DEF Sextet, Byte
  <2>3. QED  BY <2>2 DEF k
<1>7. QED  BY <1>1, <1>3, <1>4, <1>5, <1>6

LEMMA SextetRange ==
    ASSUME NEW b \in Seq(Bytes), NEW k \in Nat
    PROVE  Sextet(b, k) \in 0..63
<1> DEFINE m == k \div 4
<1>1. m \in Nat /\ (k = 4 * m \/ k = 4 * m + 1 \/ k = 4 * m + 2 \/ k = 4 * m + 3)
    OBVIOUS
<1> HIDE DEF m
<1> DEFINE x == Byte(b, 3 * m + 1)
           y == Byte(b, 3 * m + 2)
           z == Byte(b, 3 * m + 3)
<1>2. /\ x \in 0..255 /\ y \in 0..255 /\ z \in 0..255
      /\ Sextet(b, 4 * m) = x \div 4
      /\ Sextet(b, 4 * m + 1) = (x % 4) * 16 + y \div 16
      /\ Sextet(b, 4 * m + 2) = (y % 16) * 4 + z \div 64
      /\ Sextet(b, 4 * m + 3) = z % 64
    BY <1>1, Sextets DEF Bytes
<1> HIDE DEF x, y, z
<1>3. x \div 4 \in 0..63 /\ z % 64 \in 0..63
    BY <1>2
<1>4. (x % 4) * 16 + y \div 16 \in 0..63 /\ (y % 16) * 4 + z \div 64 \in 0..63
    BY <1>2
<1>5. Sextet(b, 4 * m) \in 0..63 /\ Sextet(b, 4 * m + 3) \in 0..63
    BY <1>2, <1>3, Zenon
<1>6. Sextet(b, 4 * m + 1) \in 0..63 /\ Sextet(b, 4 * m + 2) \in 0..63
    BY <1>2, <1>4, Zenon
<1>7. QED  BY <1>1, <1>5, <1>6, Zenon

\* The second and the third sextet of three bytes.
Middle(x, y) == (x % 4) * 16 + y \div 16
Lower(y, z) == (y % 16) * 4 + z \div 64

\* Sextets give back the bytes.
LEMMA FirstByte ==
    ASSUME NEW x \in 0..255, NEW y \in 0..255, NEW b,
           b[1] = x \div 4, b[2] = Middle(x, y)
    PROVE  First(b) = x
<1>1. ((x \div 4) * 4 + ((x % 4) * 16 + y \div 16) \div 16) % 256 = x
    OBVIOUS
<1>2. QED  BY <1>1 DEF First, Middle

LEMMA SecondByte ==
    ASSUME NEW x \in 0..255, NEW y \in 0..255, NEW z \in 0..255, NEW b,
           b[2] = Middle(x, y), b[3] = Lower(y, z)
    PROVE  Second(b) = y
<1>1. (((x % 4) * 16 + y \div 16) * 16 + ((y % 16) * 4 + z \div 64) \div 4) % 256 = y
    OBVIOUS
<1>2. QED  BY <1>1 DEF Second, Middle, Lower

LEMMA ThirdByte ==
    ASSUME NEW y \in 0..255, NEW z \in 0..255, NEW b,
           b[3] = Lower(y, z), b[4] = z % 64
    PROVE  Third(b) = z
<1> DEFINE a == y % 16
           c == z \div 64
           d == z % 64
<1>1. a \in Nat /\ c \in Nat /\ d \in Nat /\ z = 64 * c + d
    OBVIOUS
<1>2. b[3] = a * 4 + c /\ b[4] = d
    BY DEF Lower
<1> HIDE DEF a, c, d
<1>3. (a * 4 + c) * 64 + d = 256 * a + z
    BY <1>1
<1>4. (256 * a + z) % 256 = z
    BY <1>1
<1>5. QED  BY <1>2, <1>3, <1>4 DEF Third

\* The sextets buf holds, from place 4m on, give bytes 3m + 1 and so on.
LEMMA Groups ==
    ASSUME NEW g \in Seq(Bytes), NEW m \in Nat, NEW b \in Seq(Sextets64),
           \A n \in 1..Len(b) : b[n] = Sextet(g, 4 * m + n - 1)
    PROVE  /\ Len(b) >= 2 => First(b) = Byte(g, 3 * m + 1)
           /\ Len(b) >= 3 => Second(b) = Byte(g, 3 * m + 2)
           /\ Len(b) >= 4 => Third(b) = Byte(g, 3 * m + 3)
<1> DEFINE x == Byte(g, 3 * m + 1)
           y == Byte(g, 3 * m + 2)
           z == Byte(g, 3 * m + 3)
<1>1. /\ x \in 0..255 /\ y \in 0..255 /\ z \in 0..255
      /\ Sextet(g, 4 * m) = x \div 4
      /\ Sextet(g, 4 * m + 1) = Middle(x, y)
      /\ Sextet(g, 4 * m + 2) = Lower(y, z)
      /\ Sextet(g, 4 * m + 3) = z % 64
    BY Sextets DEF Bytes, Middle, Lower
<1>2. Len(b) \in Nat
    OBVIOUS
<1>3. /\ Len(b) >= 1 => b[1] = Sextet(g, 4 * m)
      /\ Len(b) >= 2 => b[2] = Sextet(g, 4 * m + 1)
      /\ Len(b) >= 3 => b[3] = Sextet(g, 4 * m + 2)
      /\ Len(b) >= 4 => b[4] = Sextet(g, 4 * m + 3)
  <2>1. /\ 4 * m + 1 - 1 = 4 * m /\ 4 * m + 2 - 1 = 4 * m + 1
        /\ 4 * m + 3 - 1 = 4 * m + 2 /\ 4 * m + 4 - 1 = 4 * m + 3
      OBVIOUS
  <2>2. Len(b) >= 1 => b[1] = Sextet(g, 4 * m + 1 - 1)
      BY <1>2
  <2>3. Len(b) >= 2 => b[2] = Sextet(g, 4 * m + 2 - 1)
      BY <1>2
  <2>4. Len(b) >= 3 => b[3] = Sextet(g, 4 * m + 3 - 1)
      BY <1>2
  <2>5. Len(b) >= 4 => b[4] = Sextet(g, 4 * m + 4 - 1)
      BY <1>2
  <2>6. QED  BY <2>1, <2>2, <2>3, <2>4, <2>5
<1> HIDE DEF x, y, z
<1>4. x \in 0..255 /\ y \in 0..255 /\ z \in 0..255
    BY <1>1
<1>5. Len(b) >= 2 => First(b) = x
  <2>1. Len(b) >= 2 => b[1] = x \div 4 /\ b[2] = Middle(x, y)
      BY <1>1, <1>2, <1>3
  <2>2. QED  BY <1>4, <2>1, FirstByte
<1>6. ASSUME Len(b) >= 3
      PROVE  Second(b) = y
  <2>1. b[2] = Middle(x, y)
      BY <1>1, <1>2, <1>3, <1>6
  <2>2. b[3] = Lower(y, z)
      BY <1>1, <1>2, <1>3, <1>6
  <2>3. QED  BY <1>4, <2>1, <2>2, SecondByte
<1>7. ASSUME Len(b) >= 4
      PROVE  Third(b) = z
  <2>1. b[3] = Lower(y, z)
      BY <1>1, <1>2, <1>3, <1>7
  <2>2. b[4] = z % 64
      BY <1>1, <1>2, <1>3, <1>7
  <2>3. QED  BY <1>4, <2>1, <2>2, ThirdByte
<1>8. QED  BY <1>5, <1>6, <1>7 DEF x, y, z

-----------------------------------------------------------------------------
(* The decoder's loop, for the request that follows from given bytes g with *)
(* r after them.                                                           *)

Count(g) == (4 * Len(g) + 2) \div 3
Whole(g, r) == Encoded(g) \o r

LEMMA Joined ==
    ASSUME NEW S, NEW u \in Seq(S), NEW v \in Seq(S)
    PROVE  /\ u \o v \in Seq(S) /\ Len(u) \in Nat /\ Len(v) \in Nat /\ Len(u \o v) = Len(u) + Len(v)
           /\ \A n \in 1..Len(u) : (u \o v)[n] = u[n]
           /\ \A n \in 1..Len(v) : (u \o v)[Len(u) + n] = v[n]
  OBVIOUS

\* What Delimited says of the request.
Ends(g, r) == (Len(g) % 3 # 0) \/ (\A n \in DOMAIN r : r[n] \in {Skipped, Pad})

LEMMA WholeIs ==
    ASSUME NEW g \in Seq(Bytes), NEW r \in Seq(Codes)
    PROVE  /\ Whole(g, r) \in Seq(Codes) /\ Count(g) \in Nat /\ Len(Whole(g, r)) >= Count(g)
           /\ \A n \in 1..Count(g) : Whole(g, r)[n] = Sextet(g, n - 1)
           /\ (Len(g) % 3 # 0) => /\ Len(Whole(g, r)) > Count(g)
                                  /\ Whole(g, r)[Count(g) + 1] = Pad
           /\ (Len(g) % 3 = 0) =>
                 \A n \in (Count(g) + 1)..Len(Whole(g, r)) :
                   Whole(g, r)[n] = r[n - Count(g)] /\ n - Count(g) \in DOMAIN r
<1> DEFINE L == Len(g)
           C == Count(g)
           P == (3 - (L % 3)) % 3
           a == [n \in 1..C |-> Sextet(g, n - 1)]
           b == Padding(g)
           e == a \o b
<1>1. L \in Nat
    OBVIOUS
<1>2. C \in Nat /\ P \in 0..2 /\ ((L % 3 # 0) => P >= 1) /\ ((L % 3 = 0) => P = 0)
    BY <1>1 DEF Count
<1>3. Whole(g, r) = e \o r
    BY DEF Whole, Encoded, Count
<1>4. b = [n \in 1..P |-> Pad]
    BY DEF Padding
<1> HIDE DEF L, C, P, b
<1>5. \A n \in 1..C : Sextet(g, n - 1) \in Codes
  <2>1. ASSUME NEW n \in 1..C
        PROVE  Sextet(g, n - 1) \in Codes
    <3>1. n - 1 \in Nat
        BY <1>2
    <3>2. Sextet(g, n - 1) \in 0..63
        BY <3>1, SextetRange
    <3>3. QED  BY <3>2 DEF Codes, Pad
  <2>2. QED  BY <2>1
<1>6. a \in Seq(Codes) /\ Len(a) = C /\ \A n \in 1..C : a[n] = Sextet(g, n - 1)
    BY <1>2, <1>5
<1>7. b \in Seq(Codes) /\ Len(b) = P /\ \A n \in 1..P : b[n] = Pad
    BY <1>2, <1>4 DEF Codes, Pad
<1> HIDE DEF a
<1>8. /\ e \in Seq(Codes) /\ Len(e) = C + P
      /\ \A n \in 1..C : e[n] = a[n]
      /\ \A n \in (C + 1)..(C + P) : e[n] = b[n - C]
    BY <1>2, <1>6, <1>7
<1> HIDE DEF e
<1> DEFINE w == e \o r
<1>9. /\ w \in Seq(Codes) /\ Len(w) = C + P + Len(r) /\ Len(r) \in Nat
      /\ \A n \in 1..(C + P) : w[n] = e[n]
      /\ \A n \in (C + P + 1)..Len(w) : w[n] = r[n - (C + P)]
  <2>1. Len(r) \in Nat /\ Len(e) \in Nat /\ Len(e) = C + P /\ C + P \in Nat
      BY <1>2, <1>8
  <2> HIDE DEF w
  <2>2. /\ w \in Seq(Codes) /\ Len(w) = Len(e) + Len(r)
        /\ \A n \in 1..Len(e) : w[n] = e[n]
        /\ \A n \in 1..Len(r) : w[Len(e) + n] = r[n]
    <3>1. e \in Seq(Codes) /\ r \in Seq(Codes)
        BY <1>8
    <3>2. QED  BY <3>1, Joined DEF w
  <2>3. ASSUME NEW n \in (Len(e) + 1)..(Len(e) + Len(r))
        PROVE  w[n] = r[n - Len(e)]
    <3>1. n - Len(e) \in 1..Len(r) /\ Len(e) + (n - Len(e)) = n
        BY <2>1
    <3>2. QED  BY <2>2, <3>1
  <2>4. \A n \in (Len(e) + 1)..(Len(e) + Len(r)) : w[n] = r[n - Len(e)]
      BY <2>3
  <2>5. QED  BY <2>1, <2>2, <2>3, <2>4
<1> HIDE DEF w
<1>10. Len(w) >= C /\ \A n \in 1..C : w[n] = Sextet(g, n - 1)
    BY <1>2, <1>6, <1>8, <1>9
<1>11. ASSUME L % 3 # 0
       PROVE  Len(w) > C /\ w[C + 1] = Pad
  <2>1. P >= 1 /\ C + 1 \in 1..(C + P) /\ C + 1 \in (C + 1)..(C + P) /\ C + 1 - C = 1 /\ 1 \in 1..P
      BY <1>2, <1>11
  <2>2. w[C + 1] = e[C + 1]
      BY <1>9, <2>1
  <2>3. e[C + 1] = b[C + 1 - C]
      BY <1>2, <1>8, <2>1
  <2>4. QED  BY <1>2, <1>7, <1>9, <2>1, <2>2, <2>3
<1>12. ASSUME L % 3 = 0, NEW n \in (C + 1)..Len(w)
       PROVE  w[n] = r[n - C] /\ n - C \in DOMAIN r
  <2>1. P = 0
      BY <1>2, <1>12
  <2>2. QED  BY <1>2, <1>9, <2>1
<1>13. QED  BY <1>2, <1>3, <1>9, <1>10, <1>11, <1>12 DEF w, C, L

CredTypes ==
    /\ dpc \in {"idle", "decode", "done", "failed"}
    /\ input \in Seq(Codes) /\ buf \in Seq(Sextets64) /\ output \in Seq(Bytes)
    /\ Len(output) < OutputSize
    /\ (dpc = "decode") => Len(buf) < 4

\* t characters are consumed and 3m bytes written, the sextets since are in buf.
\* Only characters to be skipped can follow the last sextet.
Progress(g, r, t, m) ==
    /\ t <= Len(Whole(g, r)) /\ Len(input) = Len(Whole(g, r)) - t
    /\ \A n \in 1..Len(input) : input[n] = Whole(g, r)[n + t]
    /\ (t > Count(g)) => (Len(g) % 3 = 0)
    /\ 4 * m + Len(buf) = IF t <= Count(g) THEN t ELSE Count(g)
    /\ \A n \in 1..Len(buf) : buf[n] = Sextet(g, 4 * m + n - 1)
    /\ Len(output) = 3 * m /\ 3 * m <= Len(g)
    /\ \A n \in 1..Len(output) : output[n] = g[n]

DecoderStep == SkipCharacter \/ TakeSextet \/ DecodeEnds

LEMMA ByteRange ==
    ASSUME NEW b \in Seq(Sextets64)
    PROVE  /\ Len(b) >= 2 => First(b) \in Bytes
           /\ Len(b) >= 3 => Second(b) \in Bytes
           /\ Len(b) >= 4 => Third(b) \in Bytes
<1>1. Len(b) \in Nat /\ \A n \in 1..Len(b) : b[n] \in Sextets64
    OBVIOUS
<1>2. \A n \in 1..Len(b) : b[n] \in Nat /\ b[n] \div 4 \in Nat /\ b[n] \div 16 \in Nat
  <2>1. \A v \in 0..63 : v \in Nat /\ v \div 4 \in Nat /\ v \div 16 \in Nat
      OBVIOUS
  <2>2. QED  BY <1>1, <2>1 DEF Sextets64
<1>3. \A n \in Nat : n % 256 \in Bytes
    BY DEF Bytes
<1>4. ASSUME Len(b) >= 2
      PROVE  First(b) \in Bytes
  <2>1. b[1] \in Nat /\ b[2] \div 16 \in Nat
      BY <1>1, <1>2, <1>4
  <2>2. b[1] * 4 + b[2] \div 16 \in Nat
      BY <2>1
  <2>3. QED  BY <1>3, <2>2 DEF First
<1>5. ASSUME Len(b) >= 3
      PROVE  Second(b) \in Bytes
  <2>1. b[2] \in Nat /\ b[3] \div 4 \in Nat
      BY <1>1, <1>2, <1>5
  <2>2. b[2] * 16 + b[3] \div 4 \in Nat
      BY <2>1
  <2>3. QED  BY <1>3, <2>2 DEF Second
<1>6. ASSUME Len(b) >= 4
      PROVE  Third(b) \in Bytes
  <2>1. b[3] \in Nat /\ b[4] \in Nat
      BY <1>1, <1>2, <1>6
  <2>2. b[3] * 64 + b[4] \in Nat
      BY <2>1
  <2>3. QED  BY <1>3, <2>2 DEF Third
<1>7. QED  BY <1>4, <1>5, <1>6

LEMMA DecoderTypes ==
    ASSUME CredTypes, DecoderStep
    PROVE  CredTypes' /\ UNCHANGED <<lines, users, lost>> /\ dpc = "decode" /\ dpc' # "idle"
<1>1. Len(output) \in Nat /\ Len(buf) \in Nat /\ OutputSize \in Nat
    BY OutputAssumption DEF CredTypes
<1>2. CASE SkipCharacter
    BY <1>2 DEF SkipCharacter, CredTypes
<1>3. CASE TakeSextet
  <2>1. Head(input) \in Sextets64 /\ input' = Tail(input) /\ input' \in Seq(Codes) /\ dpc = "decode"
    <3>1. input \in Seq(Codes) /\ input # <<>> /\ Head(input) < Skipped /\ input' = Tail(input) /\ dpc = "decode"
        BY <1>3 DEF TakeSextet, CredTypes
    <3>2. Head(input) \in Codes /\ Tail(input) \in Seq(Codes)
        BY <3>1
    <3>3. \A h \in Codes : h < Skipped => h \in Sextets64
        BY DEF Codes, Sextets64, Skipped, Pad
    <3>4. QED  BY <3>1, <3>2, <3>3
  <2> DEFINE b == Append(buf, Head(input))
  <2>2. b \in Seq(Sextets64) /\ Len(b) = Len(buf) + 1
      BY <2>1 DEF CredTypes
  <2>3. (Len(b) = 4) => (First(b) \in Bytes /\ Second(b) \in Bytes /\ Third(b) \in Bytes)
    <3>1. b \in Seq(Sextets64) /\ ((Len(b) = 4) => (Len(b) >= 2 /\ Len(b) >= 3 /\ Len(b) >= 4))
        BY <1>1, <2>2
    <3> HIDE DEF b
    <3>2. QED  BY <3>1, ByteRange
  <2>4. CASE Len(b) < 4
    <3>1. buf' = b /\ UNCHANGED <<dpc, output, lines, users, lost>>
        BY <1>3, <2>4 DEF TakeSextet
    <3>2. QED  BY <2>1, <2>2, <2>4, <3>1 DEF CredTypes
  <2>5. CASE Len(b) >= 4 /\ Full(3)
    <3>1. dpc' = "failed" /\ buf' = b /\ UNCHANGED <<output, lines, users, lost>>
        BY <1>1, <1>3, <2>2, <2>5 DEF TakeSextet
    <3>2. QED  BY <2>1, <2>2, <3>1 DEF CredTypes
  <2>6. CASE Len(b) >= 4 /\ ~Full(3)
    <3>1. /\ buf' = <<>> /\ output' = output \o <<First(b), Second(b), Third(b)>>
          /\ UNCHANGED <<dpc, lines, users, lost>>
      <4>1. ~(Len(b) < 4)
          BY <1>1, <2>2, <2>6
      <4>2. QED  BY <1>3, <2>6, <4>1 DEF TakeSextet
    <3>2. Len(b) = 4
        BY <1>1, <2>1, <2>2, <2>6 DEF CredTypes
    <3> HIDE DEF b
    <3>3. <<First(b), Second(b), Third(b)>> \in Seq(Bytes) /\ Len(<<First(b), Second(b), Third(b)>>) = 3
        BY <2>3, <3>2
    <3>4. output' \in Seq(Bytes) /\ Len(output') = Len(output) + 3
        BY <3>1, <3>3 DEF CredTypes
    <3>5. Len(output') < OutputSize
        BY <1>1, <2>6, <3>4 DEF Full
    <3>6. QED  BY <2>1, <3>1, <3>4, <3>5 DEF CredTypes
  <2>7. QED  BY <1>1, <2>2, <2>4, <2>5, <2>6
<1>4. CASE DecodeEnds
  <2>1. dpc = "decode" /\ UNCHANGED <<lines, users, lost, input, buf>> /\ Len(buf) < 4
      BY <1>4 DEF DecodeEnds, CredTypes
  <2>2. CASE buf # <<>> /\ Full(Len(buf))
    <3>1. dpc' = "failed" /\ UNCHANGED output
        BY <1>4, <2>2 DEF DecodeEnds
    <3>2. QED  BY <2>1, <3>1 DEF CredTypes
  <2>3. CASE ~(buf # <<>> /\ Full(Len(buf)))
    <3>1. dpc' = "done" /\ output' = output \o Remainder(buf)
        BY <1>4, <2>3 DEF DecodeEnds
    <3>2. Len(buf) >= 2 => First(buf) \in Bytes
        BY ByteRange DEF CredTypes
    <3>3. Len(buf) >= 3 => Second(buf) \in Bytes
        BY ByteRange DEF CredTypes
    <3>4. Remainder(buf) \in Seq(Bytes) /\ Len(Remainder(buf)) <= Len(buf)
      <4>1. CASE Len(buf) = 2
          BY <3>2, <4>1 DEF Remainder
      <4>2. CASE Len(buf) = 3
          BY <3>2, <3>3, <4>2 DEF Remainder
      <4>3. CASE Len(buf) \notin {2, 3}
          BY <1>1, <4>3 DEF Remainder
      <4>4. QED  BY <4>1, <4>2, <4>3
    <3>5. output' \in Seq(Bytes) /\ Len(output') = Len(output) + Len(Remainder(buf)) /\ Len(Remainder(buf)) \in Nat
        BY <3>1, <3>4 DEF CredTypes
    <3>6. Len(output') < OutputSize
      <4>1. CASE buf = <<>>
          BY <1>1, <3>4, <3>5, <4>1 DEF CredTypes
      <4>2. CASE ~Full(Len(buf))
          BY <1>1, <3>4, <3>5, <4>2 DEF Full
      <4>3. QED  BY <2>3, <4>1, <4>2
    <3>7. QED  BY <2>1, <3>1, <3>5, <3>6 DEF CredTypes
  <2>4. QED  BY <2>2, <2>3
<1>5. QED  BY <1>2, <1>3, <1>4 DEF DecoderStep

\* The character that is read next.
LEMMA NextCharacter ==
    ASSUME CredTypes, NEW g \in Seq(Bytes), NEW r \in Seq(Codes), Ends(g, r),
           NEW t \in Nat, NEW m \in Nat, Progress(g, r, t, m)
    PROVE  /\ Count(g) \in Nat
           /\ (t < Count(g)) => (input # <<>> /\ Head(input) = Sextet(g, t) /\ Head(input) \in 0..63)
           /\ (t >= Count(g) /\ input # <<>>) => Head(input) \in {Skipped, Pad}
           /\ (t >= Count(g) /\ input # <<>> /\ Head(input) = Skipped) => Len(g) % 3 = 0
           /\ (input # <<>>) =>
                 /\ t + 1 <= Len(Whole(g, r)) /\ Len(Tail(input)) = Len(Whole(g, r)) - (t + 1)
                 /\ \A n \in 1..Len(Tail(input)) : Tail(input)[n] = Whole(g, r)[n + (t + 1)]
<1> DEFINE w == Whole(g, r)
           C == Count(g)
<1>1. /\ w \in Seq(Codes) /\ C \in Nat /\ Len(w) \in Nat /\ Len(w) >= C
      /\ \A n \in 1..C : w[n] = Sextet(g, n - 1)
      /\ (Len(g) % 3 # 0) => (Len(w) > C /\ w[C + 1] = Pad)
      /\ (Len(g) % 3 = 0) => \A n \in (C + 1)..Len(w) : w[n] = r[n - C] /\ n - C \in DOMAIN r
  <2>1. /\ w \in Seq(Codes) /\ C \in Nat /\ Len(w) >= C
        /\ \A n \in 1..C : w[n] = Sextet(g, n - 1)
        /\ (Len(g) % 3 # 0) => (Len(w) > C /\ w[C + 1] = Pad)
        /\ (Len(g) % 3 = 0) => \A n \in (C + 1)..Len(w) : w[n] = r[n - C] /\ n - C \in DOMAIN r
      BY WholeIs
  <2> HIDE DEF w, C
  <2>2. Len(w) \in Nat
      BY <2>1
  <2>3. QED  BY <2>1, <2>2
<1>2. /\ t <= Len(w) /\ Len(input) = Len(w) - t
      /\ \A n \in 1..Len(input) : input[n] = w[n + t]
      /\ (t > C) => (Len(g) % 3 = 0)
    BY DEF Progress
<1>3. input \in Seq(Codes) /\ Len(input) \in Nat
    BY DEF CredTypes
<1> HIDE DEF w, C
<1>4. ASSUME input # <<>>
      PROVE  /\ t + 1 <= Len(w) /\ Head(input) = w[t + 1] /\ Len(Tail(input)) = Len(w) - (t + 1)
             /\ \A n \in 1..Len(Tail(input)) : Tail(input)[n] = w[n + (t + 1)]
  <2>1. Len(input) >= 1 /\ Head(input) = input[1] /\ Len(Tail(input)) = Len(input) - 1
        /\ \A n \in 1..Len(Tail(input)) : Tail(input)[n] = input[n + 1]
      BY <1>3, <1>4
  <2>2. t + 1 <= Len(w) /\ input[1] = w[1 + t] /\ 1 + t = t + 1
      BY <1>1, <1>2, <2>1
  <2>3. ASSUME NEW n \in 1..Len(Tail(input))
        PROVE  Tail(input)[n] = w[n + (t + 1)]
    <3>1. n + 1 \in 1..Len(input) /\ n + 1 + t = n + (t + 1)
        BY <1>3, <2>1
    <3>2. QED  BY <1>2, <2>1, <3>1
  <2>4. QED  BY <1>1, <1>2, <2>1, <2>2, <2>3
<1>5. ASSUME t < C
      PROVE  input # <<>> /\ Head(input) = Sextet(g, t) /\ Head(input) \in 0..63
  <2>1. Len(input) > 0
      BY <1>1, <1>2, <1>5
  <2>2. input # <<>>
      BY <1>3, <2>1
  <2>3. t + 1 \in 1..C /\ t + 1 - 1 = t
      BY <1>1, <1>5
  <2>4. w[t + 1] = Sextet(g, t)
      BY <1>1, <2>3
  <2>5. QED  BY <1>4, <2>2, <2>4, SextetRange
<1>6. ASSUME t >= C, input # <<>>
      PROVE  Head(input) \in {Skipped, Pad} /\ (Head(input) = Skipped => Len(g) % 3 = 0)
  <2>1. CASE Len(g) % 3 # 0
    <3>1. t = C
        BY <1>1, <1>2, <1>6, <2>1
    <3>2. Head(input) = Pad
        BY <1>1, <1>4, <1>6, <2>1, <3>1
    <3>3. QED  BY <3>2 DEF Pad, Skipped
  <2>2. CASE Len(g) % 3 = 0
    <3>1. t + 1 \in (C + 1)..Len(w) /\ Head(input) = w[t + 1]
        BY <1>1, <1>4, <1>6
    <3>2. w[t + 1] = r[t + 1 - C] /\ t + 1 - C \in DOMAIN r
        BY <1>1, <2>2, <3>1
    <3>3. QED  BY <2>2, <3>1, <3>2 DEF Ends
  <2>3. QED  BY <2>1, <2>2
<1>7. QED  BY <1>1, <1>4, <1>5, <1>6 DEF w, C

LEMMA SkipProgress ==
    ASSUME CredTypes, NEW g \in Seq(Bytes), NEW r \in Seq(Codes), Ends(g, r),
           NEW t \in Nat, NEW m \in Nat, Progress(g, r, t, m), SkipCharacter
    PROVE  Progress(g, r, t + 1, m)'
<1>1. input # <<>> /\ Head(input) = Skipped /\ input' = Tail(input) /\ UNCHANGED <<buf, output>>
    BY DEF SkipCharacter
<1>2. Count(g) \in Nat /\ t >= Count(g) /\ Len(g) % 3 = 0
  <2>1. /\ Count(g) \in Nat
        /\ (t < Count(g)) => Head(input) \in 0..63
        /\ (t >= Count(g)) => Len(g) % 3 = 0
      BY <1>1, NextCharacter
  <2>2. Skipped \notin 0..63
      BY DEF Skipped
  <2>3. ~(t < Count(g))
      BY <1>1, <2>1, <2>2
  <2>4. t >= Count(g)
      BY <2>1, <2>3
  <2>5. QED  BY <2>1, <2>4
<1>3. /\ t + 1 <= Len(Whole(g, r)) /\ Len(input') = Len(Whole(g, r)) - (t + 1)
      /\ \A n \in 1..Len(input') : input'[n] = Whole(g, r)[n + (t + 1)]
    BY <1>1, NextCharacter
<1>4. 4 * m + Len(buf) = Count(g)
    BY <1>2 DEF Progress
<1>5. 4 * m + Len(buf') = IF t + 1 <= Count(g) THEN t + 1 ELSE Count(g)
    BY <1>1, <1>2, <1>4
<1>6. QED  BY <1>1, <1>2, <1>3, <1>5 DEF Progress

\* What l sextets after 4m others say of the number of bytes.
Fits(g, m, l) ==
    /\ (4 * m + l < Count(g) /\ l = 3) => 3 * m + 3 <= Len(g)
    /\ (4 * m + l = Count(g)) =>
          /\ l # 1
          /\ (l = 0) => Len(g) = 3 * m
          /\ (l # 0) => Len(g) = 3 * m + l - 1

LEMMA CountIs ==
    ASSUME NEW g \in Seq(Bytes), NEW m \in Nat, NEW l \in 0..3
    PROVE  Fits(g, m, l)
<1> DEFINE L == Len(g)
<1>1. L \in Nat /\ Count(g) = (4 * L + 2) \div 3
    BY DEF Count
<1> HIDE DEF L
<1>2. PICK q \in Nat : L = 3 * q \/ L = 3 * q + 1 \/ L = 3 * q + 2
  <2>1. L \div 3 \in Nat /\ (L = 3 * (L \div 3) \/ L = 3 * (L \div 3) + 1 \/ L = 3 * (L \div 3) + 2)
      BY <1>1
  <2>2. QED  BY <2>1
<1>3. CASE L = 3 * q
  <2>1. Count(g) = 4 * q
      BY <1>1, <1>3
  <2>2. QED  BY <1>3, <2>1 DEF Fits, L
<1>4. CASE L = 3 * q + 1
  <2>1. Count(g) = 4 * q + 2
      BY <1>1, <1>4
  <2>2. QED  BY <1>4, <2>1 DEF Fits, L
<1>5. CASE L = 3 * q + 2
  <2>1. Count(g) = 4 * q + 3
      BY <1>1, <1>5
  <2>2. QED  BY <1>5, <2>1 DEF Fits, L
<1>6. QED  BY <1>2, <1>3, <1>4, <1>5

LEMMA Few == \A l \in Nat : l < 4 => l \in 0..3
  OBVIOUS

LEMMA TakeProgress ==
    ASSUME CredTypes, NEW g \in Seq(Bytes), NEW r \in Seq(Codes), Ends(g, r),
           NEW t \in Nat, NEW m \in Nat, Progress(g, r, t, m), TakeSextet
    PROVE  \/ Progress(g, r, t + 1, m)' /\ dpc' = dpc
           \/ Progress(g, r, t + 1, m + 1)' /\ dpc' = dpc
           \/ dpc' = "failed" /\ Len(g) >= OutputSize
<1>1. /\ dpc = "decode" /\ input # <<>> /\ Head(input) < Skipped /\ input' = Tail(input)
      /\ buf \in Seq(Sextets64) /\ Len(buf) \in 0..3 /\ output \in Seq(Bytes) /\ Len(output) \in Nat
      /\ OutputSize \in Nat /\ Len(g) \in Nat
  <2>1. buf \in Seq(Sextets64) /\ Len(buf) < 4 /\ Len(buf) \in Nat
      BY DEF TakeSextet, CredTypes
  <2>2. Len(buf) \in 0..3
      BY <2>1, Few
  <2>3. output \in Seq(Bytes) /\ Len(output) \in Nat /\ OutputSize \in Nat /\ Len(g) \in Nat
      BY OutputAssumption DEF CredTypes
  <2>4. QED  BY <2>1, <2>2, <2>3 DEF TakeSextet
<1>2. Count(g) \in Nat /\ t < Count(g) /\ Head(input) = Sextet(g, t)
  <2>1. /\ Count(g) \in Nat
        /\ (t >= Count(g)) => Head(input) \in {Skipped, Pad}
        /\ (t < Count(g)) => Head(input) = Sextet(g, t)
      BY <1>1, NextCharacter
  <2>2. \A h \in {Skipped, Pad} : ~(h < Skipped)
      BY DEF Skipped, Pad
  <2>3. QED  BY <1>1, <2>1, <2>2
<1>3. /\ t + 1 <= Len(Whole(g, r)) /\ Len(input') = Len(Whole(g, r)) - (t + 1)
      /\ \A n \in 1..Len(input') : input'[n] = Whole(g, r)[n + (t + 1)]
    BY <1>1, NextCharacter
<1>4. /\ 4 * m + Len(buf) = t
      /\ \A n \in 1..Len(buf) : buf[n] = Sextet(g, 4 * m + n - 1)
      /\ Len(output) = 3 * m /\ 3 * m <= Len(g)
      /\ \A n \in 1..Len(output) : output[n] = g[n]
  <2>1. 4 * m + Len(buf) = IF t <= Count(g) THEN t ELSE Count(g)
      BY DEF Progress
  <2>2. t <= Count(g)
      BY <1>2
  <2>3. /\ \A n \in 1..Len(buf) : buf[n] = Sextet(g, 4 * m + n - 1)
        /\ Len(output) = 3 * m /\ 3 * m <= Len(g)
        /\ \A n \in 1..Len(output) : output[n] = g[n]
      BY Zenon DEF Progress
  <2>4. QED  BY <2>1, <2>2, <2>3
<1> DEFINE b == Append(buf, Head(input))
<1>5. /\ b \in Seq(Sextets64) /\ Len(b) = Len(buf) + 1
      /\ \A n \in 1..Len(b) : b[n] = Sextet(g, 4 * m + n - 1)
  <2>1. Sextet(g, t) \in Sextets64
      BY SextetRange DEF Sextets64
  <2>2. /\ b \in Seq(Sextets64) /\ Len(b) = Len(buf) + 1
        /\ \A n \in 1..Len(buf) : b[n] = buf[n]
        /\ b[Len(buf) + 1] = Sextet(g, t)
      BY <1>1, <1>2, <2>1
  <2>3. 4 * m + (Len(buf) + 1) - 1 = t
      BY <1>1, <1>4
  <2> HIDE DEF b
  <2>4. ASSUME NEW n \in 1..Len(b)
        PROVE  b[n] = Sextet(g, 4 * m + n - 1)
    <3>1. n \in 1..Len(buf) \/ n = Len(buf) + 1
        BY <1>1, <2>2
    <3>2. QED  BY <1>4, <2>2, <2>3, <3>1
  <2>5. QED  BY <2>2, <2>4
<1>6. CASE Len(b) < 4
  <2>1. buf' = b /\ UNCHANGED <<dpc, output>>
      BY <1>6 DEF TakeSextet
  <2> HIDE DEF b
  <2>2. 4 * m + Len(buf') = IF t + 1 <= Count(g) THEN t + 1 ELSE Count(g)
      BY <1>1, <1>2, <1>4, <1>5, <2>1
  <2>3. ~(t + 1 > Count(g))
      BY <1>2
  <2>4. Progress(g, r, t + 1, m)'
      BY <1>3, <1>4, <1>5, <2>1, <2>2, <2>3 DEF Progress
  <2>5. QED  BY <2>1, <2>4
<1>7. CASE Len(b) >= 4
  <2>1. Len(buf) = 3 /\ Len(b) = 4 /\ ~(Len(b) < 4)
    <3> HIDE DEF b
    <3>1. Len(buf) \in 0..3
        BY <1>1
    <3>2. Len(b) = Len(buf) + 1
        BY <1>5
    <3>3. \A l \in 0..3 : \A k : (k = l + 1 /\ k >= 4) => (l = 3 /\ k = 4 /\ ~(k < 4))
        OBVIOUS
    <3>4. QED  BY <1>7, <3>1, <3>2, <3>3
  <2>2. 3 * m + 3 <= Len(g)
    <3>1. Fits(g, m, Len(buf))
        BY <1>1, CountIs
    <3>2. QED  BY <1>2, <1>4, <2>1, <3>1 DEF Fits
  <2>3. CASE Full(3)
    <3>1. dpc' = "failed"
        BY <2>1, <2>3 DEF TakeSextet
    <3>2. QED  BY <1>1, <1>4, <2>2, <2>3, <3>1 DEF Full
  <2>4. CASE ~Full(3)
    <3>1. buf' = <<>> /\ output' = output \o <<First(b), Second(b), Third(b)>> /\ dpc' = dpc
        BY <2>1, <2>4 DEF TakeSextet
    <3> HIDE DEF b
    <3>2. First(b) = Byte(g, 3 * m + 1) /\ Second(b) = Byte(g, 3 * m + 2) /\ Third(b) = Byte(g, 3 * m + 3)
      <4>1. Len(b) >= 2 /\ Len(b) >= 3 /\ Len(b) >= 4
          BY <2>1
      <4>2. QED  BY <1>5, <4>1, Groups
    <3>3. First(b) = g[3 * m + 1] /\ Second(b) = g[3 * m + 2] /\ Third(b) = g[3 * m + 3]
        BY <1>1, <2>2, <3>2 DEF Byte
    <3>4. /\ Len(output') = 3 * m + 3
          /\ \A n \in 1..Len(output) : output'[n] = output[n]
          /\ output'[3 * m + 1] = First(b) /\ output'[3 * m + 2] = Second(b) /\ output'[3 * m + 3] = Third(b)
      <4> DEFINE v == <<First(b), Second(b), Third(b)>>
      <4>1. First(b) \in Bytes /\ Second(b) \in Bytes /\ Third(b) \in Bytes
        <5>1. Len(b) >= 2 /\ Len(b) >= 3 /\ Len(b) >= 4
            BY <2>1
        <5>2. b \in Seq(Sextets64)
            BY <1>5
        <5>3. QED  BY <5>1, <5>2, ByteRange
      <4>2. v \in Seq(Bytes) /\ Len(v) = 3 /\ v[1] = First(b) /\ v[2] = Second(b) /\ v[3] = Third(b)
          BY <4>1
      <4> HIDE DEF v
      <4>3. /\ Len(output \o v) = Len(output) + 3
            /\ \A n \in 1..Len(output) : (output \o v)[n] = output[n]
            /\ (output \o v)[Len(output) + 1] = v[1]
            /\ (output \o v)[Len(output) + 2] = v[2]
            /\ (output \o v)[Len(output) + 3] = v[3]
        <5>1. output \in Seq(Bytes) /\ v \in Seq(Bytes)
            BY <1>1, <4>2
        <5>2. /\ Len(output \o v) = Len(output) + Len(v)
              /\ \A n \in 1..Len(output) : (output \o v)[n] = output[n]
              /\ \A n \in 1..Len(v) : (output \o v)[Len(output) + n] = v[n]
            BY <5>1, Joined
        <5>3. 1 \in 1..Len(v) /\ 2 \in 1..Len(v) /\ 3 \in 1..Len(v)
            BY <4>2
        <5>4. QED  BY <4>2, <5>2, <5>3
      <4>4. output' = output \o v
          BY <3>1 DEF v
      <4>5. QED  BY <1>4, <4>2, <4>3, <4>4
    <3>5. \A n \in 1..Len(output') : output'[n] = g[n]
      <4>1. ASSUME NEW n \in 1..Len(output')
            PROVE  n \in 1..Len(output) \/ n = 3 * m + 1 \/ n = 3 * m + 2 \/ n = 3 * m + 3
        <5> DEFINE l == Len(output)
                   k == Len(output')
        <5>1. k = l + 3 /\ l \in Nat /\ 3 * m = l
            BY <1>1, <1>4, <3>4
        <5>2. n \in 1..k
            BY <4>1
        <5> HIDE DEF l, k
        <5>3. n \in 1..l \/ n = l + 1 \/ n = l + 2 \/ n = l + 3
            BY <5>1, <5>2
        <5>4. QED  BY <5>1, <5>3 DEF l
      <4>2. QED  BY <1>4, <3>3, <3>4, <4>1
    <3>6. 4 * (m + 1) + Len(buf') = t + 1 /\ t + 1 <= Count(g) /\ Len(output') = 3 * (m + 1) /\ 3 * (m + 1) <= Len(g)
          /\ ~(t + 1 > Count(g)) /\ 1..Len(buf') = {}
        BY <1>1, <1>2, <1>4, <2>1, <2>2, <3>1, <3>4, SMTT(40)
    <3>7. Progress(g, r, t + 1, m + 1)'
        BY <1>3, <3>5, <3>6 DEF Progress
    <3>8. QED  BY <3>1, <3>7
  <2>5. QED  BY <2>3, <2>4
<1>8. QED  BY <1>1, <1>5, <1>6, <1>7

LEMMA SameSequence ==
    ASSUME NEW S, NEW u \in Seq(S), NEW v \in Seq(S), Len(u) = Len(v),
           \A n \in 1..Len(u) : u[n] = v[n]
    PROVE  u = v
  OBVIOUS

LEMMA EndProgress ==
    ASSUME CredTypes, NEW g \in Seq(Bytes), NEW r \in Seq(Codes), Ends(g, r),
           NEW t \in Nat, NEW m \in Nat, Progress(g, r, t, m), DecodeEnds
    PROVE  \/ dpc' = "done" /\ output' = g
           \/ dpc' = "failed" /\ Len(g) >= OutputSize - 1
<1>1. /\ dpc = "decode" /\ (IF input = <<>> THEN TRUE ELSE Head(input) = Pad)
      /\ buf \in Seq(Sextets64) /\ output \in Seq(Bytes)
      /\ Len(buf) \in Nat /\ Len(buf) < 4 /\ Len(output) \in Nat
      /\ OutputSize \in Nat /\ Len(g) \in Nat
    BY OutputAssumption DEF DecodeEnds, CredTypes
<1>2. Len(buf) \in 0..3
    BY <1>1, Few
<1>3. Count(g) \in Nat /\ t >= Count(g)
  <2>1. /\ Count(g) \in Nat
        /\ (t < Count(g)) => (input # <<>> /\ Head(input) \in 0..63)
      BY NextCharacter
  <2>2. Pad \notin 0..63
      BY DEF Pad
  <2>3. ~(t < Count(g))
      BY <1>1, <2>1, <2>2
  <2>4. QED  BY <2>1, <2>3
<1>4. /\ 4 * m + Len(buf) = IF t <= Count(g) THEN t ELSE Count(g)
      /\ \A n \in 1..Len(buf) : buf[n] = Sextet(g, 4 * m + n - 1)
      /\ Len(output) = 3 * m
      /\ \A n \in 1..Len(output) : output[n] = g[n]
    BY DEF Progress
<1>5. 4 * m + Len(buf) = Count(g)
    BY <1>3, <1>4
<1>6. /\ Len(buf) # 1
      /\ (Len(buf) = 0) => Len(g) = 3 * m
      /\ (Len(buf) # 0) => Len(g) = 3 * m + Len(buf) - 1
  <2>1. Fits(g, m, Len(buf))
      BY <1>2, CountIs
  <2>2. QED  BY <1>5, <2>1 DEF Fits
<1>7. CASE buf # <<>> /\ Full(Len(buf))
  <2>1. dpc' = "failed"
      BY <1>7 DEF DecodeEnds
  <2>2. Len(buf) # 0
      BY <1>1, <1>7
  <2>3. Len(output) + Len(buf) >= OutputSize
      BY <1>7 DEF Full
  <2>4. Len(g) = Len(output) + Len(buf) - 1
      BY <1>4, <1>6, <2>2
  <2>5. QED  BY <1>1, <2>1, <2>3, <2>4
<1>8. CASE ~(buf # <<>> /\ Full(Len(buf)))
  <2>1. dpc' = "done" /\ output' = output \o Remainder(buf)
      BY <1>8 DEF DecodeEnds
  <2> DEFINE v == Remainder(buf)
  <2>2. /\ v \in Seq(Bytes) /\ Len(v) = Len(g) - 3 * m
        /\ \A n \in 1..Len(v) : v[n] = g[3 * m + n]
    <3>1. CASE Len(buf) = 0
      <4>1. v = <<>>
          BY <3>1 DEF Remainder
      <4>2. Len(g) = 3 * m
          BY <1>6, <3>1
      <4> HIDE DEF v
      <4>3. QED  BY <4>1, <4>2
    <3>2. CASE Len(buf) = 2
      <4>1. v = <<First(buf)>>
          BY <3>2 DEF Remainder
      <4>2. Len(buf) >= 2
          BY <3>2
      <4>3. First(buf) \in Bytes /\ First(buf) = Byte(g, 3 * m + 1)
          BY <1>1, <1>4, <4>2, ByteRange, Groups
      <4>4. Len(g) = 3 * m + 1
          BY <1>6, <3>2
      <4>5. First(buf) = g[3 * m + 1]
          BY <4>3, <4>4 DEF Byte
      <4> HIDE DEF v
      <4>6. v \in Seq(Bytes) /\ Len(v) = 1 /\ v[1] = First(buf)
          BY <4>1, <4>3
      <4>7. QED  BY <4>4, <4>5, <4>6
    <3>3. CASE Len(buf) = 3
      <4>1. v = <<First(buf), Second(buf)>>
          BY <3>3 DEF Remainder
      <4>2. Len(buf) >= 2 /\ Len(buf) >= 3
          BY <3>3
      <4>3. First(buf) \in Bytes /\ First(buf) = Byte(g, 3 * m + 1)
          BY <1>1, <1>4, <4>2, ByteRange, Groups
      <4>4. Second(buf) \in Bytes /\ Second(buf) = Byte(g, 3 * m + 2)
          BY <1>1, <1>4, <4>2, ByteRange, Groups
      <4>5. Len(g) = 3 * m + 2
          BY <1>6, <3>3
      <4>6. First(buf) = g[3 * m + 1] /\ Second(buf) = g[3 * m + 2]
          BY <4>3, <4>4, <4>5 DEF Byte
      <4> HIDE DEF v
      <4>7. v \in Seq(Bytes) /\ Len(v) = 2 /\ v[1] = First(buf) /\ v[2] = Second(buf)
          BY <4>1, <4>3, <4>4
      <4>8. ASSUME NEW n \in 1..2
            PROVE  n = 1 \/ n = 2
          OBVIOUS
      <4>9. QED  BY <4>5, <4>6, <4>7, <4>8
    <3>4. QED  BY <1>2, <1>6, <3>1, <3>2, <3>3
  <2> HIDE DEF v
  <2> DEFINE o == output \o v
  <2>3. /\ o \in Seq(Bytes) /\ Len(v) \in Nat /\ Len(o) = Len(output) + Len(v)
        /\ \A n \in 1..Len(output) : o[n] = output[n]
        /\ \A n \in 1..Len(v) : o[Len(output) + n] = v[n]
    <3>1. output \in Seq(Bytes) /\ v \in Seq(Bytes)
        BY <1>1, <2>2
    <3>2. QED  BY <3>1, Joined
  <2> HIDE DEF o
  <2>4. Len(o) = Len(g)
      BY <1>1, <1>4, <2>2, <2>3
  <2>5. ASSUME NEW n \in 1..Len(o)
        PROVE  o[n] = g[n]
    <3>1. n \in 1..Len(output) \/ (n - Len(output) \in 1..Len(v) /\ Len(output) + (n - Len(output)) = n)
        BY <1>1, <2>3
    <3>2. CASE n \in 1..Len(output)
        BY <1>4, <2>3, <3>2
    <3>3. CASE n - Len(output) \in 1..Len(v) /\ Len(output) + (n - Len(output)) = n
      <4> DEFINE k == n - Len(output)
      <4>1. k \in 1..Len(v) /\ Len(output) + k = n /\ 3 * m + k = n
          BY <1>1, <1>4, <3>3
      <4> HIDE DEF k
      <4>2. o[Len(output) + k] = v[k] /\ v[k] = g[3 * m + k]
          BY <2>2, <2>3, <4>1
      <4>3. QED  BY <4>1, <4>2
    <3>4. QED  BY <3>1, <3>2, <3>3
  <2>6. o = g
      BY <2>3, <2>4, <2>5, SameSequence
  <2>7. output' = o
      BY <2>1 DEF o, v
  <2>8. QED  BY <2>1, <2>6, <2>7
<1>9. QED  BY <1>7, <1>8

-----------------------------------------------------------------------------
(* The users that auth_init has read.                                      *)

Names == {Entry(x) : x \in Seq(Bytes)} \cup {DefaultUser}

Has(u, a) == \E n \in DOMAIN u : u[n] = a
Known(a) == Has(users, a)

\* k lines are read, and the users are those of these lines but for the lost.
Read(k) ==
    /\ k <= Len(case.lines) /\ Len(lines) = Len(case.lines) - k
    /\ \A n \in 1..Len(lines) : lines[n] = case.lines[n + k]
    /\ \A a : a # <<>> => (Known(a) => \E n \in 1..k : Entry(case.lines[n]) = a)
    /\ \A a : a # <<>> => ((\E n \in 1..k : Entry(case.lines[n]) = a) => (Known(a) \/ a \in lost))

LoadInv ==
    /\ users \in Seq(Names)
    /\ (case.lines = NoFile) =>
          \/ lines = NoFile /\ users = <<>>
          \/ lines = <<>> /\ users = <<DefaultUser>>
          \/ lines = <<>> /\ users = <<>> /\ DefaultUser \in lost
    /\ (case.lines # NoFile) => (lines \in Seq(Seq(Bytes)) /\ \E k \in Nat : Read(k))

\* What stands for the lines when there is no file is not a byte.
NoByte == 256

LEMMA NoFileIsNone == NoFile \notin Seq(Seq(Bytes)) /\ NoFile # <<>>
<1>1. Len(NoFile) = 1 /\ NoFile[1] = <<NoByte>>
    BY DEF NoFile, NoByte
<1>2. <<NoByte>> \notin Seq(Bytes)
  <2>1. SUFFICES ASSUME <<NoByte>> \in Seq(Bytes)
                 PROVE  FALSE
      OBVIOUS
  <2>2. <<NoByte>>[1] \in Bytes
      BY <2>1
  <2>3. QED  BY <2>2 DEF Bytes, NoByte
<1>3. NoFile \notin Seq(Seq(Bytes))
    BY <1>1, <1>2
<1>4. QED  BY <1>1, <1>3

LEMMA InFront ==
    ASSUME NEW S, NEW x \in S, NEW u \in Seq(S), NEW a
    PROVE  /\ <<x>> \o u \in Seq(S)
           /\ Has(<<x>> \o u, a) <=> (a = x \/ Has(u, a))
<1> DEFINE v == <<x>> \o u
<1>1. /\ v \in Seq(S) /\ Len(u) \in Nat /\ Len(v) = 1 + Len(u) /\ v[1] = x
      /\ \A n \in 1..Len(u) : v[n + 1] = u[n]
  <2>1. <<x>> \in Seq(S) /\ Len(<<x>>) = 1 /\ <<x>>[1] = x
      OBVIOUS
  <2> DEFINE w == <<x>>
  <2> HIDE DEF w
  <2>2. /\ w \o u \in Seq(S) /\ Len(u) \in Nat /\ Len(w \o u) = Len(w) + Len(u)
        /\ \A n \in 1..Len(w) : (w \o u)[n] = w[n]
        /\ \A n \in 1..Len(u) : (w \o u)[Len(w) + n] = u[n]
    <3>1. w \in Seq(S)
        BY <2>1 DEF w
    <3>2. QED  BY <3>1, Joined
  <2>3. Len(w) = 1 /\ w[1] = x /\ v = w \o u
      BY <2>1 DEF w
  <2>4. QED  BY <2>2, <2>3
<1> HIDE DEF v
<1>2. DOMAIN v = 1..Len(v) /\ DOMAIN u = 1..Len(u)
    BY <1>1
<1>3. ASSUME NEW n \in DOMAIN v, v[n] = a
      PROVE  a = x \/ \E k \in DOMAIN u : u[k] = a
  <2>1. n = 1 \/ (n - 1 \in 1..Len(u) /\ n - 1 + 1 = n)
      BY <1>1, <1>2
  <2>2. CASE n = 1
      BY <1>1, <1>3, <2>2
  <2>3. CASE n - 1 \in 1..Len(u) /\ n - 1 + 1 = n
    <3>1. v[n - 1 + 1] = u[n - 1]
        BY <1>1, <2>3
    <3>2. QED  BY <1>2, <1>3, <2>3, <3>1
  <2>4. QED  BY <2>1, <2>2, <2>3
<1>4. ASSUME a = x
      PROVE  \E n \in DOMAIN v : v[n] = a
  <2>1. 1 \in DOMAIN v
      BY <1>1, <1>2
  <2>2. QED  BY <1>1, <1>4, <2>1
<1>5. ASSUME NEW k \in DOMAIN u, u[k] = a
      PROVE  \E n \in DOMAIN v : v[n] = a
  <2>1. k + 1 \in DOMAIN v /\ v[k + 1] = a
      BY <1>1, <1>2, <1>5
  <2>2. QED  BY <2>1
<1>6. Has(v, a) <=> (a = x \/ Has(u, a))
    BY <1>3, <1>4, <1>5 DEF Has
<1>7. QED  BY <1>1, <1>6 DEF v

LEMMA LoadStep ==
    ASSUME LoadInv, case \in Cases, UNCHANGED case, UseDefault \/ ReadLine
    PROVE  LoadInv'
<1>1. DefaultUser \in Names /\ (case.lines = NoFile \/ case.lines \in Seq(Seq(Bytes)))
    BY CaseAssumption DEF Names
<1>2. CASE UseDefault
  <2>1. /\ lines = NoFile /\ lines' = <<>>
        /\ users' = <<DefaultUser>> \/ (users' = users /\ DefaultUser \in lost')
      BY <1>2 DEF UseDefault, Loses
  <2>2. case.lines = NoFile
      BY <2>1, NoFileIsNone DEF LoadInv
  <2>3. users = <<>> /\ users \in Seq(Names)
    <3>1. lines # <<>>
        BY <2>1, NoFileIsNone
    <3>2. users = <<>>
        BY <2>2, <3>1 DEF LoadInv
    <3>3. users \in Seq(Names)
        BY DEF LoadInv
    <3>4. QED  BY <3>2, <3>3
  <2>4. users' \in Seq(Names)
    <3>1. <<DefaultUser>> \in Seq(Names)
        BY <1>1
    <3>2. QED  BY <2>1, <2>3, <3>1
  <2>5. QED  BY <2>1, <2>2, <2>3, <2>4 DEF LoadInv
<1>3. CASE ReadLine
  <2> DEFINE x == Entry(Head(lines))
  <2>1. /\ lines # NoFile /\ lines # <<>> /\ lines' = Tail(lines)
        /\ \/ users' = (IF x = <<>> THEN users ELSE <<x>> \o users) /\ lost' = lost
           \/ users' = users /\ lost' = lost \cup {x}
      BY <1>3 DEF ReadLine, Loses
  <2>2. case.lines # NoFile /\ lines \in Seq(Seq(Bytes)) /\ users \in Seq(Names)
      BY <2>1 DEF LoadInv
  <2>3. PICK k \in Nat : Read(k)
      BY <2>2 DEF LoadInv
  <2>4. case.lines \in Seq(Seq(Bytes)) /\ Len(case.lines) \in Nat
      BY <1>1, <2>2
  <2>5. /\ Len(lines) \in Nat /\ Len(lines) >= 1 /\ Head(lines) = lines[1] /\ lines' \in Seq(Seq(Bytes))
        /\ Len(lines') = Len(lines) - 1 /\ \A n \in 1..Len(lines') : lines'[n] = lines[n + 1]
        /\ Head(lines) \in Seq(Bytes)
      BY <2>1, <2>2
  <2>6. x \in Names
      BY <2>5 DEF Names
  <2>7. k + 1 \in 1..Len(case.lines) /\ x = Entry(case.lines[k + 1])
    <3>1. lines[1] = case.lines[1 + k] /\ k + 1 \in 1..Len(case.lines) /\ 1 + k = k + 1
        BY <2>3, <2>4, <2>5 DEF Read
    <3>2. QED  BY <2>5, <3>1
  <2> HIDE DEF x
  <2>8. /\ users' \in Seq(Names)
        /\ \A a : a # <<>> => (Known(a)' => (a = x \/ Known(a)))
        /\ \A a : a # <<>> => ((a = x \/ Known(a)) => (Known(a)' \/ a \in lost'))
        /\ lost \subseteq lost'
    <3>1. CASE users' = users /\ (lost' = lost \cup {x} \/ (x = <<>> /\ lost' = lost))
        BY <2>2, <3>1 DEF Known
    <3>2. CASE users' = <<x>> \o users /\ lost' = lost
      <4>1. users' \in Seq(Names)
          BY <2>2, <2>6, <3>2, InFront
      <4>2. ASSUME NEW a
            PROVE  Known(a)' <=> (a = x \/ Known(a))
        <5>1. Has(<<x>> \o users, a) <=> (a = x \/ Has(users, a))
            BY <2>2, <2>6, InFront
        <5>2. QED  BY <3>2, <5>1 DEF Known
      <4>3. QED  BY <3>2, <4>1, <4>2
    <3>3. QED  BY <2>1, <3>1, <3>2
  <2>9. Len(lines') = Len(case.lines) - (k + 1) /\ k + 1 <= Len(case.lines)
      BY <2>3, <2>4, <2>5, <2>7 DEF Read
  <2>10. ASSUME NEW n \in 1..Len(lines')
         PROVE  lines'[n] = case.lines[n + (k + 1)]
    <3>1. n + 1 \in 1..Len(lines) /\ n + 1 + k = n + (k + 1)
        BY <2>5
    <3>2. QED  BY <2>3, <2>5, <3>1 DEF Read
  <2>11. ASSUME NEW a, a # <<>>
         PROVE  /\ Known(a)' => \E n \in 1..(k + 1) : Entry(case.lines[n]) = a
                /\ (\E n \in 1..(k + 1) : Entry(case.lines[n]) = a) => (Known(a)' \/ a \in lost')
    <3>1. \A n : n \in 1..(k + 1) <=> (n \in 1..k \/ n = k + 1)
        OBVIOUS
    <3>2. /\ Known(a) => \E n \in 1..k : Entry(case.lines[n]) = a
          /\ (\E n \in 1..k : Entry(case.lines[n]) = a) => (Known(a) \/ a \in lost)
        BY <2>3, <2>11 DEF Read
    <3>3. (\E n \in 1..(k + 1) : Entry(case.lines[n]) = a)
            <=> (a = x \/ \E n \in 1..k : Entry(case.lines[n]) = a)
        BY <2>7, <3>1
    <3>4. QED  BY <2>8, <2>11, <3>2, <3>3
  <2>12. Read(k + 1)'
      BY <2>9, <2>10, <2>11 DEF Read
  <2>13. QED  BY <2>2, <2>5, <2>8, <2>12 DEF LoadInv
<1>4. QED  BY <1>2, <1>3

\* When the file is read, the users are its accounts but for the lost.
LEMMA LoadedRight ==
    ASSUME LoadInv, case \in Cases, Loaded
    PROVE  /\ <<>> \notin Accounts
           /\ \A a : a # <<>> => (Known(a) => a \in Accounts)
           /\ \A a : a # <<>> => (a \in Accounts => (Known(a) \/ a \in lost))
<1>1. CASE case.lines = NoFile
  <2>1. /\ Accounts = {DefaultUser}
        /\ users = <<DefaultUser>> \/ (users = <<>> /\ DefaultUser \in lost)
      BY <1>1, NoFileIsNone DEF Accounts, LoadInv, Loaded
  <2>2. DefaultUser # <<>>
    <3>1. PICK u, q \in Seq(Bytes) : DefaultUser = <<u, q>>
        BY UserAssumption
    <3>2. Len(<<u, q>>) = 2 /\ Len(<<>>) = 0
        OBVIOUS
    <3>3. QED  BY <3>1, <3>2
  <2>3. \A a : (Known(a) => a = DefaultUser) /\ (a = DefaultUser => (Known(a) \/ a \in lost))
      BY <2>1 DEF Known, Has
  <2>4. QED  BY <2>1, <2>2, <2>3
<1>2. CASE case.lines # NoFile
  <2>1. PICK k \in Nat : Read(k)
      BY <1>2 DEF LoadInv
  <2>2. case.lines \in Seq(Seq(Bytes))
      BY <1>2, CaseAssumption
  <2>3. k = Len(case.lines) /\ DOMAIN case.lines = 1..k
    <3>1. Len(case.lines) \in Nat /\ DOMAIN case.lines = 1..Len(case.lines) /\ Len(lines) = 0
        BY <2>2 DEF Loaded
    <3>2. QED  BY <2>1, <3>1 DEF Read
  <2>4. Accounts = {Entry(case.lines[n]) : n \in 1..k} \ {<<>>}
      BY <1>2, <2>3 DEF Accounts
  <2>5. QED  BY <2>1, <2>4 DEF Read
<1>3. QED  BY <1>1, <1>2

-----------------------------------------------------------------------------
(* Authentication among the checks.                                        *)

\* What the decoder has done so far, or in the end.
DecodedInv ==
    Delimited =>
        /\ (dpc = "decode") => \E t, m \in Nat : Progress(case.given, case.rest, t, m)
        /\ (dpc = "done") => (output = case.given)
        /\ (dpc = "failed") => Len(case.given) >= OutputSize - 1

StageInv ==
    /\ (pc # "start") => Loaded
    /\ (dpc # "idle") => (pc \in {"verify", "url", "admitted", "refused", "crashed"} /\ case.auth)
    /\ (dpc = "decode") => (pc = "verify")
    /\ (pc = "verify") => (dpc # "idle")
    /\ (pc \in {"url", "admitted"} /\ case.auth) => (Verified \/ Overflows)
    /\ (pc = "crashed") => Overflows

\* Why a request is refused.
RefusedInv ==
    (pc = "refused") =>
        \/ ShouldBlock("ip", case.ip) \/ ShouldBlock("url", case.url)
        \/ case.auth /\ (case.given = <<>> \/ dpc = "failed" \/ (dpc = "done" /\ (~Verified \/ Overflows)))

AuthInv == CredTypes /\ LoadInv /\ DecodedInv /\ StageInv /\ RefusedInv

LEMMA GivenTypes ==
    ASSUME case \in Cases
    PROVE  case.given \in Seq(Bytes) /\ case.rest \in Seq(Codes) /\ case.auth \in BOOLEAN
  BY CaseAssumption DEF Codes

LEMMA AuthInit == Init => AuthInv
<1>1. SUFFICES ASSUME Init
               PROVE  AuthInv
    OBVIOUS
<1>2. /\ case \in Cases /\ pc = "start" /\ lines = case.lines /\ users = <<>> /\ lost = {}
      /\ dpc = "idle" /\ input = <<>> /\ buf = <<>> /\ output = <<>>
    BY <1>1 DEF Init, CredInit
<1>3. CredTypes
  <2>1. Len(<<>>) = 0 /\ 0 < OutputSize
      BY OutputAssumption
  <2>2. QED  BY <1>2, <2>1 DEF CredTypes
<1>4. LoadInv
  <2>1. CASE case.lines # NoFile
    <3>1. case.lines \in Seq(Seq(Bytes)) /\ Len(case.lines) \in Nat
        BY <1>2, <2>1, CaseAssumption
    <3>2. \A a : ~Known(a)
        BY <1>2 DEF Known, Has
    <3>3. 1..0 = {} /\ \A n \in 1..Len(lines) : n + 0 = n
        BY <1>2, <3>1
    <3>4. 0 <= Len(case.lines) /\ Len(lines) = Len(case.lines) - 0
        BY <1>2, <3>1
    <3>5. Read(0)
        BY <1>2, <3>2, <3>3, <3>4 DEF Read
    <3>6. QED  BY <1>2, <2>1, <3>1, <3>5 DEF LoadInv
  <2>2. CASE case.lines = NoFile
      BY <1>2, <2>2 DEF LoadInv
  <2>3. QED  BY <2>1, <2>2
<1>5. QED  BY <1>2, <1>3, <1>4 DEF AuthInv, DecodedInv, StageInv, RefusedInv

\* What stays true as long as the decoder and the users stay.
LEMMA Still ==
    ASSUME CredTypes, LoadInv, DecodedInv, UNCHANGED <<credVars, case>>
    PROVE  /\ CredTypes' /\ LoadInv' /\ DecodedInv'
           /\ (Verified' <=> Verified) /\ (Overflows' <=> Overflows) /\ UNCHANGED dpc
           /\ Loaded' <=> Loaded
<1>1. UNCHANGED <<lines, users, lost, dpc, input, buf, output, case>>
    BY DEF credVars
<1>2. CredTypes'
    BY <1>1 DEF CredTypes
<1>3. \A k : Read(k)' <=> Read(k)
    BY <1>1 DEF Read, Known
<1>4. LoadInv'
    BY <1>1, <1>3 DEF LoadInv
<1>5. \A t, m : Progress(case.given, case.rest, t, m)' <=> Progress(case.given, case.rest, t, m)
    BY <1>1 DEF Progress
<1>6. DecodedInv'
    BY <1>1, <1>5 DEF DecodedInv, Delimited
<1>7. (Verified' <=> Verified) /\ (Overflows' <=> Overflows)
    BY <1>1 DEF Verified, Overflows, FitsFields
<1>8. QED  BY <1>1, <1>2, <1>4, <1>6, <1>7 DEF Loaded

\* A step of the decoder.
LEMMA DecodingStep ==
    ASSUME CredTypes, DecodedInv, LoadInv, case \in Cases, UNCHANGED case, DecoderStep
    PROVE  CredTypes' /\ DecodedInv' /\ LoadInv'
<1>1. CredTypes' /\ UNCHANGED <<lines, users, lost>> /\ dpc = "decode" /\ dpc' # "idle"
    BY DecoderTypes
<1>2. LoadInv'
  <2>1. \A k : Read(k)' <=> Read(k)
      BY <1>1 DEF Read, Known
  <2>2. QED  BY <1>1, <2>1 DEF LoadInv
<1>3. ASSUME Delimited
      PROVE  DecodedInv'
  <2> DEFINE g == case.given
             r == case.rest
  <2>1. g \in Seq(Bytes) /\ r \in Seq(Codes) /\ Ends(g, r)
      BY <1>3, GivenTypes DEF Delimited, Ends
  <2>2. PICK t \in Nat, m \in Nat : Progress(g, r, t, m)
      BY <1>1, <1>3 DEF DecodedInv
  <2>3. g' = g /\ r' = r
      OBVIOUS
  <2>4. ASSUME NEW u \in Nat, NEW v \in Nat, Progress(g, r, u, v)', dpc' = "decode"
        PROVE  DecodedInv'
    <3>1. \E i, j \in Nat : Progress(g, r, i, j)'
        BY <2>4
    <3>2. QED  BY <2>4, <3>1 DEF DecodedInv
  <2>5. CASE SkipCharacter
    <3>1. dpc' = "decode"
        BY <2>5 DEF SkipCharacter
    <3> HIDE DEF g, r
    <3>2. Progress(g, r, t + 1, m)'
        BY <2>1, <2>2, <2>3, <2>5, SkipProgress
    <3>3. t + 1 \in Nat
        OBVIOUS
    <3>4. QED  BY <2>4, <3>1, <3>2, <3>3
  <2>6. CASE TakeSextet
    <3>1. \/ Progress(g, r, t + 1, m)' /\ dpc' = "decode"
          \/ Progress(g, r, t + 1, m + 1)' /\ dpc' = "decode"
          \/ dpc' = "failed" /\ Len(g) >= OutputSize
        BY <1>1, <2>1, <2>2, <2>6, TakeProgress
    <3>2. t + 1 \in Nat /\ m + 1 \in Nat
        OBVIOUS
    <3>3. CASE dpc' = "failed" /\ Len(g) >= OutputSize
      <4>1. Len(case.given) >= OutputSize - 1
          BY <2>1, <3>3, OutputAssumption
      <4>2. QED  BY <3>3, <4>1 DEF DecodedInv
    <3>4. QED  BY <2>4, <3>1, <3>2, <3>3
  <2>7. CASE DecodeEnds
    <3>1. \/ dpc' = "done" /\ output' = g
          \/ dpc' = "failed" /\ Len(g) >= OutputSize - 1
        BY <2>1, <2>2, <2>7, EndProgress
    <3>2. QED  BY <3>1 DEF DecodedInv
  <2>8. QED  BY <2>5, <2>6, <2>7 DEF DecoderStep
<1>4. ASSUME ~Delimited
      PROVE  DecodedInv'
    BY <1>4 DEF DecodedInv, Delimited
<1>5. QED  BY <1>1, <1>2, <1>3, <1>4

LEMMA AuthNext ==
    ASSUME PassInv, PassInv', AuthInv, [Next]_vars
    PROVE  AuthInv'
<1>1. /\ CredTypes /\ LoadInv /\ DecodedInv /\ StageInv /\ RefusedInv
      /\ PlaceInv /\ VerdictInv /\ case \in Cases /\ case.auth \in BOOLEAN
    BY GivenTypes DEF AuthInv, PassInv, PlaceInv, FilterInv
<1>2. case' = case /\ lists' = lists
  <2>1. case' = case
      BY DEF Next, Step, Over, vars, AcceptConnection, AddressChecked, ReadHeader, Verify, Refuse, NoAuth, UrlChecked
  <2>2. QED  BY <2>1 DEF PassInv, PlaceInv
<1>3. /\ ShouldBlock("ip", case.ip)' <=> ShouldBlock("ip", case.ip)
      /\ ShouldBlock("url", case.url)' <=> ShouldBlock("url", case.url)
    BY <1>2 DEF ShouldBlock, In
<1>4. ASSUME UNCHANGED credVars
      PROVE  /\ CredTypes' /\ LoadInv' /\ DecodedInv'
             /\ (Verified' <=> Verified) /\ (Overflows' <=> Overflows) /\ UNCHANGED dpc
             /\ Loaded' <=> Loaded
  <2>1. UNCHANGED <<credVars, case>>
      BY <1>2, <1>4
  <2>2. QED  BY <1>1, <2>1, Still
<1>5. CASE AcceptConnection
  <2>1. pc = "start" /\ Loaded /\ pc' = "ip" /\ UNCHANGED credVars
      BY <1>5 DEF AcceptConnection
  <2>2. StageInv' /\ RefusedInv'
      BY <1>1, <1>2, <1>4, <2>1 DEF StageInv, RefusedInv
  <2>3. QED  BY <1>4, <2>1, <2>2 DEF AuthInv
<1>6. CASE AddressChecked
  <2>1. pc = "ip" /\ fpc = "done" /\ UNCHANGED credVars
        /\ pc' = IF blocked THEN "refused" ELSE "auth"
      BY <1>6 DEF AddressChecked
  <2>2. blocked <=> ShouldBlock("ip", case.ip)
      BY <1>1, <2>1 DEF PlaceInv, VerdictInv
  <2>3. StageInv' /\ RefusedInv'
      BY <1>1, <1>2, <1>3, <1>4, <2>1, <2>2 DEF StageInv, RefusedInv
  <2>4. QED  BY <1>4, <2>1, <2>3 DEF AuthInv
<1>7. CASE ReadHeader
  <2>1. pc = "auth" /\ case.auth
      BY <1>7 DEF ReadHeader
  <2>2. CASE case.given = <<>>
    <3>1. pc' = "refused" /\ UNCHANGED credVars
        BY <1>7, <2>2 DEF ReadHeader
    <3>2. StageInv' /\ RefusedInv'
        BY <1>1, <1>2, <1>4, <2>1, <2>2, <3>1 DEF StageInv, RefusedInv
    <3>3. QED  BY <1>4, <3>1, <3>2 DEF AuthInv
  <2>3. CASE case.given # <<>>
    <3> DEFINE g == case.given
               r == case.rest
    <3>1. /\ pc' = "verify" /\ dpc' = "decode" /\ input' = Whole(g, r) /\ buf' = <<>> /\ output' = <<>>
          /\ UNCHANGED <<lines, users, lost>> /\ Loaded
        BY <1>7, <2>3 DEF ReadHeader, Decode, Whole
    <3>2. g \in Seq(Bytes) /\ r \in Seq(Codes)
        BY <1>1, GivenTypes
    <3>3. /\ Whole(g, r) \in Seq(Codes) /\ Count(g) \in Nat /\ Len(Whole(g, r)) \in Nat
      <4>1. Whole(g, r) \in Seq(Codes) /\ Count(g) \in Nat
          BY <3>2, WholeIs
      <4>2. QED  BY <4>1
    <3>4. CredTypes'
      <4>1. Len(<<>>) = 0 /\ 0 < OutputSize /\ 0 < 4
          BY OutputAssumption
      <4>2. input' \in Seq(Codes) /\ buf' \in Seq(Sextets64) /\ output' \in Seq(Bytes)
          BY <3>1, <3>3
      <4>3. QED  BY <3>1, <4>1, <4>2 DEF CredTypes
    <3>5. LoadInv'
      <4>1. \A k : Read(k)' <=> Read(k)
          BY <1>2, <3>1 DEF Read, Known
      <4>2. QED  BY <1>1, <1>2, <3>1, <4>1 DEF LoadInv
    <3>6. Progress(g, r, 0, 0)'
      <4>1. g' = g /\ r' = r /\ Len(g) \in Nat
          BY <1>2, <3>2
      <4> HIDE DEF g, r
      <4>2. Len(buf') = 0 /\ Len(output') = 0 /\ 1..0 = {}
          BY <3>1
      <4>3. 0 <= Len(Whole(g, r)) /\ Len(input') = Len(Whole(g, r)) - 0
          BY <3>1, <3>3
      <4>4. \A n \in 1..Len(input') : input'[n] = Whole(g, r)[n + 0]
        <5>1. \A n \in 1..Len(input') : n + 0 = n
            BY <3>1, <3>3
        <5>2. QED  BY <3>1, <5>1
      <4>5. 4 * 0 + 0 = (IF 0 <= Count(g) THEN 0 ELSE Count(g)) /\ ~(0 > Count(g)) /\ 3 * 0 = 0 /\ 0 <= Len(g)
          BY <3>3, <4>1
      <4>6. QED  BY <4>1, <4>2, <4>3, <4>4, <4>5 DEF Progress
    <3>7. DecodedInv'
      <4>1. \E t, m \in Nat : Progress(g, r, t, m)'
          BY <3>6
      <4>2. QED  BY <3>1, <4>1 DEF DecodedInv
    <3>8. StageInv' /\ RefusedInv'
        BY <1>2, <2>1, <3>1 DEF StageInv, RefusedInv, Loaded
    <3>9. QED  BY <3>4, <3>5, <3>7, <3>8 DEF AuthInv
  <2>4. QED  BY <2>2, <2>3
<1>8. CASE Verify
  <2>1. /\ pc = "verify" /\ dpc \in {"done", "failed"} /\ UNCHANGED credVars
        /\ (Verified \/ Overflows) /\ pc' = "url"
      BY <1>8 DEF Verify
  <2>2. StageInv' /\ RefusedInv'
      BY <1>1, <1>2, <1>4, <2>1 DEF StageInv, RefusedInv
  <2>3. QED  BY <1>4, <2>1, <2>2 DEF AuthInv
<1>8r. CASE Refuse
  <2>1. /\ pc = "verify" /\ dpc \in {"done", "failed"} /\ UNCHANGED credVars
        /\ \/ (~Verified \/ Overflows) /\ pc' = "refused"
           \/ Overflows /\ pc' = "crashed"
      BY <1>8r DEF Refuse
  <2>2. StageInv' /\ RefusedInv'
      BY <1>1, <1>2, <1>4, <2>1 DEF StageInv, RefusedInv
  <2>3. QED  BY <1>4, <2>1, <2>2 DEF AuthInv
<1>9. CASE NoAuth
  <2>1. pc = "auth" /\ ~case.auth /\ pc' = "url" /\ UNCHANGED credVars
      BY <1>9 DEF NoAuth
  <2>2. StageInv' /\ RefusedInv'
      BY <1>1, <1>2, <1>4, <2>1 DEF StageInv, RefusedInv
  <2>3. QED  BY <1>4, <2>1, <2>2 DEF AuthInv
<1>10. CASE UrlChecked
  <2>1. pc = "url" /\ fpc = "done" /\ UNCHANGED credVars
        /\ pc' = IF blocked THEN "refused" ELSE "admitted"
      BY <1>10 DEF UrlChecked
  <2>2. blocked <=> ShouldBlock("url", case.url)
      BY <1>1, <2>1 DEF PlaceInv, VerdictInv
  <2>3. StageInv' /\ RefusedInv'
      BY <1>1, <1>2, <1>3, <1>4, <2>1, <2>2 DEF StageInv, RefusedInv
  <2>4. QED  BY <1>4, <2>1, <2>3 DEF AuthInv
<1>11. CASE pc' = pc /\ UNCHANGED credVars
  <2>1. StageInv' /\ RefusedInv'
      BY <1>1, <1>2, <1>3, <1>4, <1>11 DEF StageInv, RefusedInv
  <2>2. QED  BY <1>4, <1>11, <2>1 DEF AuthInv
<1>12. CASE (UseDefault \/ ReadLine) /\ pc' = pc
  <2>1. CredTypes' /\ LoadInv' /\ UNCHANGED <<dpc, input, buf, output>> /\ ~Loaded
    <3>1. UNCHANGED <<dpc, input, buf, output>> /\ ~Loaded
        BY <1>12, NoFileIsNone DEF UseDefault, ReadLine, Loses, Loaded
    <3>2. LoadInv'
        BY <1>1, <1>2, <1>12, LoadStep
    <3>3. QED  BY <1>1, <3>1, <3>2 DEF CredTypes
  <2>2. pc = "start" /\ dpc = "idle"
      BY <1>1, <2>1 DEF StageInv, CredTypes
  <2>3. QED  BY <1>12, <2>1, <2>2 DEF AuthInv, DecodedInv, StageInv, RefusedInv
<1>13. CASE DecoderStep /\ pc' = pc
  <2>1. CredTypes' /\ DecodedInv' /\ LoadInv'
      BY <1>1, <1>2, <1>13, DecodingStep
  <2>2. dpc = "decode" /\ dpc' # "idle" /\ lines' = lines
      BY <1>1, <1>13, DecoderTypes
  <2>3. pc = "verify" /\ Loaded /\ Loaded' /\ case.auth
      BY <1>1, <2>2 DEF StageInv, Loaded
  <2>4. StageInv' /\ RefusedInv'
      BY <1>2, <1>13, <2>2, <2>3 DEF StageInv, RefusedInv
  <2>5. QED  BY <2>1, <2>4 DEF AuthInv
<1>14. QED
    BY <1>5, <1>6, <1>7, <1>8, <1>8r, <1>9, <1>10, <1>11, <1>12, <1>13
    DEF Next, Step, Over, vars, CredStep, DecoderStep

-----------------------------------------------------------------------------
(* The theorems.                                                           *)

AccessInv == PassInv /\ AuthInv

\* The invariant of a request's way through the checks is inductive.
THEOREM AccessInvariant == Spec => []AccessInv
<1>1. Init => AccessInv
    BY PassInit, AuthInit DEF AccessInv
<1>2. AccessInv /\ [Next]_vars => AccessInv'
  <2>1. SUFFICES ASSUME AccessInv, [Next]_vars
                 PROVE  AccessInv'
      OBVIOUS
  <2>2. PassInv'
      BY <2>1, PassNext DEF AccessInv
  <2>3. QED  BY <2>1, <2>2, AuthNext DEF AccessInv
<1>3. QED  BY <1>1, <1>2, PTL DEF Spec

\* pattern_match gives up no match, whatever the pattern and the string: at every
\* step of its loop the pattern matches iff the rest of it matches the rest of the
\* string or a longer match of the last star lets it.
THEOREM MatchTheorem == Spec => []MatchInvariant
<1>1. AccessInv => MatchInvariant
    BY LoopGivesMatch DEF AccessInv, PassInv
<1>2. QED  BY <1>1, AccessInvariant, PTL

\* base64_decode stays within its buffer whatever it reads, and gives back the
\* bytes that were encoded.
THEOREM DecodedTheorem == Spec => []DecodedRight
<1>1. AccessInv => DecodedRight
  <2>1. SUFFICES ASSUME AccessInv
                 PROVE  DecodedRight
      OBVIOUS
  <2>2. CredTypes /\ DecodedInv
      BY <2>1 DEF AccessInv, AuthInv
  <2>3. QED  BY <2>2 DEF CredTypes, DecodedInv, DecodedRight
<1>2. QED  BY <1>1, AccessInvariant, PTL

\* connection_handle and http_handle_request admit exactly the requests whose
\* address and URL pass the lists and whose credentials name an account.
THEOREM AdmittedTheorem == Spec => []AdmittedRight
<1>1. AccessInv => AdmittedRight
  <2>1. SUFFICES ASSUME AccessInv
                 PROVE  AdmittedRight
      OBVIOUS
  <2>2. /\ PlaceInv /\ CredTypes /\ LoadInv /\ DecodedInv /\ StageInv /\ RefusedInv
        /\ case \in Cases /\ case.given \in Seq(Bytes) /\ Len(case.given) \in Nat
    <3>1. PlaceInv /\ CredTypes /\ LoadInv /\ DecodedInv /\ StageInv /\ RefusedInv /\ case \in Cases
        BY <2>1 DEF AccessInv, AuthInv, PassInv, PlaceInv
    <3>2. case.given \in Seq(Bytes)
        BY <3>1, GivenTypes
    <3>3. QED  BY <3>1, <3>2
  <2>3. ASSUME pc # "start"
        PROVE  /\ <<>> \notin Accounts
               /\ \A a : a # <<>> => (Known(a) => a \in Accounts)
               /\ \A a : a # <<>> => (a \in Accounts => (Known(a) \/ a \in lost))
      BY <2>2, <2>3, LoadedRight DEF StageInv
  <2>4. Verified <=> (dpc = "done" /\ Split(output) # <<>> /\ Known(Split(output)))
      BY DEF Verified, Known, Has
  <2>5. ASSUME Proper, Overflows
        PROVE  FALSE
    <3>1. dpc = "done" /\ output = case.given
        BY <2>2, <2>5 DEF DecodedInv, Proper, Overflows
    <3>2. QED  BY <2>5, <3>1 DEF Proper, Overflows
  <2>6. ASSUME pc = "admitted"
        PROVE  /\ ~ShouldBlock("ip", case.ip) /\ ~ShouldBlock("url", case.url)
               /\ (case.auth /\ Proper) => (Split(case.given) \in Accounts)
    <3>1. ~ShouldBlock("ip", case.ip) /\ ~ShouldBlock("url", case.url)
        BY <2>2, <2>6 DEF PlaceInv
    <3>2. ASSUME case.auth, Proper
          PROVE  Split(case.given) \in Accounts
      <4>1. Verified
          BY <2>2, <2>5, <2>6, <3>2 DEF StageInv
      <4>2. output = case.given
          BY <2>2, <2>4, <3>2, <4>1 DEF DecodedInv, Proper
      <4>3. QED  BY <2>3, <2>4, <2>6, <4>1, <4>2
    <3>3. QED  BY <3>1, <3>2
  <2>7. ASSUME pc = "refused", Proper, Len(case.given) < OutputSize - 1
        PROVE  \/ ShouldBlock("ip", case.ip) \/ ShouldBlock("url", case.url)
               \/ case.auth /\ Split(case.given) \notin Accounts \ lost
    <3>1. SUFFICES ASSUME case.auth, case.given = <<>> \/ dpc = "failed" \/ (dpc = "done" /\ ~Verified)
                   PROVE  Split(case.given) \notin Accounts \ lost
        BY <2>2, <2>5, <2>7 DEF RefusedInv
    <3>2. CASE case.given = <<>>
      <4>1. Split(<<>>) = <<>>
          BY DEF Split
      <4>2. QED  BY <2>3, <2>7, <3>2, <4>1
    <3>3. CASE dpc = "failed"
      <4>1. Len(case.given) >= OutputSize - 1
          BY <2>2, <2>7, <3>3 DEF DecodedInv, Proper
      <4>2. QED  BY <2>2, <2>7, <4>1, OutputAssumption
    <3>4. CASE dpc = "done" /\ ~Verified
      <4>1. output = case.given
          BY <2>2, <2>7, <3>4 DEF DecodedInv, Proper
      <4>2. Split(case.given) = <<>> \/ ~Known(Split(case.given))
          BY <2>4, <3>4, <4>1
      <4>3. QED  BY <2>3, <2>7, <4>2
    <3>5. QED  BY <3>1, <3>2, <3>3, <3>4
  <2>8. (pc = "crashed") => ~Proper
      BY <2>2, <2>5 DEF StageInv
  <2>9. QED  BY <2>6, <2>7, <2>8 DEF AdmittedRight
<1>2. QED  BY <1>1, AccessInvariant, PTL
=============================================================================
