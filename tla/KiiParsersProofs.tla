-------------------------- MODULE KiiParsersProofs --------------------------
(***************************************************************************)
(* What the parsers compute, for every spelling of the name, radix, limit, *)
(* response and length.  Each recursion, in the code and in the text it    *)
(* reads, is unrolled by an induction over a set of numbers, for which no  *)
(* operator has to be instantiated.                                        *)
(***************************************************************************)
EXTENDS KiiParsers, WellFoundedInduction, SequenceTheorems, TLAPS

-----------------------------------------------------------------------------
(* Induction over a set of numbers.                                        *)

(* A set of numbers that holds one whenever it holds all smaller ones.     *)
LEMMA Strong ==
  ASSUME NEW T, \A n \in Nat : (\A m \in 0..n - 1 : m \in T) => n \in T
  PROVE  Nat \subseteq T
<1> DEFINE U == {n \in Nat : n \notin T}
<1>1. ASSUME U # {} PROVE FALSE
  <2>1. PICK x \in U : \A y \in U : ~(<<y, x>> \in OpToRel(<, Nat))
    <3>1. IsWellFoundedOn(OpToRel(<, Nat), Nat) /\ U \subseteq Nat
      BY NatLessThanWellFounded
    <3> QED
      BY <1>1, <3>1, WFMin
  <2>2. \A y \in U : ~(y < x)
    BY <2>1 DEF OpToRel
  <2>3. \A m \in 0..x - 1 : m \in T
    BY <2>2
  <2> QED
    BY <2>1, <2>3
<1> QED
  BY <1>1

(* A set of numbers that holds 0, and with each number the next.           *)
LEMMA Simple ==
  ASSUME NEW T, 0 \in T, \A n \in Nat : n \in T => n + 1 \in T
  PROVE  Nat \subseteq T
<1>1. ASSUME NEW n \in Nat, \A m \in 0..n - 1 : m \in T
      PROVE  n \in T
  <2>1. CASE n = 0
    BY <2>1
  <2>2. CASE n # 0
    <3>1. n - 1 \in Nat /\ n - 1 \in 0..n - 1 /\ (n - 1) + 1 = n
      BY <2>2
    <3> QED
      BY <1>1, <3>1
  <2> QED
    BY <2>1, <2>2
<1> QED
  BY <1>1, Strong

-----------------------------------------------------------------------------
(* Division by the radix.                                                  *)

(* What is known of the constants as numbers.                              *)
LEMMA Constants ==
  /\ RADIX \in Nat /\ RADIX >= 2 /\ MAX_BYTES \in Nat /\ MAX_BYTES >= 1
  /\ MAX_SEARCH_NUM \in Nat /\ MAX_FIGURES \in Nat /\ MAX_FIGURES >= 1
BY ParsersAssumption

(* Multiplying by the radix keeps the order.                               *)
LEMMA Times ==
  ASSUME NEW a \in Nat, NEW b \in Nat, a <= b
  PROVE  RADIX * a <= RADIX * b /\ RADIX * a \in Nat
<1>1. RADIX \in Nat
  BY Constants
<1> QED
  BY <1>1

(* Quotient and remainder of a division by the radix.                      *)
LEMMA Divided ==
  ASSUME NEW n \in Nat
  PROVE  /\ n \div RADIX \in Nat /\ n % RADIX \in 0..RADIX - 1
         /\ n = (n % RADIX) + RADIX * (n \div RADIX)
         /\ n > 0 => n \div RADIX < n
<1>1. RADIX \in Nat /\ RADIX >= 2
  BY Constants
<1>2. n \div RADIX \in Nat /\ n % RADIX \in 0..RADIX - 1
  BY <1>1
<1>3. n = (n % RADIX) + RADIX * (n \div RADIX)
  BY <1>1
<1>4. n > 0 => n \div RADIX < n
  BY <1>1, <1>2, <1>3
<1> QED
  BY <1>2, <1>3, <1>4

(* The quotient is below a number if and only if what is divided is below  *)
(* that many times the radix.                                              *)
LEMMA DividedBelow ==
  ASSUME NEW n \in Nat, NEW c \in Nat
  PROVE  n \div RADIX < c <=> n < RADIX * c
<1> DEFINE q == n \div RADIX
           r == n % RADIX
<1>1. RADIX \in Nat /\ q \in Nat /\ r \in Nat /\ r < RADIX /\ n = r + RADIX * q
  BY Constants, Divided
<1> HIDE DEF q, r
<1>2. ASSUME q < c PROVE n < RADIX * c
  <2>1. RADIX * (q + 1) <= RADIX * c
    BY <1>1, <1>2, Times
  <2>2. RADIX * (q + 1) = RADIX * q + RADIX
    BY <1>1
  <2> QED
    BY <1>1, <2>1, <2>2
<1>3. ASSUME ~(q < c) PROVE ~(n < RADIX * c)
  <2>1. RADIX * c <= RADIX * q
    BY <1>1, <1>3, Times
  <2> QED
    BY <1>1, <2>1
<1> QED
  BY <1>2, <1>3 DEF q

-----------------------------------------------------------------------------
(* The powers of the radix.                                                *)

IsLimit(f, m) == f = [k \in 0..m |-> IF k = 0 THEN 1 ELSE RADIX * f[k - 1]]

(* The powers of the radix are a function: the equation has a solution.    *)
LEMMA LimitExists == \A m \in Nat : \E f : IsLimit(f, m)
<1> DEFINE T == {m \in Nat : \E f : IsLimit(f, m)}
<1>1. 0 \in T
  <2> DEFINE f == [k \in 0..0 |-> 1]
  <2>1. f = [k \in 0..0 |-> IF k = 0 THEN 1 ELSE RADIX * f[k - 1]]
    OBVIOUS
  <2> QED
    BY <2>1 DEF IsLimit
<1>2. ASSUME NEW m \in Nat, m \in T PROVE m + 1 \in T
  <2>1. PICK f : IsLimit(f, m)
    BY <1>2
  <2> DEFINE g == [k \in 0..m + 1 |-> IF k <= m THEN f[k] ELSE RADIX * f[m]]
  <2>2. ASSUME NEW k \in 0..m + 1
        PROVE  g[k] = IF k = 0 THEN 1 ELSE RADIX * g[k - 1]
    <3>1. CASE k <= m
      <4>1. k \in 0..m /\ g[k] = f[k] /\ (k # 0 => k - 1 \in 0..m + 1 /\ k - 1 <= m)
        BY <3>1
      <4>2. f[k] = IF k = 0 THEN 1 ELSE RADIX * f[k - 1]
        BY <2>1, <4>1 DEF IsLimit
      <4> QED
        BY <4>1, <4>2
    <3>2. CASE k = m + 1
      <4>1. k # 0 /\ ~(k <= m) /\ k - 1 = m /\ m \in 0..m + 1 /\ m <= m
        BY <3>2
      <4> QED
        BY <4>1
    <3> QED
      BY <3>1, <3>2
  <2>3. g = [k \in 0..m + 1 |-> IF k = 0 THEN 1 ELSE RADIX * g[k - 1]]
    BY <2>2
  <2>4. IsLimit(g, m + 1) /\ m + 1 \in Nat
    BY <2>3 DEF IsLimit
  <2> HIDE DEF g
  <2> QED
    BY <2>4
<1>3. Nat \subseteq T
  <2> HIDE DEF T
  <2> QED
    BY <1>1, <1>2, Simple
<1> QED
  BY <1>3

(* Limit satisfies its equation.                                           *)
LEMMA LimitSteps ==
  /\ Limit[0] = 1 /\ \A k \in 0..MAX_BYTES + 1 : Limit[k] \in Nat
  /\ \A k \in 0..MAX_BYTES : Limit[k + 1] = RADIX * Limit[k]
<1>1. MAX_BYTES \in Nat /\ MAX_BYTES + 1 \in Nat /\ RADIX \in Nat
  BY Constants
<1>2. IsLimit(Limit, MAX_BYTES + 1)
  <2>1. \E f : IsLimit(f, MAX_BYTES + 1)
    BY <1>1, LimitExists
  <2> QED
    BY <2>1 DEF Limit, IsLimit
<1>3. Limit[0] = 1
  <2>1. 0 \in 0..MAX_BYTES + 1
    BY <1>1
  <2> QED
    BY <1>2, <2>1 DEF IsLimit
<1>4. ASSUME NEW k \in 0..MAX_BYTES PROVE Limit[k + 1] = RADIX * Limit[k]
  <2>1. k + 1 \in 0..MAX_BYTES + 1 /\ k + 1 # 0 /\ (k + 1) - 1 = k
    BY <1>1
  <2> QED
    BY <1>2, <2>1 DEF IsLimit
<1>5. \A k \in 0..MAX_BYTES + 1 : Limit[k] \in Nat
  <2> DEFINE T == {k \in Nat : k <= MAX_BYTES + 1 => Limit[k] \in Nat}
  <2>1. 0 \in T
    BY <1>3
  <2>2. ASSUME NEW k \in Nat, k \in T PROVE k + 1 \in T
    <3>1. ASSUME k + 1 <= MAX_BYTES + 1 PROVE Limit[k + 1] \in Nat
      <4>1. k \in 0..MAX_BYTES /\ Limit[k] \in Nat
        BY <1>1, <2>2, <3>1
      <4> QED
        BY <1>1, <1>4, <4>1
    <3> QED
      BY <3>1
  <2>3. Nat \subseteq T
    <3> HIDE DEF T
    <3> QED
      BY <2>1, <2>2, Simple
  <2> QED
    BY <1>1, <2>3
<1> QED
  BY <1>3, <1>4, <1>5

-----------------------------------------------------------------------------
(* kiiMQTT_encode, unrolled: the numbers that are left after each byte.    *)

LenByte(n) == [digit |-> n % RADIX, more |-> n \div RADIX > 0]
LenBytes == [digit : Nat, more : BOOLEAN]

IsEncode(f, m) ==
  f = [n \in 0..m |->
         <<[digit |-> n % RADIX, more |-> n \div RADIX > 0]>>
           \o (IF n \div RADIX > 0 THEN f[n \div RADIX] ELSE <<>>)]

(* The fields of a byte of a remaining length.                             *)
LEMMA LenByteFields ==
  ASSUME NEW n
  PROVE  LenByte(n).digit = n % RADIX /\ LenByte(n).more = (n \div RADIX > 0)
BY DEF LenByte

Unrolled(bytes, left) ==
  /\ bytes \in Seq(LenBytes) /\ Len(bytes) = Len(left) /\ Len(left) > 0
  /\ \A k \in 1..Len(left) : bytes[k] = LenByte(left[k])
  /\ \A k \in 1..Len(left) - 1 : left[k + 1] = left[k] \div RADIX /\ left[k + 1] > 0
  /\ left[Len(left)] \div RADIX = 0

(* The recursion of kiiMQTT_encode has a solution for every length.        *)
LEMMA EncodeExists == \A m \in Nat : \E f : IsEncode(f, m)
<1> DEFINE First(n) == <<[digit |-> n % RADIX, more |-> n \div RADIX > 0]>>
           T == {m \in Nat : \E f : IsEncode(f, m)}
<1>1. 0 \in T
  <2> DEFINE f == [n \in 0..0 |-> First(0) \o <<>>]
  <2>1. ~(0 \div RADIX > 0)
    BY Constants
  <2>2. f = [n \in 0..0 |-> First(n) \o (IF n \div RADIX > 0 THEN f[n \div RADIX] ELSE <<>>)]
    BY <2>1
  <2>3. IsEncode(f, 0)
    BY <2>2 DEF IsEncode
  <2> HIDE DEF f
  <2> QED
    BY <2>3
<1>2. ASSUME NEW m \in Nat, m \in T PROVE m + 1 \in T
  <2>1. PICK f : IsEncode(f, m)
    BY <1>2
  <2> HIDE DEF First
  <2> DEFINE More(n, h) == IF n \div RADIX > 0 THEN h[n \div RADIX] ELSE <<>>
             g == [n \in 0..m + 1 |-> IF n <= m THEN f[n] ELSE First(n) \o More(n, f)]
  <2>2. ASSUME NEW n \in 0..m + 1
        PROVE  g[n] = First(n) \o More(n, g)
    <3>1. n \in Nat /\ (n \div RADIX > 0 => n > 0)
      BY Constants
    <3>2. n \div RADIX > 0 => n \div RADIX \in 0..m /\ n \div RADIX \in 0..m + 1 /\ n \div RADIX <= m
      BY <3>1, Divided
    <3>3. More(n, g) = More(n, f)
      BY <3>2
    <3>4. CASE n <= m
      <4>1. n \in 0..m /\ g[n] = f[n]
        BY <3>4
      <4>2. f[n] = First(n) \o More(n, f)
        BY <2>1, <4>1 DEF IsEncode, First
      <4> HIDE DEF g, More
      <4> QED
        BY <3>3, <4>1, <4>2
    <3>5. CASE ~(n <= m)
      <4>1. g[n] = First(n) \o More(n, f)
        BY <3>5
      <4> HIDE DEF g, More
      <4> QED
        BY <3>3, <4>1
    <3> QED
      BY <3>4, <3>5
  <2>3. g = [n \in 0..m + 1 |-> First(n) \o More(n, g)]
    BY <2>2
  <2> HIDE DEF g
  <2>4. IsEncode(g, m + 1)
    BY <2>3, Zenon DEF IsEncode, First
  <2>5. m + 1 \in Nat
    OBVIOUS
  <2> QED
    BY <2>4, <2>5
<1>3. Nat \subseteq T
  <2> HIDE DEF T
  <2> QED
    BY <1>1, <1>2, Simple
<1> QED
  BY <1>3

(* One element in front of a sequence.                                     *)
LEMMA Prepended ==
  ASSUME NEW S, NEW x \in S, NEW s \in Seq(S)
  PROVE  /\ <<x>> \o s \in Seq(S) /\ Len(<<x>> \o s) = Len(s) + 1 /\ (<<x>> \o s)[1] = x
         /\ \A k \in 1..Len(s) : (<<x>> \o s)[k + 1] = s[k]
OBVIOUS

(* What kiiMQTT_encode makes of a number: a first byte, and the bytes of   *)
(* the quotient if there is one.                                           *)
LEMMA EncodeUnrolls ==
  ASSUME NEW m \in Nat, NEW f, IsEncode(f, m)
  PROVE  \A n \in 0..m : \E left \in Seq(Nat) : Unrolled(f[n], left) /\ left[1] = n
<1> DEFINE T == {n \in Nat : n <= m => \E left \in Seq(Nat) : Unrolled(f[n], left) /\ left[1] = n}
<1>1. ASSUME NEW n \in Nat, \A p \in 0..n - 1 : p \in T, n <= m
      PROVE  \E left \in Seq(Nat) : Unrolled(f[n], left) /\ left[1] = n
  <2>1. n \in 0..m /\ LenByte(n) \in LenBytes
    BY <1>1, Constants, Divided DEF LenByte, LenBytes
  <2>2. CASE n \div RADIX = 0
    <3>0. ~(n \div RADIX > 0)
      BY <2>2
    <3>1. f[n] = <<LenByte(n)>> \o <<>>
      BY <2>1, <3>0, Zenon DEF IsEncode, LenByte
    <3>2. f[n] = <<LenByte(n)>>
      BY <3>1
    <3>3. Unrolled(f[n], <<n>>)
      BY <2>1, <2>2, <3>2 DEF Unrolled
    <3>4. <<n>> \in Seq(Nat) /\ <<n>>[1] = n
      OBVIOUS
    <3> QED
      BY <3>3, <3>4
  <2>3. CASE n \div RADIX # 0
    <3> DEFINE q == n \div RADIX
    <3>1. q \in Nat /\ q > 0 /\ n > 0 /\ q < n /\ q \in 0..n - 1 /\ q <= m
      <4>1. n > 0
        BY <2>3, Constants
      <4>2. q \in Nat /\ q < n
        BY <4>1, Divided
      <4>3. q # 0
        BY <2>3
      <4> HIDE DEF q
      <4> QED
        BY <1>1, <4>1, <4>2, <4>3
    <3>2. f[n] = <<LenByte(n)>> \o f[q]
      BY <2>1, <3>1 DEF IsEncode, LenByte
    <3>3. PICK rest \in Seq(Nat) : Unrolled(f[q], rest) /\ rest[1] = q
      BY <1>1, <3>1
    <3> DEFINE left == <<n>> \o rest
    <3>4. /\ left \in Seq(Nat) /\ Len(left) = Len(rest) + 1 /\ left[1] = n
          /\ \A k \in 1..Len(rest) : left[k + 1] = rest[k]
      BY Prepended
    <3>5. /\ f[n] \in Seq(LenBytes) /\ Len(f[n]) = Len(f[q]) + 1 /\ f[n][1] = LenByte(n)
          /\ \A k \in 1..Len(f[q]) : f[n][k + 1] = f[q][k]
      <4>1. f[q] \in Seq(LenBytes)
        BY <3>3 DEF Unrolled
      <4> HIDE DEF q, left
      <4> QED
        BY <2>1, <3>2, <4>1, Prepended
    <3> HIDE DEF left
    <3>6. Len(rest) \in Nat /\ Len(rest) > 0 /\ Len(f[q]) = Len(rest)
      BY <3>3 DEF Unrolled
    <3>7. ASSUME NEW k \in 1..Len(left) PROVE f[n][k] = LenByte(left[k])
      <4>1. CASE k = 1
        BY <3>4, <3>5, <4>1
      <4>2. CASE k # 1
        <5>1. k - 1 \in 1..Len(rest) /\ (k - 1) + 1 = k
          BY <3>4, <3>6, <4>2
        <5>2. left[k] = rest[k - 1] /\ f[n][k] = f[q][k - 1]
          BY <3>4, <3>5, <3>6, <5>1
        <5> QED
          BY <3>3, <5>1, <5>2 DEF Unrolled
      <4> QED
        BY <4>1, <4>2
    <3>8. ASSUME NEW k \in 1..Len(left) - 1
          PROVE  left[k + 1] = left[k] \div RADIX /\ left[k + 1] > 0
      <4>1. k \in 1..Len(rest) /\ left[k + 1] = rest[k]
        BY <3>4, <3>6
      <4>2. CASE k = 1
        BY <3>1, <3>3, <3>4, <4>1, <4>2
      <4>3. CASE k # 1
        <5>0. k \in Nat /\ k <= Len(rest) /\ k > 1 /\ Len(rest) \in Nat
          BY <3>6, <4>1, <4>3
        <5>1. k - 1 \in 1..Len(rest) - 1 /\ (k - 1) + 1 = k /\ k - 1 \in 1..Len(rest)
          BY <5>0
        <5>2. left[k] = rest[k - 1]
          BY <3>4, <5>1
        <5>3. rest[k] = rest[k - 1] \div RADIX /\ rest[k] > 0
          BY <3>3, <5>1 DEF Unrolled
        <5> QED
          BY <4>1, <5>2, <5>3
      <4> QED
        BY <4>2, <4>3
    <3>9. left[Len(left)] \div RADIX = 0
      <4>1. Len(rest) \in 1..Len(rest)
        BY <3>6
      <4>2. left[Len(left)] = rest[Len(rest)]
        BY <3>4, <4>1
      <4> QED
        BY <3>3, <4>2 DEF Unrolled
    <3>10. Unrolled(f[n], left)
      BY <3>4, <3>5, <3>6, <3>7, <3>8, <3>9 DEF Unrolled
    <3> QED
      BY <3>4, <3>10
  <2> QED
    BY <2>2, <2>3
<1>2. Nat \subseteq T
  <2>1. \A n \in Nat : (\A p \in 0..n - 1 : p \in T) => n \in T
    BY <1>1
  <2> HIDE DEF T
  <2> QED
    BY <2>1, Strong
<1> QED
  BY <1>2

(* The bytes of a length, and what is left of it at each.                  *)
LEMMA EncodeRight ==
  ASSUME NEW n \in Nat
  PROVE  \E left \in Seq(Nat) : Unrolled(kiiMQTT_encode(n), left) /\ left[1] = n
<1>1. \E f : IsEncode(f, n)
  BY EncodeExists
<1>2. PICK f : IsEncode(f, n) /\ kiiMQTT_encode(n) = f[n]
  BY <1>1 DEF IsEncode, kiiMQTT_encode
<1>3. n \in 0..n
  OBVIOUS
<1> QED
  BY <1>2, <1>3, EncodeUnrolls

-----------------------------------------------------------------------------
(* Least members.                                                          *)

(* The least of a set of integers, if it is known.                         *)
LEMMA MinIs ==
  ASSUME NEW S \in SUBSET Int, NEW x \in S, \A y \in S : x <= y
  PROVE  Min(S) = x
<1>1. Min(S) \in S /\ \A y \in S : Min(S) <= y
  BY Zenon DEF Min
<1>2. Min(S) \in Int /\ x \in Int /\ Min(S) <= x /\ x <= Min(S)
  BY <1>1
<1> QED
  BY <1>2

(* A set of numbers that is not empty has a least one.                     *)
LEMMA MinExists ==
  ASSUME NEW S \in SUBSET Nat, S # {}
  PROVE  Min(S) \in S /\ \A y \in S : Min(S) <= y
<1>1. PICK x \in S : \A y \in S : ~(<<y, x>> \in OpToRel(<, Nat))
  <2>1. IsWellFoundedOn(OpToRel(<, Nat), Nat) /\ S \subseteq Nat
    BY NatLessThanWellFounded
  <2> QED
    BY <2>1, WFMin
<1>2. ASSUME NEW y \in S PROVE x <= y
  <2>1. y \in Nat /\ x \in Nat /\ ~(y < x)
    BY <1>1 DEF OpToRel
  <2> QED
    BY <2>1
<1> QED
  BY <1>2, Zenon DEF Min

-----------------------------------------------------------------------------
(* Weighed, unrolled from the last byte to the first.                      *)

IsWeight(it, bytes, dom) ==
  it = [s \in SUBSET dom |->
          IF s = {} THEN 0 ELSE bytes[Min(s)].digit + RADIX * it[s \ {Min(s)}]]

(* The fold of Weighed has a solution for every sequence of bytes.         *)
LEMMA WeightExists ==
  ASSUME NEW bytes, NEW l \in Nat
  PROVE  \E it : IsWeight(it, bytes, 1..l)
<1> DEFINE Added(x, v) == bytes[x].digit + RADIX * v
           T == {k \in Nat : k <= l => \E it : IsWeight(it, bytes, l - k + 1..l)}
<1>1. 0 \in T
  <2> DEFINE it == [s \in SUBSET (l + 1..l) |-> 0]
  <2>1. \A s \in SUBSET (l + 1..l) : s = {}
    OBVIOUS
  <2>2. it = [s \in SUBSET (l + 1..l) |-> IF s = {} THEN 0 ELSE Added(Min(s), it[s \ {Min(s)}])]
    BY <2>1
  <2>3. l - 0 + 1 = l + 1
    OBVIOUS
  <2> HIDE DEF it
  <2>4. IsWeight(it, bytes, l + 1..l)
    BY <2>2, Zenon DEF IsWeight
  <2> QED
    BY <2>3, <2>4
<1>2. ASSUME NEW k \in Nat, k \in T PROVE k + 1 \in T
  <2> SUFFICES ASSUME k + 1 <= l
               PROVE  \E it : IsWeight(it, bytes, l - (k + 1) + 1..l)
    OBVIOUS
  <2> DEFINE a == l - k
  <2>1. a \in Nat /\ a > 0 /\ a <= l /\ l - (k + 1) + 1 = a /\ l - k + 1 = a + 1 /\ k <= l
    OBVIOUS
  <2>2. PICK it : IsWeight(it, bytes, a + 1..l)
    BY <1>2, <2>1
  <2> HIDE DEF a
  <2> DEFINE g == [s \in SUBSET (a..l) |->
                     IF a \in s THEN Added(a, it[s \ {a}]) ELSE it[s]]
  <2> HIDE DEF Added
  <2>3. ASSUME NEW s \in SUBSET (a..l)
        PROVE  g[s] = IF s = {} THEN 0 ELSE Added(Min(s), g[s \ {Min(s)}])
    <3>1. CASE a \in s
      <4>1. Min(s) = a
        <5>1. s \in SUBSET Int /\ \A y \in s : a <= y
          BY <2>1
        <5> QED
          BY <3>1, <5>1, MinIs
      <4>2. s \ {a} \in SUBSET (a..l) /\ a \notin s \ {a}
        OBVIOUS
      <4>3. g[s \ {a}] = it[s \ {a}]
        BY <4>2
      <4>4. g[s] = Added(a, it[s \ {a}])
        BY <3>1
      <4> HIDE DEF g
      <4> QED
        BY <3>1, <4>1, <4>3, <4>4
    <3>2. CASE a \notin s
      <4>1. s \in SUBSET (a + 1..l)
        BY <2>1, <3>2
      <4>2. it[s] = IF s = {} THEN 0 ELSE Added(Min(s), it[s \ {Min(s)}])
        BY <2>2, <4>1 DEF IsWeight, Added
      <4>3. s \ {Min(s)} \in SUBSET (a..l) /\ a \notin s \ {Min(s)}
        BY <3>2
      <4>4. g[s \ {Min(s)}] = it[s \ {Min(s)}]
        BY <4>3
      <4>5. g[s] = it[s]
        BY <3>2
      <4> HIDE DEF g
      <4> QED
        BY <4>2, <4>4, <4>5
    <3> QED
      BY <3>1, <3>2
  <2>4. g = [s \in SUBSET (a..l) |-> IF s = {} THEN 0 ELSE Added(Min(s), g[s \ {Min(s)}])]
    BY <2>3
  <2> HIDE DEF g
  <2>5. IsWeight(g, bytes, a..l)
    BY <2>4, Zenon DEF IsWeight, Added
  <2> QED
    BY <2>1, <2>5
<1>3. Nat \subseteq T
  <2> HIDE DEF T
  <2> QED
    BY <1>1, <1>2, Simple
<1>4. l \in T /\ l <= l /\ l - l + 1 = 1
  BY <1>3
<1> QED
  BY <1>4

(* The bytes of a length weigh what the length is.                         *)
LEMMA WeighedRight ==
  ASSUME NEW bytes, NEW left \in Seq(Nat), Unrolled(bytes, left)
  PROVE  Weighed(bytes) = left[1]
<1> DEFINE l == Len(left)
<1>1. /\ l \in Nat /\ l > 0 /\ DOMAIN bytes = 1..l
      /\ \A k \in 1..l : left[k] \in Nat /\ bytes[k].digit = left[k] % RADIX
  <2>1. l \in Nat /\ l > 0 /\ \A k \in 1..l : left[k] \in Nat
    BY DEF Unrolled
  <2>2. DOMAIN bytes = 1..l
    BY DEF Unrolled
  <2>3. ASSUME NEW k \in 1..l PROVE bytes[k].digit = left[k] % RADIX
    <3>1. bytes[k] = LenByte(left[k])
      BY DEF Unrolled
    <3> QED
      BY <3>1, LenByteFields
  <2> QED
    BY <2>1, <2>2, <2>3
<1>2. PICK it : IsWeight(it, bytes, 1..l) /\ Weighed(bytes) = it[1..l]
  <2>1. \E it : IsWeight(it, bytes, DOMAIN bytes)
    BY <1>1, WeightExists
  <2>2. \E it : IsWeight(it, bytes, DOMAIN bytes) /\ Weighed(bytes) = it[DOMAIN bytes]
    BY <2>1 DEF IsWeight, Weighed, FoldRight, MapThenFoldSet
  <2> QED
    BY <1>1, <2>2
<1> HIDE DEF l
<1>3. ASSUME NEW k \in 1..l
      PROVE  it[k..l] = bytes[k].digit + RADIX * it[k + 1..l]
  <2>0. l \in Nat /\ k \in Nat /\ k >= 1 /\ k <= l
    BY <1>1
  <2>1. k..l \in SUBSET (1..l) /\ k \in k..l /\ k..l \in SUBSET Int
    BY <2>0
  <2>2. Min(k..l) = k
    <3>1. \A y \in k..l : k <= y
      BY <2>0
    <3> QED
      BY <2>1, <3>1, MinIs
  <2>3. (k..l) \ {k} = k + 1..l
    BY <1>1
  <2> QED
    BY <1>2, <2>1, <2>2, <2>3 DEF IsWeight
<1>4. it[l + 1..l] = 0
  <2>1. l + 1..l = {} /\ {} \in SUBSET (1..l)
    BY <1>1
  <2> QED
    BY <1>2, <2>1 DEF IsWeight
<1> DEFINE T == {k \in Nat : k < l => it[l - k..l] = left[l - k]}
<1>5. 0 \in T
  <2>1. l \in 1..l /\ l - 0 = l /\ left[l] \in Nat
    BY <1>1
  <2>2. left[l] = (left[l] % RADIX) + RADIX * 0
    <3>1. left[l] \div RADIX = 0
      BY DEF Unrolled, l
    <3> QED
      BY <2>1, <3>1, Divided
  <2>3. it[l..l] = left[l]
    BY <1>1, <1>3, <1>4, <2>1, <2>2
  <2> QED
    BY <2>1, <2>3
<1>6. ASSUME NEW k \in Nat, k \in T PROVE k + 1 \in T
  <2> SUFFICES ASSUME k + 1 < l PROVE it[l - (k + 1)..l] = left[l - (k + 1)]
    OBVIOUS
  <2> DEFINE i == l - (k + 1)
  <2>1. i \in 1..l /\ i \in 1..l - 1 /\ i + 1 = l - k /\ k < l
    BY <1>1
  <2>2. it[i + 1..l] = left[i + 1]
    BY <1>6, <2>1
  <2> HIDE DEF i
  <2>3. left[i + 1] = left[i] \div RADIX
    BY <2>1 DEF Unrolled, l
  <2>4. left[i] = (left[i] % RADIX) + RADIX * (left[i] \div RADIX)
    BY <1>1, <2>1, Divided
  <2>5. it[i..l] = bytes[i].digit + RADIX * it[i + 1..l]
    BY <1>3, <2>1
  <2>6. bytes[i].digit = left[i] % RADIX
    BY <1>1, <2>1
  <2>7. it[i..l] = left[i]
    BY <2>2, <2>3, <2>4, <2>5, <2>6
  <2> QED
    BY <2>7 DEF i
<1>7. Nat \subseteq T
  <2> HIDE DEF T
  <2> QED
    BY <1>5, <1>6, Simple
<1>8. l - 1 \in T /\ l - 1 < l /\ l - (l - 1) = 1
  BY <1>1, <1>7
<1> QED
  BY <1>2, <1>8

-----------------------------------------------------------------------------
(* A length has at most k bytes if and only if it is below Limit[k].       *)

(* The powers of the radix grow.                                           *)
LEMMA LimitGrows ==
  \A k \in 0..MAX_BYTES : Limit[k] <= Limit[MAX_BYTES]
<1>0. MAX_BYTES \in Nat /\ RADIX \in Nat /\ RADIX >= 2
  BY Constants
<1> DEFINE T == {k \in Nat : k <= MAX_BYTES => Limit[MAX_BYTES - k] <= Limit[MAX_BYTES]}
<1>1. 0 \in T
  <2>1. MAX_BYTES - 0 = MAX_BYTES /\ Limit[MAX_BYTES] \in Nat
    BY <1>0, LimitSteps
  <2> QED
    BY <2>1
<1>2. ASSUME NEW k \in Nat, k \in T PROVE k + 1 \in T
  <2> SUFFICES ASSUME k + 1 <= MAX_BYTES
               PROVE  Limit[MAX_BYTES - (k + 1)] <= Limit[MAX_BYTES]
    OBVIOUS
  <2> DEFINE i == MAX_BYTES - (k + 1)
  <2>1. i \in 0..MAX_BYTES /\ i + 1 = MAX_BYTES - k /\ k <= MAX_BYTES
        /\ i \in 0..MAX_BYTES + 1 /\ MAX_BYTES \in 0..MAX_BYTES + 1
    BY <1>0
  <2>2. Limit[i + 1] <= Limit[MAX_BYTES]
    BY <1>2, <2>1
  <2> HIDE DEF i
  <2>3. Limit[i] \in Nat /\ Limit[MAX_BYTES] \in Nat /\ Limit[i + 1] = RADIX * Limit[i]
    BY <2>1, LimitSteps
  <2>4. Limit[i] <= RADIX * Limit[i]
    BY <1>0, <2>3
  <2>5. RADIX * Limit[i] \in Nat
    BY <1>0, <2>3
  <2> QED
    BY <2>2, <2>3, <2>4, <2>5 DEF i
<1>3. Nat \subseteq T
  <2> HIDE DEF T
  <2> QED
    BY <1>1, <1>2, Simple
<1> QED
  <2> TAKE k \in 0..MAX_BYTES
  <2>1. MAX_BYTES - k \in Nat /\ MAX_BYTES - k <= MAX_BYTES /\ MAX_BYTES - (MAX_BYTES - k) = k
    BY <1>0
  <2>2. MAX_BYTES - k \in T
    BY <1>3, <2>1
  <2> QED
    BY <2>1, <2>2

(* A number encoded in at most MAX_BYTES bytes is below the limit.         *)
LEMMA ShortBelow ==
  ASSUME NEW bytes, NEW left \in Seq(Nat), Unrolled(bytes, left), Len(left) <= MAX_BYTES
  PROVE  left[1] < Limit[MAX_BYTES]
<1> DEFINE l == Len(left)
<1>1. /\ l \in Nat /\ l > 0 /\ l <= MAX_BYTES /\ MAX_BYTES \in Nat
      /\ \A k \in 1..l : left[k] \in Nat
  BY Constants DEF Unrolled
<1>2. /\ left[l] \div RADIX = 0
      /\ \A k \in 1..l - 1 : left[k + 1] = left[k] \div RADIX
  BY DEF Unrolled
<1> HIDE DEF l
<1> DEFINE T == {k \in Nat : k < l => left[l - k] < Limit[k + 1]}
<1>3. 0 \in T
  <2>1. l \in 1..l /\ l - 0 = l /\ 0 \in 0..MAX_BYTES /\ 0 + 1 = 1
    BY <1>1
  <2>2. Limit[0] = 1 /\ Limit[1] = RADIX * 1
    BY <2>1, LimitSteps
  <2>3. left[l] \in Nat /\ left[l] \div RADIX < 1
    BY <1>1, <1>2, <2>1
  <2>4. left[l] < RADIX * 1
    BY <2>3, DividedBelow
  <2> QED
    BY <2>1, <2>2, <2>4
<1>4. ASSUME NEW k \in Nat, k \in T PROVE k + 1 \in T
  <2> SUFFICES ASSUME k + 1 < l PROVE left[l - (k + 1)] < Limit[(k + 1) + 1]
    OBVIOUS
  <2> DEFINE i == l - (k + 1)
  <2>1. i \in 1..l /\ i \in 1..l - 1 /\ i + 1 = l - k /\ k < l
        /\ k + 1 \in 0..MAX_BYTES /\ k + 1 \in 0..MAX_BYTES + 1
    BY <1>1
  <2>2. left[i + 1] < Limit[k + 1]
    BY <1>4, <2>1
  <2> HIDE DEF i
  <2>3. left[i] \in Nat /\ left[i + 1] = left[i] \div RADIX
    BY <1>1, <1>2, <2>1
  <2>4. Limit[k + 1] \in Nat /\ Limit[(k + 1) + 1] = RADIX * Limit[k + 1]
    BY <2>1, LimitSteps
  <2>5. left[i] < RADIX * Limit[k + 1]
    BY <2>2, <2>3, <2>4, DividedBelow
  <2> QED
    BY <2>4, <2>5 DEF i
<1>5. Nat \subseteq T
  <2> HIDE DEF T
  <2> QED
    BY <1>3, <1>4, Simple
<1>6. left[1] < Limit[l]
  <2>1. l - 1 \in Nat /\ l - 1 < l /\ l - (l - 1) = 1 /\ (l - 1) + 1 = l
    BY <1>1
  <2>2. l - 1 \in T
    BY <1>5, <2>1
  <2> QED
    BY <2>1, <2>2
<1>7. Limit[l] <= Limit[MAX_BYTES] /\ Limit[l] \in Nat /\ Limit[MAX_BYTES] \in Nat
  <2>1. l \in 0..MAX_BYTES /\ l \in 0..MAX_BYTES + 1 /\ MAX_BYTES \in 0..MAX_BYTES + 1
    BY <1>1
  <2> QED
    BY <2>1, LimitGrows, LimitSteps
<1>8. left[1] \in Nat
  BY <1>1
<1> QED
  BY <1>6, <1>7, <1>8

(* A number that takes more bytes is not below it.                         *)
LEMMA LongAbove ==
  ASSUME NEW bytes, NEW left \in Seq(Nat), Unrolled(bytes, left), Len(left) > MAX_BYTES
  PROVE  left[1] >= Limit[MAX_BYTES]
<1> DEFINE l == Len(left)
           m == MAX_BYTES
<1>1. l \in Nat /\ l > m /\ m \in Nat /\ m >= 1 /\ \A k \in 1..l : left[k] \in Nat
  BY Constants
<1>2. \A k \in 1..l - 1 : left[k + 1] = left[k] \div RADIX /\ left[k + 1] > 0
  BY DEF Unrolled
<1>3. /\ Limit[0] = 1 /\ \A k \in 0..m + 1 : Limit[k] \in Nat
      /\ \A k \in 0..m : Limit[k + 1] = RADIX * Limit[k]
  BY LimitSteps
<1> HIDE DEF l, m
<1> DEFINE T == {k \in Nat : k <= m => left[(m + 1) - k] >= Limit[k]}
<1>4. 0 \in T
  <2>1. m \in 1..l - 1 /\ (m + 1) - 0 = m + 1 /\ m + 1 \in 1..l
    BY <1>1
  <2>2. left[m + 1] > 0 /\ left[m + 1] \in Nat
    BY <1>1, <1>2, <2>1
  <2> QED
    BY <1>3, <2>1, <2>2
<1>5. ASSUME NEW k \in Nat, k \in T PROVE k + 1 \in T
  <2> SUFFICES ASSUME k + 1 <= m PROVE left[(m + 1) - (k + 1)] >= Limit[k + 1]
    OBVIOUS
  <2> DEFINE i == (m + 1) - (k + 1)
  <2>1. i \in 1..l /\ i \in 1..l - 1 /\ i + 1 = (m + 1) - k /\ k <= m
        /\ k \in 0..m /\ k \in 0..m + 1 /\ k + 1 \in 0..m + 1
    BY <1>1
  <2>2. left[i + 1] >= Limit[k]
    BY <1>5, <2>1
  <2> HIDE DEF i
  <2>3. left[i] \in Nat /\ left[i + 1] \in Nat /\ left[i + 1] = left[i] \div RADIX
    <3>1. i + 1 \in 1..l
      BY <1>1, <2>1
    <3> QED
      BY <1>1, <1>2, <2>1, <3>1
  <2>4. Limit[k] \in Nat /\ Limit[k + 1] \in Nat /\ Limit[k + 1] = RADIX * Limit[k]
    BY <1>3, <2>1
  <2>5. ~(left[i] < RADIX * Limit[k])
    BY <2>2, <2>3, <2>4, DividedBelow
  <2> QED
    BY <2>3, <2>4, <2>5 DEF i
<1>6. Nat \subseteq T
  <2> HIDE DEF T
  <2> QED
    BY <1>4, <1>5, Simple
<1>7. m \in T /\ m <= m /\ (m + 1) - m = 1
  BY <1>1, <1>6
<1> QED
  BY <1>7 DEF m

-----------------------------------------------------------------------------
(* kiiMQTT_decode, of what kiiMQTT_encode wrote and anything behind it.    *)

(* Decoding finds the bytes of a number in front of whatever follows them. *)
LEMMA DecodeRight ==
  ASSUME NEW bytes, NEW left \in Seq(Nat), Unrolled(bytes, left),
         NEW rest \in Seq(LenBytes)
  PROVE  IF Len(bytes) <= MAX_BYTES
         THEN kiiMQTT_decode(bytes \o rest) = [len |-> Len(bytes), value |-> left[1]]
         ELSE kiiMQTT_decode(bytes \o rest).len = -1
<1> DEFINE l == Len(bytes)
           t == bytes \o rest
           S == {i \in DOMAIN t : ~t[i].more}
<1>1. /\ bytes \in Seq(LenBytes) /\ l = Len(left) /\ l \in Nat /\ l > 0
      /\ \A k \in 1..l : bytes[k].more <=> left[k] \div RADIX > 0
  <2>1. bytes \in Seq(LenBytes) /\ l = Len(left) /\ l \in Nat /\ l > 0
    BY DEF Unrolled
  <2>2. ASSUME NEW k \in 1..l PROVE bytes[k].more <=> left[k] \div RADIX > 0
    <3>1. bytes[k] = LenByte(left[k])
      BY <2>1 DEF Unrolled
    <3> QED
      BY <3>1, LenByteFields, Zenon
  <2> QED
    BY <2>1, <2>2
<1>2. /\ t \in Seq(LenBytes) /\ Len(t) \in Nat /\ l <= Len(t) /\ DOMAIN t = 1..Len(t)
      /\ \A k \in 1..l : t[k] = bytes[k]
  <2>1. Len(rest) \in Nat
    OBVIOUS
  <2>2. /\ t \in Seq(LenBytes) /\ Len(t) = l + Len(rest)
        /\ \A k \in 1..l + Len(rest) : t[k] = IF k <= l THEN bytes[k] ELSE rest[k - l]
    BY <1>1, ConcatProperties
  <2> HIDE DEF t, l
  <2> QED
    BY <1>1, <2>1, <2>2
<1> HIDE DEF t, l
<1>3. l \in S
  <2>1. l \in 1..l /\ l \in DOMAIN t
    BY <1>1, <1>2
  <2>2. left[l] \div RADIX = 0
    BY <1>1 DEF Unrolled
  <2>3. ~(left[l] \div RADIX > 0)
    BY <2>2
  <2>4. ~t[l].more
    BY <1>1, <1>2, <2>1, <2>3
  <2> QED
    BY <2>1, <2>4
<1>4. ASSUME NEW i \in S PROVE l <= i
  <2> SUFFICES ASSUME i < l PROVE FALSE
    BY <1>1, <1>2
  <2>1. i \in 1..l /\ i \in 1..l - 1 /\ ~t[i].more
    BY <1>1, <1>2
  <2>2. left[i] \div RADIX > 0
    BY <1>1, <2>1 DEF Unrolled
  <2> QED
    BY <1>1, <1>2, <2>1, <2>2
<1>5. Least(S) = l /\ Least(S) # NULL
  <2>1. S \in SUBSET Int
    BY <1>2
  <2>2. Min(S) = l
    <3> HIDE DEF S
    <3> QED
      BY <1>3, <1>4, <2>1, MinIs
  <2> QED
    BY <1>1, <1>3, <2>2 DEF Least, NULL
<1>6. ASSUME ~(l <= MAX_BYTES) PROVE kiiMQTT_decode(t).len = -1
  <2>1. l > MAX_BYTES
    BY <1>1, <1>6, Constants
  <2> QED
    BY <1>5, <2>1 DEF kiiMQTT_decode
<1>7. ASSUME l <= MAX_BYTES
      PROVE  kiiMQTT_decode(t) = [len |-> l, value |-> left[1]]
  <2>1. ~(l > MAX_BYTES)
    BY <1>1, <1>7, Constants
  <2>2. kiiMQTT_decode(t) = [len |-> l, value |-> Weighed(SubSeq(t, 1, l))]
    BY <1>5, <2>1 DEF kiiMQTT_decode
  <2>3. SubSeq(t, 1, l) = bytes
    <3>1. ASSUME NEW i \in 1..l PROVE t[i] \in LenBytes
      <4>1. i \in 1..Len(t)
        BY <1>1, <1>2
      <4> QED
        BY <1>2, <4>1, ElementOfSeq
    <3>2. /\ SubSeq(t, 1, l) \in Seq(LenBytes) /\ Len(SubSeq(t, 1, l)) = l
          /\ \A i \in 1..l : SubSeq(t, 1, l)[i] = t[i]
      <4>1. /\ SubSeq(t, 1, l) \in Seq(LenBytes)
            /\ Len(SubSeq(t, 1, l)) = IF 1 <= l THEN l - 1 + 1 ELSE 0
            /\ \A i \in 1..l - 1 + 1 : SubSeq(t, 1, l)[i] = t[1 + i - 1]
        BY <1>1, <3>1, SubSeqProperties
      <4>2. l - 1 + 1 = l /\ 1 <= l /\ \A i \in 1..l : 1 + i - 1 = i
        BY <1>1
      <4> QED
        BY <4>1, <4>2
    <3>3. \A i \in 1..l : SubSeq(t, 1, l)[i] = bytes[i]
      BY <1>2, <3>2
    <3> QED
      BY <1>1, <3>2, <3>3, SeqEqual DEF l
  <2> QED
    BY <2>2, <2>3, WeighedRight
<1> QED
  BY <1>6, <1>7 DEF t, l

(* A remaining length is decoded to the number that was encoded and the    *)
(* bytes it took, and refused if it has more than four (kii_mqtt.c:8-43),  *)
(* for every length, radix and number of bytes.                            *)
THEOREM RemainingLengthCorrect == Spec => []RemainingLengthRight
<1>1. ASSUME Init PROVE RemainingLengthRight
  <2> SUFFICES ASSUME input.length # -1 PROVE RemainingLengthRight
    BY DEF RemainingLengthRight
  <2>1. input.length \in Nat
    BY <1>1 DEF Init, Responses, Remainders
  <2> DEFINE n == input.length
             bytes == kiiMQTT_encode(n)
             rest == <<[digit |-> 1, more |-> TRUE], [digit |-> 1, more |-> FALSE]>>
  <2>2. PICK left \in Seq(Nat) : Unrolled(bytes, left) /\ left[1] = n
    BY <2>1, EncodeRight
  <2>3. rest \in Seq(LenBytes)
    BY DEF LenBytes
  <2>4. Len(bytes) = Len(left) /\ Len(left) \in Nat
    BY <2>2 DEF Unrolled
  <2> HIDE DEF rest, bytes, n
  <2>5. IF Len(bytes) <= MAX_BYTES
        THEN kiiMQTT_decode(bytes \o rest) = [len |-> Len(bytes), value |-> n]
        ELSE kiiMQTT_decode(bytes \o rest).len = -1
    BY <2>2, <2>3, DecodeRight
  <2>6. n < Limit[MAX_BYTES] <=> Len(bytes) <= MAX_BYTES
    <3>1. MAX_BYTES \in Nat /\ MAX_BYTES \in 0..MAX_BYTES + 1
      BY Constants
    <3>2. Limit[MAX_BYTES] \in Nat /\ n \in Nat
      BY <2>1, <3>1, LimitSteps DEF n
    <3>3. Len(left) <= MAX_BYTES => n < Limit[MAX_BYTES]
      BY <2>2, ShortBelow
    <3>4. Len(left) > MAX_BYTES => n >= Limit[MAX_BYTES]
      BY <2>2, LongAbove
    <3> QED
      BY <2>4, <3>1, <3>2, <3>3, <3>4
  <2> QED
    BY <2>5, <2>6 DEF RemainingLengthRight, bytes, rest, n
<1>2. RemainingLengthRight /\ [Next]_input => RemainingLengthRight'
  BY DEF RemainingLengthRight, Next
<1> QED
  BY <1>1, <1>2, PTL DEF Spec

-----------------------------------------------------------------------------
(* The text of a response.                                                 *)

Chars == [figure : -1..9, text : STRING \cup {"", ":", " ", "CR", "LF", "NUL", "status"}]

Letters == STRING \ {":", "CR", "LF", "NUL"}

(* What is known of a character, whether text or a figure.                 *)
LEMMA CharFields ==
  /\ \A s : Text(s).text = s /\ Text(s).figure = -1
  /\ \A n : Char(n).figure = n
BY DEF Text, Char

(* Which characters there are.                                             *)
LEMMA CharTypes ==
  /\ \A s \in STRING : Text(s) \in Chars
  /\ \A n \in 0..9 : Char(n) \in Chars
  /\ CR \in Chars /\ LF \in Chars /\ Colon \in Chars /\ Blank \in Chars
  /\ Text("status") \in Chars
<1>1. -1 \in -1..9 /\ \A n \in 0..9 : n \in -1..9
  OBVIOUS
<1> QED
  BY <1>1, Zenon DEF Chars, Text, Char, CR, LF, Colon, Blank

(* No character is a carriage return but that one, no letter a colon.      *)
LEMMA CharsDiffer ==
  /\ \A s \in Letters : Text(s) # CR /\ Text(s) # Colon
  /\ \A n \in 0..9 : Char(n) # CR
  /\ Colon # CR /\ Blank # CR /\ Text("status") # CR
<1>1. ASSUME NEW s, NEW r, s # r PROVE Text(s) # Text(r)
  <2>1. Text(s).text = s /\ Text(r).text = r
    BY CharFields
  <2> QED
    BY <1>1, <2>1
<1>2. \A s \in Letters : s # "CR" /\ s # ":"
  BY Zenon DEF Letters
<1>3. ":" # "CR" /\ " " # "CR" /\ "status" # "CR"
  BY Zenon
<1>4. ASSUME NEW n \in 0..9 PROVE Char(n) # CR
  <2>1. Char(n).figure = n /\ CR.figure = -1
    BY CharFields DEF CR
  <2> QED
    BY <2>1
<1> QED
  BY <1>1, <1>2, <1>3, <1>4, Zenon DEF CR, Colon, Blank

(* Two sequences in a row.                                                 *)
LEMMA Joined2 ==
  ASSUME NEW S, NEW s \in Seq(S), NEW t \in Seq(S)
  PROVE  /\ s \o t \in Seq(S) /\ Len(s \o t) = Len(s) + Len(t)
         /\ \A i \in 1..Len(s) : (s \o t)[i] = s[i]
         /\ \A i \in 1..Len(t) : (s \o t)[Len(s) + i] = t[i]
<1>1. Len(s) \in Nat /\ Len(t) \in Nat
  OBVIOUS
<1>2. /\ s \o t \in Seq(S) /\ Len(s \o t) = Len(s) + Len(t)
      /\ \A i \in 1..Len(s) + Len(t) :
           (s \o t)[i] = IF i <= Len(s) THEN s[i] ELSE t[i - Len(s)]
  BY ConcatProperties
<1>3. ASSUME NEW i \in 1..Len(s) PROVE (s \o t)[i] = s[i]
  <2>1. i \in 1..Len(s) + Len(t) /\ i <= Len(s)
    BY <1>1
  <2> QED
    BY <1>2, <2>1
<1>4. ASSUME NEW i \in 1..Len(t) PROVE (s \o t)[Len(s) + i] = t[i]
  <2>1. Len(s) + i \in 1..Len(s) + Len(t) /\ ~(Len(s) + i <= Len(s)) /\ (Len(s) + i) - Len(s) = i
    BY <1>1
  <2> QED
    BY <1>2, <2>1
<1> QED
  BY <1>2, <1>3, <1>4

(* Three sequences in a row.                                               *)
LEMMA Joined3 ==
  ASSUME NEW S, NEW s \in Seq(S), NEW t \in Seq(S), NEW u \in Seq(S)
  PROVE  LET all == (s \o t) \o u IN
         /\ all \in Seq(S) /\ Len(all) = Len(s) + Len(t) + Len(u)
         /\ \A i \in 1..Len(s) : all[i] = s[i]
         /\ \A i \in 1..Len(t) : all[Len(s) + i] = t[i]
         /\ \A i \in 1..Len(u) : all[Len(s) + Len(t) + i] = u[i]
<1>1. Len(s) \in Nat /\ Len(t) \in Nat /\ Len(u) \in Nat
  OBVIOUS
<1> DEFINE st == s \o t
           all == st \o u
<1>2. /\ st \in Seq(S) /\ Len(st) = Len(s) + Len(t)
      /\ \A i \in 1..Len(s) : st[i] = s[i]
      /\ \A i \in 1..Len(t) : st[Len(s) + i] = t[i]
  BY Joined2
<1> HIDE DEF st
<1>3. /\ all \in Seq(S) /\ Len(all) = Len(st) + Len(u)
      /\ \A i \in 1..Len(st) : all[i] = st[i]
      /\ \A i \in 1..Len(u) : all[Len(st) + i] = u[i]
  <2>1. st \in Seq(S)
    BY <1>2
  <2> QED
    BY <2>1, Joined2
<1> HIDE DEF all
<1>4. ASSUME NEW i \in 1..Len(s) PROVE all[i] = s[i]
  <2>1. i \in 1..Len(st)
    BY <1>1, <1>2
  <2> QED
    BY <1>2, <1>3, <2>1
<1>5. ASSUME NEW i \in 1..Len(t) PROVE all[Len(s) + i] = t[i]
  <2>1. Len(s) + i \in 1..Len(st)
    BY <1>1, <1>2
  <2> QED
    BY <1>2, <1>3, <2>1
<1>6. /\ all \in Seq(S) /\ Len(all) = Len(s) + Len(t) + Len(u)
      /\ \A i \in 1..Len(u) : all[Len(s) + Len(t) + i] = u[i]
  BY <1>2, <1>3
<1> QED
  BY <1>4, <1>5, <1>6 DEF all, st

(* What a header line consists of.                                         *)
LEMMA HeaderTypes ==
  ASSUME NEW h \in Headers
  PROVE  /\ h.name \in Seq(Letters) /\ h.figures \in Seq(0..9)
         /\ Len(h.name) \in Nat /\ Len(h.figures) \in Nat
         /\ \A i \in 1..Len(h.name) : h.name[i] \in Letters
         /\ \A i \in 1..Len(h.figures) : h.figures[i] \in 0..9
<1>1. h \in [name : Seq(Letters), figures : Seq(0..9)]
  BY ParsersAssumption DEF Letters
<1>2. h.name \in Seq(Letters) /\ h.figures \in Seq(0..9)
  BY <1>1
<1> QED
  BY <1>2

(* A header line: its name, a colon, a blank and its figures, and no end.  *)
LEMMA LineIs ==
  ASSUME NEW h \in Headers
  PROVE  /\ Line(h) \in Seq(Chars)
         /\ Len(Line(h)) = Len(h.name) + 2 + Len(h.figures)
         /\ \A i \in 1..Len(h.name) : Line(h)[i] = Text(h.name[i])
         /\ Line(h)[Len(h.name) + 1] = Colon /\ Line(h)[Len(h.name) + 2] = Blank
         /\ \A i \in 1..Len(h.figures) : Line(h)[Len(h.name) + 2 + i] = Char(h.figures[i])
         /\ \A i \in 1..Len(Line(h)) : Line(h)[i] # CR
<1> DEFINE n == Len(h.name)
           m == Len(h.figures)
           s == [k \in DOMAIN h.name |-> Text(h.name[k])]
           t == <<Colon, Blank>>
           u == [k \in DOMAIN h.figures |-> Char(h.figures[k])]
<1>1. n \in Nat /\ m \in Nat /\ DOMAIN h.name = 1..n /\ DOMAIN h.figures = 1..m
  BY HeaderTypes
<1>2. s \in Seq(Chars) /\ Len(s) = n /\ \A i \in 1..n : s[i] = Text(h.name[i])
  <2>1. \A i \in 1..n : Text(h.name[i]) \in Chars
    <3> SUFFICES ASSUME NEW i \in 1..n PROVE Text(h.name[i]) \in Chars
      OBVIOUS
    <3>1. h.name[i] \in Letters
      BY HeaderTypes
    <3>2. h.name[i] \in STRING
      BY <3>1, Zenon DEF Letters
    <3> QED
      BY <3>2, CharTypes, Zenon
  <2>2. s \in [1..n -> Chars]
    BY <1>1, <2>1
  <2>3. s \in Seq(Chars) /\ Len(s) = n
    BY <1>1, <2>2
  <2> QED
    BY <1>1, <2>3
<1>3. t \in Seq(Chars) /\ Len(t) = 2 /\ t[1] = Colon /\ t[2] = Blank
  <2>1. Colon \in Chars /\ Blank \in Chars
    BY CharTypes
  <2> QED
    BY <2>1
<1>4. u \in Seq(Chars) /\ Len(u) = m /\ \A i \in 1..m : u[i] = Char(h.figures[i])
  <2>1. \A i \in 1..m : Char(h.figures[i]) \in Chars
    BY HeaderTypes, CharTypes
  <2>2. u \in [1..m -> Chars]
    BY <1>1, <2>1
  <2>3. u \in Seq(Chars) /\ Len(u) = m
    BY <1>1, <2>2
  <2> QED
    BY <1>1, <2>3
<1>5. Line(h) = (s \o t) \o u
  BY DEF Line
<1> HIDE DEF s, t, u
<1> DEFINE all == (s \o t) \o u
<1>6. /\ all \in Seq(Chars) /\ Len(all) = Len(s) + Len(t) + Len(u)
      /\ \A i \in 1..Len(s) : all[i] = s[i]
      /\ \A i \in 1..Len(t) : all[Len(s) + i] = t[i]
      /\ \A i \in 1..Len(u) : all[Len(s) + Len(t) + i] = u[i]
  <2>1. s \in Seq(Chars) /\ t \in Seq(Chars) /\ u \in Seq(Chars)
    BY <1>2, <1>3, <1>4
  <2> QED
    BY <2>1, Joined3
<1> HIDE DEF all, n, m
<1>7. /\ all \in Seq(Chars) /\ Len(all) = n + 2 + m
      /\ \A i \in 1..n : all[i] = Text(h.name[i])
      /\ all[n + 1] = Colon /\ all[n + 2] = Blank
      /\ \A i \in 1..m : all[n + 2 + i] = Char(h.figures[i])
  <2>1. 1 \in 1..Len(t) /\ 2 \in 1..Len(t)
    BY <1>3
  <2> QED
    BY <1>2, <1>3, <1>4, <1>6, <2>1
<1>8. ASSUME NEW i \in 1..Len(all) PROVE all[i] # CR
  <2>1. \/ i \in 1..n \/ i = n + 1 \/ i = n + 2
        \/ i - (n + 2) \in 1..m /\ i = n + 2 + (i - (n + 2))
    BY <1>1, <1>7
  <2>2. CASE i \in 1..n
    <3>1. h.name[i] \in Letters
      BY <2>2, HeaderTypes DEF n
    <3> QED
      BY <1>7, <2>2, <3>1, CharsDiffer
  <2>3. CASE i = n + 1
    BY <1>7, <2>3, CharsDiffer
  <2>4. CASE i = n + 2
    BY <1>7, <2>4, CharsDiffer
  <2>5. CASE i - (n + 2) \in 1..m /\ i = n + 2 + (i - (n + 2))
    <3> DEFINE k == i - (n + 2)
    <3>1. k \in 1..m /\ all[i] = Char(h.figures[k])
      BY <1>7, <2>5
    <3>2. h.figures[k] \in 0..9
      BY <3>1, HeaderTypes DEF m
    <3> HIDE DEF k
    <3> QED
      BY <3>1, <3>2, CharsDiffer
  <2> QED
    BY <2>1, <2>2, <2>3, <2>4, <2>5
<1> QED
  BY <1>5, <1>7, <1>8 DEF all, n, m

-----------------------------------------------------------------------------
(* The lines of a response, unrolled from the first to the last.           *)

(* The greatest of a set of integers, if it is known.                      *)
LEMMA MaxIs ==
  ASSUME NEW S \in SUBSET Int, NEW x \in S, \A y \in S : x >= y
  PROVE  Max(S) = x
<1>1. Max(S) \in S /\ \A y \in S : Max(S) >= y
  BY Zenon DEF Max
<1>2. Max(S) \in Int /\ x \in Int /\ Max(S) >= x /\ x >= Max(S)
  BY <1>1
<1> QED
  BY <1>2

(* A set of numbers up to n that is not empty has a greatest one.          *)
LEMMA MaxExists ==
  ASSUME NEW n \in Nat, NEW S \in SUBSET (1..n), S # {}
  PROVE  Max(S) \in S
<1> DEFINE U == {n - y : y \in S}
<1>1. U \in SUBSET Nat /\ U # {}
  <2>1. \A y \in S : n - y \in Nat
    OBVIOUS
  <2>2. PICK y \in S : TRUE
    OBVIOUS
  <2>3. n - y \in U
    OBVIOUS
  <2>4. \A u \in U : u \in Nat
    BY <2>1
  <2> HIDE DEF U
  <2> QED
    BY <2>3, <2>4
<1>2. Min(U) \in U /\ \A u \in U : Min(U) <= u
  <2> HIDE DEF U
  <2> QED
    BY <1>1, MinExists
<1>3. PICK x \in S : Min(U) = n - x
  BY <1>2
<1>4. ASSUME NEW y \in S PROVE x >= y
  <2>1. n - x <= n - y
    BY <1>2, <1>3
  <2> QED
    BY <2>1
<1>5. S \in SUBSET Int
  OBVIOUS
<1>6. Max(S) = x
  BY <1>4, <1>5, MaxIs
<1> QED
  BY <1>6

IsLines(it, headers, dom) ==
  it = [s \in SUBSET dom |->
          IF s = {} THEN <<>>
          ELSE it[s \ {Max(s)}] \o <<CR, LF>> \o Line(headers[Max(s)])]

(* The fold that writes the lines has a solution for every number of them. *)
LEMMA LinesExist ==
  ASSUME NEW headers
  PROVE  \A n \in Nat : \E it : IsLines(it, headers, 1..n)
<1> DEFINE Added(v, x) == v \o <<CR, LF>> \o Line(headers[x])
           T == {n \in Nat : \E it : IsLines(it, headers, 1..n)}
<1>1. 0 \in T
  <2> DEFINE it == [s \in SUBSET (1..0) |-> <<>>]
  <2>1. \A s \in SUBSET (1..0) : s = {}
    OBVIOUS
  <2>2. it = [s \in SUBSET (1..0) |-> IF s = {} THEN <<>> ELSE Added(it[s \ {Max(s)}], Max(s))]
    BY <2>1
  <2> HIDE DEF it
  <2>3. IsLines(it, headers, 1..0)
    BY <2>2, Zenon DEF IsLines
  <2> QED
    BY <2>3
<1>2. ASSUME NEW n \in Nat, n \in T PROVE n + 1 \in T
  <2>1. PICK it : IsLines(it, headers, 1..n)
    BY <1>2
  <2> DEFINE a == n + 1
  <2>2. a \in Nat /\ a \notin 1..n /\ 1..a = (1..n) \cup {a} /\ \A y \in 1..a : a >= y
    OBVIOUS
  <2> HIDE DEF a
  <2> DEFINE g == [s \in SUBSET (1..a) |->
                     IF a \in s THEN Added(it[s \ {a}], a) ELSE it[s]]
  <2> HIDE DEF Added
  <2>3. ASSUME NEW s \in SUBSET (1..a)
        PROVE  g[s] = IF s = {} THEN <<>> ELSE Added(g[s \ {Max(s)}], Max(s))
    <3>1. CASE a \in s
      <4>1. Max(s) = a
        <5>1. s \in SUBSET Int /\ \A y \in s : a >= y
          BY <2>2
        <5> QED
          BY <3>1, <5>1, MaxIs
      <4>2. s \ {a} \in SUBSET (1..a) /\ a \notin s \ {a}
        OBVIOUS
      <4>3. g[s \ {a}] = it[s \ {a}]
        BY <4>2
      <4>4. g[s] = Added(it[s \ {a}], a)
        BY <3>1
      <4> HIDE DEF g
      <4> QED
        BY <3>1, <4>1, <4>3, <4>4
    <3>2. CASE a \notin s
      <4>1. s \in SUBSET (1..n)
        BY <2>2, <3>2
      <4>2. it[s] = IF s = {} THEN <<>> ELSE Added(it[s \ {Max(s)}], Max(s))
        BY <2>1, <4>1 DEF IsLines, Added
      <4>3. s \ {Max(s)} \in SUBSET (1..a) /\ a \notin s \ {Max(s)}
        BY <3>2
      <4>4. g[s \ {Max(s)}] = it[s \ {Max(s)}]
        BY <4>3
      <4>5. g[s] = it[s]
        BY <3>2
      <4> HIDE DEF g
      <4> QED
        BY <4>2, <4>4, <4>5
    <3> QED
      BY <3>1, <3>2
  <2>4. g = [s \in SUBSET (1..a) |-> IF s = {} THEN <<>> ELSE Added(g[s \ {Max(s)}], Max(s))]
    BY <2>3
  <2> HIDE DEF g
  <2>5. IsLines(g, headers, 1..a)
    BY <2>4, Zenon DEF IsLines, Added
  <2> QED
    BY <2>2, <2>5 DEF a
<1>3. Nat \subseteq T
  <2> HIDE DEF T
  <2> QED
    BY <1>1, <1>2, Simple
<1> QED
  BY <1>3

(* Where the lines of a response end: ends[k] is the place of the last     *)
(* character of the k-th, ends[0] that of the status line.                 *)
Laid(text, headers, ends) ==
  /\ text \in Seq(Chars)
  /\ \A k \in 0..Len(headers) :
       /\ ends[k] \in Nat \ {0} /\ ends[k] + 4 <= Len(text)
       /\ text[ends[k] + 1] = CR /\ text[ends[k] + 2] = LF
  /\ ends[0] = 1 /\ text[1] = Text("status")
  /\ \A k \in 1..Len(headers) :
       /\ ends[k] = ends[k - 1] + 2 + Len(Line(headers[k]))
       /\ \A i \in 1..Len(Line(headers[k])) :
            text[ends[k - 1] + 2 + i] = Line(headers[k])[i]
  /\ text[ends[Len(headers)] + 3] = CR /\ text[ends[Len(headers)] + 4] = LF

(* The text of every response is laid out in such lines.                   *)
LEMMA RenderedLaid ==
  ASSUME NEW headers \in Seq(Headers), NEW body \in Seq(Chars)
  PROVE  \E ends : Laid(Rendered(headers, body), headers, ends)
<1> DEFINE n == Len(headers)
           crlf == <<CR, LF>>
           status == <<Text("status")>>
           last == <<CR, LF, CR, LF>>
<1>1. n \in Nat /\ DOMAIN headers = 1..n /\ \A k \in 1..n : headers[k] \in Headers
  OBVIOUS
<1>2. PICK it : /\ IsLines(it, headers, 1..n)
                /\ Rendered(headers, body) = status \o it[1..n] \o last \o body
  <2>1. \E it : IsLines(it, headers, DOMAIN headers)
    BY <1>1, LinesExist
  <2>2. \E it : /\ IsLines(it, headers, DOMAIN headers)
                /\ Rendered(headers, body) = status \o it[DOMAIN headers] \o last \o body
    BY <2>1 DEF IsLines, Rendered, FoldLeft, MapThenFoldSet
  <2> QED
    BY <1>1, <2>2
<1>3. /\ crlf \in Seq(Chars) /\ Len(crlf) = 2 /\ crlf[1] = CR /\ crlf[2] = LF
      /\ status \in Seq(Chars) /\ Len(status) = 1 /\ status[1] = Text("status")
      /\ last \in Seq(Chars) /\ Len(last) = 4
      /\ last[1] = CR /\ last[2] = LF /\ last[3] = CR /\ last[4] = LF
  <2>1. CR \in Chars /\ LF \in Chars /\ Text("status") \in Chars
    BY CharTypes
  <2> QED
    BY <2>1
<1> HIDE DEF crlf, status, last, n
<1> DEFINE G(k) == it[1..k]
<1>4. G(0) = <<>>
  <2>1. 1..0 = {} /\ {} \in SUBSET (1..n)
    OBVIOUS
  <2> QED
    BY <1>2, <2>1 DEF IsLines
<1>5. ASSUME NEW k \in 0..n - 1
      PROVE  G(k + 1) = (G(k) \o crlf) \o Line(headers[k + 1])
  <2>1. /\ k + 1 \in 1..k + 1 /\ \A y \in 1..k + 1 : k + 1 >= y
        /\ (1..k + 1) \ {k + 1} = 1..k /\ 1..k + 1 \in SUBSET (1..n)
        /\ 1..k + 1 \in SUBSET Int
    BY <1>1
  <2>2. Max(1..k + 1) = k + 1
    BY <2>1, MaxIs
  <2> QED
    BY <1>2, <2>1, <2>2 DEF IsLines, crlf
<1> HIDE DEF G
<1>6. ASSUME NEW k \in 0..n - 1, G(k) \in Seq(Chars)
      PROVE  LET line == Line(headers[k + 1]) IN
             /\ G(k + 1) \in Seq(Chars) /\ Len(G(k + 1)) = Len(G(k)) + 2 + Len(line)
             /\ \A i \in 1..Len(G(k)) : G(k + 1)[i] = G(k)[i]
             /\ G(k + 1)[Len(G(k)) + 1] = CR /\ G(k + 1)[Len(G(k)) + 2] = LF
             /\ \A i \in 1..Len(line) : G(k + 1)[Len(G(k)) + 2 + i] = line[i]
  <2> DEFINE line == Line(headers[k + 1])
  <2>1. line \in Seq(Chars)
    <3>1. headers[k + 1] \in Headers
      <4>1. k + 1 \in 1..n
        BY <1>1
      <4> QED
        BY <1>1, <4>1
    <3> QED
      BY <3>1, LineIs
  <2> HIDE DEF line
  <2>2. /\ G(k + 1) \in Seq(Chars) /\ Len(G(k + 1)) = Len(G(k)) + Len(crlf) + Len(line)
        /\ \A i \in 1..Len(G(k)) : G(k + 1)[i] = G(k)[i]
        /\ \A i \in 1..Len(crlf) : G(k + 1)[Len(G(k)) + i] = crlf[i]
        /\ \A i \in 1..Len(line) : G(k + 1)[Len(G(k)) + Len(crlf) + i] = line[i]
    <3>1. G(k + 1) = (G(k) \o crlf) \o line
      BY <1>5 DEF line
    <3>2. G(k) \in Seq(Chars) /\ crlf \in Seq(Chars)
      BY <1>3, <1>6
    <3> DEFINE before == G(k)
               after == G(k + 1)
    <3>3. before \in Seq(Chars) /\ after = (before \o crlf) \o line
      BY <3>1, <3>2
    <3> HIDE DEF before, after
    <3>4. /\ after \in Seq(Chars) /\ Len(after) = Len(before) + Len(crlf) + Len(line)
          /\ \A i \in 1..Len(before) : after[i] = before[i]
          /\ \A i \in 1..Len(crlf) : after[Len(before) + i] = crlf[i]
          /\ \A i \in 1..Len(line) : after[Len(before) + Len(crlf) + i] = line[i]
      <4>1. before \in Seq(Chars)
        BY <3>3
      <4>2. crlf \in Seq(Chars)
        BY <3>2
      <4> DEFINE all == (before \o crlf) \o line
      <4>3. /\ all \in Seq(Chars) /\ Len(all) = Len(before) + Len(crlf) + Len(line)
            /\ \A i \in 1..Len(before) : all[i] = before[i]
            /\ \A i \in 1..Len(crlf) : all[Len(before) + i] = crlf[i]
            /\ \A i \in 1..Len(line) : all[Len(before) + Len(crlf) + i] = line[i]
        BY <2>1, <4>1, <4>2, Joined3
      <4>4. after = all
        BY <3>3
      <4> HIDE DEF all
      <4> QED
        BY <4>3, <4>4
    <3> QED
      BY <3>4 DEF before, after
  <2>3. Len(crlf) = 2 /\ crlf[1] = CR /\ crlf[2] = LF /\ 1 \in 1..2 /\ 2 \in 1..2
    BY <1>3
  <2> QED
    BY <2>2, <2>3 DEF line
<1>7. \A k \in 0..n : G(k) \in Seq(Chars) /\ Len(G(k)) \in Nat
  <2> DEFINE T == {k \in Nat : k <= n => G(k) \in Seq(Chars)}
  <2>1. 0 \in T
    <3>1. <<>> \in Seq(Chars)
      OBVIOUS
    <3>2. G(0) \in Seq(Chars)
      BY <1>4, <3>1
    <3> QED
      BY <3>2
  <2>2. ASSUME NEW k \in Nat, k \in T PROVE k + 1 \in T
    <3> SUFFICES ASSUME k + 1 <= n PROVE G(k + 1) \in Seq(Chars)
      OBVIOUS
    <3>1. k \in 0..n - 1 /\ G(k) \in Seq(Chars)
      BY <1>1, <2>2
    <3> QED
      BY <1>6, <3>1
  <2>3. Nat \subseteq T
    <3> HIDE DEF T
    <3> QED
      BY <2>1, <2>2, Simple
  <2> QED
    BY <1>1, <2>3
(* What has been written of the lines stays in front of what follows.      *)
<1>8. \A k \in 0..n : /\ Len(G(k)) <= Len(G(n))
                      /\ \A i \in 1..Len(G(k)) : G(n)[i] = G(k)[i]
  <2> DEFINE Stays(k) == /\ Len(G(k)) <= Len(G(n))
                         /\ \A i \in 1..Len(G(k)) : G(n)[i] = G(k)[i]
             T == {k \in Nat : k <= n => Stays(n - k)}
  <2>1. 0 \in T
    <3>1. n - 0 = n /\ n \in 0..n
      BY <1>1
    <3> QED
      BY <1>7, <3>1
  <2>2. ASSUME NEW k \in Nat, k \in T PROVE k + 1 \in T
    <3> SUFFICES ASSUME k + 1 <= n PROVE Stays(n - (k + 1))
      OBVIOUS
    <3> DEFINE j == n - (k + 1)
    <3>1. j \in 0..n - 1 /\ j \in 0..n /\ j + 1 = n - k /\ k <= n /\ n \in 0..n /\ j + 1 \in 0..n
      BY <1>1
    <3>2. Stays(j + 1)
      BY <2>2, <3>1
    <3> HIDE DEF j
    <3>3. /\ Len(G(j + 1)) = Len(G(j)) + 2 + Len(Line(headers[j + 1]))
          /\ \A i \in 1..Len(G(j)) : G(j + 1)[i] = G(j)[i]
      BY <1>6, <1>7, <3>1
    <3>4. Len(Line(headers[j + 1])) \in Nat
      <4>1. headers[j + 1] \in Headers
        BY <1>1, <3>1
      <4>2. Line(headers[j + 1]) \in Seq(Chars)
        BY <4>1, LineIs
      <4> QED
        BY <4>2
    <3>5. Len(G(j)) \in Nat /\ Len(G(j + 1)) \in Nat /\ Len(G(n)) \in Nat
      BY <1>7, <3>1
    <3>6. Stays(j)
      BY <3>2, <3>3, <3>4, <3>5
    <3> QED
      BY <3>6 DEF j
  <2>3. Nat \subseteq T
    <3> HIDE DEF T
    <3> QED
      BY <2>1, <2>2, Simple
  <2> QED
    <3> TAKE k \in 0..n
    <3>1. n - k \in Nat /\ n - k <= n /\ n - (n - k) = k
      BY <1>1
    <3>2. n - k \in T
      BY <2>3, <3>1
    <3> QED
      BY <3>1, <3>2
<1> DEFINE ends == [k \in 0..n |-> 1 + Len(G(k))]
           text == Rendered(headers, body)
<1>9. /\ text \in Seq(Chars) /\ Len(text) >= Len(G(n)) + 5 /\ text[1] = Text("status")
      /\ \A i \in 1..Len(G(n)) : text[1 + i] = G(n)[i]
      /\ text[Len(G(n)) + 2] = CR /\ text[Len(G(n)) + 3] = LF
      /\ text[Len(G(n)) + 4] = CR /\ text[Len(G(n)) + 5] = LF
  <2> DEFINE head == (status \o G(n)) \o last
  <2>1. G(n) \in Seq(Chars) /\ Len(G(n)) \in Nat
    BY <1>1, <1>7
  <2>2. /\ head \in Seq(Chars) /\ Len(head) = Len(status) + Len(G(n)) + Len(last)
        /\ \A i \in 1..Len(status) : head[i] = status[i]
        /\ \A i \in 1..Len(G(n)) : head[Len(status) + i] = G(n)[i]
        /\ \A i \in 1..Len(last) : head[Len(status) + Len(G(n)) + i] = last[i]
    <3>1. status \in Seq(Chars) /\ last \in Seq(Chars)
      BY <1>3
    <3> QED
      BY <2>1, <3>1, Joined3
  <2>3. text = head \o body
    BY <1>2 DEF G
  <2> HIDE DEF head, text
  <2>4. /\ text \in Seq(Chars) /\ Len(text) = Len(head) + Len(body)
        /\ \A i \in 1..Len(head) : text[i] = head[i]
    <3>1. head \in Seq(Chars)
      BY <2>2
    <3> QED
      BY <2>3, <3>1, Joined2
  <2>5. /\ Len(head) = Len(G(n)) + 5 /\ head[1] = Text("status")
        /\ \A i \in 1..Len(G(n)) : head[1 + i] = G(n)[i]
        /\ head[Len(G(n)) + 2] = CR /\ head[Len(G(n)) + 3] = LF
        /\ head[Len(G(n)) + 4] = CR /\ head[Len(G(n)) + 5] = LF
    <3>1. /\ 1 \in 1..1 /\ 1 \in 1..4 /\ 2 \in 1..4 /\ 3 \in 1..4 /\ 4 \in 1..4
          /\ 1 + Len(G(n)) + 1 = Len(G(n)) + 2 /\ 1 + Len(G(n)) + 2 = Len(G(n)) + 3
          /\ 1 + Len(G(n)) + 3 = Len(G(n)) + 4 /\ 1 + Len(G(n)) + 4 = Len(G(n)) + 5
      BY <2>1
    <3>2. Len(head) = 1 + Len(G(n)) + 4
      BY <1>3, <2>2
    <3>3. head[1] = Text("status")
      BY <1>3, <2>2, <3>1
    <3>4. \A i \in 1..Len(G(n)) : head[1 + i] = G(n)[i]
      BY <1>3, <2>2
    <3>5. \A i \in 1..4 : head[1 + Len(G(n)) + i] = last[i]
      BY <1>3, <2>2
    <3>6. /\ head[1 + Len(G(n)) + 1] = CR /\ head[1 + Len(G(n)) + 2] = LF
          /\ head[1 + Len(G(n)) + 3] = CR /\ head[1 + Len(G(n)) + 4] = LF
      BY <1>3, <3>1, <3>5
    <3> QED
      BY <3>1, <3>2, <3>3, <3>4, <3>6
  <2>6. Len(body) \in Nat
    OBVIOUS
  <2>7. /\ 1 \in 1..Len(head) /\ \A i \in 1..Len(G(n)) : 1 + i \in 1..Len(head)
        /\ \A d \in 2..5 : Len(G(n)) + d \in 1..Len(head)
        /\ 2 \in 2..5 /\ 3 \in 2..5 /\ 4 \in 2..5 /\ 5 \in 2..5
    BY <2>1, <2>5
  <2>8. Len(text) >= Len(G(n)) + 5
    BY <2>1, <2>4, <2>5, <2>6
  <2> QED
    BY <2>4, <2>5, <2>7, <2>8
<1> HIDE DEF text
<1>10. ASSUME NEW k \in 1..n
       PROVE  /\ Len(G(k)) = Len(G(k - 1)) + 2 + Len(Line(headers[k]))
              /\ text[Len(G(k - 1)) + 2] = CR /\ text[Len(G(k - 1)) + 3] = LF
              /\ \A i \in 1..Len(Line(headers[k])) :
                   text[Len(G(k - 1)) + 3 + i] = Line(headers[k])[i]
  <2> DEFINE j == k - 1
             line == Line(headers[k])
  <2>1. j \in 0..n - 1 /\ j \in 0..n /\ k \in 0..n /\ j + 1 = k
    BY <1>1
  <2> HIDE DEF j
  <2>2. /\ Len(G(k)) = Len(G(j)) + 2 + Len(line)
        /\ G(k)[Len(G(j)) + 1] = CR /\ G(k)[Len(G(j)) + 2] = LF
        /\ \A i \in 1..Len(line) : G(k)[Len(G(j)) + 2 + i] = line[i]
    BY <1>6, <1>7, <2>1
  <2>3. Len(line) \in Nat
    <3>1. line \in Seq(Chars)
      BY <1>1, LineIs
    <3> QED
      BY <3>1
  <2> HIDE DEF line
  <2>4. Len(G(j)) \in Nat /\ Len(G(k)) \in Nat /\ Len(G(n)) \in Nat /\ Len(G(k)) <= Len(G(n))
    BY <1>1, <1>7, <1>8, <2>1
  <2>5. ASSUME NEW i \in 1..Len(G(k)) PROVE text[1 + i] = G(k)[i]
    <3>1. i \in 1..Len(G(n))
      BY <2>4
    <3> QED
      BY <1>8, <1>9, <2>1, <3>1
  <2>6. /\ Len(G(j)) + 1 \in 1..Len(G(k)) /\ 1 + (Len(G(j)) + 1) = Len(G(j)) + 2
        /\ Len(G(j)) + 2 \in 1..Len(G(k)) /\ 1 + (Len(G(j)) + 2) = Len(G(j)) + 3
    BY <2>2, <2>3, <2>4
  <2>7. ASSUME NEW i \in 1..Len(line) PROVE text[Len(G(j)) + 3 + i] = line[i]
    <3>1. /\ Len(G(j)) + 2 + i \in 1..Len(G(k))
          /\ 1 + (Len(G(j)) + 2 + i) = Len(G(j)) + 3 + i
      BY <2>2, <2>3, <2>4
    <3>2. text[1 + (Len(G(j)) + 2 + i)] = G(k)[Len(G(j)) + 2 + i]
      BY <2>5, <3>1
    <3> QED
      BY <2>2, <3>1, <3>2
  <2>8. text[Len(G(j)) + 2] = CR /\ text[Len(G(j)) + 3] = LF
    <3>1. /\ text[1 + (Len(G(j)) + 1)] = G(k)[Len(G(j)) + 1]
          /\ text[1 + (Len(G(j)) + 2)] = G(k)[Len(G(j)) + 2]
      BY <2>5, <2>6
    <3> QED
      BY <2>2, <2>6, <3>1
  <2> QED
    BY <2>2, <2>7, <2>8 DEF j, line
<1>11. Laid(text, headers, ends)
  <2>1. ASSUME NEW k \in 0..n
        PROVE  /\ ends[k] = 1 + Len(G(k)) /\ ends[k] \in Nat \ {0} /\ ends[k] + 4 <= Len(text)
               /\ text[ends[k] + 1] = CR /\ text[ends[k] + 2] = LF
    <3>1. /\ ends[k] = 1 + Len(G(k)) /\ Len(G(k)) \in Nat /\ Len(G(n)) \in Nat
          /\ Len(G(k)) <= Len(G(n)) /\ Len(text) \in Nat
      BY <1>1, <1>7, <1>8, <1>9
    <3> HIDE DEF ends
    <3>2. ends[k] \in Nat \ {0} /\ ends[k] + 4 <= Len(text)
      BY <1>9, <3>1
    <3>3. ends[k] + 1 = Len(G(k)) + 2 /\ ends[k] + 2 = Len(G(k)) + 3
      BY <3>1
    <3>4. CASE k = n
      BY <1>9, <3>1, <3>2, <3>3, <3>4
    <3>5. CASE k # n
      <4>1. k + 1 \in 1..n /\ (k + 1) - 1 = k
        BY <1>1, <3>5
      <4>2. text[Len(G(k)) + 2] = CR /\ text[Len(G(k)) + 3] = LF
        BY <1>10, <4>1
      <4> QED
        BY <3>1, <3>2, <3>3, <4>2
    <3> QED
      BY <3>4, <3>5
  <2>2. ends[0] = 1
    <3>1. 0 \in 0..n /\ Len(G(0)) = 0
      BY <1>1, <1>4
    <3> QED
      BY <2>1, <3>1
  <2> HIDE DEF ends
  <2>3. ASSUME NEW k \in 1..n
        PROVE  /\ ends[k] = ends[k - 1] + 2 + Len(Line(headers[k]))
               /\ \A i \in 1..Len(Line(headers[k])) :
                    text[ends[k - 1] + 2 + i] = Line(headers[k])[i]
    <3>1. k \in 0..n /\ k - 1 \in 0..n
      BY <1>1
    <3>2. /\ ends[k] = 1 + Len(G(k)) /\ ends[k - 1] = 1 + Len(G(k - 1))
          /\ Len(G(k)) \in Nat /\ Len(G(k - 1)) \in Nat
      BY <1>7, <2>1, <3>1
    <3>3. ASSUME NEW i \in 1..Len(Line(headers[k]))
          PROVE  text[ends[k - 1] + 2 + i] = Line(headers[k])[i]
      <4>1. ends[k - 1] + 2 + i = Len(G(k - 1)) + 3 + i
        BY <3>2
      <4> QED
        BY <1>10, <4>1
    <3>4. Len(Line(headers[k])) \in Nat
      <4>1. Line(headers[k]) \in Seq(Chars)
        BY <1>1, LineIs
      <4> QED
        BY <4>1
    <3>5. Len(G(k)) = Len(G(k - 1)) + 2 + Len(Line(headers[k]))
      BY <1>10
    <3>6. ends[k] = ends[k - 1] + 2 + Len(Line(headers[k]))
      BY <3>2, <3>4, <3>5
    <3> QED
      BY <3>3, <3>6
  <2>4. text[ends[n] + 3] = CR /\ text[ends[n] + 4] = LF
    <3>1. n \in 0..n
      BY <1>1
    <3>2. ends[n] = 1 + Len(G(n)) /\ Len(G(n)) \in Nat
      BY <1>7, <2>1, <3>1
    <3>3. ends[n] + 3 = Len(G(n)) + 4 /\ ends[n] + 4 = Len(G(n)) + 5
      BY <3>2
    <3> QED
      BY <1>9, <3>3
  <2> QED
    BY <1>9, <2>1, <2>2, <2>3, <2>4 DEF Laid, n
<1> QED
  BY <1>11 DEF text


(* Where the k-th line begins, the status line for 0.                      *)
Start(ends, k) == IF k = 0 THEN 1 ELSE ends[k - 1] + 3

(* What is found where the k-th header line begins, and from there on.     *)
LEMMA LineAt ==
  ASSUME NEW headers \in Seq(Headers), NEW text, NEW ends, Laid(text, headers, ends),
         NEW k \in 1..Len(headers)
  PROVE  LET h == headers[k]
             at == Start(ends, k)
             n == Len(h.name)
             m == Len(h.figures)
         IN /\ h \in Headers /\ n \in Nat /\ m \in Nat
            /\ at \in Nat /\ at > 2 /\ at = ends[k - 1] + 3 /\ ends[k] = at + n + 1 + m
            /\ EndOfLine(text, at - 2)
            /\ \A i \in 1..n : At(text, at + i - 1) = Text(h.name[i])
            /\ At(text, at + n) = Colon /\ At(text, at + n + 1) = Blank
            /\ \A i \in 1..m : At(text, at + n + 1 + i) = Char(h.figures[i])
            /\ At(text, at + n + 1 + m + 1) = CR
            /\ \A j \in at..at + n + 1 + m : j \in DOMAIN text /\ At(text, j) # CR
<1> DEFINE h == headers[k]
           at == Start(ends, k)
           n == Len(h.name)
           m == Len(h.figures)
           line == Line(h)
<1>1. h \in Headers /\ k \in Nat /\ k # 0 /\ k \in 0..Len(headers) /\ k - 1 \in 0..Len(headers)
  OBVIOUS
<1>2. n \in Nat /\ m \in Nat
  BY <1>1, HeaderTypes
<1>3. /\ line \in Seq(Chars) /\ Len(line) = n + 2 + m
      /\ \A i \in 1..n : line[i] = Text(h.name[i])
      /\ line[n + 1] = Colon /\ line[n + 2] = Blank
      /\ \A i \in 1..m : line[n + 2 + i] = Char(h.figures[i])
      /\ \A i \in 1..Len(line) : line[i] # CR
  BY <1>1, LineIs
<1>4. /\ text \in Seq(Chars) /\ ends[k - 1] \in Nat \ {0} /\ ends[k] \in Nat \ {0}
      /\ ends[k] + 4 <= Len(text) /\ ends[k] = ends[k - 1] + 2 + Len(line)
      /\ \A i \in 1..Len(line) : text[ends[k - 1] + 2 + i] = line[i]
      /\ text[ends[k] + 1] = CR
      /\ text[ends[k - 1] + 1] = CR /\ text[ends[k - 1] + 2] = LF
  BY <1>1 DEF Laid
<1>5. at = ends[k - 1] + 3
  BY <1>1 DEF Start
<1> DEFINE before == ends[k - 1]
           last == ends[k]
<1> HIDE DEF at, line, n, m, h
<1>6. /\ DOMAIN text = 1..Len(text) /\ Len(text) \in Nat
      /\ at \in Nat /\ at > 2 /\ ends[k] = at + n + 1 + m
      /\ ends[k] + 4 <= Len(text) /\ before \in Nat /\ at = before + 3
  <2>1. before \in Nat \ {0} /\ at = before + 3
    BY <1>4, <1>5
  <2>2. last = before + 2 + (n + 2 + m)
    BY <1>3, <1>4
  <2>3. DOMAIN text = 1..Len(text) /\ Len(text) \in Nat
    BY <1>4
  <2> HIDE DEF before
  <2>4. at \in Nat /\ at > 2 /\ last = at + n + 1 + m
    BY <1>2, <2>1, <2>2
  <2> QED
    BY <1>4, <2>1, <2>3, <2>4 DEF before, last
<1> DEFINE len == Len(text)
<1> HIDE DEF before, last, len
<1>6a. len \in Nat /\ last = at + n + 1 + m /\ last + 4 <= len /\ DOMAIN text = 1..len
  BY <1>6 DEF last, len
<1>7. ASSUME NEW i \in 1..n + 2 + m
      PROVE  at + i - 1 \in DOMAIN text /\ At(text, at + i - 1) = line[i]
  <2>1. i \in Nat /\ at \in Nat /\ before \in Nat /\ at = before + 3
    BY <1>2, <1>6
  <2>2. at + i - 1 \in 1..len
    BY <1>2, <1>6, <1>6a
  <2>3. at + i - 1 = before + 2 + i
    BY <2>1
  <2>4. i \in 1..Len(line)
    BY <1>3
  <2>5. text[at + i - 1] = line[i]
    BY <1>4, <2>3, <2>4 DEF before
  <2> QED
    BY <1>6a, <2>2, <2>5 DEF At
<1>8. \A i \in 1..n : At(text, at + i - 1) = Text(h.name[i])
  <2>1. \A i \in 1..n : i \in 1..n + 2 + m
    BY <1>2
  <2> QED
    BY <1>3, <1>7, <2>1
<1>9. At(text, at + n) = Colon /\ At(text, at + n + 1) = Blank
  <2>1. /\ n + 1 \in 1..n + 2 + m /\ at + (n + 1) - 1 = at + n
        /\ n + 2 \in 1..n + 2 + m /\ at + (n + 2) - 1 = at + n + 1
    BY <1>2, <1>6
  <2> QED
    BY <1>3, <1>7, <2>1
<1>10. ASSUME NEW i \in 1..m PROVE At(text, at + n + 1 + i) = Char(h.figures[i])
  <2>1. n + 2 + i \in 1..n + 2 + m /\ at + (n + 2 + i) - 1 = at + n + 1 + i
    BY <1>2, <1>6
  <2> QED
    BY <1>3, <1>7, <2>1
<1>11. At(text, at + n + 1 + m + 1) = CR
  <2>1. at + n + 1 + m + 1 = last + 1 /\ last + 1 \in 1..len
    BY <1>2, <1>6, <1>6a
  <2> QED
    BY <1>4, <1>6a, <2>1 DEF At, last
<1>12. ASSUME NEW j \in at..at + n + 1 + m PROVE j \in DOMAIN text /\ At(text, j) # CR
  <2>1. j - at + 1 \in 1..n + 2 + m /\ at + (j - at + 1) - 1 = j
    BY <1>2, <1>6
  <2> QED
    BY <1>3, <1>7, <2>1
<1>13. EndOfLine(text, at - 2)
  <2>1. /\ at - 2 = before + 1 /\ (at - 2) + 1 = before + 2
        /\ before + 1 \in 1..len /\ before + 2 \in 1..len
    BY <1>2, <1>6, <1>6a
  <2> QED
    BY <1>4, <1>6a, <2>1 DEF EndOfLine, At, before
<1> QED
  BY <1>1, <1>2, <1>5, <1>6, <1>8, <1>9, <1>10, <1>11, <1>12, <1>13 DEF h, at, n, m

(* The least of a set of numbers that is known to be there.                *)
LEMMA LeastIs ==
  ASSUME NEW S \in SUBSET Int, NEW x \in S, \A y \in S : x <= y
  PROVE  Least(S) = x
<1>1. Min(S) = x
  BY MinIs
<1> QED
  BY <1>1 DEF Least

(* From the beginning of a line the parser comes to that of the next, and  *)
(* from the last line to none: the empty line follows.                     *)
LEMMA SkipsLine ==
  ASSUME NEW headers \in Seq(Headers), NEW text, NEW ends, Laid(text, headers, ends),
         NEW k \in 0..Len(headers)
  PROVE  /\ Start(ends, k) \in 1..Len(text)
         /\ skip(text, Start(ends, k)) =
              IF k = Len(headers) THEN NULL ELSE Start(ends, k + 1)
<1> DEFINE at == Start(ends, k)
           end == ends[k] + 1
           S == {j \in at..Len(text) : EndOfLine(text, j)}
<1>1. /\ text \in Seq(Chars) /\ Len(text) \in Nat /\ DOMAIN text = 1..Len(text)
      /\ ends[k] \in Nat \ {0} /\ ends[k] + 4 <= Len(text)
      /\ text[ends[k] + 1] = CR /\ text[ends[k] + 2] = LF
      /\ Len(headers) \in Nat /\ k \in Nat
  BY DEF Laid
<1>2. EndOfLine(text, end)
  <2>1. end \in DOMAIN text /\ end + 1 \in DOMAIN text /\ end + 1 = ends[k] + 2
    BY <1>1
  <2> QED
    BY <1>1, <2>1 DEF EndOfLine, At
<1>3. at \in Nat \ {0} /\ at <= end /\ \A j \in at..ends[k] : At(text, j) # CR
  <2>1. CASE k = 0
    <3>1. at = 1 /\ ends[k] = 1 /\ text[1] = Text("status") /\ 1 \in DOMAIN text
      BY <1>1, <2>1 DEF Start, Laid
    <3>2. At(text, 1) = Text("status")
      BY <3>1 DEF At
    <3>3. Text("status") # CR
      BY CharsDiffer
    <3>4. \A j \in at..ends[k] : j = 1
      BY <3>1
    <3>5. \A j \in at..ends[k] : At(text, j) # CR
      BY <3>2, <3>3, <3>4
    <3> HIDE DEF at
    <3> QED
      BY <3>1, <3>5
  <2>2. CASE k # 0
    <3> DEFINE n == Len(headers[k].name)
               m == Len(headers[k].figures)
    <3>1. k \in 1..Len(headers)
      BY <1>1, <2>2
    <3>2. /\ n \in Nat /\ m \in Nat /\ at \in Nat /\ at > 2 /\ ends[k] = at + n + 1 + m
          /\ \A j \in at..at + n + 1 + m : At(text, j) # CR
      BY <3>1, LineAt
    <3> HIDE DEF at, n, m
    <3> QED
      BY <3>2
  <2> QED
    BY <2>1, <2>2
<1> HIDE DEF at
<1>4. Least(S) = end
  <2>1. S \in SUBSET Int /\ end \in S
    BY <1>1, <1>2, <1>3
  <2>2. ASSUME NEW y \in S PROVE end <= y
    <3>1. y \in Nat /\ y >= at /\ At(text, y) = CR
      BY <1>1, <1>3 DEF EndOfLine
    <3>2. ~(y \in at..ends[k])
      BY <1>3, <3>1
    <3> QED
      BY <1>1, <1>3, <3>1, <3>2
  <2> HIDE DEF S, end
  <2> QED
    BY <2>1, <2>2, LeastIs
<1>5. end # NULL /\ end + 2 = ends[k] + 3 /\ at \in 1..Len(text)
  <2> DEFINE last == ends[k]
             len == Len(text)
  <2>1. last \in Nat \ {0} /\ last + 4 <= len /\ len \in Nat
    BY <1>1
  <2>2. at \in Nat \ {0} /\ at <= last + 1
    BY <1>3
  <2> HIDE DEF last, len
  <2>3. last + 1 # NULL /\ (last + 1) + 2 = last + 3
    BY <2>1 DEF NULL
  <2>4. at \in 1..len
    BY <2>1, <2>2
  <2> QED
    BY <2>3, <2>4 DEF last, len
<1>6. skip(text, at) = IF EndOfLine(text, ends[k] + 3) THEN NULL ELSE ends[k] + 3
  BY <1>4, <1>5 DEF skip
<1>7. CASE k = Len(headers)
  <2>1. text[ends[k] + 3] = CR /\ text[ends[k] + 4] = LF
    BY <1>7 DEF Laid
  <2>2. ends[k] + 3 \in DOMAIN text /\ (ends[k] + 3) + 1 \in DOMAIN text /\ (ends[k] + 3) + 1 = ends[k] + 4
    <3> DEFINE last == ends[k]
               len == Len(text)
    <3>1. last \in Nat /\ last + 4 <= len /\ len \in Nat /\ DOMAIN text = 1..len
      BY <1>1
    <3> HIDE DEF last, len
    <3>2. last + 3 \in 1..len /\ (last + 3) + 1 \in 1..len /\ (last + 3) + 1 = last + 4
      BY <3>1
    <3> QED
      BY <3>1, <3>2 DEF last
  <2>3. EndOfLine(text, ends[k] + 3)
    BY <2>1, <2>2 DEF EndOfLine, At
  <2> QED
    BY <1>5, <1>6, <1>7, <2>3 DEF at
<1>8. CASE k # Len(headers)
  <2> DEFINE next == Start(ends, k + 1)
             n == Len(headers[k + 1].name)
             m == Len(headers[k + 1].figures)
  <2>1. k + 1 \in 1..Len(headers) /\ (k + 1) - 1 = k
    BY <1>1, <1>8
  <2>2. /\ n \in Nat /\ m \in Nat /\ next \in Nat /\ next = ends[(k + 1) - 1] + 3
        /\ \A j \in next..next + n + 1 + m : At(text, j) # CR
    BY <2>1, LineAt
  <2>3. next = ends[k] + 3
    BY <2>1, <2>2
  <2> HIDE DEF next, n, m
  <2>4. next \in next..next + n + 1 + m
    BY <2>2
  <2>5. ~EndOfLine(text, ends[k] + 3)
    BY <2>2, <2>3, <2>4 DEF EndOfLine
  <2> QED
    BY <1>5, <1>6, <1>8, <2>3, <2>5 DEF at, next
<1> QED
  BY <1>7, <1>8

(* Both spellings of the name, letter by letter.                           *)
LEMMA Spellings ==
  /\ cl_length \in Nat
  /\ \A k \in 1..cl_length : lower[k] \in Letters /\ upper[k] \in Letters
<1>1. lower \in Seq(Letters) /\ upper \in Seq(Letters) /\ Len(lower) = Len(upper)
  BY ParsersAssumption DEF Letters
<1> QED
  BY <1>1 DEF cl_length

(* The parser takes a line for that of the length if its name begins with  *)
(* it: a shorter name ends in a colon.                                     *)
LEMMA ChecksName ==
  ASSUME NEW headers \in Seq(Headers), NEW text, NEW ends, Laid(text, headers, ends),
         NEW k \in 1..Len(headers)
  PROVE  check(text, Start(ends, k)) <=> Named(headers[k])
<1> DEFINE h == headers[k]
           at == Start(ends, k)
           n == Len(h.name)
<1>1. /\ n \in Nat /\ at \in Nat /\ At(text, at + n) = Colon
      /\ \A i \in 1..n : At(text, at + i - 1) = Text(h.name[i])
  BY LineAt
<1>2. cl_length \in Nat /\ \A i \in 1..cl_length : lower[i] \in Letters /\ upper[i] \in Letters
  BY Spellings
<1> HIDE DEF at
<1>3. CASE cl_length <= n
  <2>1. ASSUME NEW i \in 1..cl_length
        PROVE  At(text, at + i - 1) \in {Text(lower[i]), Text(upper[i])}
                 <=> h.name[i] \in {lower[i], upper[i]}
    <3>1. At(text, at + i - 1) = Text(h.name[i])
      BY <1>1, <1>2, <1>3
    <3>2. \A s : Text(s).text = s
      BY CharFields
    <3> QED
      BY <3>1, <3>2
  <2> QED
    BY <1>3, <2>1 DEF check, Named, at
<1>4. CASE ~(cl_length <= n)
  <2>1. n + 1 \in 1..cl_length /\ at + (n + 1) - 1 = at + n
    BY <1>1, <1>2, <1>4
  <2>2. At(text, at + (n + 1) - 1) = Colon
    BY <1>1, <2>1
  <2>3. Colon # Text(lower[n + 1]) /\ Colon # Text(upper[n + 1])
    BY <1>2, <2>1, CharsDiffer
  <2>4. ~check(text, at)
    BY <2>1, <2>2, <2>3 DEF check
  <2> QED
    BY <1>4, <2>4 DEF Named, at
<1> QED
  BY <1>3, <1>4


-----------------------------------------------------------------------------
(* The parser, unrolled from line to line.                                 *)

(* A walk of steps from place to place.                                    *)
IsWalk(w, a, z, stop, val, next) ==
  w = [i \in a..z |-> IF stop[i] THEN val[i] ELSE w[next[i]]]

(* A walk that goes forward until it stops has a value wherever it begins. *)
LEMMA WalkExists ==
  ASSUME NEW z \in Nat, NEW stop, NEW val, NEW next,
         \A i \in 1..z : ~stop[i] => next[i] \in i + 1..z
  PROVE  \E w : IsWalk(w, 1, z, stop, val, next)
<1> DEFINE T == {k \in Nat : k <= z => \E w : IsWalk(w, (z + 1) - k, z, stop, val, next)}
<1>1. 0 \in T
  <2> DEFINE w == [i \in z + 1..z |-> 0]
  <2>1. \A i : ~(i \in z + 1..z)
    OBVIOUS
  <2>2. w = [i \in z + 1..z |-> IF stop[i] THEN val[i] ELSE w[next[i]]]
    BY <2>1
  <2> HIDE DEF w
  <2>3. IsWalk(w, z + 1, z, stop, val, next)
    BY <2>2, Zenon DEF IsWalk
  <2>4. (z + 1) - 0 = z + 1
    OBVIOUS
  <2> QED
    BY <2>3, <2>4
<1>2. ASSUME NEW k \in Nat, k \in T PROVE k + 1 \in T
  <2> SUFFICES ASSUME k + 1 <= z
               PROVE  \E w : IsWalk(w, (z + 1) - (k + 1), z, stop, val, next)
    OBVIOUS
  <2> DEFINE a == (z + 1) - (k + 1)
  <2>1. a \in 1..z /\ (z + 1) - k = a + 1 /\ a \in Nat
    OBVIOUS
  <2>2. PICK w : IsWalk(w, a + 1, z, stop, val, next)
    BY <1>2, <2>1
  <2> HIDE DEF a
  <2> DEFINE g == [i \in a..z |-> IF i = a THEN IF stop[a] THEN val[a] ELSE w[next[a]] ELSE w[i]]
  <2>3. ASSUME NEW i \in a..z PROVE g[i] = IF stop[i] THEN val[i] ELSE g[next[i]]
    <3>0. i \in 1..z
      BY <2>1
    <3>1. ~stop[i] => g[next[i]] = w[next[i]]
      <4> SUFFICES ASSUME ~stop[i] PROVE g[next[i]] = w[next[i]]
        OBVIOUS
      <4>1. next[i] \in i + 1..z
        BY <3>0
      <4>2. next[i] \in a..z /\ next[i] # a
        BY <2>1, <4>1
      <4> QED
        BY <4>2
    <3>2. CASE i = a
      <4>1. g[i] = IF stop[i] THEN val[i] ELSE w[next[i]]
        BY <3>2
      <4> HIDE DEF g
      <4> QED
        BY <3>1, <4>1
    <3>3. CASE i # a
      <4>1. i \in a + 1..z
        BY <2>1, <3>3
      <4>2. w[i] = IF stop[i] THEN val[i] ELSE w[next[i]]
        BY <2>2, <4>1 DEF IsWalk
      <4>3. g[i] = w[i]
        BY <3>3
      <4> HIDE DEF g
      <4> QED
        BY <3>1, <4>2, <4>3
    <3> QED
      BY <3>2, <3>3
  <2>4. g = [i \in a..z |-> IF stop[i] THEN val[i] ELSE g[next[i]]]
    BY <2>3
  <2> HIDE DEF g
  <2>5. IsWalk(g, a, z, stop, val, next)
    BY <2>4, Zenon DEF IsWalk
  <2> QED
    BY <2>5 DEF a
<1>3. Nat \subseteq T
  <2> HIDE DEF T
  <2> QED
    BY <1>1, <1>2, Simple
<1>4. z \in T /\ (z + 1) - z = 1
  BY <1>3
<1> QED
  BY <1>4

(* The parser only goes forward.                                           *)
LEMMA SkipForward ==
  ASSUME NEW text \in Seq(Chars), NEW i \in 1..Len(text) + 2, skip(text, i) # NULL
  PROVE  skip(text, i) \in i + 1..Len(text) + 2
<1> DEFINE S == {j \in i..Len(text) : EndOfLine(text, j)}
           end == Least(S)
<1>1. end # NULL /\ skip(text, i) = end + 2
  BY DEF skip
<1>2. S # {} /\ S \subseteq Nat /\ Len(text) \in Nat /\ i \in Nat
  BY <1>1 DEF Least
<1>3. end \in S
  <2> HIDE DEF S
  <2>1. Min(S) \in S
    BY <1>2, MinExists
  <2> QED
    BY <1>2, <2>1 DEF Least
<1>4. end \in i..Len(text)
  BY <1>3
<1> HIDE DEF end
<1>5. end + 2 \in i + 1..Len(text) + 2
  BY <1>2, <1>4
<1> QED
  BY <1>1, <1>5

(* What the parser does from one place on.                                 *)
LEMMA ParseSteps ==
  ASSUME NEW text \in Seq(Chars)
  PROVE  \E p : /\ kii_parse_content_length(text) = p[1]
                /\ \A i \in 1..Len(text) + 2 :
                     p[i] = IF skip(text, i) = NULL THEN 0
                            ELSE IF check(text, skip(text, i)) THEN value(text, skip(text, i))
                            ELSE p[skip(text, i)]
<1> DEFINE z == Len(text) + 2
           next == [i \in 1..z |-> skip(text, i)]
           stop == [i \in 1..z |-> skip(text, i) = NULL \/ check(text, skip(text, i))]
           val == [i \in 1..z |-> IF skip(text, i) = NULL THEN 0 ELSE value(text, skip(text, i))]
           step(p, i) == IF skip(text, i) = NULL THEN 0
                         ELSE IF check(text, skip(text, i)) THEN value(text, skip(text, i))
                         ELSE p[skip(text, i)]
<1>1. z \in Nat
  OBVIOUS
<1>2. \A i \in 1..z : ~stop[i] => next[i] \in i + 1..z
  BY SkipForward
<1>3. PICK w : IsWalk(w, 1, z, stop, val, next)
  <2> HIDE DEF z, stop, val, next
  <2> QED
    BY <1>1, <1>2, WalkExists
<1>4. w = [i \in 1..z |-> IF stop[i] THEN val[i] ELSE w[next[i]]]
  BY <1>3 DEF IsWalk
<1>5. ASSUME NEW i \in 1..z
      PROVE  (IF stop[i] THEN val[i] ELSE w[next[i]]) = step(w, i)
  <2>1. /\ next[i] = skip(text, i)
        /\ stop[i] = (skip(text, i) = NULL \/ check(text, skip(text, i)))
        /\ val[i] = IF skip(text, i) = NULL THEN 0 ELSE value(text, skip(text, i))
    OBVIOUS
  <2> HIDE DEF next, stop, val
  <2> QED
    BY <2>1
<1>6. w = [i \in 1..z |-> step(w, i)]
  <2> HIDE DEF z, stop, val, next, step
  <2> QED
    BY <1>4, <1>5
<1>7. \E p : p = [i \in 1..z |-> step(p, i)]
  BY <1>6
<1> DEFINE parse == CHOOSE p : p = [i \in 1..z |-> step(p, i)]
<1>8. parse = [i \in 1..z |-> step(parse, i)]
  <2> HIDE DEF z, step
  <2> QED
    BY <1>7, Zenon
<1>9. kii_parse_content_length(text) = parse[1]
  BY DEF kii_parse_content_length
<1> HIDE DEF parse
<1>10. \A i \in 1..z : parse[i] = step(parse, i)
  BY <1>8
<1> QED
  BY <1>9, <1>10

(* The first line whose name begins with that of the length decides what   *)
(* the parser returns, and it returns 0 when there is none.                *)
LEMMA ParsedIs ==
  ASSUME NEW headers \in Seq(Headers), NEW text, NEW ends, Laid(text, headers, ends)
  PROVE  /\ (\A k \in 1..Len(headers) : ~Named(headers[k]))
              => kii_parse_content_length(text) = 0
         /\ \A m \in 1..Len(headers) :
              Named(headers[m]) /\ (\A k \in 1..m - 1 : ~Named(headers[k]))
                => kii_parse_content_length(text) = value(text, Start(ends, m))
<1> DEFINE n == Len(headers)
<1>1. n \in Nat /\ text \in Seq(Chars) /\ Len(text) \in Nat
  BY DEF Laid
<1>2. PICK p : /\ kii_parse_content_length(text) = p[1]
               /\ \A i \in 1..Len(text) + 2 :
                    p[i] = IF skip(text, i) = NULL THEN 0
                           ELSE IF check(text, skip(text, i)) THEN value(text, skip(text, i))
                           ELSE p[skip(text, i)]
  BY <1>1, ParseSteps
<1>3. ASSUME NEW k \in 0..n
      PROVE  p[Start(ends, k)] =
               IF k = n THEN 0
               ELSE IF Named(headers[k + 1]) THEN value(text, Start(ends, k + 1))
               ELSE p[Start(ends, k + 1)]
  <2>1. /\ Start(ends, k) \in 1..Len(text)
        /\ skip(text, Start(ends, k)) = IF k = n THEN NULL ELSE Start(ends, k + 1)
    BY SkipsLine
  <2>2. Start(ends, k) \in 1..Len(text) + 2
    BY <1>1, <2>1
  <2>3. CASE k = n
    BY <1>2, <2>1, <2>2, <2>3
  <2>4. CASE k # n
    <3>1. k + 1 \in 1..n
      BY <1>1, <2>4
    <3>2. Start(ends, k + 1) # NULL
      <4>1. Start(ends, k + 1) > 2 /\ Start(ends, k + 1) \in Nat
        BY <3>1, LineAt
      <4> QED
        BY <4>1 DEF NULL
    <3>3. check(text, Start(ends, k + 1)) <=> Named(headers[k + 1])
      BY <3>1, ChecksName
    <3> QED
      BY <1>2, <2>1, <2>2, <2>4, <3>2, <3>3
  <2> QED
    BY <2>3, <2>4
<1> HIDE DEF n
<1>4. \A k \in 0..n : (\A j \in 1..k : ~Named(headers[j])) => p[1] = p[Start(ends, k)]
  <2> DEFINE T == {k \in Nat : k <= n =>
                     ((\A j \in 1..k : ~Named(headers[j])) => p[1] = p[Start(ends, k)])}
  <2>1. 0 \in T
    BY DEF Start
  <2>2. ASSUME NEW k \in Nat, k \in T PROVE k + 1 \in T
    <3> SUFFICES ASSUME k + 1 <= n, \A j \in 1..k + 1 : ~Named(headers[j])
                 PROVE  p[1] = p[Start(ends, k + 1)]
      OBVIOUS
    <3>1. k \in 0..n /\ k # n /\ k + 1 \in 1..k + 1 /\ \A j \in 1..k : j \in 1..k + 1
      BY <1>1
    <3>2. p[1] = p[Start(ends, k)]
      BY <1>1, <2>2, <3>1
    <3> QED
      BY <1>3, <3>1, <3>2
  <2>3. Nat \subseteq T
    <3> HIDE DEF T
    <3> QED
      BY <2>1, <2>2, Simple
  <2> QED
    BY <1>1, <2>3
<1>5. ASSUME \A k \in 1..n : ~Named(headers[k]) PROVE kii_parse_content_length(text) = 0
  <2>1. n \in 0..n
    BY <1>1
  <2> QED
    BY <1>2, <1>3, <1>4, <1>5, <2>1
<1>6. ASSUME NEW m \in 1..n, Named(headers[m]), \A k \in 1..m - 1 : ~Named(headers[k])
      PROVE  kii_parse_content_length(text) = value(text, Start(ends, m))
  <2>1. m - 1 \in 0..n /\ m - 1 # n /\ (m - 1) + 1 = m
    BY <1>1
  <2>2. p[1] = p[Start(ends, m - 1)]
    BY <1>4, <1>6, <2>1
  <2> QED
    BY <1>2, <1>3, <1>6, <2>1, <2>2
<1> QED
  BY <1>5, <1>6 DEF n


-----------------------------------------------------------------------------
(* The figures behind the name.                                            *)

(* What the parser sees of a line: no figure up to the blank, the figures, *)
(* and then no figure again.                                               *)
LEMMA FiguresOfLine ==
  ASSUME NEW headers \in Seq(Headers), NEW text, NEW ends, Laid(text, headers, ends),
         NEW m \in 1..Len(headers)
  PROVE  LET h == headers[m]
             p == Start(ends, m) + Len(h.name) + 1
             n == Len(h.figures)
         IN /\ p \in Nat /\ n \in Nat /\ Start(ends, m) \in Nat
            /\ \A j \in Start(ends, m)..p : At(text, j).figure = -1
            /\ \A i \in 1..n : At(text, p + i) = Char(h.figures[i]) /\ h.figures[i] \in 0..9
            /\ At(text, p + n + 1).figure = -1
            /\ \A j \in Start(ends, m)..p + n : j \in DOMAIN text
<1> DEFINE h == headers[m]
           at == Start(ends, m)
           l == Len(h.name)
           n == Len(h.figures)
<1>1. /\ h \in Headers /\ l \in Nat /\ n \in Nat /\ at \in Nat
      /\ \A i \in 1..l : At(text, at + i - 1) = Text(h.name[i])
      /\ At(text, at + l) = Colon /\ At(text, at + l + 1) = Blank
      /\ \A i \in 1..n : At(text, at + l + 1 + i) = Char(h.figures[i])
      /\ At(text, at + l + 1 + n + 1) = CR
      /\ \A j \in at..at + l + 1 + n : j \in DOMAIN text
  BY LineAt
<1>2. \A i \in 1..n : h.figures[i] \in 0..9
  BY <1>1, HeaderTypes
<1>3. (\A s : Text(s).figure = -1) /\ CR.figure = -1 /\ Colon.figure = -1 /\ Blank.figure = -1
  BY CharFields DEF CR, Colon, Blank
<1> HIDE DEF at, l
<1>4. ASSUME NEW j \in at..at + l + 1 PROVE At(text, j).figure = -1
  <2>1. \/ j - at + 1 \in 1..l /\ at + (j - at + 1) - 1 = j
        \/ j = at + l \/ j = at + l + 1
    BY <1>1
  <2> QED
    BY <1>1, <1>3, <2>1
<1>5. at + l + 1 \in Nat
  BY <1>1
<1> QED
  BY <1>1, <1>2, <1>3, <1>4, <1>5 DEF at, l

(* The value begins at the first figure but 0, if the search gets there.   *)
LEMMA ValueFound ==
  ASSUME NEW headers \in Seq(Headers), NEW text, NEW ends, Laid(text, headers, ends),
         NEW m \in 1..Len(headers), Named(headers[m]),
         NEW first \in 1..Len(headers[m].figures), headers[m].figures[first] # 0,
         \A k \in 1..first - 1 : headers[m].figures[k] = 0
  PROVE  value(text, Start(ends, m)) =
           IF Len(headers[m].name) - cl_length + 1 + first <= MAX_SEARCH_NUM
           THEN Number(FiguresAt(text, Start(ends, m) + Len(headers[m].name) + 1 + first,
                                 MAX_FIGURES))
           ELSE 0
<1> DEFINE h == headers[m]
           at == Start(ends, m)
           l == Len(h.name)
           p == at + l + 1
           n == Len(h.figures)
           start == at + cl_length
           S == {j \in start..start + MAX_SEARCH_NUM : At(text, j).figure > 0}
<1>1. /\ p \in Nat /\ n \in Nat /\ at \in Nat
      /\ \A j \in at..p : At(text, j).figure = -1
      /\ \A i \in 1..n : At(text, p + i) = Char(h.figures[i]) /\ h.figures[i] \in 0..9
  BY FiguresOfLine
<1>2. cl_length \in Nat /\ MAX_SEARCH_NUM \in Nat /\ l \in Nat /\ cl_length <= l
  <2>1. h \in Headers
    OBVIOUS
  <2> QED
    BY <2>1, Spellings, Constants, HeaderTypes DEF Named
<1>2a. first \in 1..n /\ h.figures[first] # 0 /\ \A k \in 1..first - 1 : h.figures[k] = 0
  OBVIOUS
<1> HIDE DEF n, at, l, h
<1>3. first \in 1..n /\ first \in Nat /\ h.figures[first] # 0 /\ \A k \in 1..first - 1 : h.figures[k] = 0
  BY <1>1, <1>2a
<1>4. p + first > p /\ p = at + l + 1 /\ start \in Nat /\ start >= at /\ start <= p
  BY <1>1, <1>2, <1>3
<1> HIDE DEF p
<1>5. At(text, p + first).figure > 0
  <2>1. At(text, p + first) = Char(h.figures[first]) /\ h.figures[first] \in 0..9
    BY <1>1, <1>3
  <2> DEFINE f == h.figures[first]
  <2>2. f \in 0..9 /\ f # 0
    BY <1>3, <2>1
  <2> HIDE DEF f
  <2>3. f > 0
    BY <2>2
  <2>4. At(text, p + first).figure = f
    BY <2>1, CharFields DEF f
  <2> QED
    BY <2>3, <2>4
<1>6. ASSUME NEW j \in start..p + first - 1 PROVE ~(At(text, j).figure > 0)
  <2>1. j \in at..p \/ (j - p \in 1..first - 1 /\ j - p \in 1..n /\ p + (j - p) = j)
    <3> HIDE DEF start
    <3>1. p \in Nat /\ n \in Nat /\ at \in Nat /\ first \in Nat /\ first \in 1..n /\ start \in Nat /\ start >= at
      BY <1>1, <1>3, <1>4
    <3>2. j \in Int /\ j >= start /\ j <= p + first - 1
      BY <3>1
    <3>3. CASE j <= p
      BY <3>1, <3>2, <3>3
    <3>4. CASE ~(j <= p)
      BY <3>1, <3>2, <3>4
    <3> QED
      BY <3>3, <3>4
  <2>2. CASE j \in at..p
    BY <1>1, <2>2
  <2>3. CASE j - p \in 1..first - 1 /\ j - p \in 1..n /\ p + (j - p) = j
    <3>1. At(text, j).figure = h.figures[j - p] /\ h.figures[j - p] = 0
      BY <1>1, <1>3, <2>3, CharFields
    <3> QED
      BY <3>1
  <2> QED
    BY <2>1, <2>2, <2>3
<1>7. value(text, at) = IF Least(S) = NULL THEN 0
                        ELSE Number(FiguresAt(text, Least(S), MAX_FIGURES))
  BY DEF value
<1> HIDE DEF start
<1>8. S \in SUBSET Int
  BY <1>1, <1>2, <1>4
<1>9. ASSUME NEW y \in S PROVE p + first <= y
  BY <1>1, <1>2, <1>3, <1>4, <1>6
<1>10. p + first \in S <=> l - cl_length + 1 + first <= MAX_SEARCH_NUM
  <2>1. p + first \in start..start + MAX_SEARCH_NUM <=> l - cl_length + 1 + first <= MAX_SEARCH_NUM
    BY <1>1, <1>2, <1>3, <1>4 DEF start
  <2> QED
    BY <1>5, <2>1
<1>11. CASE l - cl_length + 1 + first <= MAX_SEARCH_NUM
  <2>1. Least(S) = p + first
    <3>1. p + first \in S
      BY <1>10, <1>11
    <3> HIDE DEF S
    <3> QED
      BY <1>8, <1>9, <3>1, LeastIs
  <2>2. p + first # NULL
    BY <1>1, <1>3 DEF NULL
  <2> HIDE DEF S
  <2> QED
    BY <1>7, <1>11, <2>1, <2>2 DEF p, at, l, h
<1>12. CASE ~(l - cl_length + 1 + first <= MAX_SEARCH_NUM)
  <2>1. S = {}
    <3> SUFFICES ASSUME NEW y \in S PROVE FALSE
      OBVIOUS
    <3>1. y \in start..start + MAX_SEARCH_NUM /\ p + first <= y
      BY <1>9
    <3>2. p + first \in start..start + MAX_SEARCH_NUM
      BY <1>1, <1>2, <1>3, <1>4, <3>1
    <3> QED
      BY <1>5, <1>10, <1>12, <3>2
  <2>2. Least(S) = NULL
    BY <2>1 DEF Least
  <2> HIDE DEF S
  <2> QED
    BY <1>7, <1>12, <2>2 DEF at, l, h
<1> QED
  BY <1>11, <1>12

(* The figures of a value: those of the line, as many as a length has.     *)
TakenFrom(taken, figures, first) ==
  LET left == Len(figures) - first + 1
      c == IF MAX_FIGURES <= left THEN MAX_FIGURES ELSE left
  IN /\ DOMAIN taken = 1..c
     /\ \A i \in 1..c : taken[i].figure = figures[first + i - 1]

(* What FiguresAt returns at a figure of a line is taken from there on.    *)
LEMMA FiguresTaken ==
  ASSUME NEW headers \in Seq(Headers), NEW text, NEW ends, Laid(text, headers, ends),
         NEW m \in 1..Len(headers), NEW first \in 1..Len(headers[m].figures)
  PROVE  TakenFrom(FiguresAt(text, Start(ends, m) + Len(headers[m].name) + 1 + first, MAX_FIGURES),
                   headers[m].figures, first)
<1> DEFINE h == headers[m]
           at == Start(ends, m)
           before == at + Len(h.name) + 1
           n == Len(h.figures)
           p == before + first
           left == n - first + 1
           c == IF MAX_FIGURES <= left THEN MAX_FIGURES ELSE left
           D == {k \in p..p + MAX_FIGURES : At(text, k).figure = -1}
           E == {p + MAX_FIGURES - 1} \cup {j - 1 : j \in D}
           taken == FiguresAt(text, p, MAX_FIGURES)
<1>1. /\ before \in Nat /\ n \in Nat /\ at \in Nat /\ first \in 1..n
      /\ \A i \in 1..n : At(text, before + i) = Char(h.figures[i]) /\ h.figures[i] \in 0..9
      /\ At(text, before + n + 1).figure = -1
      /\ \A j \in at..before + n : j \in DOMAIN text
  BY FiguresOfLine
<1>2. MAX_FIGURES \in Nat /\ MAX_FIGURES >= 1 /\ text \in Seq(Chars) /\ before >= at
  <2>1. Len(h.name) \in Nat
    <3>1. h \in Headers
      OBVIOUS
    <3> QED
      BY <3>1, HeaderTypes
  <2> QED
    BY <1>1, <2>1, Constants DEF Laid
<1> HIDE DEF h, at, before, n
<1>3. /\ p \in Nat /\ left \in Nat /\ left >= 1 /\ c \in Nat /\ c >= 1
      /\ c <= left /\ c <= MAX_FIGURES /\ (c = MAX_FIGURES \/ c = left)
      /\ p + left = before + n + 1 /\ p = before + first /\ before + n = p + left - 1
  BY <1>1, <1>2
<1> HIDE DEF p, left, c
<1>3a. /\ p \in Nat /\ left \in Nat /\ left >= 1 /\ c \in Nat /\ c >= 1 /\ c <= left
       /\ MAX_FIGURES \in Nat /\ c <= MAX_FIGURES
  BY <1>2, <1>3
<1>4. \A i \in 1..left : /\ At(text, p + i - 1).figure = h.figures[first + i - 1]
                         /\ h.figures[first + i - 1] \in 0..9
                         /\ p + i - 1 \in DOMAIN text
  <2> TAKE i \in 1..left
  <2>1. first + i - 1 \in 1..n /\ before + (first + i - 1) = p + i - 1 /\ p + i - 1 \in at..before + n
    BY <1>1, <1>2, <1>3 DEF left
  <2> QED
    BY <1>1, <2>1, CharFields
<1>5. Min(E) = p + c - 1
  <2>1. E \in SUBSET Int
    <3>1. \A j \in D : j - 1 \in Int
      BY <1>3a
    <3>2. p + MAX_FIGURES - 1 \in Int
      BY <1>3a
    <3> HIDE DEF D
    <3> QED
      BY <3>1, <3>2
  <2>2. p + c - 1 \in E
    <3>1. CASE c = MAX_FIGURES
      BY <3>1
    <3>2. CASE c = left
      <4>1. p + left \in p..p + MAX_FIGURES
        BY <1>2, <1>3, <3>2
      <4>2. At(text, p + left).figure = -1
        BY <1>1, <1>3
      <4>3. p + left \in D
        BY <4>1, <4>2
      <4>4. (p + left) - 1 \in {j - 1 : j \in D}
        <5> HIDE DEF D
        <5> QED
          BY <4>3
      <4>5. (p + left) - 1 = p + c - 1
        BY <1>3, <3>2
      <4> HIDE DEF D
      <4> QED
        BY <4>4, <4>5
    <3> QED
      BY <1>3, <3>1, <3>2
  <2>3. ASSUME NEW j \in D PROVE p + c - 1 <= j - 1
    <3>1. j \in Nat /\ j >= p /\ At(text, j).figure = -1
      BY <1>3a
    <3>2. ~(j - p + 1 \in 1..left)
      <4> SUFFICES ASSUME j - p + 1 \in 1..left PROVE FALSE
        OBVIOUS
      <4> DEFINE i == j - p + 1
      <4>1. i \in 1..left /\ p + i - 1 = j
        <5>1. j \in Nat /\ p \in Nat
          BY <1>3a, <3>1
        <5> QED
          BY <5>1
      <4> HIDE DEF i
      <4>2. At(text, j).figure \in 0..9
        BY <1>4, <4>1
      <4>3. ~(-1 \in 0..9)
        OBVIOUS
      <4> QED
        BY <3>1, <4>2, <4>3
    <3>3. j \in Nat /\ j >= p /\ p \in Nat /\ left \in Nat /\ c \in Nat /\ c <= left
      BY <1>3, <3>1
    <3> HIDE DEF D
    <3>4. j - p + 1 > left
      BY <3>2, <3>3
    <3> QED
      BY <3>3, <3>4
  <2>4. ASSUME NEW y \in E PROVE p + c - 1 <= y
    <3>1. y = p + MAX_FIGURES - 1 \/ \E j \in D : y = j - 1
      OBVIOUS
    <3>2. \A j \in D : j \in Nat
      BY <1>3a
    <3> HIDE DEF D
    <3>3. CASE y = p + MAX_FIGURES - 1
      BY <1>3a, <3>3
    <3>4. CASE \E j \in D : y = j - 1
      BY <2>3, <3>4
    <3> QED
      BY <3>1, <3>3, <3>4
  <2> HIDE DEF E
  <2> QED
    BY <2>1, <2>2, <2>4, MinIs
<1>6. taken = SubSeq(text, p, p + c - 1)
  BY <1>5 DEF FiguresAt
<1>7. /\ Len(taken) = c /\ taken \in Seq(Chars)
      /\ \A i \in 1..c : taken[i] = text[p + i - 1]
  <2>1. p \in 1..Len(text) + 1 /\ p + c - 1 \in p - 1..Len(text)
    <3> DEFINE len == Len(text)
    <3>1. 1 \in 1..left /\ c \in 1..left /\ p + 1 - 1 = p
      BY <1>3a
    <3>2. p \in DOMAIN text /\ p + c - 1 \in DOMAIN text
      BY <1>4, <3>1
    <3>3. DOMAIN text = 1..len /\ len \in Nat
      BY <1>2
    <3> HIDE DEF len
    <3>4. p \in 1..len /\ p + c - 1 \in 1..len
      BY <3>2, <3>3
    <3>5. p \in 1..len + 1 /\ p + c - 1 \in p - 1..len
      BY <1>3a, <3>3, <3>4
    <3> QED
      BY <3>5 DEF len
  <2> DEFINE e == p + c - 1
  <2>2. e \in p - 1..Len(text) /\ e - p + 1 = c
    <3>1. (p + c - 1) - p + 1 = c
      BY <1>3a
    <3> QED
      BY <2>1, <3>1
  <2> HIDE DEF e
  <2>3. /\ SubSeq(text, p, e) \in Seq(Chars)
        /\ Len(SubSeq(text, p, e)) = IF p <= e THEN e - p + 1 ELSE 0
        /\ \A i \in 1..e - p + 1 : SubSeq(text, p, e)[i] = text[p + i - 1]
    BY <1>2, <2>1, <2>2, SubSeqProperties
  <2>4. p <= e
    BY <1>3 DEF e
  <2> QED
    BY <1>6, <2>2, <2>3, <2>4 DEF e
<1> HIDE DEF taken
<1>8. DOMAIN taken = 1..c
  BY <1>3, <1>7
<1>9. ASSUME NEW i \in 1..c PROVE taken[i].figure = h.figures[first + i - 1]
  <2>1. i \in 1..left
    BY <1>3
  <2> QED
    BY <1>4, <1>7, <2>1 DEF At
<1> QED
  BY <1>8, <1>9 DEF taken, p, before, c, left, n, h, at, TakenFrom

-----------------------------------------------------------------------------
(* Numbers in figures.                                                     *)

IsSum(it, figures, dom) ==
  it = [s \in SUBSET dom |->
          IF s = {} THEN 0 ELSE 10 * it[s \ {Max(s)}] + figures[Max(s)]]

(* The fold of a number's figures has a solution for every number of them. *)
LEMMA SumExists ==
  ASSUME NEW figures
  PROVE  \A n \in Nat : \E it : IsSum(it, figures, 1..n)
<1> DEFINE Added(v, x) == 10 * v + figures[x]
           T == {n \in Nat : \E it : IsSum(it, figures, 1..n)}
<1>1. 0 \in T
  <2> DEFINE it == [s \in SUBSET (1..0) |-> 0]
  <2>1. \A s \in SUBSET (1..0) : s = {}
    OBVIOUS
  <2>2. it = [s \in SUBSET (1..0) |-> IF s = {} THEN 0 ELSE Added(it[s \ {Max(s)}], Max(s))]
    BY <2>1
  <2> HIDE DEF it
  <2>3. IsSum(it, figures, 1..0)
    BY <2>2, Zenon DEF IsSum
  <2> QED
    BY <2>3
<1>2. ASSUME NEW n \in Nat, n \in T PROVE n + 1 \in T
  <2>1. PICK it : IsSum(it, figures, 1..n)
    BY <1>2
  <2> DEFINE a == n + 1
  <2>2. a \in Nat /\ a \notin 1..n /\ 1..a = (1..n) \cup {a} /\ \A y \in 1..a : a >= y
    OBVIOUS
  <2> HIDE DEF a
  <2> DEFINE g == [s \in SUBSET (1..a) |->
                     IF a \in s THEN Added(it[s \ {a}], a) ELSE it[s]]
  <2> HIDE DEF Added
  <2>3. ASSUME NEW s \in SUBSET (1..a)
        PROVE  g[s] = IF s = {} THEN 0 ELSE Added(g[s \ {Max(s)}], Max(s))
    <3>1. CASE a \in s
      <4>1. Max(s) = a
        <5>1. s \in SUBSET Int /\ \A y \in s : a >= y
          BY <2>2
        <5> QED
          BY <3>1, <5>1, MaxIs
      <4>2. s \ {a} \in SUBSET (1..a) /\ a \notin s \ {a}
        OBVIOUS
      <4>3. g[s \ {a}] = it[s \ {a}]
        BY <4>2
      <4>4. g[s] = Added(it[s \ {a}], a)
        BY <3>1
      <4> HIDE DEF g
      <4> QED
        BY <3>1, <4>1, <4>3, <4>4
    <3>2. CASE a \notin s
      <4>1. s \in SUBSET (1..n)
        BY <2>2, <3>2
      <4>2. it[s] = IF s = {} THEN 0 ELSE Added(it[s \ {Max(s)}], Max(s))
        BY <2>1, <4>1 DEF IsSum, Added
      <4>3. s \ {Max(s)} \in SUBSET (1..a) /\ a \notin s \ {Max(s)}
        BY <3>2
      <4>4. g[s \ {Max(s)}] = it[s \ {Max(s)}]
        BY <4>3
      <4>5. g[s] = it[s]
        BY <3>2
      <4> HIDE DEF g
      <4> QED
        BY <4>2, <4>4, <4>5
    <3> QED
      BY <3>1, <3>2
  <2>4. g = [s \in SUBSET (1..a) |-> IF s = {} THEN 0 ELSE Added(g[s \ {Max(s)}], Max(s))]
    BY <2>3
  <2> HIDE DEF g
  <2>5. IsSum(g, figures, 1..a)
    BY <2>4, Zenon DEF IsSum, Added
  <2> QED
    BY <2>2, <2>5 DEF a
<1>3. Nat \subseteq T
  <2> HIDE DEF T
  <2> QED
    BY <1>1, <1>2, Simple
<1> QED
  BY <1>3

(* How the number of n figures comes about, figure by figure.              *)
Counting(count, figures, n) ==
  /\ count[0] = 0
  /\ \A k \in 1..n : count[k] = 10 * count[k - 1] + figures[k]

(* A solution of the fold counts the figures one by one.                   *)
LEMMA Unrolling ==
  ASSUME NEW n \in Nat, NEW figures, NEW it, IsSum(it, figures, 1..n)
  PROVE  Counting([k \in 0..n |-> it[1..k]], figures, n)
<1> DEFINE count == [k \in 0..n |-> it[1..k]]
<1>1. count[0] = 0
  <2>1. 1..0 = {} /\ {} \in SUBSET (1..n) /\ 0 \in 0..n
    OBVIOUS
  <2> QED
    BY <2>1 DEF IsSum
<1>2. ASSUME NEW k \in 1..n PROVE count[k] = 10 * count[k - 1] + figures[k]
  <2>1. /\ k \in 1..k /\ \A y \in 1..k : k >= y
        /\ (1..k) \ {k} = 1..k - 1 /\ 1..k \in SUBSET (1..n) /\ 1..k # {}
        /\ 1..k \in SUBSET Int /\ k \in 0..n /\ k - 1 \in 0..n
    <3>1. k \in Nat /\ k >= 1 /\ k <= n
      OBVIOUS
    <3>2. k \in 1..k /\ \A y \in 1..k : k >= y
      BY <3>1
    <3>3. (1..k) \ {k} = 1..k - 1
      BY <3>1
    <3>4. 1..k \in SUBSET (1..n) /\ 1..k \in SUBSET Int
      BY <3>1
    <3> QED
      BY <3>1, <3>2, <3>3, <3>4
  <2>2. Max(1..k) = k
    BY <2>1, MaxIs
  <2>3. it[1..k] = 10 * it[1..k - 1] + figures[k]
    BY <2>1, <2>2 DEF IsSum
  <2> QED
    BY <2>1, <2>3
<1> HIDE DEF count
<1>3. Counting(count, figures, n)
  BY <1>1, <1>2 DEF Counting
<1> QED
  BY <1>3 DEF count

(* Decimal counts its figures.                                             *)
LEMMA DecimalCounts ==
  ASSUME NEW figures, NEW n \in Nat, DOMAIN figures = 1..n
  PROVE  \E count : Counting(count, figures, n) /\ Decimal(figures) = count[n]
<1>1. \E it : IsSum(it, figures, DOMAIN figures)
  BY SumExists
<1>2. \E it : IsSum(it, figures, DOMAIN figures) /\ Decimal(figures) = it[DOMAIN figures]
  BY <1>1 DEF IsSum, Decimal, FoldLeft, MapThenFoldSet
<1>3. PICK it : IsSum(it, figures, 1..n) /\ Decimal(figures) = it[1..n]
  BY <1>2
<1> DEFINE count == [k \in 0..n |-> it[1..k]]
<1>4. Counting(count, figures, n)
  BY <1>3, Unrolling
<1>5. count[n] = it[1..n]
  OBVIOUS
<1> QED
  BY <1>3, <1>4, <1>5

IsNumber(it, chars, dom) ==
  it = [s \in SUBSET dom |->
          IF s = {} THEN 0 ELSE 10 * it[s \ {Max(s)}] + chars[Max(s)].figure]

(* Number counts the figures of its characters.                            *)
LEMMA NumberCounts ==
  ASSUME NEW chars, NEW n \in Nat, DOMAIN chars = 1..n
  PROVE  \E count : /\ Counting(count, [i \in 1..n |-> chars[i].figure], n)
                    /\ Number(chars) = count[n]
<1> DEFINE figures == [i \in 1..n |-> chars[i].figure]
<1>1. \A it : IsSum(it, figures, 1..n) <=> IsNumber(it, chars, 1..n)
  <2> SUFFICES ASSUME NEW it
               PROVE  IsSum(it, figures, 1..n) <=> IsNumber(it, chars, 1..n)
    OBVIOUS
  <2>1. ASSUME NEW s \in SUBSET (1..n), s # {} PROVE figures[Max(s)] = chars[Max(s)].figure
    <3>1. Max(s) \in 1..n
      BY <2>1, MaxExists
    <3> QED
      BY <3>1
  <2> HIDE DEF figures
  <2>2. [s \in SUBSET (1..n) |->
           IF s = {} THEN 0 ELSE 10 * it[s \ {Max(s)}] + figures[Max(s)]]
        = [s \in SUBSET (1..n) |->
           IF s = {} THEN 0 ELSE 10 * it[s \ {Max(s)}] + chars[Max(s)].figure]
    BY <2>1
  <2> QED
    BY <2>2, Zenon DEF IsSum, IsNumber
<1>2. \E it : IsNumber(it, chars, DOMAIN chars)
  <2> HIDE DEF figures
  <2>1. \E it : IsSum(it, figures, 1..n)
    BY SumExists
  <2> QED
    BY <1>1, <2>1
<1>3. \E it : IsNumber(it, chars, DOMAIN chars) /\ Number(chars) = it[DOMAIN chars]
  BY <1>2 DEF IsNumber, Number, FoldLeft, MapThenFoldSet
<1>4. PICK it : IsNumber(it, chars, 1..n) /\ Number(chars) = it[1..n]
  BY <1>3
<1>5. IsSum(it, figures, 1..n)
  BY <1>1, <1>4
<1> DEFINE count == [k \in 0..n |-> it[1..k]]
<1> HIDE DEF figures
<1>6. Counting(count, figures, n)
  BY <1>5, Unrolling
<1>7. count[n] = it[1..n]
  OBVIOUS
<1> QED
  BY <1>4, <1>6, <1>7 DEF figures


(* The same figures, as characters of a text or not, make the same number. *)
LEMMA SameNumber ==
  ASSUME NEW n \in Nat, NEW chars, DOMAIN chars = 1..n, NEW figures, DOMAIN figures = 1..n,
         \A i \in 1..n : chars[i].figure = figures[i]
  PROVE  Number(chars) = Decimal(figures)
<1> DEFINE shown == [i \in 1..n |-> chars[i].figure]
<1>1. PICK c : Counting(c, shown, n) /\ Number(chars) = c[n]
  BY NumberCounts
<1>2. PICK d : Counting(d, figures, n) /\ Decimal(figures) = d[n]
  BY DecimalCounts
<1>3. \A i \in 1..n : shown[i] = figures[i]
  OBVIOUS
<1> HIDE DEF shown
<1> DEFINE T == {k \in Nat : k <= n => c[k] = d[k]}
<1>4. 0 \in T
  BY <1>1, <1>2 DEF Counting
<1>5. ASSUME NEW k \in Nat, k \in T PROVE k + 1 \in T
  <2> SUFFICES ASSUME k + 1 <= n PROVE c[k + 1] = d[k + 1]
    OBVIOUS
  <2> DEFINE j == k + 1
  <2>1. j \in 1..n /\ j - 1 = k /\ c[k] = d[k]
    BY <1>5
  <2> HIDE DEF j
  <2>2. c[j] = 10 * c[j - 1] + shown[j] /\ d[j] = 10 * d[j - 1] + figures[j]
    BY <1>1, <1>2, <2>1 DEF Counting
  <2>3. c[j] = d[j]
    BY <1>3, <2>1, <2>2
  <2> QED
    BY <2>3 DEF j
<1>6. Nat \subseteq T
  <2> HIDE DEF T
  <2> QED
    BY <1>4, <1>5, Simple
<1>7. c[n] = d[n]
  BY <1>6
<1> QED
  BY <1>1, <1>2, <1>7

(* Zeros make 0, however many.                                             *)
LEMMA ZerosCount ==
  ASSUME NEW n \in Nat, NEW figures, DOMAIN figures = 1..n, \A i \in 1..n : figures[i] = 0
  PROVE  Decimal(figures) = 0
<1>1. PICK c : Counting(c, figures, n) /\ Decimal(figures) = c[n]
  BY DecimalCounts
<1> DEFINE T == {k \in Nat : k <= n => c[k] = 0}
<1>2. 0 \in T
  BY <1>1 DEF Counting
<1>3. ASSUME NEW k \in Nat, k \in T PROVE k + 1 \in T
  <2> SUFFICES ASSUME k + 1 <= n PROVE c[k + 1] = 0
    OBVIOUS
  <2> DEFINE j == k + 1
  <2>1. j \in 1..n /\ j - 1 = k /\ c[k] = 0
    BY <1>3
  <2> HIDE DEF j
  <2>2. c[j] = 10 * c[j - 1] + figures[j]
    BY <1>1, <2>1 DEF Counting
  <2>3. c[j] = 0
    BY <2>1, <2>2
  <2> QED
    BY <2>3 DEF j
<1>4. Nat \subseteq T
  <2> HIDE DEF T
  <2> QED
    BY <1>2, <1>3, Simple
<1>5. c[n] = 0
  BY <1>4
<1> QED
  BY <1>1, <1>5

-----------------------------------------------------------------------------
(* What a Content-Length says, and what is read.                           *)

(* The text of a response is laid out in lines.                            *)
LEMMA ResponseLaid ==
  ASSUME Init, input.length = -1
  PROVE  /\ input.headers \in Seq(Headers)
         /\ \E ends : Laid(Rendered(input.headers, input.body), input.headers, ends)
<1>1. input \in Responses
  BY DEF Init, Remainders
<1>2. input.headers \in Heads /\ input.body \in Bodies
  BY <1>1 DEF Responses
<1>3. input.headers \in Seq(Headers)
  BY <1>2, ParsersAssumption DEF Heads
<1>4. input.body \in Seq(Chars)
  <2> DEFINE A == [figure : -1..9, text : STRING]
  <2>1. A \subseteq Chars
    BY Zenon DEF Chars
  <2>2. input.body \in Seq(A)
    BY <1>2, ParsersAssumption
  <2> HIDE DEF A
  <2> QED
    BY <2>1, <2>2
<1> QED
  BY <1>3, <1>4, RenderedLaid

(* The first line of that name.                                            *)
LEMMA SizingIs ==
  ASSUME input.headers \in Seq(Headers), Sizing # {}
  PROVE  /\ Min(Sizing) \in 1..Len(input.headers)
         /\ Named(input.headers[Min(Sizing)])
         /\ \A k \in 1..Min(Sizing) - 1 : ~Named(input.headers[k])
<1>1. Sizing \in SUBSET Nat /\ Len(input.headers) \in Nat /\ DOMAIN input.headers = 1..Len(input.headers)
  BY DEF Sizing
<1>2. Min(Sizing) \in Sizing /\ \A y \in Sizing : Min(Sizing) <= y
  BY <1>1, MinExists
<1> DEFINE m == Min(Sizing)
<1>3. m \in 1..Len(input.headers) /\ Named(input.headers[m])
  BY <1>1, <1>2 DEF Sizing
<1> HIDE DEF m
<1>4. ASSUME NEW k \in 1..m - 1 PROVE ~Named(input.headers[k])
  <2> SUFFICES ASSUME Named(input.headers[k]) PROVE FALSE
    OBVIOUS
  <2>1. k \in 1..Len(input.headers) /\ ~(m <= k)
    BY <1>1, <1>3
  <2>2. k \in Sizing
    BY <1>1, <2>1 DEF Sizing
  <2> QED
    BY <1>2, <2>1, <2>2 DEF m
<1> QED
  BY <1>3, <1>4 DEF m

(* The figures of that line from the first that is not 0, if there is one. *)
LEMMA SignificantIs ==
  ASSUME input.headers \in Seq(Headers), Sizing # {}
  PROVE  LET figures == SizingLine.figures
             n == Len(figures)
         IN /\ n \in Nat /\ DOMAIN figures = 1..n /\ figures \in Seq(0..9)
            /\ Len(SizingLine.name) \in Nat
            /\ \/ Significant = <<>> /\ \A i \in 1..n : figures[i] = 0
               \/ \E first \in 1..n :
                    /\ figures[first] # 0 /\ \A k \in 1..first - 1 : figures[k] = 0
                    /\ Significant \in Seq(0..9) /\ Len(Significant) = n - first + 1
                    /\ Significant # <<>>
                    /\ \A i \in 1..n - first + 1 : Significant[i] = figures[first + i - 1]
<1> DEFINE figures == SizingLine.figures
           n == Len(figures)
           S == {k \in DOMAIN figures : figures[k] # 0}
<1>1. SizingLine \in Headers
  <2>1. Min(Sizing) \in 1..Len(input.headers)
    BY SizingIs
  <2> QED
    BY <2>1 DEF SizingLine
<1>2. /\ figures \in Seq(0..9) /\ n \in Nat /\ DOMAIN figures = 1..n
      /\ Len(SizingLine.name) \in Nat
  BY <1>1, HeaderTypes
<1>3. Significant = IF Least(S) = NULL THEN <<>> ELSE SubSeq(figures, Least(S), n)
  BY DEF Significant
<1> HIDE DEF figures, n
<1>4. CASE S = {}
  <2>1. Least(S) = NULL
    BY <1>4 DEF Least
  <2>2. Significant = <<>>
    BY <1>3, <2>1
  <2>3. \A i \in 1..n : figures[i] = 0
    BY <1>2, <1>4
  <2> QED
    BY <1>2, <2>2, <2>3 DEF figures, n
<1>5. CASE S # {}
  <2> DEFINE first == Min(S)
  <2>1. first \in S /\ \A y \in S : first <= y
    <3>1. S \in SUBSET Nat
      BY <1>2
    <3> HIDE DEF S
    <3> QED
      BY <1>5, <3>1, MinExists
  <2>2. Least(S) = first
    BY <1>5 DEF Least
  <2> HIDE DEF first
  <2>3. first \in 1..n /\ figures[first] # 0 /\ first # NULL
    BY <1>2, <2>1 DEF NULL
  <2>4. ASSUME NEW k \in 1..first - 1 PROVE figures[k] = 0
    <3>1. k \in 1..n /\ ~(first <= k)
      BY <1>2, <2>3
    <3> QED
      BY <1>2, <2>1, <3>1
  <2>5. Significant = SubSeq(figures, first, n)
    BY <1>3, <2>2, <2>3
  <2>6. /\ SubSeq(figures, first, n) \in Seq(0..9)
        /\ Len(SubSeq(figures, first, n)) = IF first <= n THEN n - first + 1 ELSE 0
        /\ \A i \in 1..n - first + 1 : SubSeq(figures, first, n)[i] = figures[first + i - 1]
    <3>1. first \in 1..Len(figures) + 1 /\ n \in first - 1..Len(figures)
      BY <1>2, <2>3 DEF n
    <3> QED
      BY <1>2, <3>1, SubSeqProperties
  <2>7. /\ Significant \in Seq(0..9) /\ Len(Significant) = n - first + 1 /\ n - first + 1 >= 1
        /\ \A i \in 1..n - first + 1 : Significant[i] = figures[first + i - 1]
    <3>1. first <= n /\ n - first + 1 >= 1
      BY <1>2, <2>3
    <3> QED
      BY <2>5, <2>6, <3>1
  <2>8. Significant # <<>>
    <3>1. Len(<<>>) = 0
      OBVIOUS
    <3> QED
      BY <1>2, <2>3, <2>7, <3>1
  <2> QED
    BY <1>2, <2>3, <2>4, <2>7, <2>8 DEF figures, n
<1> QED
  BY <1>4, <1>5

(* What the parser makes of the first line that announces a length.        *)
LEMMA ParsedLine ==
  ASSUME Init, input.length = -1, Sizing # {}
  PROVE  LET text == Rendered(input.headers, input.body)
             m == Min(Sizing)
         IN \E ends : /\ Laid(text, input.headers, ends)
                      /\ Parsed = value(text, Start(ends, m))
<1>1. input.headers \in Seq(Headers)
  BY ResponseLaid
<1>2. PICK ends : Laid(Rendered(input.headers, input.body), input.headers, ends)
  BY ResponseLaid
<1>3. /\ Min(Sizing) \in 1..Len(input.headers)
      /\ Named(input.headers[Min(Sizing)])
      /\ \A k \in 1..Min(Sizing) - 1 : ~Named(input.headers[k])
  BY <1>1, SizingIs
<1> DEFINE text == Rendered(input.headers, input.body)
           m == Min(Sizing)
<1>4. Laid(text, input.headers, ends) /\ m \in 1..Len(input.headers)
  BY <1>2, <1>3
<1>5. Parsed = kii_parse_content_length(text)
  BY DEF Parsed
<1> HIDE DEF text, m
<1>6. kii_parse_content_length(text) = value(text, Start(ends, m))
  BY <1>1, <1>3, <1>4, ParsedIs DEF m
<1> QED
  BY <1>4, <1>5, <1>6 DEF text, m

(* The parser returns the length a response announces, as far as the       *)
(* search for its first figure and the number of its figures go, and 0 if  *)
(* none is announced (kii_cl_parser.c:93-109), for every spelling, every   *)
(* limit and every response.                                               *)
THEOREM ContentLengthCorrect == Spec => []ContentLengthRight
<1>1. ASSUME Init PROVE ContentLengthRight
  <2> SUFFICES ASSUME input.length = -1 PROVE ContentLengthRight
    BY DEF ContentLengthRight
  <2>1. input.headers \in Seq(Headers)
    BY <1>1, ResponseLaid
  <2>2. CASE Sizing = {}
    <3> DEFINE text == Rendered(input.headers, input.body)
    <3>1. \E ends : Laid(text, input.headers, ends)
      BY <1>1, ResponseLaid
    <3>2. Parsed = kii_parse_content_length(text)
      BY DEF Parsed
    <3> HIDE DEF text
    <3>3. PICK ends : Laid(text, input.headers, ends)
      BY <3>1
    <3>4. \A k \in 1..Len(input.headers) : ~Named(input.headers[k])
      BY <2>1, <2>2 DEF Sizing
    <3>5. Parsed = 0
      BY <2>1, <3>2, <3>3, <3>4, ParsedIs
    <3> QED
      BY <2>2, <3>5 DEF ContentLengthRight
  <2>3. CASE Sizing # {} /\ Significant = <<>>
    BY <2>3 DEF ContentLengthRight, Reached
  <2>4. CASE Sizing # {} /\ Significant # <<>>
    <3> DEFINE text == Rendered(input.headers, input.body)
               m == Min(Sizing)
               h == input.headers[m]
               n == Len(h.figures)
               l == Len(h.name)
    <3>1. PICK ends : Laid(text, input.headers, ends) /\ Parsed = value(text, Start(ends, m))
      BY <1>1, <2>4, ParsedLine
    <3>2. m \in 1..Len(input.headers) /\ Named(h)
      BY <2>1, <2>4, SizingIs
    <3>3. /\ n \in Nat /\ DOMAIN h.figures = 1..n /\ l \in Nat
          /\ \E first \in 1..n :
               /\ h.figures[first] # 0 /\ \A k \in 1..first - 1 : h.figures[k] = 0
               /\ Significant \in Seq(0..9) /\ Len(Significant) = n - first + 1
               /\ \A i \in 1..n - first + 1 : Significant[i] = h.figures[first + i - 1]
      BY <2>1, <2>4, SignificantIs DEF SizingLine
    <3>4. PICK first \in 1..n :
            /\ h.figures[first] # 0 /\ \A k \in 1..first - 1 : h.figures[k] = 0
            /\ Significant \in Seq(0..9) /\ Len(Significant) = n - first + 1
            /\ \A i \in 1..n - first + 1 : Significant[i] = h.figures[first + i - 1]
      BY <3>3
    <3> DEFINE p == Start(ends, m) + Len(h.name) + 1 + first
               left == n - first + 1
               c == IF MAX_FIGURES <= left THEN MAX_FIGURES ELSE left
               taken == FiguresAt(text, p, MAX_FIGURES)
               kept == SubSeq(Significant, 1, Min({MAX_FIGURES, Len(Significant)}))
    <3> HIDE DEF text
    <3>5. value(text, Start(ends, m)) = IF l - cl_length + 1 + first <= MAX_SEARCH_NUM
                                        THEN Number(taken) ELSE 0
      <4> HIDE DEF m
      <4>1. m \in 1..Len(input.headers) /\ Named(input.headers[m])
        BY <3>2
      <4>2. Laid(text, input.headers, ends)
        BY <3>1
      <4>3. first \in 1..Len(input.headers[m].figures)
        OBVIOUS
      <4>4. /\ input.headers[m].figures[first] # 0
            /\ \A k \in 1..first - 1 : input.headers[m].figures[k] = 0
        BY <3>4
      <4> QED
        BY <2>1, <4>1, <4>2, <4>3, <4>4, ValueFound
    <3>6. /\ DOMAIN taken = 1..c
          /\ \A i \in 1..c : taken[i].figure = h.figures[first + i - 1]
      <4> HIDE DEF m
      <4>1. first \in 1..Len(input.headers[m].figures) /\ Laid(text, input.headers, ends)
        BY <3>1
      <4>2. TakenFrom(taken, input.headers[m].figures, first)
        BY <2>1, <3>2, <4>1, FiguresTaken
      <4> HIDE DEF taken
      <4> QED
        BY <4>2 DEF TakenFrom
    <3>7. Reached <=> l - cl_length + 1 + first <= MAX_SEARCH_NUM
      <4>1. SizingLine = h
        BY DEF SizingLine
      <4>2. Reached <=> l - cl_length + 2 + n - Len(Significant) <= MAX_SEARCH_NUM
        BY <2>4, <4>1 DEF Reached
      <4>3. cl_length \in Nat
        BY Spellings
      <4> HIDE DEF n, l, h
      <4>4. l - cl_length + 2 + n - Len(Significant) = l - cl_length + 1 + first
        BY <3>3, <3>4, <4>3
      <4> QED
        BY <4>2, <4>4
    <3> HIDE DEF taken, h, m, p, n, l
    <3>8. left \in Nat /\ left >= 1 /\ c \in Nat /\ c >= 1 /\ c <= left
      BY <3>3, <3>4, Constants
    <3>9. Min({MAX_FIGURES, Len(Significant)}) = c
      <4> HIDE DEF left
      <4>1. MAX_FIGURES \in Nat /\ left \in Nat
        BY <3>8, Constants
      <4>2. Min({MAX_FIGURES, left}) = c
        <5> DEFINE both == {MAX_FIGURES, left}
        <5>1. both \in SUBSET Int /\ c \in both /\ \A y \in both : c <= y
          BY <4>1
        <5> HIDE DEF both, c
        <5>2. Min(both) = c
          BY <5>1, MinIs
        <5> QED
          BY <5>2 DEF both
      <4> QED
        BY <3>4, <4>2 DEF left
    <3> HIDE DEF c, left
    <3>10. /\ DOMAIN kept = 1..c
           /\ \A i \in 1..c : kept[i] = h.figures[first + i - 1]
      <4>1. Len(Significant) = left /\ \A i \in 1..left : Significant[i] = h.figures[first + i - 1]
        BY <3>4 DEF left
      <4>2. 1 \in 1..Len(Significant) + 1 /\ c \in 1 - 1..Len(Significant)
        BY <3>8, <4>1
      <4>3. /\ SubSeq(Significant, 1, c) \in Seq(0..9)
            /\ Len(SubSeq(Significant, 1, c)) = IF 1 <= c THEN c - 1 + 1 ELSE 0
            /\ \A i \in 1..c - 1 + 1 : SubSeq(Significant, 1, c)[i] = Significant[1 + i - 1]
        BY <3>4, <4>2, SubSeqProperties
      <4>4. kept = SubSeq(Significant, 1, c)
        BY <3>9
      <4>4a. c - 1 + 1 = c
        BY <3>8
      <4> HIDE DEF kept
      <4>5. Len(kept) = c /\ kept \in Seq(0..9) /\ \A i \in 1..c : kept[i] = Significant[i]
        BY <3>8, <4>3, <4>4, <4>4a
      <4> QED
        BY <3>8, <4>1, <4>5
    <3> HIDE DEF kept
    <3>11. Number(taken) = Decimal(kept)
      <4>1. \A i \in 1..c : taken[i].figure = kept[i]
        BY <3>6, <3>10
      <4> QED
        BY <3>6, <3>8, <3>10, <4>1, SameNumber
    <3>12. IF Reached THEN Parsed = Decimal(kept) ELSE Parsed = 0
      BY <3>1, <3>5, <3>7, <3>11
    <3> QED
      BY <2>4, <3>12 DEF ContentLengthRight, kept
  <2> QED
    BY <2>2, <2>3, <2>4
<1>2. ContentLengthRight /\ [Next]_input => ContentLengthRight'
  BY DEF ContentLengthRight, Next, Sizing, SizingLine, Significant, Reached, Parsed
<1> QED
  BY <1>1, <1>2, PTL DEF Spec

(* A length of 0 reads as 0, unless the search for a figure comes upon one *)
(* that is not the length's (kii_cl_parser.c:46-52), for every response.   *)
THEOREM ZeroReadsCorrect == Spec => []ZeroReadsOnlyNearby
<1>1. ASSUME Init PROVE ZeroReadsOnlyNearby
  <2> SUFFICES ASSUME input.length = -1, Sizing # {}, Significant = <<>>
               PROVE  ZeroReadsOnlyNearby
    BY DEF ZeroReadsOnlyNearby
  <2> DEFINE text == Rendered(input.headers, input.body)
             m == Min(Sizing)
             named == {i \in DOMAIN text : EndOfLine(text, i - 2) /\ check(text, i)}
  <2>1. input.headers \in Seq(Headers)
    BY <1>1, ResponseLaid
  <2>2. PICK ends : Laid(text, input.headers, ends) /\ Parsed = value(text, Start(ends, m))
    BY <1>1, ParsedLine
  <2>3. m \in 1..Len(input.headers) /\ Named(input.headers[m])
    BY <2>1, SizingIs
  <2>4. Announced = 0
    <3> DEFINE figures == SizingLine.figures
               n == Len(figures)
    <3>1. n \in Nat /\ DOMAIN figures = 1..n /\ \A i \in 1..n : figures[i] = 0
      BY <2>1, SignificantIs
    <3> HIDE DEF figures, n
    <3>2. Decimal(figures) = 0
      BY <3>1, ZerosCount
    <3> QED
      BY <3>2 DEF Announced, figures
  <2> DEFINE at == Start(ends, m)
             start == at + cl_length
             S == {j \in start..start + MAX_SEARCH_NUM : At(text, j).figure > 0}
  <2> HIDE DEF text, m
  <2>5. at \in named
    <3>1. EndOfLine(text, at - 2)
      BY <2>1, <2>2, <2>3, LineAt
    <3>2. check(text, at)
      BY <2>1, <2>2, <2>3, ChecksName
    <3>3. at \in DOMAIN text
      <4> DEFINE p == at + Len(input.headers[m].name) + 1
                 n == Len(input.headers[m].figures)
      <4>1. /\ at \in Nat /\ Len(input.headers[m].name) \in Nat
            /\ \A j \in at..p + n : j \in DOMAIN text
            /\ n \in Nat
        BY <2>1, <2>2, <2>3, LineAt, FiguresOfLine
      <4> DEFINE l == Len(input.headers[m].name)
      <4>2. at \in Nat /\ l \in Nat /\ n \in Nat /\ p = at + l + 1
        BY <4>1
      <4> HIDE DEF at, l, n, p
      <4>3. at \in at..p + n
        BY <4>2
      <4> QED
        BY <4>1, <4>3
    <3> QED
      BY <3>1, <3>2, <3>3
  <2>6. Parsed = IF Least(S) = NULL THEN 0 ELSE Number(FiguresAt(text, Least(S), MAX_FIGURES))
    BY <2>2 DEF value
  <2>7. CASE S = {}
    <3>1. Least(S) = NULL
      BY <2>7 DEF Least
    <3>2. Parsed = Announced
      BY <2>4, <2>6, <3>1
    <3> QED
      BY <3>2 DEF ZeroReadsOnlyNearby
  <2>8. CASE S # {}
    <3>1. PICK j \in S : TRUE
      BY <2>8
    <3>2. at \in Nat /\ cl_length \in Nat /\ MAX_SEARCH_NUM \in Nat
      BY <2>1, <2>2, <2>3, LineAt, Spellings, Constants
    <3>3. j \in start..start + MAX_SEARCH_NUM /\ At(text, j).figure > 0
      BY <3>1
    <3> HIDE DEF S, named
    <3>4. j - start \in 0..MAX_SEARCH_NUM /\ at + cl_length + (j - start) = j
      BY <3>2, <3>3
    <3>5. \E i \in named, k \in 0..MAX_SEARCH_NUM : At(text, i + cl_length + k).figure > 0
      BY <2>5, <3>3, <3>4
    <3> QED
      BY <3>5 DEF ZeroReadsOnlyNearby, named, text
  <2> QED
    BY <2>7, <2>8
<1>2. ZeroReadsOnlyNearby /\ [Next]_input => ZeroReadsOnlyNearby'
  BY DEF ZeroReadsOnlyNearby, Next, Sizing, SizingLine, Significant, Parsed, Announced
<1> QED
  BY <1>1, <1>2, PTL DEF Spec
=============================================================================
