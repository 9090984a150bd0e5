------------------------- MODULE Inet6Packet_lemmas -------------------------
(***************************************************************************)
(* The arithmetic of the checksum of inet6.c and the layout of the bytes,  *)
(* for bytes of any size and payloads of any length: folding takes         *)
(* multiples of Mask away, so a packet verifies if and only if the sum of  *)
(* its words is such a multiple, and no change of a single byte is one.    *)
(***************************************************************************)
EXTENDS Inet6Packet, WellFoundedInduction, TLAPS

-----------------------------------------------------------------------------
(* Sequences of bytes.                                                     *)

(* Sequences with the same elements are equal.                             *)
LEMMA SameElements ==
  ASSUME NEW s \in Seq(Byte), NEW t \in Seq(Byte), Len(s) = Len(t),
         \A i \in 1 .. Len(s) : s[i] = t[i]
  PROVE  s = t
OBVIOUS

(* A header with data behind it.                                           *)
LEMMA HeadAndData ==
  ASSUME NEW h \in Seq(Byte), NEW d \in Seq(Byte)
  PROVE  /\ h \o d \in Seq(Byte) /\ Len(h \o d) = Len(h) + Len(d)
         /\ \A k \in 1 .. Len(h) : (h \o d)[k] = h[k]
         /\ \A k \in 1 .. Len(d) : (h \o d)[Len(h) + k] = d[k]
OBVIOUS

-----------------------------------------------------------------------------
(* Induction.  A set of numbers stands for the formula that is proved.     *)

(* A set of numbers that is not empty has a least element.                 *)
LEMMA Smallest ==
  ASSUME NEW T, T \subseteq Nat, T # {}
  PROVE  \E x \in T : \A y \in T : x <= y
<1>1. PICK x \in T : \A y \in T : ~(<<y, x>> \in OpToRel(<, Nat))
  BY NatLessThanWellFounded, WFMin, Zenon
<1>2. \A y \in T : <<y, x>> \in OpToRel(<, Nat) <=> y < x
  BY DEF OpToRel
<1>3. \A y \in T : ~(y < x)
  BY <1>1, <1>2, Zenon
<1>4. \A y \in T : x <= y
  BY <1>3
<1> QED  BY <1>4

(* A set with 0 and the successors of its elements has all numbers.        *)
LEMMA Induction ==
  ASSUME NEW S, 0 \in S, \A n \in Nat : n \in S => n + 1 \in S
  PROVE  Nat \subseteq S
<1> SUFFICES ASSUME Nat \ S # {} PROVE FALSE
  OBVIOUS
<1>1. PICK x \in Nat \ S : \A y \in Nat \ S : x <= y
  BY Smallest, Zenon
<1>2. x # 0 /\ x - 1 \in Nat /\ x - 1 \in S
  BY <1>1
<1> QED  BY <1>1, <1>2

-----------------------------------------------------------------------------
(* Folding a sum.                                                          *)

(* A word is at least 15 in every Base.                                    *)
LEMMA MaskRange == /\ Mask \in Nat /\ Mask >= 15 /\ Mask + 1 = Base * Base
                   /\ Base \in Nat /\ Base >= 4 /\ Base < Mask
                   /\ Base * (Base - 1) < Mask
<1>1. Base * Base \in Nat /\ Base * Base >= 16 /\ Base * Base > Base + 1
      /\ Base * (Base - 1) = Base * Base - Base
  BY PacketAssumption
<1> QED  BY <1>1, PacketAssumption DEF Mask

(* Division with remainder.                                                *)
LEMMA DivMod ==
  ASSUME NEW a \in Nat, NEW b \in Nat, b > 0
  PROVE  /\ a \div b \in Nat /\ a % b \in 0 .. b - 1
         /\ a = b * (a \div b) + (a % b)
<1>1. a % b \in 0 .. b - 1
  OBVIOUS
<1>2. a = b * (a \div b) + (a % b)
  OBVIOUS
<1>3. a \div b \in Int
  OBVIOUS
<1>4. a \div b >= 0
  OBVIOUS
<1> QED  BY <1>1, <1>2, <1>3, <1>4

(* One round of the folding loop: the carry is added to the low word,      *)
(* which takes a multiple of Mask away.                                    *)
LEMMA FoldOnce ==
  ASSUME NEW s \in Nat, s > Mask
  PROVE  LET t == (s % (Mask + 1)) + (s \div (Mask + 1))
         IN  /\ t \in Nat /\ t > 0 /\ t < s
             /\ s = t + (s \div (Mask + 1)) * Mask
             /\ s \div (Mask + 1) \in Nat
<1> DEFINE W == Mask + 1
           q == s \div W
           r == s % W
<1>1. W \in Nat /\ W > 0
  BY MaskRange
<1>2. q \in Nat /\ r \in 0 .. W - 1 /\ s = W * q + r
  BY <1>1, DivMod, Zenon
<1>3. q > 0
  BY <1>1, <1>2, MaskRange
<1> HIDE DEF q, r, W
<1>4. Mask \in Nat /\ Mask >= 15 /\ W = Mask + 1
  BY MaskRange DEF W
<1>5. W * q = Mask * q + q /\ q * Mask = Mask * q /\ Mask * q >= q /\ Mask * q \in Nat
  BY <1>2, <1>4
<1>6. Mask * q > 0
  BY <1>2, <1>3, <1>4
<1>7. r + q \in Nat /\ r + q > 0 /\ r + q < s /\ s = (r + q) + q * Mask
  BY <1>2, <1>3, <1>5, <1>6
<1> QED  BY <1>2, <1>7 DEF q, r, W

(* A multiple of m that is smaller than m is zero.                         *)
LEMMA SmallMultiple ==
  ASSUME NEW m \in Nat, NEW k \in Int, -m < k * m, k * m < m
  PROVE  k = 0
<1>1. ASSUME k >= 1 PROVE FALSE
  <2>1. k * m >= m
    BY <1>1
  <2> QED  BY <2>1
<1>2. ASSUME k <= -1 PROVE FALSE
  <2>1. k * m <= -m
    BY <1>2
  <2> QED  BY <2>1
<1> QED  BY <1>1, <1>2

(* Adding a multiple of the divisor does not change the remainder.         *)
LEMMA ModShift ==
  ASSUME NEW a \in Nat, NEW q \in Nat, NEW m \in Nat, m > 0
  PROVE  (a + q * m) % m = a % m
<1> DEFINE b == a + q * m
           x == a \div m
           y == b \div m
           r == a % m
           t == b % m
<1>1. q * m \in Nat /\ b \in Nat
  OBVIOUS
<1>2. x \in Nat /\ r \in 0 .. m - 1 /\ a = m * x + r
  BY DivMod, Zenon
<1>3. y \in Nat /\ t \in 0 .. m - 1 /\ b = m * y + t
  BY <1>1, DivMod, Zenon
<1>4. b = a + q * m
  OBVIOUS
<1> HIDE DEF b, x, y, r, t
<1>5. (y - x - q) * m = r - t /\ y - x - q \in Int
  BY <1>1, <1>2, <1>3, <1>4
<1>6. y - x - q = 0
  BY <1>2, <1>3, <1>5, SmallMultiple
<1>7. r = t
  BY <1>2, <1>3, <1>5, <1>6
<1> QED  BY <1>7 DEF b, r, t

(* The loop of checksum ends: there is a function that does what the       *)
(* recursion says, the remainder of the division by Mask with Mask for 0.  *)
LEMMA FoldSumDef ==
  \A s \in Nat : FoldSum[s] =
    IF s > Mask THEN FoldSum[(s % (Mask + 1)) + (s \div (Mask + 1))] ELSE s
<1> DEFINE g == [s \in Nat |-> IF s = 0 THEN 0 ELSE 1 + ((s - 1) % Mask)]
           next(s) == (s % (Mask + 1)) + (s \div (Mask + 1))
<1>1. ASSUME NEW s \in Nat, s > Mask PROVE g[s] = g[next(s)]
  <2> DEFINE t == next(s)
             q == s \div (Mask + 1)
  <2>1. t \in Nat /\ t > 0 /\ t < s /\ s = t + q * Mask /\ q \in Nat
    BY <1>1, FoldOnce
  <2> HIDE DEF t, q
  <2>2. t - 1 \in Nat /\ s - 1 = (t - 1) + q * Mask /\ Mask \in Nat /\ Mask > 0
    BY <2>1, MaskRange
  <2>3. (s - 1) % Mask = (t - 1) % Mask
    <3>a. t - 1 \in Nat /\ q \in Nat /\ Mask \in Nat /\ Mask > 0
      BY <2>1, <2>2, Zenon
    <3>1. ((t - 1) + q * Mask) % Mask = (t - 1) % Mask
      BY <3>a, ModShift, Zenon
    <3> QED  BY <2>2, <3>1, Zenon
  <2>4. g[s] = g[t]
    BY <1>1, <2>1, <2>3
  <2> QED  BY <2>4 DEF t
<1>2. ASSUME NEW s \in Nat, ~(s > Mask) PROVE g[s] = s
  BY <1>2, MaskRange
<1>3. \A s \in Nat : g[s] = IF s > Mask THEN g[next(s)] ELSE s
  BY <1>1, <1>2, Zenon
<1>4. g = [s \in Nat |-> IF s > Mask THEN g[next(s)] ELSE s]
  <2>1. g = [s \in Nat |-> g[s]]
    OBVIOUS
  <2> HIDE DEF g, next
  <2> QED  BY <1>3, <2>1
<1> HIDE DEF g
<1>5. FoldSum = [s \in Nat |-> IF s > Mask THEN FoldSum[next(s)] ELSE s]
  BY <1>4, Zenon DEF FoldSum
<1> QED  BY <1>5

(* The folded sum is a word, differs from the sum by a multiple of Mask,   *)
(* and is zero only for zero.                                              *)
LEMMA FoldSumIs ==
  ASSUME NEW s \in Nat
  PROVE  /\ FoldSum[s] \in 0 .. Mask
         /\ s > 0 => FoldSum[s] > 0
         /\ \E k \in Nat : s = FoldSum[s] + k * Mask
<1> DEFINE Good(x) == /\ FoldSum[x] \in 0 .. Mask
                      /\ x > 0 => FoldSum[x] > 0
                      /\ \E k \in Nat : x = FoldSum[x] + k * Mask
           Bad == {x \in Nat : ~Good(x)}
<1>1. ASSUME Bad # {} PROVE FALSE
  <2>1. PICK x \in Bad : \A y \in Bad : x <= y
    BY <1>1, Smallest, Zenon
  <2>2. x \in Nat /\ ~Good(x) /\ \A y \in Nat : y < x => Good(y)
    BY <2>1
  <2> HIDE DEF Good, Bad
  <2>3. CASE ~(x > Mask)
    <3>1. FoldSum[x] = x /\ x \in 0 .. Mask
      BY <2>2, <2>3, FoldSumDef, MaskRange
    <3>2. x = x + 0 * Mask
      BY <2>2, MaskRange
    <3> QED  BY <2>2, <3>1, <3>2 DEF Good
  <2>4. CASE x > Mask
    <3> DEFINE t == (x % (Mask + 1)) + (x \div (Mask + 1))
               q == x \div (Mask + 1)
    <3>1. t \in Nat /\ t > 0 /\ t < x /\ x = t + q * Mask /\ q \in Nat
      BY <2>2, <2>4, FoldOnce
    <3>2. FoldSum[x] = FoldSum[t]
      BY <2>2, <2>4, FoldSumDef
    <3> HIDE DEF t, q
    <3>3. Good(t)
      BY <2>2, <3>1
    <3>4. PICK k \in Nat : t = FoldSum[t] + k * Mask
      BY <3>3 DEF Good
    <3>5. FoldSum[t] \in 0 .. Mask /\ FoldSum[t] > 0
      BY <3>1, <3>3 DEF Good
    <3>6. k + q \in Nat /\ x = FoldSum[x] + (k + q) * Mask
      BY <3>1, <3>2, <3>4, <3>5, MaskRange
    <3> QED  BY <2>2, <3>2, <3>5, <3>6 DEF Good
  <2> QED  BY <2>3, <2>4
<1>2. Good(s)
  BY <1>1
<1> QED  BY <1>2

-----------------------------------------------------------------------------
(* Summing up the words.                                                   *)

(* A byte counts once or Base times in its word.                           *)
LEMMA ByteInWordType ==
  ASSUME NEW b \in Seq(Nat), NEW k \in 1 .. Len(b)
  PROVE  ByteInWord(b, k) \in Nat
<1>1. b[k] \in Nat /\ Base * b[k] \in Nat
  BY PacketAssumption
<1> QED  BY <1>1 DEF ByteInWord

(* The loop of checksum over the words: there is a function of partial     *)
(* sums, and Sums is it.                                                   *)
LEMMA SumsDef ==
  ASSUME NEW b \in Seq(Nat)
  PROVE  /\ Sums(b) \in [0 .. Len(b) -> Nat] /\ Sums(b)[0] = 0
         /\ \A k \in 1 .. Len(b) :
              Sums(b)[k] = Sums(b)[k - 1] + ByteInWord(b, k)
<1> DEFINE N == Len(b)
           Partial(g, n) ==
             /\ g \in [0 .. n -> Nat] /\ g[0] = 0
             /\ \A k \in 1 .. n : g[k] = g[k - 1] + ByteInWord(b, k)
           S == {n \in Nat : n <= N => \E g : Partial(g, n)}
           step(g, k) == IF k = 0 THEN 0 ELSE g[k - 1] + ByteInWord(b, k)
<1>1. N \in Nat
  OBVIOUS
<1>2. 0 \in S
  <2>1. Partial([k \in 0 .. 0 |-> 0], 0)
    OBVIOUS
  <2> QED  BY <2>1, Zenon
<1>3. ASSUME NEW n \in Nat, n \in S PROVE n + 1 \in S
  <2>1. ASSUME n + 1 <= N PROVE \E g : Partial(g, n + 1)
    <3>1. PICK g : Partial(g, n)
      BY <1>1, <1>3, <2>1, SMTT(60)
    <3> DEFINE w == ByteInWord(b, n + 1)
               h == [k \in 0 .. n + 1 |-> IF k = n + 1 THEN g[n] + w ELSE g[k]]
    <3>2. w \in Nat
      BY <1>1, <2>1, ByteInWordType
    <3> HIDE DEF w
    <3>3. h \in [0 .. n + 1 -> Nat] /\ h[0] = 0
      BY <3>1, <3>2
    <3>4. ASSUME NEW k \in 1 .. n + 1 PROVE h[k] = h[k - 1] + ByteInWord(b, k)
      <4>1. CASE k = n + 1
        BY <4>1 DEF w
      <4>2. CASE k # n + 1
        <5>1. k \in 1 .. n /\ k - 1 \in 0 .. n /\ k - 1 # n + 1 /\ k \in 0 .. n + 1
              /\ k - 1 \in 0 .. n + 1
          BY <4>2
        <5>2. g[k] = g[k - 1] + ByteInWord(b, k)
          BY <3>1, <5>1
        <5> QED  BY <4>2, <5>1, <5>2
      <4> QED  BY <4>1, <4>2
    <3>5. Partial(h, n + 1)
      BY <3>3, <3>4, Zenon
    <3> QED  BY <3>5, Zenon
  <2> HIDE DEF Partial
  <2> QED  BY <2>1
<1>4. N \in S
  <2> HIDE DEF S
  <2> QED  BY <1>1, <1>2, <1>3, Induction, Zenon
<1>5. PICK g : Partial(g, N)
  BY <1>1, <1>4
<1>6. g = [k \in 0 .. N |-> step(g, k)]
  <2>1. g = [k \in 0 .. N |-> g[k]]
    BY <1>5
  <2>2. \A k \in 0 .. N : g[k] = step(g, k)
    BY <1>1, <1>5
  <2> QED  BY <2>1, <2>2, Zenon
<1>7. Sums(b) = [k \in 0 .. N |-> step(Sums(b), k)]
  BY <1>6, Zenon DEF Sums
<1> DEFINE f == Sums(b)
           Same == {n \in Nat : n <= N => f[n] = g[n]}
<1>8. f = [k \in 0 .. N |-> step(f, k)]
  BY <1>7, Zenon
<1> HIDE DEF f
<1>9. 0 \in Same
  BY <1>1, <1>5, <1>8
<1>10. ASSUME NEW n \in Nat, n \in Same PROVE n + 1 \in Same
  <2>1. ASSUME n + 1 <= N PROVE f[n + 1] = g[n + 1]
    <3>1. n + 1 \in 1 .. N /\ n + 1 \in 0 .. N /\ (n + 1) - 1 = n /\ n + 1 # 0
      BY <1>1, <2>1
    <3>2. f[n] = g[n]
      BY <1>1, <1>10, <2>1
    <3>3. f[n + 1] = f[n] + ByteInWord(b, n + 1)
      BY <1>8, <3>1
    <3>4. g[n + 1] = g[n] + ByteInWord(b, n + 1)
      BY <1>5, <3>1
    <3> QED  BY <3>2, <3>3, <3>4
  <2> QED  BY <2>1
<1>11. Nat \subseteq Same
  <2> HIDE DEF Same
  <2> QED  BY <1>9, <1>10, Induction, Zenon
<1>12. f = g
  BY <1>1, <1>5, <1>8, <1>11
<1> QED  BY <1>5, <1>12 DEF f

(* The sum of the words is a number.                                       *)
LEMMA SumWordsType == ASSUME NEW b \in Seq(Nat) PROVE SumWords(b) \in Nat
<1>1. Len(b) \in 0 .. Len(b)
  OBVIOUS
<1> QED  BY <1>1, SumsDef DEF SumWords

(* If one byte is different, the sums differ by what it counts.            *)
LEMMA OneByte ==
  ASSUME NEW a \in Seq(Nat), NEW b \in Seq(Nat), Len(a) = Len(b),
         NEW j \in 1 .. Len(a),
         \A k \in 1 .. Len(a) : k # j => a[k] = b[k]
  PROVE  SumWords(a) - SumWords(b) = ByteInWord(a, j) - ByteInWord(b, j)
<1> DEFINE N == Len(a)
           f == Sums(a)
           g == Sums(b)
           d == ByteInWord(a, j) - ByteInWord(b, j)
           S == {n \in Nat : n <= N => f[n] - g[n] = IF n >= j THEN d ELSE 0}
<1>1. N \in Nat /\ N = Len(b) /\ j \in 1 .. N
  OBVIOUS
<1>2. /\ f \in [0 .. N -> Nat] /\ f[0] = 0
      /\ \A k \in 1 .. N : f[k] = f[k - 1] + ByteInWord(a, k)
  BY SumsDef, Zenon
<1>3. /\ g \in [0 .. N -> Nat] /\ g[0] = 0
      /\ \A k \in 1 .. N : g[k] = g[k - 1] + ByteInWord(b, k)
  BY SumsDef, Zenon
<1>4. \A k \in 1 .. N : /\ ByteInWord(a, k) \in Nat /\ ByteInWord(b, k) \in Nat
                        /\ k # j => ByteInWord(a, k) = ByteInWord(b, k)
  <2> TAKE k \in 1 .. N
  <2>1. ByteInWord(a, k) \in Nat /\ ByteInWord(b, k) \in Nat
    BY ByteInWordType
  <2> QED  BY <2>1 DEF ByteInWord
<1>5. d = ByteInWord(a, j) - ByteInWord(b, j) /\ d \in Int
  BY <1>4
<1> HIDE DEF N, f, g, d
<1>6. 0 \in S
  BY <1>1, <1>2, <1>3
<1>7. ASSUME NEW n \in Nat, n \in S PROVE n + 1 \in S
  <2>1. ASSUME n + 1 <= N
        PROVE  f[n + 1] - g[n + 1] = IF n + 1 >= j THEN d ELSE 0
    <3>1. n + 1 \in 1 .. N /\ n \in 0 .. N /\ (n + 1) - 1 = n
      BY <1>1, <2>1
    <3>2. f[n] - g[n] = IF n >= j THEN d ELSE 0
      BY <1>1, <1>7, <2>1
    <3>3. f[n + 1] = f[n] + ByteInWord(a, n + 1) /\ f[n] \in Nat
      BY <1>2, <3>1, Zenon
    <3>4. g[n + 1] = g[n] + ByteInWord(b, n + 1) /\ g[n] \in Nat
      BY <1>3, <3>1, Zenon
    <3> DEFINE x == ByteInWord(a, n + 1)
               y == ByteInWord(b, n + 1)
    <3>5. /\ x \in Nat /\ y \in Nat
          /\ n + 1 # j => x = y
          /\ n + 1 = j => x - y = d
      BY <1>4, <1>5, <3>1, Zenon
    <3> HIDE DEF x, y
    <3>6. f[n + 1] - g[n + 1] = (f[n] - g[n]) + (x - y)
      <4> DEFINE u == f[n]
                 v == g[n]
                 s == f[n + 1]
                 t == g[n + 1]
      <4>1. s = u + x /\ t = v + y /\ u \in Nat /\ v \in Nat
        BY <3>3, <3>4 DEF x, y
      <4> HIDE DEF u, v, s, t
      <4>2. s - t = (u - v) + (x - y)
        BY <3>5, <4>1
      <4> QED  BY <4>2 DEF u, v, s, t
    <3> QED  BY <1>1, <1>5, <3>2, <3>5, <3>6
  <2> QED  BY <2>1
<1>8. Nat \subseteq S
  <2> HIDE DEF S
  <2> QED  BY <1>6, <1>7, Induction, Zenon
<1>9. f[N] - g[N] = d
  BY <1>1, <1>8
<1> QED  BY <1>1, <1>9 DEF SumWords, N, f, g, d

-----------------------------------------------------------------------------
(* The sum of a packet.                                                    *)

Multiple(x) == \E k \in Int : x = k * Mask

(* Multiples of Mask add up.                                               *)
LEMMA MultipleSum ==
  ASSUME NEW x \in Int, NEW y \in Int, Multiple(y)
  PROVE  (Multiple(x + y) <=> Multiple(x)) /\ (Multiple(x - y) <=> Multiple(x))
<1>1. PICK k \in Int : y = k * Mask
  BY DEF Multiple
<1>2. ASSUME NEW i \in Int PROVE /\ (i + k) * Mask = i * Mask + k * Mask
                                 /\ (i - k) * Mask = i * Mask - k * Mask
                                 /\ i + k \in Int /\ i - k \in Int
                                 /\ i * Mask \in Int /\ k * Mask \in Int
  BY MaskRange
<1>3. ASSUME NEW i \in Int PROVE /\ x = i * Mask => x + y = (i + k) * Mask
                                 /\ x = i * Mask => x - y = (i - k) * Mask
                                 /\ x + y = i * Mask => x = (i - k) * Mask
                                 /\ x - y = i * Mask => x = (i + k) * Mask
  <2> DEFINE a == i * Mask
             b == k * Mask
  <2>1. /\ (i + k) * Mask = a + b /\ (i - k) * Mask = a - b
        /\ a \in Int /\ b \in Int /\ y = b
    BY <1>1, <1>2, Zenon
  <2> HIDE DEF a, b
  <2>2. /\ x = a => x + y = a + b
        /\ x = a => x - y = a - b
        /\ x + y = a => x = a - b
        /\ x - y = a => x = a + b
    BY <2>1
  <2> QED  BY <2>1, <2>2, Zenon DEF a
<1> QED  BY <1>2, <1>3, ZenonT(60) DEF Multiple

(* Mask and 0 are multiples, and a difference of one byte is none, wherever *)
(* in its word the byte is.                                                *)
LEMMA NoMultiple ==
  /\ Multiple(Mask) /\ Multiple(0)
  /\ \A d \in Int : -Base < d /\ d < Base /\ d # 0 => ~Multiple(d) /\ ~Multiple(Base * d)
  /\ \A x \in 1 .. Mask : Multiple(x) => x = Mask
<1>1. Mask = 1 * Mask /\ 0 = 0 * Mask
  BY MaskRange
<1>2. ASSUME NEW x \in Int, -Mask < x, x < Mask, x # 0 PROVE ~Multiple(x)
  <2>1. ASSUME NEW k \in Int, x = k * Mask PROVE FALSE
    <3>1. k = 0
      BY <1>2, <2>1, MaskRange, SmallMultiple
    <3> QED  BY <1>2, <2>1, <3>1, MaskRange
  <2> QED  BY <2>1 DEF Multiple
<1>3. ASSUME NEW d \in Int, -Base < d, d < Base, d # 0
      PROVE  ~Multiple(d) /\ ~Multiple(Base * d)
  <2>1. -Mask < d /\ d < Mask
    BY <1>3, MaskRange
  <2>2. d <= Base - 1 /\ -(Base - 1) <= d
    BY <1>3, MaskRange
  <2>3. Base * d <= Base * (Base - 1) /\ -(Base * (Base - 1)) <= Base * d
        /\ Base * d \in Int /\ Base * d # 0
    BY <1>3, <2>2, MaskRange
  <2>4. -Mask < Base * d /\ Base * d < Mask
    BY <2>3, MaskRange
  <2> QED  BY <1>2, <1>3, <2>1, <2>3, <2>4
<1>4. ASSUME NEW x \in 1 .. Mask, Multiple(x), x # Mask PROVE FALSE
  BY <1>2, <1>4, MaskRange
<1> QED  BY <1>1, <1>3, <1>4 DEF Multiple

(* The bytes that follow each other in memory and are summed.              *)
Bytes(p, n) == p.src \o p.dst \o SubSeq(p.body, 1, n)

(* What checksum adds up before it folds, all its calls together.          *)
Raw(p, type, n) == Base * type + SumWords(p.length) + SumWords(Bytes(p, n))

(* A pair of bytes as a sequence.                                          *)
LEMMA PairType ==
  ASSUME NEW w \in Byte \X Byte
  PROVE  /\ w \in Seq(Byte) /\ Len(w) = 2 /\ w[1] \in Byte /\ w[2] \in Byte
         /\ w = <<w[1], w[2]>>
<1>1. w = <<w[1], w[2]>> /\ w[1] \in Byte /\ w[2] \in Byte
  OBVIOUS
<1>2. \A a, b \in Byte : <<a, b>> \in Seq(Byte) /\ Len(<<a, b>>) = 2
  OBVIOUS
<1> QED  BY <1>1, <1>2, Zenon

(* Bytes are numbers.                                                      *)
LEMMA ByteIsNat == Byte \subseteq Nat /\ \A s \in Seq(Byte) : s \in Seq(Nat)
<1>1. Byte \subseteq Nat
  BY PacketAssumption DEF Byte
<1>2. \A S, T : S \subseteq T => Seq(S) \subseteq Seq(T)
  OBVIOUS
<1> QED  BY <1>1, <1>2, Zenon

(* Where the bytes are.                                                    *)
LEMMA BytesAt ==
  ASSUME NEW p \in Packet, NEW n \in 0 .. Len(p.body)
  PROVE  /\ Bytes(p, n) \in Seq(Nat) /\ Bytes(p, n) \in Seq(Byte)
         /\ Len(Bytes(p, n)) = n + 4
         /\ Bytes(p, n)[1] = p.src[1] /\ Bytes(p, n)[2] = p.src[2]
         /\ Bytes(p, n)[3] = p.dst[1] /\ Bytes(p, n)[4] = p.dst[2]
         /\ \A k \in 1 .. n : Bytes(p, n)[k + 4] = p.body[k]
<1> DEFINE s == p.src
           d == p.dst
           t == SubSeq(p.body, 1, n)
<1>1. s \in Byte \X Byte /\ d \in Byte \X Byte /\ p.body \in Seq(Byte)
  BY DEF Packet
<1>2. /\ s \in Seq(Byte) /\ Len(s) = 2
      /\ d \in Seq(Byte) /\ Len(d) = 2
  BY <1>1, PairType
<1>3. t \in Seq(Byte) /\ Len(t) = n /\ \A k \in 1 .. n : t[k] = p.body[k]
  BY <1>1
<1> HIDE DEF s, d, t
<1> DEFINE sd == s \o d
<1>4. /\ sd \in Seq(Byte) /\ Len(sd) = 4
      /\ sd[1] = s[1] /\ sd[2] = s[2] /\ sd[3] = d[1] /\ sd[4] = d[2]
  <2>1. /\ sd \in Seq(Byte) /\ Len(sd) = Len(s) + Len(d)
        /\ \A k \in 1 .. Len(s) : sd[k] = s[k]
        /\ \A k \in 1 .. Len(d) : sd[Len(s) + k] = d[k]
    BY <1>2, HeadAndData, Zenon
  <2> HIDE DEF sd
  <2> QED  BY <1>2, <2>1
<1> HIDE DEF sd
<1> DEFINE b == sd \o t
<1>5. /\ b \in Seq(Byte) /\ Len(b) = n + 4
      /\ b[1] = sd[1] /\ b[2] = sd[2] /\ b[3] = sd[3] /\ b[4] = sd[4]
      /\ \A k \in 1 .. n : b[k + 4] = t[k]
  <2>1. /\ b \in Seq(Byte) /\ Len(b) = Len(sd) + Len(t)
        /\ \A k \in 1 .. Len(sd) : b[k] = sd[k]
        /\ \A k \in 1 .. Len(t) : b[Len(sd) + k] = t[k]
    BY <1>3, <1>4, HeadAndData, Zenon
  <2> HIDE DEF b
  <2> QED  BY <1>3, <1>4, <2>1
<1>6. b = Bytes(p, n)
  BY DEF Bytes, sd, s, d, t
<1> HIDE DEF b
<1> QED  BY <1>3, <1>4, <1>5, <1>6, ByteIsNat, Zenon DEF s, d

Type == {HDR_UDP, HDR_ICMP6}

(* The protocol as ip6_checksum adds it, in network byte order.            *)
LEMMA TypeWord ==
  ASSUME NEW type \in Type
  PROVE  Load(htons(type)) = Base * type /\ Base * type \in Nat /\ Base * type > 0
<1>1. type \in 1 .. 2 /\ type < Base
  BY MaskRange DEF Type, HDR_UDP, HDR_ICMP6
<1>2. type \div Base = 0 /\ type % Base = type
  BY <1>1, MaskRange
<1>3. Load(htons(type)) = 0 + Base * type
  BY <1>2 DEF Load, htons
<1> QED  BY <1>1, <1>3, MaskRange

(* PacketSum is Raw folded, in two calls: they differ by a multiple of     *)
(* Mask, and the sum of a packet is never zero.                            *)
LEMMA PacketSumRaw ==
  ASSUME NEW p \in Packet, NEW n \in 0 .. Len(p.body), NEW type \in Type
  PROVE  /\ Raw(p, type, n) \in Nat
         /\ PacketSum(p, type, n) \in 1 .. Mask
         /\ Multiple(Raw(p, type, n) - PacketSum(p, type, n))
         /\ PacketSum(p, type, n) = Mask <=> Multiple(Raw(p, type, n))
<1> DEFINE t == Base * type
           L == SumWords(p.length)
           B == SumWords(Bytes(p, n))
           h == FoldSum[t + L]
           c == FoldSum[h + B]
<1>1. t \in Nat /\ t > 0 /\ Load(htons(type)) = t
  BY TypeWord
<1>2. L \in Nat /\ B \in Nat
  <2>1. p.length \in Seq(Nat)
    BY PairType, ByteIsNat DEF Packet
  <2> QED  BY <2>1, BytesAt, SumWordsType, Zenon
<1>3. PacketSum(p, type, n) = c /\ Raw(p, type, n) = t + L + B
  BY <1>1 DEF PacketSum, checksum, Raw, Bytes
<1> HIDE DEF t, L, B
<1>4. t + L \in Nat /\ t + L > 0
  BY <1>1, <1>2
<1>5. h \in 0 .. Mask /\ h > 0 /\ \E k \in Nat : t + L = h + k * Mask
  BY <1>4, FoldSumIs, Zenon
<1>6. PICK k \in Nat : t + L = h + k * Mask
  BY <1>5
<1> HIDE DEF h
<1>7. h + B \in Nat /\ h + B > 0
  BY <1>2, <1>5, MaskRange
<1>8. c \in 0 .. Mask /\ c > 0 /\ \E j \in Nat : h + B = c + j * Mask
  BY <1>7, FoldSumIs, Zenon
<1>9. PICK j \in Nat : h + B = c + j * Mask
  BY <1>8
<1> HIDE DEF c
<1>10. k * Mask \in Int /\ j * Mask \in Int /\ (k + j) * Mask = k * Mask + j * Mask
       /\ k + j \in Int
  BY MaskRange
<1>11. (t + L + B) - c = (k + j) * Mask
  BY <1>1, <1>2, <1>5, <1>6, <1>8, <1>9, <1>10, MaskRange
<1>12. t + L + B \in Nat /\ c \in 1 .. Mask
  BY <1>1, <1>2, <1>8, MaskRange
<1>13. Multiple((t + L + B) - c) /\ (Multiple(t + L + B) <=> Multiple(c))
  <2> DEFINE d == (t + L + B) - c
  <2>1. c + d = t + L + B /\ d \in Int /\ c \in Int
    BY <1>12, MaskRange
  <2>2. Multiple(d)
    BY <1>10, <1>11, Zenon DEF Multiple
  <2> HIDE DEF d
  <2>3. Multiple(c + d) <=> Multiple(c)
    BY <2>1, <2>2, MultipleSum, Zenon
  <2> QED  BY <2>1, <2>2, <2>3, Zenon DEF d
<1>14. Multiple(c) <=> c = Mask
  BY <1>12, NoMultiple
<1> QED  BY <1>3, <1>12, <1>13, <1>14, Zenon

(* Two packets that differ in one byte of what is summed.                  *)
LEMMA RawBytes ==
  ASSUME NEW p \in Packet, NEW q \in Packet, p.length = q.length,
         NEW n \in 0 .. Len(p.body), n \in 0 .. Len(q.body),
         NEW j \in 1 .. n + 4,
         \A k \in 1 .. n + 4 : k # j => Bytes(p, n)[k] = Bytes(q, n)[k],
         NEW type \in Type
  PROVE  Raw(p, type, n) - Raw(q, type, n)
           = ByteInWord(Bytes(p, n), j) - ByteInWord(Bytes(q, n), j)
<1> DEFINE a == Bytes(p, n)
           b == Bytes(q, n)
<1>1. a \in Seq(Nat) /\ Len(a) = n + 4 /\ b \in Seq(Nat) /\ Len(b) = n + 4
  BY BytesAt, Zenon
<1>2. p.length \in Seq(Nat)
  BY PairType, ByteIsNat DEF Packet
<1>3. SumWords(a) - SumWords(b) = ByteInWord(a, j) - ByteInWord(b, j)
  <2>1. j \in 1 .. Len(a) /\ Len(a) = Len(b)
        /\ \A k \in 1 .. Len(a) : k # j => a[k] = b[k]
    BY <1>1
  <2> QED  BY <1>1, <2>1, OneByte, Zenon
<1>4. SumWords(a) \in Nat /\ SumWords(b) \in Nat /\ SumWords(p.length) \in Nat
      /\ Base * type \in Nat
  BY <1>1, <1>2, SumWordsType, TypeWord
<1>5. /\ Raw(p, type, n) = Base * type + SumWords(p.length) + SumWords(a)
      /\ Raw(q, type, n) = Base * type + SumWords(p.length) + SumWords(b)
  BY DEF Raw
<1> HIDE DEF a, b
<1>6. Raw(p, type, n) - Raw(q, type, n) = SumWords(a) - SumWords(b)
  BY <1>4, <1>5
<1> QED  BY <1>3, <1>6, Zenon DEF a, b

(* A change of one byte, wherever it is, is seen in the sum.               *)
LEMMA OneByteSeen ==
  ASSUME NEW p \in Packet, NEW q \in Packet, p.length = q.length,
         NEW n \in 0 .. Len(p.body), n \in 0 .. Len(q.body),
         NEW j \in 1 .. n + 4, Bytes(p, n)[j] # Bytes(q, n)[j],
         \A k \in 1 .. n + 4 : k # j => Bytes(p, n)[k] = Bytes(q, n)[k],
         NEW type \in Type, Multiple(Raw(p, type, n))
  PROVE  ~Multiple(Raw(q, type, n))
<1> DEFINE x == Bytes(p, n)[j]
           y == Bytes(q, n)[j]
           d == x - y
           e == Raw(p, type, n) - Raw(q, type, n)
<1>1. e = ByteInWord(Bytes(p, n), j) - ByteInWord(Bytes(q, n), j)
  BY RawBytes, ZenonT(60)
<1>2. x \in 0 .. Base - 1 /\ y \in 0 .. Base - 1 /\ x # y
  <2>1. /\ Bytes(p, n) \in Seq(Byte) /\ Len(Bytes(p, n)) = n + 4
        /\ Bytes(q, n) \in Seq(Byte) /\ Len(Bytes(q, n)) = n + 4
    BY BytesAt, Zenon
  <2>2. x \in Byte /\ y \in Byte
    BY <2>1
  <2> QED  BY <2>2 DEF Byte
<1>3. e = d \/ e = Base * x - Base * y
  BY <1>1 DEF ByteInWord
<1> HIDE DEF x, y, e
<1>4. Base * x - Base * y = Base * d
  BY <1>2, MaskRange
<1>5. d \in Int /\ -Base < d /\ d < Base /\ d # 0
  BY <1>2, MaskRange
<1>6. ~Multiple(e)
  <2>1. e = d \/ e = Base * d
    BY <1>3, <1>4
  <2> HIDE DEF d
  <2> QED  BY <1>5, <2>1, NoMultiple, Zenon
<1>7. Raw(p, type, n) \in Int /\ Raw(q, type, n) \in Int
  BY PacketSumRaw
<1>8. e + Raw(q, type, n) = Raw(p, type, n) /\ e \in Int
  BY <1>7 DEF e
<1>9. Multiple(Raw(q, type, n)) => (Multiple(e + Raw(q, type, n)) <=> Multiple(e))
  BY <1>7, <1>8, MultipleSum, Zenon
<1> QED  BY <1>6, <1>8, <1>9, Zenon

(* The same for one byte of the payload.                                   *)
LEMMA BodyBytes ==
  ASSUME NEW p \in Packet, NEW q \in Packet,
         p.src = q.src, p.dst = q.dst, p.length = q.length,
         NEW n \in 0 .. Len(p.body), n \in 0 .. Len(q.body),
         NEW j \in 1 .. n, \A k \in 1 .. n : k # j => p.body[k] = q.body[k]
  PROVE  /\ Bytes(p, n)[j + 4] = p.body[j] /\ Bytes(q, n)[j + 4] = q.body[j]
         /\ \A k \in 1 .. n + 4 : k # j + 4 => Bytes(p, n)[k] = Bytes(q, n)[k]
<1> DEFINE a == Bytes(p, n)
           b == Bytes(q, n)
<1>1. /\ a[1] = p.src[1] /\ a[2] = p.src[2] /\ a[3] = p.dst[1] /\ a[4] = p.dst[2]
      /\ \A k \in 1 .. n : a[k + 4] = p.body[k]
  BY BytesAt, Zenon
<1>2. /\ b[1] = q.src[1] /\ b[2] = q.src[2] /\ b[3] = q.dst[1] /\ b[4] = q.dst[2]
      /\ \A k \in 1 .. n : b[k + 4] = q.body[k]
  BY BytesAt, Zenon
<1> HIDE DEF a, b
<1>3. ASSUME NEW k \in 1 .. n + 4, k # j + 4 PROVE a[k] = b[k]
  <2>1. CASE k \in 1 .. 4
    BY <1>1, <1>2, <2>1
  <2>2. CASE k \notin 1 .. 4
    <3>1. k - 4 \in 1 .. n /\ k - 4 # j /\ (k - 4) + 4 = k
      BY <1>3, <2>2
    <3>2. a[k] = p.body[k - 4] /\ b[k] = q.body[k - 4]
      BY <1>1, <1>2, <3>1
    <3> QED  BY <3>1, <3>2
  <2> QED  BY <2>1, <2>2
<1>4. j + 4 \in 1 .. n + 4 /\ a[j + 4] = p.body[j] /\ b[j + 4] = q.body[j]
  BY <1>1, <1>2
<1> QED  BY <1>3, <1>4, Zenon DEF a, b

(* The difference it makes to the sum.                                     *)
LEMMA RawBody ==
  ASSUME NEW p \in Packet, NEW q \in Packet,
         p.src = q.src, p.dst = q.dst, p.length = q.length,
         NEW n \in 0 .. Len(p.body), n \in 0 .. Len(q.body),
         NEW j \in 1 .. n, \A k \in 1 .. n : k # j => p.body[k] = q.body[k],
         NEW type \in Type
  PROVE  Raw(p, type, n) - Raw(q, type, n)
           = ByteInWord(p.body, j) - ByteInWord(q.body, j)
<1> DEFINE a == Bytes(p, n)
           b == Bytes(q, n)
<1>1. /\ a[j + 4] = p.body[j] /\ b[j + 4] = q.body[j]
      /\ \A k \in 1 .. n + 4 : k # j + 4 => a[k] = b[k]
  BY BodyBytes, ZenonT(60)
<1>2. j + 4 \in 1 .. n + 4
  OBVIOUS
<1>3. ByteInWord(a, j + 4) = ByteInWord(p.body, j)
      /\ ByteInWord(b, j + 4) = ByteInWord(q.body, j)
  <2>1. (j + 4) % 2 = j % 2
    OBVIOUS
  <2> QED  BY <1>1, <2>1 DEF ByteInWord
<1>4. Raw(p, type, n) - Raw(q, type, n) = ByteInWord(a, j + 4) - ByteInWord(b, j + 4)
  BY <1>1, <1>2, RawBytes, Zenon
<1> QED  BY <1>3, <1>4, Zenon

-----------------------------------------------------------------------------
(* Words of the packet.                                                    *)

(* Words and numbers below Base squared correspond, in both byte orders.   *)
LEMMA WordOfNumber ==
  ASSUME NEW n \in 0 .. Mask
  PROVE  /\ htons(n) \in Byte \X Byte /\ ntohs(htons(n)) = n
         /\ Store(n) \in Byte \X Byte /\ Load(Store(n)) = n
<1> DEFINE q == n \div Base
           r == n % Base
<1>1. q \in Nat /\ r \in 0 .. Base - 1 /\ n = Base * q + r
  BY MaskRange, DivMod
<1>2. htons(n) = <<q, r>> /\ Store(n) = <<r, q>>
  BY DEF htons, Store
<1> HIDE DEF q, r
<1>3. q < Base
  <2>1. ASSUME q >= Base PROVE FALSE
    <3>1. Base * q >= Base * Base
      BY <1>1, <2>1, MaskRange
    <3> QED  BY <1>1, <3>1, MaskRange
  <2> QED  BY <1>1, <2>1, MaskRange
<1>4. q * Base = Base * q
  BY <1>1, MaskRange
<1>5. q \in Byte /\ r \in Byte
  BY <1>1, <1>3, MaskRange DEF Byte
<1>6. ntohs(<<q, r>>) = q * Base + r /\ Load(<<r, q>>) = r + Base * q
  BY DEF ntohs, Load
<1>7. q * Base + r = n /\ r + Base * q = n
  BY <1>1, <1>4, MaskRange
<1> QED  BY <1>2, <1>5, <1>6, <1>7

(* A word is a number up to Mask, zero only if both bytes are.             *)
LEMMA NumberOfWord ==
  ASSUME NEW w \in Byte \X Byte
  PROVE  /\ ntohs(w) \in Nat /\ Load(w) \in 0 .. Mask
         /\ Load(w) = 0 => w = <<0, 0>>
<1>1. w = <<w[1], w[2]>> /\ w[1] \in 0 .. Base - 1 /\ w[2] \in 0 .. Base - 1
  BY PairType DEF Byte
<1>2. Base * w[2] \in Nat /\ w[1] * Base \in Nat /\ Base * w[2] <= Base * (Base - 1)
      /\ (w[2] > 0 => Base * w[2] > 0) /\ Base * (Base - 1) = Base * Base - Base
  BY <1>1, MaskRange
<1>3. Load(w) = w[1] + Base * w[2] /\ ntohs(w) = w[1] * Base + w[2]
  BY DEF Load, ntohs
<1>4. Load(w) \in 0 .. Mask /\ ntohs(w) \in Nat /\ (Load(w) = 0 => w[1] = 0 /\ w[2] = 0)
  <2> DEFINE x == w[1]
             y == w[2]
             lo == Base * y
             hi == x * Base
             top == Base * (Base - 1)
             sq == Base * Base
  <2>1. /\ x \in 0 .. Base - 1 /\ y \in 0 .. Base - 1 /\ lo \in Nat /\ hi \in Nat
        /\ lo <= top /\ (y > 0 => lo > 0) /\ top = sq - Base
    BY <1>1, <1>2
  <2>2. Load(w) = x + lo /\ ntohs(w) = hi + y
    BY <1>3
  <2>3. Mask + 1 = sq /\ Mask \in Nat /\ Base \in Nat
    BY MaskRange
  <2> HIDE DEF x, y, lo, hi, top, sq
  <2>4. Load(w) \in 0 .. Mask /\ ntohs(w) \in Nat /\ (Load(w) = 0 => x = 0 /\ y = 0)
    BY <2>1, <2>2, <2>3
  <2> QED  BY <2>4 DEF x, y
<1> QED  BY <1>1, <1>4

(* Writing one byte of a sequence, which changes nothing behind its end.   *)
LEMMA ByteWritten ==
  ASSUME NEW b \in Seq(Byte), NEW i \in Nat, NEW x \in Byte
  PROVE  /\ [b EXCEPT ![i] = x] \in Seq(Byte) /\ Len([b EXCEPT ![i] = x]) = Len(b)
         /\ \A k \in 1 .. Len(b) : k # i => [b EXCEPT ![i] = x][k] = b[k]
         /\ i \in 1 .. Len(b) => [b EXCEPT ![i] = x][i] = x
<1>1. CASE i \in 1 .. Len(b)
  <2>1. /\ [b EXCEPT ![i] = x] \in Seq(Byte) /\ Len([b EXCEPT ![i] = x]) = Len(b)
        /\ \A j \in 1 .. Len(b) : [b EXCEPT ![i] = x][j] = IF j = i THEN x ELSE b[j]
    BY <1>1
  <2> DEFINE c == [b EXCEPT ![i] = x]
  <2> HIDE DEF c
  <2>2. c \in Seq(Byte) /\ Len(c) = Len(b)
        /\ \A j \in 1 .. Len(b) : c[j] = IF j = i THEN x ELSE b[j]
    BY <2>1 DEF c
  <2>3. /\ \A k \in 1 .. Len(b) : k # i => c[k] = b[k]
        /\ c[i] = x
    BY <1>1, <2>2
  <2> QED  BY <2>2, <2>3, Zenon DEF c
<1>2. CASE i \notin 1 .. Len(b)
  <2>1. b = [k \in 1 .. Len(b) |-> b[k]] /\ DOMAIN b = 1 .. Len(b)
    OBVIOUS
  <2>2. [b EXCEPT ![i] = x] = b
    BY <1>2, <2>1
  <2> QED  BY <1>2, <2>2, Zenon
<1> QED  BY <1>1, <1>2

(* Writing a field of the payload changes its two bytes only.              *)
LEMMA FieldWritten ==
  ASSUME NEW b \in Seq(Byte), NEW at \in {3, 7}, NEW w \in Byte \X Byte
  PROVE  /\ WithField(b, at, w) \in Seq(Byte) /\ Len(WithField(b, at, w)) = Len(b)
         /\ \A k \in 1 .. Len(b) :
              k \notin {at, at + 1} => WithField(b, at, w)[k] = b[k]
         /\ at + 1 <= Len(b) => /\ WithField(b, at, w)[at] = w[1]
                                /\ WithField(b, at, w)[at + 1] = w[2]
                                /\ Field(WithField(b, at, w), at) = w
<1> DEFINE c == [b EXCEPT ![at] = w[1]]
           d == [c EXCEPT ![at + 1] = w[2]]
<1>1. w[1] \in Byte /\ w[2] \in Byte /\ w = <<w[1], w[2]>> /\ at \in Nat /\ at + 1 \in Nat
      /\ at # at + 1
  BY PairType
<1>2. /\ c \in Seq(Byte) /\ Len(c) = Len(b)
      /\ \A k \in 1 .. Len(b) : k # at => c[k] = b[k]
      /\ at \in 1 .. Len(b) => c[at] = w[1]
  BY <1>1, ByteWritten, Zenon
<1> HIDE DEF c
<1>3. /\ d \in Seq(Byte) /\ Len(d) = Len(c)
      /\ \A k \in 1 .. Len(c) : k # at + 1 => d[k] = c[k]
      /\ at + 1 \in 1 .. Len(c) => d[at + 1] = w[2]
  BY <1>1, <1>2, ByteWritten, Zenon
<1>4. WithField(b, at, w) = d
  BY DEF WithField, c
<1> HIDE DEF d
<1>5. \A k \in 1 .. Len(b) : k \notin {at, at + 1} => d[k] = b[k]
  BY <1>2, <1>3
<1>6. ASSUME at + 1 <= Len(b) PROVE d[at] = w[1] /\ d[at + 1] = w[2]
  BY <1>2, <1>3, <1>6
<1>7. ASSUME at + 1 <= Len(b) PROVE Field(d, at) = w
  BY <1>1, <1>6, <1>7 DEF Field
<1> QED  BY <1>2, <1>3, <1>4, <1>5, <1>6, <1>7, Zenon

(* A field inside the payload is a word.                                   *)
LEMMA FieldType ==
  ASSUME NEW b \in Seq(Byte), NEW at \in {3, 5, 7}, at + 1 <= Len(b)
  PROVE  Field(b, at) \in Byte \X Byte
<1>1. b[at] \in Byte /\ b[at + 1] \in Byte
  OBVIOUS
<1> QED  BY <1>1 DEF Field

(* Writing a field changes the sum by the difference of the two words.     *)
LEMMA RawField ==
  ASSUME NEW p \in Packet, NEW at \in {3, 7}, NEW w \in Byte \X Byte,
         NEW n \in 0 .. Len(p.body), at + 1 <= n, NEW type \in Type
  PROVE  /\ [p EXCEPT !.body = WithField(@, at, w)] \in Packet
         /\ Raw([p EXCEPT !.body = WithField(@, at, w)], type, n)
              = Raw(p, type, n) + Load(w) - Load(Field(p.body, at))
<1> DEFINE m == [p EXCEPT !.body = [@ EXCEPT ![at] = w[1]]]
           q == [p EXCEPT !.body = WithField(@, at, w)]
<1>1. w[1] \in Byte /\ w[2] \in Byte
  BY PairType
<1>2. p.body \in Seq(Byte) /\ Len(p.body) \in Nat /\ n <= Len(p.body)
  BY DEF Packet
<1>3. /\ m \in Packet /\ m.src = p.src /\ m.dst = p.dst /\ m.length = p.length
      /\ m.body = [p.body EXCEPT ![at] = w[1]] /\ Len(m.body) = Len(p.body)
  <2>1. [p.body EXCEPT ![at] = w[1]] \in Seq(Byte)
        /\ Len([p.body EXCEPT ![at] = w[1]]) = Len(p.body)
    BY <1>1, <1>2, ByteWritten
  <2> QED  BY <2>1, Zenon DEF Packet
<1>4. /\ q \in Packet /\ q.src = p.src /\ q.dst = p.dst /\ q.length = p.length
      /\ q.body = WithField(p.body, at, w) /\ Len(q.body) = Len(p.body)
  <2> DEFINE b == p.body
  <2>0. b \in Seq(Byte)
    BY <1>2
  <2> HIDE DEF b
  <2>b. WithField(b, at, w) \in Seq(Byte) /\ Len(WithField(b, at, w)) = Len(b)
    BY <2>0, FieldWritten
  <2>1. WithField(p.body, at, w) \in Seq(Byte)
        /\ Len(WithField(p.body, at, w)) = Len(p.body)
    BY <2>b DEF b
  <2> QED  BY <2>1, Zenon DEF Packet
<1>5. /\ m.body[at] = w[1] /\ m.body[at + 1] = p.body[at + 1]
      /\ \A k \in 1 .. n : k # at => m.body[k] = p.body[k]
  BY <1>2, <1>3
<1>6. /\ q.body[at] = w[1] /\ q.body[at + 1] = w[2]
      /\ \A k \in 1 .. n : k \notin {at, at + 1} => q.body[k] = p.body[k]
  <2>1. /\ \A k \in 1 .. Len(p.body) : k \notin {at, at + 1} => q.body[k] = p.body[k]
        /\ at + 1 <= Len(p.body) => q.body[at] = w[1] /\ q.body[at + 1] = w[2]
    <3> DEFINE c == WithField(p.body, at, w)
    <3>1. /\ \A k \in 1 .. Len(p.body) : k \notin {at, at + 1} => c[k] = p.body[k]
          /\ at + 1 <= Len(p.body) => c[at] = w[1] /\ c[at + 1] = w[2]
      <4> DEFINE b == p.body
      <4>1. b \in Seq(Byte)
        BY <1>2
      <4> HIDE DEF b
      <4>2. \A k \in 1 .. Len(b) :
              k \notin {at, at + 1} => WithField(b, at, w)[k] = b[k]
        BY <4>1, FieldWritten
      <4>3. at + 1 <= Len(b) => /\ WithField(b, at, w)[at] = w[1]
                                /\ WithField(b, at, w)[at + 1] = w[2]
        BY <4>1, FieldWritten
      <4> QED  BY <4>2, <4>3, Zenon DEF b
    <3> HIDE DEF c
    <3>2. q.body = c
      BY <1>4 DEF c
    <3> HIDE DEF q
    <3> QED  BY <3>1, <3>2, Zenon
  <2> QED  BY <1>2, <2>1
<1> HIDE DEF m, q
<1>7. \A k \in 1 .. n : k # at + 1 => q.body[k] = m.body[k]
  BY <1>5, <1>6
<1>8. at \in 1 .. n /\ at + 1 \in 1 .. n /\ n \in 0 .. Len(m.body) /\ n \in 0 .. Len(q.body)
  BY <1>2, <1>3, <1>4
<1>9. Raw(m, type, n) - Raw(p, type, n) = ByteInWord(m.body, at) - ByteInWord(p.body, at)
  BY <1>3, <1>5, <1>8, RawBody, SMTT(60)
<1>10. Raw(q, type, n) - Raw(m, type, n)
         = ByteInWord(q.body, at + 1) - ByteInWord(m.body, at + 1)
  <2> DEFINE i == at + 1
  <2>1. i \in 1 .. n /\ \A k \in 1 .. n : k # i => q.body[k] = m.body[k]
    BY <1>7, <1>8
  <2>2. q.src = m.src /\ q.dst = m.dst /\ q.length = m.length
    BY <1>3, <1>4
  <2> HIDE DEF i
  <2>3. Raw(q, type, n) - Raw(m, type, n) = ByteInWord(q.body, i) - ByteInWord(m.body, i)
    <3>1. q \in Packet /\ m \in Packet /\ n \in 0 .. Len(q.body) /\ n \in 0 .. Len(m.body)
      BY <1>3, <1>4, <1>8
    <3> QED  BY <2>1, <2>2, <3>1, RawBody, ZenonT(60)
  <2> QED  BY <2>3 DEF i
<1>11. /\ ByteInWord(m.body, at) = w[1] /\ ByteInWord(p.body, at) = p.body[at]
       /\ ByteInWord(q.body, at + 1) = Base * w[2]
       /\ ByteInWord(m.body, at + 1) = Base * p.body[at + 1]
  BY <1>5, <1>6 DEF ByteInWord
<1>12. /\ Load(w) = w[1] + Base * w[2]
       /\ Load(Field(p.body, at)) = p.body[at] + Base * p.body[at + 1]
  BY DEF Load, Field
<1>13. Raw(p, type, n) \in Nat /\ Raw(m, type, n) \in Nat /\ Raw(q, type, n) \in Nat
  BY <1>3, <1>4, <1>8, PacketSumRaw, Zenon
<1>14. /\ w[1] \in Int /\ Base * w[2] \in Int
       /\ p.body[at] \in Int /\ Base * p.body[at + 1] \in Int
  <2>1. p.body[at] \in Byte /\ p.body[at + 1] \in Byte
    BY <1>2
  <2>2. w[1] \in Nat /\ w[2] \in Nat /\ p.body[at] \in Nat /\ p.body[at + 1] \in Nat
    BY <1>1, <2>1, ByteIsNat, Zenon
  <2>3. \A x \in Nat : Base * x \in Int /\ x \in Int
    BY MaskRange
  <2> QED  BY <2>2, <2>3, Zenon
<1>15. Raw(q, type, n) = Raw(p, type, n) + Load(w) - Load(Field(p.body, at))
  <2> DEFINE x == Base * w[2]
             y == Base * p.body[at + 1]
             rp == Raw(p, type, n)
             rm == Raw(m, type, n)
             rq == Raw(q, type, n)
             lw == Load(w)
             lp == Load(Field(p.body, at))
             u == w[1]
             v == p.body[at]
  <2>1. rm - rp = u - v /\ rq - rm = x - y /\ lw = u + x /\ lp = v + y
    BY <1>9, <1>10, <1>11, <1>12, Zenon
  <2>2. /\ x \in Int /\ y \in Int /\ u \in Int /\ v \in Int
        /\ rp \in Int /\ rm \in Int /\ rq \in Int
    BY <1>13, <1>14
  <2> HIDE DEF x, y, rp, rm, rq, lw, lp, u, v
  <2>3. rq = rp + lw - lp
    BY <2>1, <2>2
  <2> QED  BY <2>3, Zenon DEF rp, rq, lw, lp
<1> QED  BY <1>4, <1>15 DEF q

-----------------------------------------------------------------------------
(* What is summed and what is accepted.                                    *)

(* The sum does not depend on the type field of the packet itself.         *)
LEMMA TypeField ==
  ASSUME NEW p \in Packet, NEW type \in Type
  PROVE  LET q == [p EXCEPT !.next = type]
         IN  /\ q \in Packet /\ q.next = type /\ q.body = p.body
             /\ \A t, n : Raw(q, t, n) = Raw(p, t, n)
<1>1. type \in Byte
  BY MaskRange DEF Type, Byte, HDR_UDP, HDR_ICMP6
<1> DEFINE q == [p EXCEPT !.next = type]
<1>2. /\ q \in Packet /\ q.next = type /\ q.body = p.body
      /\ q.length = p.length /\ q.src = p.src /\ q.dst = p.dst
  BY <1>1 DEF Packet
<1> HIDE DEF q
<1>3. \A t, n : Raw(q, t, n) = Raw(p, t, n)
  BY <1>2, Zenon DEF Raw, Bytes
<1> QED  BY <1>2, <1>3, Zenon DEF q

(* The test of _udp6_recv and icmp6_recv, when the packet has a header: the *)
(* field is not zero and the sum is a multiple of Mask.  A field of 0xFFFF  *)
(* that is taken for zero makes no difference.                             *)
LEMMA AcceptedIs ==
  ASSUME NEW p \in Packet, NEW type \in Type,
         NEW n \in 0 .. Len(p.body), SumAt(type) + 1 <= n
  PROVE  SumAccepted(p, type, n) <=>
           Load(Field(p.body, SumAt(type))) # 0 /\ Multiple(Raw(p, type, n))
<1> DEFINE at == SumAt(type)
           sum == Load(Field(p.body, at))
           p1 == [p EXCEPT !.next = type]
           q == [p1 EXCEPT !.body = WithField(@, at, Store(0))]
<1>1. at \in {3, 7} /\ at + 1 <= n /\ n <= Len(p.body) /\ p.body \in Seq(Byte)
  BY DEF SumAt, Packet
<1>2. sum \in 0 .. Mask
  <2>1. Field(p.body, at) \in Byte \X Byte
    BY <1>1, FieldType
  <2> QED  BY <2>1, NumberOfWord
<1>3. p1 \in Packet /\ p1.next = type /\ p1.body = p.body /\ Raw(p1, type, n) = Raw(p, type, n)
  BY TypeField
<1>4. Store(0) \in Byte \X Byte /\ Load(Store(0)) = 0
  BY WordOfNumber, MaskRange
<1>5. Summed(p1, 0) = q
  BY <1>3 DEF Summed
<1>6. SumAccepted(p, type, n) <=>
        sum # 0 /\ PacketSum(IF sum = Mask THEN q ELSE p, type, n) = Mask
  BY <1>5 DEF SumAccepted
<1>7. PacketSum(p, type, n) = Mask <=> Multiple(Raw(p, type, n))
  BY PacketSumRaw, Zenon
<1>8. ASSUME sum = Mask
      PROVE  PacketSum(q, type, n) = Mask <=> Multiple(Raw(p, type, n))
  <2>1. /\ q \in Packet
        /\ Raw(q, type, n) = Raw(p1, type, n) + Load(Store(0)) - Load(Field(p1.body, at))
    <3>1. p1 \in Packet /\ n \in 0 .. Len(p1.body) /\ at \in {3, 7} /\ at + 1 <= n
      BY <1>1, <1>3
    <3> DEFINE w == Store(0)
    <3>2. w \in Byte \X Byte /\ q = [p1 EXCEPT !.body = WithField(@, at, w)]
      BY <1>4
    <3> HIDE DEF at, p1, q, w
    <3>3. q \in Packet
      BY <3>1, <3>2, RawField, Zenon
    <3>4. Raw(q, type, n) = Raw(p1, type, n) + Load(w) - Load(Field(p1.body, at))
      BY <3>1, <3>2, RawField, Zenon
    <3> QED  BY <3>3, <3>4 DEF w
  <2>2. n \in 0 .. Len(q.body)
    <3>1. q.body = WithField(p.body, at, Store(0))
      BY <1>3
    <3>2. Len(WithField(p.body, at, Store(0))) = Len(p.body)
      BY <1>1, <1>4, FieldWritten
    <3> QED  BY <3>1, <3>2
  <2>3. PacketSum(q, type, n) = Mask <=> Multiple(Raw(q, type, n))
    BY <2>1, <2>2, PacketSumRaw, Zenon
  <2>4. Raw(p, type, n) \in Int /\ Mask \in Int /\ Multiple(Mask)
    BY PacketSumRaw, NoMultiple, MaskRange
  <2>5. Raw(q, type, n) = Raw(p, type, n) - Mask
    BY <1>3, <1>4, <1>8, <2>1, <2>4
  <2>6. Multiple(Raw(p, type, n) - Mask) <=> Multiple(Raw(p, type, n))
    BY <2>4, MultipleSum, Zenon
  <2> QED  BY <2>3, <2>5, <2>6, Zenon
<1> QED  BY <1>6, <1>7, <1>8, Zenon

(* A checksum that completes the sum of a packet whose field is zero.      *)
Completes(p, sum) ==
  sum \in 0 .. Mask /\ Multiple(PacketSum(p, p.next, Len(p.body)) + sum)

(* What hosts and ip6_checksum put into the field completes the sum, and   *)
(* only hosts ever put a zero there, in ICMPv6 messages.                   *)
LEMMA ChecksumCompletes ==
  ASSUME NEW p \in Packet, p.next \in Type
  PROVE  /\ Completes(p, HostSum(p)) /\ (p.next = HDR_UDP => HostSum(p) # 0)
         /\ Completes(p, ip6_checksum(p, p.next, Len(p.body)))
         /\ ip6_checksum(p, p.next, Len(p.body)) # 0
<1> DEFINE n == Len(p.body)
           s == PacketSum(p, p.next, n)
<1>1. n \in 0 .. Len(p.body)
  BY DEF Packet
<1>2. s \in 1 .. Mask
  BY <1>1, PacketSumRaw, Zenon
<1>3. /\ HostSum(p) = IF p.next = HDR_UDP /\ s = Mask THEN Mask ELSE Mask - s
      /\ ip6_checksum(p, p.next, n) = IF s # Mask THEN Mask - s ELSE s
  BY DEF HostSum, ip6_checksum
<1>4. Multiple(s + (Mask - s)) /\ Multiple(Mask + Mask)
  <2>1. s + (Mask - s) = Mask /\ Mask \in Int
    BY <1>2, MaskRange
  <2>2. Multiple(Mask + Mask)
    BY <2>1, NoMultiple, MultipleSum, Zenon
  <2> HIDE DEF s
  <2> QED  BY <2>1, <2>2, NoMultiple, Zenon
<1> HIDE DEF s
<1>5. /\ HostSum(p) \in 0 .. Mask /\ (p.next = HDR_UDP => HostSum(p) # 0)
      /\ ip6_checksum(p, p.next, n) \in 0 .. Mask
      /\ ip6_checksum(p, p.next, n) # 0
  BY <1>2, <1>3, MaskRange
<1>6. Multiple(s + HostSum(p)) /\ Multiple(s + ip6_checksum(p, p.next, n))
  BY <1>3, <1>4
<1> QED  BY <1>5, <1>6, Zenon DEF Completes, s

(* A packet with its checksum written.                                     *)
LEMMA SummedIs ==
  ASSUME NEW p \in Packet, p.next \in Type, NEW sum, Completes(p, sum)
  PROVE  LET q == Summed(p, sum)
             at == SumAt(p.next)
             n == Len(p.body)
         IN  /\ q \in Packet /\ q.next = p.next /\ q.length = p.length
             /\ q.src = p.src /\ q.dst = p.dst
             /\ q.body = WithField(p.body, at, Store(sum)) /\ Len(q.body) = n
             /\ at + 1 <= n /\ Field(p.body, at) = <<0, 0>> =>
                  /\ Load(Field(q.body, at)) = sum
                  /\ Multiple(Raw(q, p.next, n))
<1> DEFINE q == Summed(p, sum)
           type == p.next
           at == SumAt(type)
           n == Len(p.body)
           w == Store(sum)
<1>1. at \in {3, 7} /\ p.body \in Seq(Byte) /\ n \in 0 .. n
  BY DEF SumAt, Packet
<1>2. sum \in 0 .. Mask /\ w \in Byte \X Byte /\ Load(w) = sum
  BY WordOfNumber DEF Completes
<1>3. WithField(p.body, at, w) \in Seq(Byte) /\ Len(WithField(p.body, at, w)) = n
      /\ (at + 1 <= n => Field(WithField(p.body, at, w), at) = w)
  BY <1>1, <1>2, FieldWritten
<1>4. /\ q \in Packet /\ q.next = type /\ q.length = p.length
      /\ q.src = p.src /\ q.dst = p.dst /\ q.body = WithField(p.body, at, w)
  BY <1>3, Zenon DEF Packet, Summed
<1>5. ASSUME at + 1 <= n, Field(p.body, at) = <<0, 0>>
      PROVE  Load(Field(q.body, at)) = sum /\ Multiple(Raw(q, type, n))
  <2>1. Load(Field(q.body, at)) = sum
    BY <1>2, <1>3, <1>4, <1>5
  <2>2. Load(<<0, 0>>) = 0
    BY MaskRange DEF Load
  <2>3. q = [p EXCEPT !.body = WithField(@, at, w)]
    BY DEF Summed
  <2>4. Raw(q, type, n) = Raw(p, type, n) + Load(w) - Load(Field(p.body, at))
    <3> HIDE DEF q, at, n, w, type
    <3>1. type \in Type /\ n \in 0 .. Len(p.body)
      BY <1>1 DEF type, n
    <3> QED  BY <1>1, <1>2, <1>5, <2>3, <3>1, RawField, Zenon
  <2>5. Raw(p, type, n) \in Nat /\ Multiple(Raw(p, type, n) - PacketSum(p, type, n))
        /\ PacketSum(p, type, n) \in 1 .. Mask
    BY <1>1, PacketSumRaw, Zenon
  <2> DEFINE r == Raw(p, type, n)
             s == PacketSum(p, type, n)
             d == r - s
             e == s + sum
  <2>6. Multiple(e) /\ Multiple(d)
    BY <2>5 DEF Completes
  <2>7. d \in Int /\ e \in Int /\ d + e = r + sum
    BY <1>2, <2>5
  <2>8. Raw(q, type, n) = d + e
    BY <1>2, <1>5, <2>2, <2>4, <2>5, <2>7
  <2> HIDE DEF d, e
  <2>9. Multiple(d + e)
    BY <2>6, <2>7, MultipleSum, Zenon
  <2> QED  BY <2>1, <2>8, <2>9
<1> QED  BY <1>3, <1>4, <1>5

(* Packets that are the same as far as they are summed.                    *)
LEMMA SameRaw ==
  ASSUME NEW p \in Packet, NEW q \in Packet, p.src = q.src, p.dst = q.dst,
         p.length = q.length, NEW n \in Nat, n <= Len(p.body), n <= Len(q.body),
         \A k \in 1 .. n : p.body[k] = q.body[k], NEW type
  PROVE  Raw(p, type, n) = Raw(q, type, n)
<1> DEFINE a == SubSeq(p.body, 1, n)
           b == SubSeq(q.body, 1, n)
<1>1. p.body \in Seq(Byte) /\ q.body \in Seq(Byte) /\ Len(p.body) \in Nat /\ Len(q.body) \in Nat
  BY DEF Packet
<1>2. a \in Seq(Byte) /\ Len(a) = n /\ \A k \in 1 .. n : a[k] = p.body[k]
  BY <1>1
<1>3. b \in Seq(Byte) /\ Len(b) = n /\ \A k \in 1 .. n : b[k] = q.body[k]
  BY <1>1
<1> HIDE DEF a, b
<1>4. a = b
  <2>1. Len(a) = Len(b) /\ \A k \in 1 .. Len(a) : a[k] = b[k]
    BY <1>2, <1>3
  <2> QED  BY <1>2, <1>3, <2>1, SameElements, Zenon
<1> QED  BY <1>4, Zenon DEF Raw, Bytes, a, b

(* A packet of another protocol has another sum.                           *)
LEMMA TypeSeen ==
  ASSUME NEW p \in Packet, NEW n \in 0 .. Len(p.body),
         NEW t \in Type, NEW u \in Type, t # u, Multiple(Raw(p, t, n))
  PROVE  ~Multiple(Raw(p, u, n))
<1> DEFINE d == u - t
           x == Raw(p, t, n)
           y == Raw(p, u, n)
<1>1. d \in {-1, 1} /\ t \in Int /\ u \in Int
  BY DEF Type, HDR_UDP, HDR_ICMP6
<1>2. x \in Int /\ y \in Int
  BY PacketSumRaw
<1>3. y - x = Base * d
  <2> DEFINE c == SumWords(p.length) + SumWords(Bytes(p, n))
             bt == Base * t
             bu == Base * u
  <2>1. p.length \in Seq(Nat) /\ Bytes(p, n) \in Seq(Nat)
    BY PairType, ByteIsNat, BytesAt DEF Packet
  <2>2. SumWords(p.length) \in Nat /\ SumWords(Bytes(p, n)) \in Nat
    BY <2>1, SumWordsType
  <2>3. c \in Int /\ bt \in Int /\ bu \in Int /\ Base * d = bu - bt
    BY <1>1, <2>2, MaskRange
  <2>4. x = bt + c /\ y = bu + c
    BY <2>2, <2>3 DEF Raw
  <2> HIDE DEF c, bt, bu, x, y, d
  <2> QED  BY <2>3, <2>4
<1> HIDE DEF x, y
<1>4. -Base < d /\ d < Base /\ d # 0 /\ d \in Int
  BY <1>1, MaskRange
<1>5. ~Multiple(y - x)
  <2> HIDE DEF d
  <2> QED  BY <1>3, <1>4, NoMultiple, Zenon
<1>6. Multiple(y - x) <=> Multiple(y)
  <2>1. Multiple(x)
    BY DEF x
  <2> QED  BY <1>2, <2>1, MultipleSum, Zenon
<1> QED  BY <1>5, <1>6 DEF y

-----------------------------------------------------------------------------
(* The payloads.                                                           *)

(* Small numbers are bytes.                                                *)
LEMMA SmallBytes == 0 \in Byte /\ 1 \in Byte /\ 2 \in Byte /\ 3 \in Byte
BY MaskRange DEF Byte

(* The payload of a UDP packet: ports, length and an empty checksum.       *)
LEMMA UdpBodyIs ==
  ASSUME NEW d \in Seq(Byte), Len(d) + UDP_HDR_LEN \in 0 .. Mask
  PROVE  /\ UdpBody(d) \in Seq(Byte) /\ Len(UdpBody(d)) = UDP_HDR_LEN + Len(d)
         /\ \A k \in 1 .. Len(d) : UdpBody(d)[UDP_HDR_LEN + k] = d[k]
         /\ Field(UdpBody(d), 7) = <<0, 0>>
         /\ Field(UdpBody(d), 5) = htons(Len(d) + UDP_HDR_LEN)
<1> DEFINE w == htons(Len(d) + UDP_HDR_LEN)
           a == w[1]
           b == w[2]
           x == <<0, 2, 0, 1>>
           y == <<a, b>>
           z == <<0, 0>>
           xy == x \o y
           h == xy \o z
<1>1. a \in Byte /\ b \in Byte /\ w = y
  BY WordOfNumber, PairType
<1> HIDE DEF w, a, b
<1>2. h \in Seq(Byte) /\ Len(h) = 8 /\ h[5] = a /\ h[6] = b /\ h[7] = 0 /\ h[8] = 0
  <2>1. /\ x \in Seq(Byte) /\ Len(x) = 4
        /\ y \in Seq(Byte) /\ Len(y) = 2 /\ y[1] = a /\ y[2] = b
        /\ z \in Seq(Byte) /\ Len(z) = 2 /\ z[1] = 0 /\ z[2] = 0
    BY <1>1, SmallBytes
  <2> HIDE DEF x, y, z
  <2>2. xy \in Seq(Byte) /\ Len(xy) = Len(x) + Len(y)
        /\ \A k \in 1 .. Len(y) : xy[Len(x) + k] = y[k]
    BY <2>1, HeadAndData, Zenon
  <2> HIDE DEF xy
  <2>3. /\ h \in Seq(Byte) /\ Len(h) = Len(xy) + Len(z)
        /\ \A k \in 1 .. Len(xy) : h[k] = xy[k]
        /\ \A k \in 1 .. Len(z) : h[Len(xy) + k] = z[k]
    BY <2>1, <2>2, HeadAndData, Zenon
  <2> HIDE DEF h
  <2> QED  BY <2>1, <2>2, <2>3
<1>4. UdpBody(d) = h \o d
  BY <1>1, Zenon DEF UdpBody, w
<1> HIDE DEF h
<1> DEFINE u == h \o d
<1>5. /\ u \in Seq(Byte) /\ Len(u) = Len(h) + Len(d)
      /\ \A k \in 1 .. Len(h) : u[k] = h[k]
      /\ \A k \in 1 .. Len(d) : u[Len(h) + k] = d[k]
  BY <1>2, HeadAndData, Zenon
<1> HIDE DEF u
<1>6. u[5] = a /\ u[6] = b /\ u[7] = 0 /\ u[8] = 0
  BY <1>2, <1>5
<1>7. Field(u, 7) = <<0, 0>> /\ Field(u, 5) = w
  BY <1>1, <1>6 DEF Field
<1> QED  BY <1>2, <1>4, <1>5, <1>7, Zenon DEF u, w, UDP_HDR_LEN

(* An ICMPv6 message: type, code and an empty checksum.                    *)
LEMMA IcmpBodyIs ==
  ASSUME NEW type \in Byte, NEW d \in Seq(Byte)
  PROVE  /\ IcmpBody(type, d) \in Seq(Byte)
         /\ Len(IcmpBody(type, d)) = ICMP_HDR_LEN + Len(d)
         /\ \A k \in 1 .. Len(d) : IcmpBody(type, d)[ICMP_HDR_LEN + k] = d[k]
         /\ Field(IcmpBody(type, d), 3) = <<0, 0>>
         /\ IcmpBody(type, d)[1] = type /\ IcmpBody(type, d)[2] = 0
<1> DEFINE h == <<type, 0, 0, 0>>
           u == h \o d
<1>1. h \in Seq(Byte) /\ Len(h) = 4 /\ h[1] = type /\ h[2] = 0 /\ h[3] = 0 /\ h[4] = 0
  BY SmallBytes
<1>2. IcmpBody(type, d) = u
  BY DEF IcmpBody
<1> HIDE DEF h
<1>3. /\ u \in Seq(Byte) /\ Len(u) = Len(h) + Len(d)
      /\ \A k \in 1 .. Len(h) : u[k] = h[k]
      /\ \A k \in 1 .. Len(d) : u[Len(h) + k] = d[k]
  BY <1>1, HeadAndData, Zenon
<1> HIDE DEF u
<1>4. u[1] = type /\ u[2] = 0 /\ u[3] = 0 /\ u[4] = 0
  BY <1>1, <1>3
<1>5. Field(u, 3) = <<0, 0>>
  BY <1>4 DEF Field
<1> QED  BY <1>1, <1>2, <1>3, <1>4, <1>5 DEF ICMP_HDR_LEN
=============================================================================
