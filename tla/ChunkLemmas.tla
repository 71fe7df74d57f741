----------------------------- MODULE ChunkLemmas -----------------------------
(***************************************************************************)
(* Arithmetic of the loops that the chips of eos_spi make over a buffer,   *)
(* in chunks of a fixed size and a remainder.                              *)
(***************************************************************************)
EXTENDS Integers, TLAPS

\* A remainder is below its divisor.
LEMMA ModRange ==
    ASSUME NEW a \in Int, NEW b \in Nat \ {0}
    PROVE  a % b \in 0 .. b - 1
OBVIOUS

\* Quotient and remainder make up the number.
LEMMA DivMod ==
    ASSUME NEW a \in Nat, NEW b \in Nat \ {0}
    PROVE  a = b * (a \div b) + (a % b) /\ a \div b \in Nat
OBVIOUS

\* Chunk i of a loop over n bytes in chunks of s ends inside the n bytes:
\* a full chunk while i < n \div s, the remainder after that.
LEMMA ChunkInside ==
    ASSUME NEW n \in Nat, NEW s \in Nat \ {0}, NEW i \in Nat, i * s < n
    PROVE  /\ i < n \div s => (i + 1) * s <= n
           /\ ~(i < n \div s) => i * s + (n % s) = n
<1> DEFINE q == n \div s
           r == n % s
<1>1. n = s * q + r /\ q \in Nat
  BY DivMod
<1>2. r \in 0 .. s - 1
  BY ModRange
<1> HIDE DEF q, r
<1>3. ASSUME i < q PROVE (i + 1) * s <= n
  <2>1. q - (i + 1) \in Nat
    BY <1>1, <1>3
  <2>2. s * (q - (i + 1)) >= 0
    BY <2>1
  <2> QED
    BY <2>2, <1>1, <1>2
<1>4. ASSUME ~(i < q) PROVE i * s + r = n
  <2>1. CASE i = q
    BY <2>1, <1>1
  <2>2. CASE i - q >= 1
    <3>1. (i - q - 1) * s >= 0
      BY <2>2, <1>1
    <3> QED
      BY <3>1, <1>1, <1>2
  <2> QED
    BY <1>4, <1>1, <2>1, <2>2
<1> QED
  BY <1>3, <1>4 DEF q, r

\* One more chunk.
LEMMA Distribute ==
    ASSUME NEW i \in Nat, NEW s \in Nat
    PROVE  (i + 1) * s = i * s + s
OBVIOUS

\* A number below the divisor is its own remainder.
LEMMA SmallMod ==
    ASSUME NEW b \in Nat \ {0}, NEW a \in 0 .. b - 1
    PROVE  a % b = a /\ a \div b = 0
OBVIOUS

\* A remainder is no more than the number.
LEMMA ModBelow ==
    ASSUME NEW a \in Nat, NEW b \in Nat \ {0}
    PROVE  a % b \in Nat /\ a % b <= a /\ (a < b => a % b = a)
<1> DEFINE q == a \div b
           r == a % b
<1>1. a = b * q + r /\ q \in Nat /\ r \in 0 .. b - 1
  <2>1. a = b * (a \div b) + (a % b) /\ a \div b \in Nat
    BY DivMod
  <2>2. a % b \in 0 .. b - 1
    BY ModRange
  <2> QED
    BY <2>1, <2>2
<1>2. a < b => r = a
  BY SmallMod
<1> HIDE DEF q, r
<1>3. b * q \in Nat
  BY <1>1
<1>4. r \in Nat /\ r <= a
  BY <1>1, <1>3
<1> QED
  BY <1>2, <1>4 DEF r

\* Quotient and remainder of any integer, and that there are no others.
LEMMA DivModInt ==
    ASSUME NEW a \in Int, NEW b \in Nat \ {0}
    PROVE  a = b * (a \div b) + (a % b) /\ a \div b \in Int
OBVIOUS

\* A number below b that differs from a by a multiple of b is the remainder of a.
LEMMA ModUnique ==
    ASSUME NEW a \in Int, NEW b \in Nat \ {0}, NEW q \in Int, NEW r \in 0 .. b - 1, a = b * q + r
    PROVE  a % b = r
<1> DEFINE x == a \div b
           y == a % b
<1>1. a = b * x + y /\ x \in Int /\ y \in 0 .. b - 1
  BY DivModInt, ModRange
<1> HIDE DEF x, y
<1>2. b * (x - q) = r - y
  <2>1. b * (x - q) = b * x - b * q /\ b * x \in Int /\ b * q \in Int
    BY <1>1
  <2> QED
    BY <1>1, <2>1
<1>3. ~(x - q >= 1)
  <2>1. x - q >= 1 => b * (x - q - 1) >= 0
    BY <1>1
  <2> QED
    BY <1>1, <1>2, <2>1
<1>4. ~(x - q <= -1)
  <2>1. x - q <= -1 => b * (q - x - 1) >= 0
    BY <1>1
  <2> QED
    BY <1>1, <1>2, <2>1
<1>5. x - q = 0
  BY <1>1, <1>3, <1>4
<1>6. y = r
  BY <1>1, <1>2, <1>5
<1> QED
  BY <1>6 DEF y

\* A remainder does not see whole multiples of the divisor.
LEMMA ModShiftInt ==
    ASSUME NEW a \in Int, NEW i \in Int, NEW b \in Nat \ {0}
    PROVE  (a + i * b) % b = a % b
<1> DEFINE q == a \div b
           r == a % b
           x == a + i * b
<1>1. a = b * q + r /\ q \in Int /\ r \in 0 .. b - 1
  BY DivModInt, ModRange
<1> HIDE DEF q, r
<1>2. x \in Int /\ x = b * (q + i) + r /\ q + i \in Int
  <2>1. b * (q + i) = b * q + i * b /\ b * q \in Int /\ i * b \in Int
    BY <1>1
  <2> QED
    BY <1>1, <2>1
<1> HIDE DEF x
<1>3. x % b = r
  BY <1>1, <1>2, ModUnique
<1> QED
  BY <1>3 DEF x, r

\* Whole chunks leave the remainder as it is.
LEMMA ModShift ==
    ASSUME NEW a \in Nat, NEW i \in Nat, NEW b \in Nat \ {0}
    PROVE  (a + i * b) % b = a % b
<1>1. a \in Int /\ i \in Int
  OBVIOUS
<1> QED
  BY <1>1, ModShiftInt

\* Byte j of chunk i is j bytes into its chunk.
LEMMA PlaceInChunk ==
    ASSUME NEW s \in Nat \ {0}, NEW i \in Nat, NEW j \in 0 .. s - 1
    PROVE  (i * s + j) % s = j
<1>0. j \in Nat
  OBVIOUS
<1>1. (j + i * s) % s = j % s
  BY <1>0, ModShift
<1>2. j + i * s = i * s + j
  OBVIOUS
<1> QED
  BY <1>1, <1>2, SmallMod

\* To go on from a place of a ring.
LEMMA ModAdd ==
    ASSUME NEW a \in Nat, NEW b \in Nat, NEW w \in Nat \ {0}
    PROVE  ((a % w) + b) % w = (a + b) % w
<1> DEFINE q == a \div w
           r == a % w
<1>1. a = w * q + r /\ q \in Nat
  BY DivMod
<1>4. r \in 0 .. w - 1
  BY ModRange
<1> HIDE DEF q, r
<1>5. r + b \in Nat
  BY <1>4
<1>2. ((r + b) + q * w) % w = (r + b) % w
  BY <1>1, <1>5, ModShift
<1>3. (r + b) + q * w = a + b
  <2>1. w * q = q * w /\ q * w \in Nat
    BY <1>1
  <2> QED
    BY <1>1, <1>4, <2>1
<1> QED
  BY <1>2, <1>3 DEF r

\* How far place x of a ring of w is behind place y, when less than a round.
LEMMA RingDistance ==
    ASSUME NEW x \in Nat, NEW y \in Nat, NEW w \in Nat \ {0}
    PROVE  /\ x >= y /\ x - y < w => ((x % w) - (y % w)) % w = x - y
           /\ x < y /\ y - x < w  => ((x % w) - (y % w)) % w = w - (y - x)
<1> DEFINE qx == x \div w
           rx == x % w
           qy == y \div w
           ry == y % w
           d  == rx - ry
<1>8. x = w * qx + rx /\ qx \in Nat
  BY DivMod
<1>9. y = w * qy + ry /\ qy \in Nat
  BY DivMod
<1>10. rx \in 0 .. w - 1 /\ ry \in 0 .. w - 1
  BY ModRange
<1>1. /\ x = w * qx + rx /\ qx \in Nat /\ rx \in 0 .. w - 1
      /\ y = w * qy + ry /\ qy \in Nat /\ ry \in 0 .. w - 1
  BY <1>8, <1>9, <1>10
<1> HIDE DEF qx, rx, qy, ry
<1>2. d \in -(w - 1) .. w - 1 /\ x - y = w * (qx - qy) + d
  <2>1. w * (qx - qy) = w * qx - w * qy /\ w * qx \in Int /\ w * qy \in Int
    BY <1>1
  <2> QED
    BY <1>1, <2>1
<1>3. d % w = IF d >= 0 THEN d ELSE d + w
  <2>1. \A e \in 0 .. w - 1 : e % w = e
    BY SmallMod
  <2>2. \A e \in -(w - 1) .. -1 : e % w = e + w
    OBVIOUS
  <2> QED
    BY <1>2, <2>1, <2>2
<1> HIDE DEF d
<1>4. qx - qy >= 2 => w * (qx - qy) >= 2 * w
  BY <1>1
<1>5. qx - qy <= -2 => w * (qx - qy) <= -2 * w
  BY <1>1
<1>6. qx - qy \in {-1, 0, 1} => w * (qx - qy) \in {-w, 0, w}
  BY <1>1
<1>7. qx - qy >= 2 \/ qx - qy <= -2 \/ qx - qy \in {-1, 0, 1}
  BY <1>1
<1>11. /\ x >= y /\ x - y < w => d % w = x - y
       /\ x < y /\ y - x < w  => d % w = w - (y - x)
  <2> DEFINE p == w * (qx - qy)
             m == d % w
  <2>1. p \in Int /\ (p >= 2 * w \/ p <= -2 * w \/ p \in {-w, 0, w})
    BY <1>1, <1>4, <1>5, <1>6, <1>7
  <2>2. x - y = p + d /\ m = (IF d >= 0 THEN d ELSE d + w)
    BY <1>2, <1>3
  <2> HIDE DEF p, m
  <2>3. /\ x >= y /\ x - y < w => m = x - y
        /\ x < y /\ y - x < w  => m = w - (y - x)
    BY <1>2, <2>1, <2>2
  <2> QED
    BY <2>3 DEF m
<1> QED
  BY <1>11 DEF d, rx, ry
=============================================================================
