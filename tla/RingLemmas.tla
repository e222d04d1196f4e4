----------------------------- MODULE RingLemmas -----------------------------
(***************************************************************************)
(* Indexes of ring buffers: unsigned counters that wrap around at W, taken *)
(* modulo the size P of the buffer, of which W is a multiple.              *)
(***************************************************************************)
EXTENDS Integers, TLAPS

(* The remainder is what the division leaves. *)
LEMMA DivMod ==
    ASSUME NEW a \in Int, NEW P \in Int, P > 0
    PROVE  /\ a \div P \in Int /\ a % P \in 0 .. P - 1
           /\ a = P * (a \div P) + (a % P)
<1>1. a \div P \in Int
  BY Z3
<1>2. a % P \in 0 .. P - 1
  BY Z3
<1>3. a = P * (a \div P) + (a % P)
  BY Z3
<1> QED
  BY <1>1, <1>2, <1>3

LEMMA ModUnique ==
    ASSUME NEW P \in Nat \ {0}, NEW q \in Int, NEW r \in 0 .. P - 1
    PROVE  (P * q + r) % P = r
<1> DEFINE a == P * q + r
           q0 == a \div P
           r0 == a % P
<1>1. a \in Int
  OBVIOUS
<1>2. q0 \in Int /\ r0 \in 0 .. P - 1 /\ a = P * q0 + r0
  BY <1>1, DivMod
<1>3. P * (q - q0) = r0 - r
  BY <1>2
<1> HIDE DEF q0, r0
<1>4. ~(q - q0 >= 1)
  BY <1>2, <1>3
<1>5. ~(q - q0 <= -1)
  BY <1>2, <1>3
<1>6. q = q0
  BY <1>2, <1>4, <1>5
<1> QED
  BY <1>2, <1>6 DEF r0

(* The remainders that a counter meets: one step past either end. *)
LEMMA ModCases ==
    ASSUME NEW W \in Nat \ {0}, NEW a \in -W .. 2 * W - 1
    PROVE  /\ a \in 0 .. W - 1 => a % W = a
           /\ a >= W => a % W = a - W
           /\ a < 0 => a % W = a + W
<1>1. ASSUME a \in 0 .. W - 1 PROVE a % W = a
  <2>1. (W * 0 + a) % W = a
    BY <1>1, ModUnique
  <2> QED
    BY <2>1
<1>2. ASSUME a >= W PROVE a % W = a - W
  <2>1. (W * 1 + (a - W)) % W = a - W
    <3>1. a - W \in 0 .. W - 1
      BY <1>2
    <3> QED
      BY <3>1, ModUnique
  <2>2. W * 1 + (a - W) = a
    OBVIOUS
  <2> QED
    BY <2>1, <2>2
<1>3. ASSUME a < 0 PROVE a % W = a + W
  <2>1. (W * (-1) + (a + W)) % W = a + W
    <3>1. a + W \in 0 .. W - 1
      BY <1>3
    <3> QED
      BY <3>1, ModUnique
  <2>2. W * (-1) + (a + W) = a
    OBVIOUS
  <2> QED
    BY <2>1, <2>2
<1> QED
  BY <1>1, <1>2, <1>3

(* Wrapping around does not move the place in the buffer. *)
LEMMA ModWrap ==
    ASSUME NEW P \in Nat \ {0}, NEW W \in Nat, W % P = 0, NEW x \in Int
    PROVE  (x - W) % P = x % P /\ (x + W) % P = x % P
<1> DEFINE m == W \div P
           q == x \div P
           r == x % P
<1>1. m \in Int /\ W = P * m
  BY DivMod
<1>2. q \in Int /\ r \in 0 .. P - 1 /\ x = P * q + r
  BY DivMod
<1> HIDE DEF m, q, r
<1>3. x - W = P * (q - m) + r /\ x + W = P * (q + m) + r
  BY <1>1, <1>2
<1>4. (P * (q - m) + r) % P = r /\ (P * (q + m) + r) % P = r
  BY <1>1, <1>2, ModUnique
<1> QED
  BY <1>3, <1>4 DEF r

LEMMA ModMod ==
    ASSUME NEW P \in Nat \ {0}, NEW W \in Nat \ {0}, W % P = 0, NEW x \in -W .. 2 * W - 1
    PROVE  (x % W) % P = x % P
<1>1. x % W = x \/ x % W = x - W \/ x % W = x + W
  <2>1. x \in 0 .. W - 1 \/ x >= W \/ x < 0
    OBVIOUS
  <2> QED
    BY <2>1, ModCases, ZenonT(30)
<1>2. (x - W) % P = x % P /\ (x + W) % P = x % P
  <2>1. x \in Int /\ W \in Nat
    OBVIOUS
  <2> QED
    BY <2>1, ModWrap, Zenon
<1> QED
  BY <1>1, <1>2

(* Places less than a full buffer apart are different. *)
LEMMA ModDistinct ==
    ASSUME NEW P \in Nat \ {0}, NEW x \in Int, NEW d \in 1 .. P - 1
    PROVE  (x + d) % P # x % P
<1> DEFINE q == x \div P
           r == x % P
<1>1. q \in Int /\ r \in 0 .. P - 1 /\ x = P * q + r
  BY DivMod
<1> HIDE DEF q, r
<1>2. CASE r + d < P
  <2>1. x + d = P * q + (r + d) /\ r + d \in 0 .. P - 1
    BY <1>1, <1>2
  <2>2. (x + d) % P = r + d
    BY <1>1, <2>1, ModUnique
  <2> QED
    BY <1>1, <2>2 DEF r
<1>3. CASE r + d >= P
  <2>1. x + d = P * (q + 1) + (r + d - P) /\ r + d - P \in 0 .. P - 1
    BY <1>1, <1>3
  <2>2. (P * (q + 1) + (r + d - P)) % P = r + d - P
    <3>1. q + 1 \in Int
      BY <1>1
    <3> QED
      BY <2>1, <3>1, ModUnique, ZenonT(30)
  <2>3. r + d - P # r
    BY <1>1
  <2> QED
    BY <2>1, <2>2, <2>3 DEF r
<1> QED
  BY <1>1, <1>2, <1>3
=============================================================================
