------------------------------ MODULE VMumArith ------------------------------
(***************************************************************************)
(* The multiplications of vmum.h: what the portable code and the vector    *)
(* code compute is what the 128-bit product and the scalar code do, for    *)
(* words of any width.                                                     *)
(***************************************************************************)
EXTENDS VMum, TLAPS

(* Division is the inverse of q * n + r.                                   *)
LEMMA DivMod ==
  ASSUME NEW n \in Nat \ {0}, NEW q \in Nat, NEW r \in Nat, r < n
  PROVE  (q * n + r) \div n = q /\ (q * n + r) % n = r
<1> DEFINE x == q * n + r
           d == x \div n
           m == x % n
<1>1. x \in Nat BY SMT
<1>2. d \in Int /\ m \in Int /\ 0 <= m /\ m < n /\ x = n * d + m BY <1>1, SMT
<1> HIDE DEF d, m
<1>3. d = q
  <2>1. CASE d < q
    <3>1. PICK e \in Nat : q = d + 1 + e BY <2>1, <1>2, SMT
    <3>2. q * n = d * n + n + e * n BY <3>1, <1>2, SMT
    <3>3. e * n \in Nat BY SMT
    <3> QED BY <3>2, <3>3, <1>2, SMT
  <2>2. CASE q < d
    <3>1. PICK e \in Nat : d = q + 1 + e BY <2>2, <1>2, SMT
    <3>2. d * n = q * n + n + e * n BY <3>1, <1>2, SMT
    <3>3. e * n \in Nat BY SMT
    <3> QED BY <3>2, <3>3, <1>2, SMT
  <2> QED BY <2>1, <2>2, <1>2, SMT
<1>4. m = r BY <1>2, <1>3, SMT
<1> QED BY <1>3, <1>4 DEF d, m

(* A sum cut to n values is less than an addend exactly if it overflowed:  *)
(* the carries of _vmum.                                                   *)
LEMMA Carry ==
  ASSUME NEW n \in Nat \ {0}, NEW x \in 0 .. n - 1, NEW y \in 0 .. n - 1
  PROVE  /\ (x + y) % n \in 0 .. n - 1
         /\ x + y = (IF (x + y) % n < x THEN 1 ELSE 0) * n + ((x + y) % n)
<1>1. CASE x + y < n
  <2>1. (0 * n + (x + y)) % n = x + y BY <1>1, DivMod, SMT
  <2>2. (x + y) % n = x + y BY <2>1, SMT
  <2> QED BY <2>2, <1>1, SMT
<1>2. CASE x + y >= n
  <2>1. (1 * n + (x + y - n)) % n = x + y - n BY <1>2, DivMod, SMT
  <2>2. (x + y) % n = x + y - n BY <2>1, SMT
  <2> QED BY <2>2, <1>2, SMT
<1> QED BY <1>1, <1>2, SMT

(* A product of half words is a word, and so is a half word shifted up.    *)
LEMMA HalfProduct ==
  ASSUME NEW n \in Nat \ {0}, NEW x \in 0 .. n - 1, NEW y \in 0 .. n - 1
  PROVE  x * y \in 0 .. n * n - 1 /\ x * n \in 0 .. n * n - 1
<1>1. PICK a \in Nat : n = x + 1 + a BY SMT
<1>2. PICK c \in Nat : n = y + 1 + c BY SMT
<1>3. n * n = x * n + n + a * n BY <1>1, SMT
<1>4. x * n = x * y + x + x * c BY <1>2, SMT
<1>5. a * n \in Nat /\ x * c \in Nat /\ x * y \in Nat /\ x * n \in Nat BY SMT
<1> QED BY <1>3, <1>4, <1>5, SMT

(* Shifting a word up by half its width keeps its low half.                *)
LEMMA ShiftUp ==
  ASSUME NEW n \in Nat \ {0}, NEW x \in Nat
  PROVE  /\ x \div n \in Nat /\ x % n \in 0 .. n - 1
         /\ x = (x \div n) * n + (x % n)
         /\ (x * n) % (n * n) = (x % n) * n
<1> DEFINE d == x \div n
           m == x % n
<1>1. d \in Nat /\ m \in 0 .. n - 1 /\ x = n * d + m BY SMT
<1> HIDE DEF d, m
<1>2. m * n \in 0 .. n * n - 1 BY <1>1, HalfProduct, SMT
<1>3. n * n \in Nat \ {0} BY <1>2, SMT
<1>4. x * n = d * (n * n) + m * n BY <1>1, SMT
<1>5. (d * (n * n) + m * n) % (n * n) = m * n
  <2>1. d \in Nat /\ m * n \in Nat /\ m * n < n * n BY <1>1, <1>2, <1>3, SMT
  <2> QED BY <2>1, <1>3, DivMod
<1>6. (x * n) % (n * n) = m * n BY <1>4, <1>5
<1>7. x = d * n + m BY <1>1, SMT
<1> QED BY <1>1, <1>6, <1>7 DEF d, m

-----------------------------------------------------------------------------
(* The product.                                                            *)

(* The widths are positive, and a word is two half words.                  *)
LEMMA Widths ==
  /\ W32 \in Nat \ {0} /\ W64 \in Nat \ {0} /\ W64 = W32 * W32
  /\ Word = 0 .. W32 * W32 - 1
<1>1. BYTE \in Nat \ {0} BY VMumAssumption
<1>2. \A x \in Nat \ {0} : x * x \in Nat \ {0} BY SMT
<1>3. W16 \in Nat \ {0} BY <1>1, <1>2 DEF W16
<1>4. W32 \in Nat \ {0} BY <1>3, <1>2 DEF W32
<1>5. W64 \in Nat \ {0} BY <1>4, <1>2 DEF W64
<1> QED BY <1>4, <1>5 DEF W64, Word

(* The halves of a word.                                                   *)
LEMMA Halves ==
  ASSUME NEW v \in Word
  PROVE  hi32(v) \in 0 .. W32 - 1 /\ lo32(v) \in 0 .. W32 - 1 /\ v = hi32(v) * W32 + lo32(v)
<1>1. v \in Nat /\ v < W32 * W32 /\ W32 \in Nat \ {0} BY Widths, SMT
<1> DEFINE d == v \div W32
<1>2. d \in Nat /\ v % W32 \in 0 .. W32 - 1 /\ v = d * W32 + (v % W32) BY <1>1, ShiftUp
<1> HIDE DEF d
<1>3. d < W32
  <2> SUFFICES ASSUME d >= W32 PROVE FALSE BY <1>1, <1>2, SMT
  <2>1. PICK e \in Nat : d = W32 + e BY <1>1, <1>2, SMT
  <2>2. d * W32 = W32 * W32 + e * W32 BY <2>1, <1>1, SMT
  <2>3. e * W32 \in Nat BY <1>1, SMT
  <2> QED BY <2>2, <2>3, <1>1, <1>2, SMT
<1>4. d \in 0 .. W32 - 1 BY <1>1, <1>2, <1>3, SMT
<1> QED BY <1>2, <1>4 DEF hi32, lo32, d

(* The portable product with its carries is the exact one.                 *)
LEMMA ProductSame ==
  ASSUME conf.independent, NEW v \in Word, NEW p \in Word
  PROVE  mul_portable(v, p) = mul_int128(v, p)
<1> DEFINE hv == hi32(v)
           lv == lo32(v)
           hp == hi32(p)
           lp == lo32(p)
           rm_0 == hv * lp
           rm_1 == hp * lv
           rl   == lv * lp
           s0   == (rm_0 * W32) % W64
           s1   == (rm_1 * W32) % W64
           t    == (rl + s0) % W64
           lo   == (t + s1) % W64
           c0   == IF t < rl THEN 1 ELSE 0
           c1   == IF lo < t THEN 1 ELSE 0
           a0   == rm_0 \div W32
           a1   == rm_1 \div W32
           hi   == hv * hp + a0 + a1 + (c0 + c1)
<1>1. /\ hv \in 0 .. W32 - 1 /\ lv \in 0 .. W32 - 1 /\ v = hv * W32 + lv
      /\ hp \in 0 .. W32 - 1 /\ lp \in 0 .. W32 - 1 /\ p = hp * W32 + lp
  BY Halves
<1>2. W32 \in Nat \ {0} /\ W64 \in Nat \ {0} /\ W64 = W32 * W32 BY Widths
<1>3. mul_portable(v, p) = ((hi % W64) + lo) % W64 BY DEF mul_portable
<1> HIDE DEF hv, lv, hp, lp
<1>4. rm_0 \in 0 .. W64 - 1 /\ rm_1 \in 0 .. W64 - 1 /\ rl \in 0 .. W64 - 1 /\ hv * hp \in Nat
  <2>1. hv * lp \in 0 .. W32 * W32 - 1 BY <1>1, <1>2, HalfProduct
  <2>2. hp * lv \in 0 .. W32 * W32 - 1 BY <1>1, <1>2, HalfProduct
  <2>3. lv * lp \in 0 .. W32 * W32 - 1 BY <1>1, <1>2, HalfProduct
  <2>4. hv * hp \in 0 .. W32 * W32 - 1 BY <1>1, <1>2, HalfProduct
  <2> QED BY <2>1, <2>2, <2>3, <2>4, <1>2, SMT
<1>5. v * p = (hv * hp) * W64 + rm_0 * W32 + rm_1 * W32 + rl
  <2>1. \A x, y, z, w, n \in Int :
          (x * n + y) * (z * n + w) = (x * z) * (n * n) + (x * w) * n + (z * y) * n + y * w
    BY SMT
  <2> QED BY <2>1, <1>1, <1>2, SMT
<1> HIDE DEF rm_0, rm_1, rl
<1>6. /\ a0 \in Nat /\ rm_0 % W32 \in 0 .. W32 - 1 /\ rm_0 = a0 * W32 + (rm_0 % W32)
      /\ s0 = (rm_0 % W32) * W32
  <2>1. rm_0 \in Nat BY <1>2, <1>4, SMT
  <2>2. s0 = (rm_0 * W32) % (W32 * W32) BY <1>2
  <2> QED BY <1>2, <2>1, <2>2, ShiftUp
<1>7. /\ a1 \in Nat /\ rm_1 % W32 \in 0 .. W32 - 1 /\ rm_1 = a1 * W32 + (rm_1 % W32)
      /\ s1 = (rm_1 % W32) * W32
  <2>1. rm_1 \in Nat BY <1>2, <1>4, SMT
  <2>2. s1 = (rm_1 * W32) % (W32 * W32) BY <1>2
  <2> QED BY <1>2, <2>1, <2>2, ShiftUp
<1>8. s0 \in 0 .. W64 - 1 /\ s1 \in 0 .. W64 - 1 BY <1>2, <1>6, <1>7, HalfProduct
<1>9. rm_0 * W32 = a0 * W64 + s0 /\ rm_1 * W32 = a1 * W64 + s1
  <2>1. \A x, y, n \in Int : (x * n + y) * n = x * (n * n) + y * n BY SMT
  <2> DEFINE b0 == rm_0 % W32
             b1 == rm_1 % W32
  <2> HIDE DEF a0, a1, s0, s1, b0, b1
  <2>2. a0 \in Int /\ a1 \in Int /\ b0 \in Int /\ b1 \in Int /\ W32 \in Int
    BY <1>2, <1>6, <1>7, SMT DEF b0, b1
  <2>3. (a0 * W32 + b0) * W32 = a0 * (W32 * W32) + b0 * W32 BY <2>1, <2>2
  <2>4. (a1 * W32 + b1) * W32 = a1 * (W32 * W32) + b1 * W32 BY <2>1, <2>2
  <2>5. rm_0 = a0 * W32 + b0 /\ s0 = b0 * W32 BY <1>6 DEF b0
  <2>6. rm_1 = a1 * W32 + b1 /\ s1 = b1 * W32 BY <1>7 DEF b1
  <2>7. rm_0 * W32 = a0 * W64 + s0 BY <2>3, <2>5, <1>2
  <2>8. rm_1 * W32 = a1 * W64 + s1 BY <2>4, <2>6, <1>2
  <2> QED BY <2>7, <2>8
<1> HIDE DEF a0, a1, s0, s1
<1>10. t \in 0 .. W64 - 1 /\ rl + s0 = c0 * W64 + t BY <1>2, <1>4, <1>8, Carry
<1> HIDE DEF t
<1>11. lo \in 0 .. W64 - 1 /\ t + s1 = c1 * W64 + lo BY <1>2, <1>8, <1>10, Carry
<1> HIDE DEF lo
<1>12. c0 \in Nat /\ c1 \in Nat BY SMT
<1> HIDE DEF c0, c1
<1>13. v * p = hi * W64 + lo
  <2>1. \A x, y, z, w, n \in Int :
          (x + y + z + w) * n = x * n + y * n + z * n + w * n BY SMT
  <2>2. \A x, y, n \in Int : (x + y) * n = x * n + y * n BY SMT
  <2>3. hi * W64 = (hv * hp) * W64 + a0 * W64 + a1 * W64 + (c0 + c1) * W64
    BY <2>1, <1>2, <1>4, <1>6, <1>7, <1>12
  <2>4. (c0 + c1) * W64 = c0 * W64 + c1 * W64 BY <2>2, <1>2, <1>12
  <2> DEFINE A == (hv * hp) * W64
             B0 == a0 * W64
             B1 == a1 * W64
             C0 == c0 * W64
             C1 == c1 * W64
             X == hi * W64
             V == v * p
             M0 == rm_0 * W32
             M1 == rm_1 * W32
  <2>5. A \in Int /\ B0 \in Int /\ B1 \in Int /\ C0 \in Int /\ C1 \in Int
    BY <1>2, <1>4, <1>6, <1>7, <1>12, SMT
  <2>6. X = A + B0 + B1 + (C0 + C1) BY <2>3, <2>4
  <2>7. V = A + M0 + M1 + rl BY <1>5
  <2>8. M0 = B0 + s0 /\ M1 = B1 + s1 BY <1>9
  <2>9. rl + s0 = C0 + t /\ t + s1 = C1 + lo BY <1>10, <1>11
  <2>10. rl \in Int /\ s0 \in Int /\ s1 \in Int /\ t \in Int /\ lo \in Int
    BY <1>2, <1>4, <1>8, <1>10, <1>11, SMT
  <2> HIDE DEF A, B0, B1, C0, C1, X, V, M0, M1, hi
  <2>11. V = X + lo BY <2>5, <2>6, <2>7, <2>8, <2>9, <2>10, SMT
  <2> QED BY <2>11 DEF V, X
<1>14. hi \in Nat BY <1>4, <1>6, <1>7, <1>12, SMT
<1> HIDE DEF hi
<1>15. (v * p) \div W64 = hi /\ (v * p) % W64 = lo
  <2>1. (hi * W64 + lo) \div W64 = hi /\ (hi * W64 + lo) % W64 = lo
    BY <1>2, <1>11, <1>14, DivMod, SMT
  <2> QED BY <2>1, <1>13
<1>16. hi < W64
  <2> SUFFICES ASSUME hi >= W64 PROVE FALSE BY <1>2, <1>14, SMT
  <2>1. v * p \in 0 .. W64 * W64 - 1
    <3>1. v \in 0 .. W64 - 1 /\ p \in 0 .. W64 - 1 BY DEF Word
    <3> QED BY <3>1, <1>2, HalfProduct
  <2>2. PICK e \in Nat : hi = W64 + e BY <1>2, <1>14, SMT
  <2>3. hi * W64 = W64 * W64 + e * W64 BY <2>2, <1>2, SMT
  <2>4. e * W64 \in Nat BY <1>2, SMT
  <2> QED BY <2>1, <2>3, <2>4, <1>2, <1>11, <1>13, SMT
<1>17. hi % W64 = hi
  <2>1. (0 * W64 + hi) % W64 = hi BY <1>2, <1>14, <1>16, DivMod, SMT
  <2> QED BY <2>1, <1>2, <1>14, SMT
<1> QED BY <1>3, <1>15, <1>17 DEF mul_int128

(* Every product is a word.                                                *)
LEMMA ModWord ==
  ASSUME NEW x \in Nat
  PROVE  x % W64 \in Word
BY Widths, SMT DEF Word

(* With the carries all builds compute the same product, a word.           *)
LEMMA ProductWord ==
  ASSUME conf.independent, NEW b, NEW v \in Word, NEW p \in Word
  PROVE  _vmum(b, v, p) = mul_int128(v, p) /\ mul_int128(v, p) \in Word
<1>1. v * p \in Nat BY Widths, SMT DEF Word
<1>2. (v * p) \div W64 \in Nat /\ (v * p) % W64 \in Nat BY <1>1, Widths, SMT
<1>3. ((v * p) \div W64) + ((v * p) % W64) \in Nat BY <1>2, SMT
<1>4. mul_int128(v, p) \in Word BY <1>3, ModWord DEF mul_int128
<1> QED BY <1>4, ProductSame DEF _vmum

-----------------------------------------------------------------------------
(* The product of a lane.                                                  *)

(* A signed shift keeps the high half in the low one.                      *)
LEMMA SignedShift ==
  ASSUME NEW v \in Word
  PROVE  lo32(hi32(v) + (IF 2 * v >= W64 THEN W64 - W32 ELSE 0)) = hi32(v)
<1> DEFINE d == hi32(v)
<1>1. d \in 0 .. W32 - 1 BY Halves
<1>2. W32 \in Nat \ {0} /\ W64 = W32 * W32 BY Widths
<1> HIDE DEF d
<1>3. (0 * W32 + d) % W32 = d BY <1>1, <1>2, DivMod, SMT
<1>4. ((W32 - 1) * W32 + d) % W32 = d
  <2>1. W32 - 1 \in Nat /\ d \in Nat /\ d < W32 BY <1>1, <1>2, SMT
  <2> QED BY <2>1, <1>2, DivMod
<1>5. 0 * W32 + d = d + 0 BY <1>1, <1>2, SMT
<1>6. (W32 - 1) * W32 + d = d + (W64 - W32)
  <2>1. \A x \in Int : (x - 1) * x = x * x - x BY SMT
  <2>2. (W32 - 1) * W32 = W64 - W32 BY <2>1, <1>2
  <2>3. W64 - W32 \in Int BY <1>2, Widths, SMT
  <2> QED BY <2>2, <2>3, <1>1, SMT
<1> QED BY <1>3, <1>4, <1>5, <1>6 DEF lo32, d

(* All builds compute the same product of lanes.                           *)
LEMMA LaneProduct ==
  ASSUME NEW b, NEW v \in Word, NEW p \in Word
  PROVE  lane_mul(b, v, p) = _vmum_val(v, p) /\ _vmum_val(v, p) \in Word
<1>1. _vmum_block(v, p) = _vmum_val(v, p) BY SignedShift DEF _vmum_block, _vmum_val
<1>2. lo32(v) * lo32(p) + hi32(v) * hi32(p) \in Nat
  <2>1. lo32(v) \in Nat /\ lo32(p) \in Nat /\ hi32(v) \in Nat /\ hi32(p) \in Nat
    BY Halves, Widths, SMT
  <2> QED BY <2>1, SMT
<1>3. _vmum_val(v, p) \in Word BY <1>2, ModWord DEF _vmum_val
<1> QED BY <1>1, <1>3 DEF lane_mul

=============================================================================
