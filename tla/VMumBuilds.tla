------------------------------ MODULE VMumBuilds -----------------------------
(***************************************************************************)
(* With VMUM_TARGET_INDEPENDENT_HASH all builds of vmum.h compute the same *)
(* hashes, for every key, seed, set of factors and width of a byte.        *)
(***************************************************************************)
EXTENDS VMumWalk, VMumArith

(* Where the builds have to agree.                                         *)
Agreeing == conf.independent /\ (clash => conf.v1)

(* They agree on the state and on block_state, at every step.              *)
SameState ==
  /\ h \in [Builds -> Word] /\ blk \in [Builds -> [0 .. 3 -> Word]]
  /\ \A b, c \in Builds : h[b] = h[c] /\ blk[b] = blk[c]

BInv == F \in FactorSet /\ (Agreeing => SameState)

-----------------------------------------------------------------------------
(* What is read and mixed are words.                                       *)

(* The exclusive or of words is a word.                                    *)
LEMMA XorWord ==
  ASSUME NEW x \in Word, NEW y \in Word
  PROVE  bitxor(x, y) \in Word
BY VMumAssumption DEF bitxor

(* The factors are words.                                                  *)
LEMMA FactorWords ==
  ASSUME F \in FactorSet
  PROVE  /\ F.hash_step \in Word /\ F.key_step \in Word /\ F.block_start \in Word /\ F.tail \in Word
         /\ \A l \in 0 .. 3 : F.unroll[l] \in Word
         /\ \A n \in 0 .. 79 : F.factors[n] \in Word
<1>1. /\ F.hash_step \in Word /\ F.key_step \in Word /\ F.block_start \in Word /\ F.tail \in Word
      /\ F.unroll \in [0 .. 3 -> Word] /\ F.factors \in [0 .. NumFactors - 1 -> Word]
  BY DEF FactorSet
<1>2. NumFactors - 1 = 79 BY SMT DEF NumFactors
<1> QED BY <1>1, <1>2

(* The numbers read from a key: words, or parts of words.                  *)
LEMMA NumberWord ==
  ASSUME arg \in Args, NEW o \in 0 .. MaxLen
  PROVE  number(o, 8) \in Word /\ \A n \in {1, 2, 4} : number(o, n) \in Nat
<1>1. Mem[arg.key][o] \in Word BY ArgTypes, VMumAssumption
<1>2. Mem[arg.key][o] \in Nat BY <1>1, Widths, SMT DEF Word
<1>3. BYTE \in Nat \ {0} /\ W16 \in Nat \ {0} /\ W32 \in Nat \ {0}
  <2>1. BYTE \in Nat \ {0} BY VMumAssumption
  <2>2. \A x \in Nat \ {0} : x * x \in Nat \ {0} BY SMT
  <2> QED BY <2>1, <2>2 DEF W16, W32
<1>4. values[1] = BYTE /\ values[2] = W16 /\ values[4] = W32 /\ values[8] = W64 BY SMT DEF values
<1>5. number(o, 8) \in Word BY <1>2, <1>4, ModWord DEF number
<1>6. \A x \in Nat, y \in Nat \ {0} : x % y \in Nat BY SMT
<1> QED BY <1>2, <1>3, <1>4, <1>5, <1>6 DEF number

(* A sum of a word and a number, cut to a word.                            *)
LEMMA SumWord ==
  ASSUME NEW x \in Word, NEW y \in Nat
  PROVE  (x + y) % W64 \in Word
<1>1. x + y \in Nat BY Widths, SMT DEF Word
<1> QED BY <1>1, ModWord

(* A word mixed with its factor is a word.                                *)
LEMMA MixWord ==
  ASSUME NEW v \in Word, NEW f \in Word
  PROVE  _vmum_xor(v, f) \in Word /\ _vmum_plus(v, f) \in Word
<1>1. v \in Nat /\ f \in Nat BY Widths, SMT DEF Word
<1>2. (v + f) % W64 \in Word BY <1>1, SumWord
<1> QED BY <1>2, XorWord DEF _vmum_xor, _vmum_plus

-----------------------------------------------------------------------------
(* Blocks.                                                                 *)

(* Scalar and vector builds mix the word w of a block with its factor in   *)
(* the same way, unless they are equal.                                    *)
LEMMA LaneWord ==
  ASSUME arg \in Args, F \in FactorSet, NEW w \in 0 .. 63, str + 8 * w \in 0 .. MaxLen,
         conf.v1 \/ bitxor(number(str + 8 * w, 8), F.factors[w]) # 0
  PROVE  /\ \A b, c \in Builds : lane_word(b, w) = lane_word(c, w)
         /\ \A b \in Builds : lane_word(b, w) \in Word
<1> DEFINE v == number(str + 8 * w, 8)
           f == F.factors[w]
<1>1. v \in Word BY NumberWord
<1>2. w \in 0 .. 79 BY SMT
<1>3. f \in Word BY <1>2, FactorWords
<1>4. \A b \in Builds : lane_word(b, w) = bitxor(v, f)
  BY DEF lane_word, _vmum_nonzero, _vmum_xor
<1>5. bitxor(v, f) \in Word BY <1>1, <1>3, XorWord
<1> QED BY <1>4, <1>5

(* One pair of vectors in a lane: the same in all builds.                  *)
LEMMA LaneUpdate ==
  ASSUME arg \in Args, F \in FactorSet, NEW b \in Builds, NEW c \in Builds, NEW l \in 0 .. 3,
         \A w \in 0 .. 63 : /\ str + 8 * w \in 0 .. MaxLen
                            /\ conf.v1 \/ bitxor(number(str + 8 * w, 8), F.factors[w]) # 0
  PROVE  \A q \in 0 .. 7, x \in Word :
           update_lane(b, l, q, x) = update_lane(c, l, q, x) /\ update_lane(b, l, q, x) \in Word
<1> TAKE q \in 0 .. 7, x \in Word
<1> DEFINE w1 == 8 * q + l
           w2 == 8 * q + 4 + l
<1>1. w1 \in 0 .. 63 /\ w2 \in 0 .. 63 BY SMT
<1> HIDE DEF w1, w2
<1>2. lane_word(b, w1) = lane_word(c, w1) /\ lane_word(b, w1) \in Word BY <1>1, LaneWord
<1>3. lane_word(b, w2) = lane_word(c, w2) /\ lane_word(b, w2) \in Word BY <1>1, LaneWord
<1> DEFINE v == lane_word(b, w1)
           p == lane_word(b, w2)
<1>4. lane_mul(b, v, p) = lane_mul(c, v, p) /\ lane_mul(b, v, p) \in Word
  <2>1. v \in Word /\ p \in Word BY <1>2, <1>3
  <2> HIDE DEF v, p
  <2> QED BY <2>1, LaneProduct
<1>5. /\ update_lane(b, l, q, x) = bitxor(x, lane_mul(b, v, p))
      /\ update_lane(c, l, q, x) = bitxor(x, lane_mul(c, v, p))
  BY <1>2, <1>3 DEF update_lane, w1, w2
<1> HIDE DEF v, p
<1> QED BY <1>4, <1>5, XorWord

(* And so are all 8 pairs of a block.                                      *)
LEMMA LaneUpdated ==
  ASSUME arg \in Args, F \in FactorSet, NEW b \in Builds, NEW c \in Builds, NEW l \in 0 .. 3,
         \A w \in 0 .. 63 : /\ str + 8 * w \in 0 .. MaxLen
                            /\ conf.v1 \/ bitxor(number(str + 8 * w, 8), F.factors[w]) # 0,
         blk[b][l] \in Word, blk[b][l] = blk[c][l]
  PROVE  updated(b, l) = updated(c, l) /\ updated(b, l) \in Word
<1> DEFINE u(q, x) == update_lane(b, l, q, x)
           t(q, x) == update_lane(c, l, q, x)
<1>1. \A q \in 0 .. 7, x \in Word : u(q, x) = t(q, x) /\ u(q, x) \in Word BY LaneUpdate
<1>2. /\ updated(b, l) = u(7, u(6, u(5, u(4, u(3, u(2, u(1, u(0, blk[b][l]))))))))
      /\ updated(c, l) = t(7, t(6, t(5, t(4, t(3, t(2, t(1, t(0, blk[c][l]))))))))
  BY DEF updated
<1>3. \A q \in {0, 1, 2, 3, 4, 5, 6, 7} : q \in 0 .. 7 BY SMT
<1> HIDE DEF u, t
<1> DEFINE v0 == blk[b][l]
           v1 == u(0, v0)
           v2 == u(1, v1)
           v3 == u(2, v2)
           v4 == u(3, v3)
<1>4. v4 \in Word /\ v4 = t(3, t(2, t(1, t(0, v0)))) BY <1>1, <1>3
<1> HIDE DEF v4
<1>5. /\ u(7, u(6, u(5, u(4, v4)))) \in Word
      /\ u(7, u(6, u(5, u(4, v4)))) = t(7, t(6, t(5, t(4, v4))))
  BY <1>1, <1>3, <1>4
<1>6. /\ updated(b, l) = u(7, u(6, u(5, u(4, v4)))) /\ updated(c, l) = t(7, t(6, t(5, t(4, v4))))
  BY <1>2, <1>4 DEF v4
<1> QED BY <1>5, <1>6

-----------------------------------------------------------------------------
(* Words after the blocks.                                                 *)

(* A pair of words.                                                        *)
LEMMA PairSame ==
  ASSUME conf.independent, arg \in Args, F \in FactorSet, NEW b \in Builds, NEW c \in Builds,
         NEW j \in 0 .. 78, str + 8 * j \in 0 .. MaxLen, str + 8 * (j + 1) \in 0 .. MaxLen,
         NEW x \in Word
  PROVE  mix_pair(b, j, x) = mix_pair(c, j, x) /\ mix_pair(b, j, x) \in Word
<1>1. word(j) \in Word /\ word(j + 1) \in Word BY NumberWord DEF word
<1>2. j \in 0 .. 79 /\ j + 1 \in 0 .. 79 BY SMT
<1>3. F.factors[j] \in Word /\ F.factors[j + 1] \in Word BY <1>2, FactorWords
<1> DEFINE v == _vmum_xor(word(j), F.factors[j])
           p == _vmum_xor(word(j + 1), F.factors[j + 1])
<1>4. v \in Word /\ p \in Word BY <1>1, <1>3, MixWord
<1>5. mix_pair(b, j, x) = bitxor(x, _vmum(b, v, p)) /\ mix_pair(c, j, x) = bitxor(x, _vmum(c, v, p))
  BY DEF mix_pair
<1> HIDE DEF v, p
<1> QED BY <1>4, <1>5, ProductWord, XorWord

(* 8 pairs of words.                                                       *)
LEMMA MixedSame ==
  ASSUME conf.independent, arg \in Args, F \in FactorSet, NEW b \in Builds, NEW c \in Builds,
         i \in Nat, i <= 63, str \in Nat, str + 8 * (i + 15) \in 0 .. MaxLen,
         h[b] \in Word, h[b] = h[c]
  PROVE  mixed(b) = mixed(c) /\ mixed(b) \in Word
<1> DEFINE u(q, x) == mix_pair(b, i + 2 * q, x)
           t(q, x) == mix_pair(c, i + 2 * q, x)
<1>1. \A q \in 0 .. 7, x \in Word : u(q, x) = t(q, x) /\ u(q, x) \in Word
  <2> TAKE q \in 0 .. 7, x \in Word
  <2> DEFINE j == i + 2 * q
  <2>1. MaxLen \in Nat BY VMumAssumption
  <2>2. j \in 0 .. 78 /\ str + 8 * j \in 0 .. MaxLen /\ str + 8 * (j + 1) \in 0 .. MaxLen
    BY <2>1, SMT
  <2> HIDE DEF j
  <2>3. mix_pair(b, j, x) = mix_pair(c, j, x) /\ mix_pair(b, j, x) \in Word BY <2>2, PairSame
  <2> QED BY <2>3 DEF j
<1>2. /\ mixed(b) = u(7, u(6, u(5, u(4, u(3, u(2, u(1, u(0, h[b]))))))))
      /\ mixed(c) = t(7, t(6, t(5, t(4, t(3, t(2, t(1, t(0, h[c]))))))))
  BY DEF mixed
<1>3. \A q \in {0, 1, 2, 3, 4, 5, 6, 7} : q \in 0 .. 7 BY SMT
<1> HIDE DEF u, t
<1> DEFINE m == u(3, u(2, u(1, u(0, h[b]))))
<1>4. m \in Word /\ m = t(3, t(2, t(1, t(0, h[b])))) BY <1>1, <1>3
<1> HIDE DEF m
<1>5. u(7, u(6, u(5, u(4, m)))) \in Word /\ u(7, u(6, u(5, u(4, m)))) = t(7, t(6, t(5, t(4, m))))
  BY <1>1, <1>3, <1>4
<1>6. mixed(b) = u(7, u(6, u(5, u(4, m)))) /\ mixed(c) = t(7, t(6, t(5, t(4, m))))
  BY <1>2, <1>4 DEF m
<1> QED BY <1>5, <1>6

(* The 1 to 7 bytes of a tail and their factor.                            *)
LEMMA TailWord ==
  ASSUME arg \in Args, F \in FactorSet, i \in Nat, i <= 63, NEW o \in Nat, NEW r \in 1 .. 7,
         o + r <= MaxLen
  PROVE  tail_u64(o, r) \in Word
<1>1. tail_number(o, r) \in Nat
  <2> DEFINE r4 == 4 * (r \div 4)
             r2 == 2 * (r \div 2)
  <2>1. r4 \in {0, 4} /\ r2 \in {0, 2, 4, 6} /\ r4 <= r2 /\ r2 <= r BY SMT
  <2>2. MaxLen \in Nat BY VMumAssumption
  <2>3. tail_number(o, r) =   (IF r4 > 0 THEN number(o, 4) ELSE 0)
                            + (IF r2 > r4 THEN number(o + r4, 2) * shift[r4] ELSE 0)
                            + (IF r > r2 THEN number(o + r2, 1) * shift[r2] ELSE 0)
    BY DEF tail_number
  <2> HIDE DEF r4, r2
  <2>4. o \in 0 .. MaxLen /\ o + r4 \in 0 .. MaxLen /\ o + r2 \in 0 .. MaxLen BY <2>1, <2>2, SMT
  <2>5. number(o, 4) \in Nat /\ number(o + r4, 2) \in Nat /\ number(o + r2, 1) \in Nat
    BY <2>4, NumberWord
  <2>6. shift[r4] \in Nat /\ shift[r2] \in Nat
    <3>1. W16 \in Nat /\ W32 \in Nat
      <4>1. BYTE \in Nat BY VMumAssumption
      <4>2. \A x \in Nat : x * x \in Nat BY SMT
      <4> QED BY <4>1, <4>2 DEF W16, W32
    <3>2. W32 * W16 \in Nat BY <3>1, SMT
    <3>3. shift[0] = 1 /\ shift[2] = W16 /\ shift[4] = W32 /\ shift[6] = W32 * W16
      BY SMT DEF shift
    <3> QED BY <2>1, <3>1, <3>2, <3>3
  <2>7. \A x, y \in Nat : x * y \in Nat BY SMT
  <2>8. number(o + r4, 2) * shift[r4] \in Nat /\ number(o + r2, 1) * shift[r2] \in Nat
    BY <2>5, <2>6, <2>7
  <2>9. \A x, y, z \in Nat : x + y + z \in Nat BY SMT
  <2> QED BY <2>3, <2>5, <2>8, <2>9
<1>2. tail_factor_index(r) \in 0 .. 79 BY SMT DEF tail_factor_index
<1>3. F.factors[tail_factor_index(r)] \in Word BY <1>2, FactorWords
<1> QED BY <1>1, <1>3, SumWord DEF tail_u64

(* The switch on the tail.                                                 *)
LEMMA TailSame ==
  ASSUME conf.independent, arg \in Args, F \in FactorSet, NEW b \in Builds, NEW c \in Builds,
         i \in Nat, i <= 63, len \in 0 .. 15, NEW o \in Nat, o + len <= MaxLen,
         h[b] \in Word, h[b] = h[c]
  PROVE  tail_hash(b, o) = tail_hash(c, o) /\ tail_hash(b, o) \in Word
<1> DEFINE w == number(o, 8)
           f == F.factors[i]
<1>0. MaxLen \in Nat BY VMumAssumption
<1>1. o \in 0 .. MaxLen /\ i \in 0 .. 79 BY <1>0, SMT
<1>2. w \in Word /\ f \in Word /\ F.tail \in Word BY <1>1, NumberWord, FactorWords
<1>3. CASE len = 0
  <2>1. tail_hash(b, o) = h[b] /\ tail_hash(c, o) = h[c] BY <1>3, SMT DEF tail_hash
  <2> QED BY <2>1
<1>4. CASE len \in 1 .. 7
  <2> DEFINE t == tail_u64(o, len)
  <2>1. t \in Word BY <1>4, TailWord
  <2>2. /\ tail_hash(b, o) = bitxor(h[b], _vmum(b, t, F.tail))
        /\ tail_hash(c, o) = bitxor(h[c], _vmum(c, t, F.tail))
    BY <1>4, SMT DEF tail_hash
  <2> HIDE DEF t
  <2> QED BY <2>1, <2>2, <1>2, ProductWord, XorWord
<1>5. CASE len = 8
  <2> DEFINE t == (w + f) % W64
  <2>1. t \in Word
    <3>1. f \in Nat BY <1>2, Widths, SMT DEF Word
    <3> QED BY <3>1, <1>2, SumWord
  <2>2. /\ tail_hash(b, o) = bitxor(h[b], _vmum(b, t, f))
        /\ tail_hash(c, o) = bitxor(h[c], _vmum(c, t, f))
    BY <1>5, SMT DEF tail_hash
  <2> HIDE DEF t, f
  <2> QED BY <2>1, <2>2, <1>2, ProductWord, XorWord
<1>6. CASE len \in 9 .. 15
  <2> DEFINE t == bitxor(tail_u64(o + 8, len - 8), F.tail)
             p == _vmum_plus(w, f)
  <2>1. t \in Word /\ p \in Word
    <3>1. o + 8 \in Nat /\ len - 8 \in 1 .. 7 /\ o + 8 + (len - 8) <= MaxLen BY <1>6, <1>0, SMT
    <3>2. tail_u64(o + 8, len - 8) \in Word BY <3>1, TailWord
    <3> QED BY <3>2, <1>2, XorWord, MixWord
  <2>2. /\ tail_hash(b, o) = bitxor(h[b], _vmum(b, t, p))
        /\ tail_hash(c, o) = bitxor(h[c], _vmum(c, t, p))
    BY <1>6, SMT DEF tail_hash
  <2> HIDE DEF t, p
  <2> QED BY <2>1, <2>2, ProductWord, XorWord
<1>7. len = 0 \/ len \in 1 .. 7 \/ len = 8 \/ len \in 9 .. 15 BY SMT
<1> QED BY <1>3, <1>4, <1>5, <1>6, <1>7

-----------------------------------------------------------------------------
(* Calls and steps.                                                        *)

(* A call begins with the same state in all builds, and hashes one word to *)
(* the same hash.                                                          *)
LEMMA BCalls ==
  ASSUME BInv,
         \/ \E a \in Args : vmum_hash(a)
         \/ \E key \in Ints, seed \in Seeds : vmum_hash64(key, seed)
         \/ vmum_hash_randomize
  PROVE  BInv'
<1>1. 0 \in Word BY Widths, SMT DEF Word
<1>2. NoBlock \in [Builds -> [0 .. 3 -> Word]] /\ \A b, c \in Builds : NoBlock[b] = NoBlock[c]
  BY <1>1 DEF NoBlock
<1>3. ASSUME NEW a \in Args, vmum_hash(a) PROVE BInv'
  <2>1. a.len \in Nat /\ a.seed \in Word BY ArgTypes
  <2>2. (a.seed + a.len) % W64 \in Word BY <2>1, SumWord
  <2>3. h' = [b \in Builds |-> (a.seed + a.len) % W64] /\ blk' = NoBlock /\ F' = F
    BY <1>3 DEF vmum_hash
  <2> QED BY <1>2, <2>2, <2>3 DEF BInv, SameState
<1>4. ASSUME NEW key \in Ints, NEW seed \in Seeds, vmum_hash64(key, seed) PROVE BInv'
  <2>1. h' = [b \in Builds |-> vmum_hash_finish(b, vmum_hash_step(b, vmum_hash_init((seed + 8) % W64), key))]
    BY <1>4 DEF vmum_hash64
  <2>2. blk' = NoBlock /\ F' = F /\ conf' = conf BY <1>4 DEF vmum_hash64
  <2>3. key \in Word /\ seed \in Word BY VMumAssumption
  <2>4. F.hash_step \in Word /\ F.key_step \in Word BY FactorWords DEF BInv
  <2>5. (seed + 8) % W64 \in Word
    <3>1. 8 \in Nat BY SMT
    <3> QED BY <2>3, <3>1, SumWord
  <2> DEFINE s == (seed + 8) % W64
             x == bitxor(mul_int128(s, F.hash_step), mul_int128(key, F.key_step))
  <2> HIDE DEF s
  <2>6. ASSUME Agreeing' PROVE SameState'
    <3>1. conf.independent BY <2>2, <2>6 DEF Agreeing
    <3>2. s \in Word BY <2>5 DEF s
    <3>3. \A b \in Builds : vmum_hash_step(b, vmum_hash_init(s), key) = x
      BY <3>1, <3>2, <2>3, <2>4, ProductWord DEF vmum_hash_step, vmum_hash_init
    <3>4. x \in Word BY <3>1, <3>2, <2>3, <2>4, ProductWord, XorWord
    <3> HIDE DEF x
    <3>5. \A b \in Builds : vmum_hash_finish(b, x) = mul_int128(x, x) /\ mul_int128(x, x) \in Word
      BY <3>1, <3>4, ProductWord DEF vmum_hash_finish, _vmum_final
    <3>6. h' = [b \in Builds |-> mul_int128(x, x)] BY <2>1, <3>3, <3>5 DEF s
    <3>7. h' \in [Builds -> Word] /\ \A b, c \in Builds : h'[b] = h'[c] BY <3>5, <3>6
    <3> QED BY <1>2, <2>2, <3>7 DEF SameState
  <2> QED BY <2>2, <2>6 DEF BInv
<1>5. ASSUME vmum_hash_randomize PROVE BInv'
  <2>1. F' \in FactorSet BY <1>5, VMumAssumption DEF vmum_hash_randomize
  <2>2. h' = Zero /\ blk' = NoBlock BY <1>5 DEF vmum_hash_randomize
  <2> QED BY <1>1, <1>2, <2>1, <2>2 DEF BInv, SameState, Zero
<1> QED BY <1>3, <1>4, <1>5

(* Each step of vmum_hash does the same in all builds.                     *)
LEMMA BCode ==
  ASSUME WInv, BInv, Code
  PROVE  BInv'
<1>0. F \in FactorSet BY DEF BInv
<1>1. F' = F /\ conf' = conf
  BY DEF Code, default_block, hash_final, aligned_start, block_step, blocks_done, words_step,
         pair_step, tail_step
<1>2. clash => clash'
  BY DEF Code, default_block, hash_final, aligned_start, block_step, blocks_done, words_step,
         pair_step, tail_step, history
<1> SUFFICES ASSUME Agreeing' PROVE SameState' BY <1>0, <1>1 DEF BInv
<1>3. Agreeing /\ conf.independent BY <1>1, <1>2 DEF Agreeing
<1>4. /\ h \in [Builds -> Word] /\ blk \in [Builds -> [0 .. 3 -> Word]]
      /\ \A b, c \in Builds : h[b] = h[c] /\ blk[b] = blk[c]
  BY <1>3 DEF BInv, SameState
<1>5. MaxLen \in Nat BY VMumAssumption
<1>6. CASE default_block BY <1>4, <1>6 DEF default_block, SameState
<1>7. CASE hash_final
  <2>1. h' = [b \in Builds |-> _vmum(b, h[b], h[b])] /\ blk' = blk
    BY <1>7 DEF hash_final, _vmum_final
  <2>2. \A b \in Builds : _vmum(b, h[b], h[b]) = mul_int128(h[b], h[b]) /\ mul_int128(h[b], h[b]) \in Word
    BY <1>3, <1>4, ProductWord
  <2> QED BY <1>4, <2>1, <2>2 DEF SameState
<1>8. CASE aligned_start
  <2>1. h' = [b \in Builds |-> _vmum(b, h[b], F.block_start)] /\ blk' = NoBlock
    BY <1>8 DEF aligned_start
  <2>2. F.block_start \in Word BY <1>0, FactorWords
  <2>3. \A b \in Builds : /\ _vmum(b, h[b], F.block_start) = mul_int128(h[b], F.block_start)
                          /\ mul_int128(h[b], F.block_start) \in Word
    BY <1>3, <1>4, <2>2, ProductWord
  <2>4. 0 \in Word BY Widths, SMT DEF Word
  <2> QED BY <1>4, <2>1, <2>3, <2>4 DEF SameState, NoBlock
<1>9. CASE block_step
  <2>1. arg \in Args /\ str \in Nat /\ str + 512 <= arg.len
    BY <1>9, ArgTypes, SMT DEF block_step, WInv, BLOCK_BYTES
  <2>2. \A w \in 0 .. 63 : str + 8 * w \in 0 .. MaxLen BY <1>5, <2>1, ArgTypes, SMT
  <2>3. \A w \in 0 .. 63 : conf.v1 \/ bitxor(number(str + 8 * w, 8), F.factors[w]) # 0
    BY <1>1, <1>9 DEF block_step, Agreeing
  <2>4. \A b, c \in Builds, l \in 0 .. 3 : updated(b, l) = updated(c, l) /\ updated(b, l) \in Word
    <3> TAKE b, c \in Builds, l \in 0 .. 3
    <3>1. blk[b][l] \in Word /\ blk[b][l] = blk[c][l] BY <1>4
    <3>2. \A w \in 0 .. 63 : /\ str + 8 * w \in 0 .. MaxLen
                             /\ conf.v1 \/ bitxor(number(str + 8 * w, 8), F.factors[w]) # 0
      BY <2>2, <2>3
    <3> QED BY <1>0, <2>1, <3>1, <3>2, LaneUpdated
  <2>5. \A l \in 0 .. 3 : F.unroll[l] \in Word BY <1>0, FactorWords
  <2>6. \A b, c \in Builds, l \in 0 .. 3 :
          /\ lane_mul(b, updated(b, l), F.unroll[l]) = lane_mul(c, updated(c, l), F.unroll[l])
          /\ lane_mul(b, updated(b, l), F.unroll[l]) \in Word
    BY <2>4, <2>5, LaneProduct
  <2>7. /\ blk' = [b \in Builds |-> [l \in 0 .. 3 |-> lane_mul(b, updated(b, l), F.unroll[l])]]
        /\ h' = h
    BY <1>9 DEF block_step
  <2>8. blk' \in [Builds -> [0 .. 3 -> Word]] BY <2>6, <2>7
  <2>9. \A b, c \in Builds : blk'[b] = blk'[c] BY <2>6, <2>7
  <2> QED BY <1>4, <2>7, <2>8, <2>9 DEF SameState
<1>10. CASE blocks_done
  <2>1. h' = [b \in Builds |-> (h[b] + _vmum_fold_block(blk[b])) % W64] /\ blk' = blk
    BY <1>10 DEF blocks_done
  <2>2. ASSUME NEW b \in Builds PROVE (h[b] + _vmum_fold_block(blk[b])) % W64 \in Word
    <3>1. \A l \in {0, 1, 2, 3} : l \in 0 .. 3 BY SMT
    <3>2. \A l \in {0, 1, 2, 3} : blk[b][l] \in Word BY <1>4, <3>1
    <3>3. _vmum_fold_block(blk[b]) \in Word BY <3>2, XorWord DEF _vmum_fold_block
    <3>4. _vmum_fold_block(blk[b]) \in Nat BY <3>3, Widths, SMT DEF Word
    <3> QED BY <1>4, <3>4, SumWord
  <2> QED BY <1>4, <2>1, <2>2 DEF SameState
<1>11. CASE words_step
  <2>1. arg \in Args /\ str \in Nat /\ i \in Nat /\ i <= 63 /\ str + 8 * i + 128 <= arg.len
    BY <1>11, ArgTypes, SMT DEF words_step, WInv, WORDS_BYTES, BLOCK_BYTES
  <2>2. str + 8 * (i + 15) \in 0 .. MaxLen BY <1>5, <2>1, ArgTypes, SMT
  <2>3. \A b, c \in Builds : mixed(b) = mixed(c) /\ mixed(b) \in Word
    BY <1>0, <1>3, <1>4, <2>1, <2>2, MixedSame
  <2>4. h' = [b \in Builds |-> mixed(b)] /\ blk' = blk BY <1>11 DEF words_step
  <2> QED BY <1>4, <2>3, <2>4 DEF SameState
<1>12. CASE pair_step
  <2>1. arg \in Args /\ str \in Nat /\ i \in Nat /\ i <= 63 /\ str + 8 * i + 16 <= arg.len
    BY <1>12, ArgTypes, SMT DEF pair_step, WInv, BLOCK_BYTES
  <2>2. /\ str + 8 * i \in 0 .. MaxLen /\ str + 8 * (i + 1) \in 0 .. MaxLen
        /\ i \in 0 .. 79 /\ i + 1 \in 0 .. 79
    BY <1>5, <2>1, ArgTypes, SMT
  <2> DEFINE v == _vmum_plus(word(i), F.factors[i])
             p == _vmum_plus(word(i + 1), F.factors[i + 1])
  <2>3. v \in Word /\ p \in Word
    <3>1. word(i) \in Word /\ word(i + 1) \in Word BY <2>1, <2>2, NumberWord DEF word
    <3>2. F.factors[i] \in Word /\ F.factors[i + 1] \in Word BY <1>0, <2>2, FactorWords
    <3> QED BY <3>1, <3>2, MixWord
  <2>4. h' = [b \in Builds |-> bitxor(h[b], _vmum(b, v, p))] /\ blk' = blk BY <1>12 DEF pair_step
  <2> HIDE DEF v, p
  <2>5. \A b \in Builds : bitxor(h[b], _vmum(b, v, p)) = bitxor(h[b], mul_int128(v, p))
    BY <1>3, <2>3, ProductWord
  <2>6. \A b \in Builds : bitxor(h[b], mul_int128(v, p)) \in Word
    BY <1>3, <1>4, <2>3, ProductWord, XorWord
  <2> QED BY <1>4, <2>4, <2>5, <2>6 DEF SameState
<1>13. CASE tail_step
  <2> DEFINE o == str + 8 * i
  <2>1. arg \in Args /\ o \in Nat /\ i \in Nat /\ i <= 63 /\ len \in 0 .. 15 /\ o + len <= MaxLen
    BY <1>5, <1>13, ArgTypes, SMT DEF tail_step, WInv, BLOCK_BYTES
  <2>2. h' = [b \in Builds |-> tail_hash(b, o)] /\ blk' = blk BY <1>13 DEF tail_step
  <2> HIDE DEF o
  <2>3. \A b, c \in Builds : tail_hash(b, o) = tail_hash(c, o) /\ tail_hash(b, o) \in Word
    BY <1>0, <1>3, <1>4, <2>1, TailSame
  <2> QED BY <1>4, <2>2, <2>3 DEF SameState
<1> QED BY <1>6, <1>7, <1>8, <1>9, <1>10, <1>11, <1>12, <1>13 DEF Code

(* With VMUM_TARGET_INDEPENDENT_HASH every build has the same hash of every *)
(* key, with or without a 128-bit product and vectors, unless a word of a  *)
(* block is equal to its factor and VMUM_V1 is not defined.                *)
THEOREM SameOnAllBuilds == Spec => []BuildsAgree
<1>1. Init => BInv
  <2> SUFFICES ASSUME Init PROVE BInv OBVIOUS
  <2>1. 0 \in Word BY Widths, SMT DEF Word
  <2> QED BY <2>1, VMumAssumption DEF Init, BInv, SameState, Zero, NoBlock
<1>2. WInv /\ BInv /\ [Next]_vars => BInv'
  <2> SUFFICES ASSUME WInv, BInv, [Next]_vars PROVE BInv' OBVIOUS
  <2>1. CASE Next BY <2>1, BCalls, BCode DEF Next
  <2>2. CASE UNCHANGED vars BY <2>2 DEF vars, BInv, SameState, Agreeing
  <2> QED BY <2>1, <2>2
<1>3. BInv => BuildsAgree BY DEF BInv, BuildsAgree, SameState, Agreeing
<1> QED BY <1>1, <1>2, <1>3, Walk, PTL DEF Spec

=============================================================================
