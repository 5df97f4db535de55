-------------------------------- MODULE VMum ---------------------------------
(***************************************************************************)
(* vmum.h, the hash functions of the benchmarks: vmum_hash64 for one word  *)
(* and vmum_hash for len bytes in memory.  The header is compiled into     *)
(* many different programs.  They run here side by side on the same call:  *)
(* Builds differ in how they multiply and whether they have vectors, conf  *)
(* has what the user chooses by macros.                                    *)
(*                                                                         *)
(* A byte has BYTE values, and a word is 8 bytes whatever BYTE is, so that *)
(* all lengths and offsets are the code's.  The key is read as numbers of  *)
(* 1, 2, 4 or 8 bytes; on a big-endian target without the swap of _vmum_le *)
(* these are others, which is not modelled.                                *)
(*                                                                         *)
(* pc  "idle"     no call is running                                       *)
(*     "default"  in the loop of _vmum_hash_default, or before the final   *)
(*                randomization                                            *)
(*     "aligned"  on entry of _vmum_hash_aligned                           *)
(*     "blocks"   in its loop over blocks of vectors                       *)
(*     "words"    after that: 16 words, pairs of words, the rest           *)
(***************************************************************************)
EXTENDS Integers

CONSTANTS
  BYTE,             \* 256
  BitXor,             \* a ^ b is BitXor[<<a, b>>]
  MaxLen,             \* bound: the greatest length
  Mem,                \* Mem[key][o]: the 8 bytes of a key from offset o on
  Keys, Lens, Seeds,  \* what vmum_hash is called with
  Ints,               \* what vmum_hash64 is called with
  FactorSets,         \* the factors there can be
  Builds,             \* of [int128, vector : BOOLEAN]
  Configs             \* of [independent, v1, unaligned_access : BOOLEAN]

W16  == BYTE * BYTE
W32  == W16 * W16
W64  == W32 * W32
Word == 0 .. W64 - 1

NumFactors == 80
FactorSet ==
  [ hash_step : Word, key_step : Word, block_start : Word, tail : Word,
    unroll : [0 .. 3 -> Word], factors : [0 .. NumFactors - 1 -> Word] ]

ASSUME VMumAssumption ==
  /\ BYTE \in Nat \ {0, 1}
  /\ BitXor \in [Word \X Word -> Word]
  /\ Mem \in [Keys -> [0 .. MaxLen -> Word]]
  /\ MaxLen \in Nat /\ Lens \subseteq 0 .. MaxLen /\ Seeds \subseteq Word /\ Ints \subseteq Word
  /\ FactorSets \subseteq FactorSet
  /\ Builds \subseteq [int128 : BOOLEAN, vector : BOOLEAN]
  /\ Configs \subseteq [independent : BOOLEAN, v1 : BOOLEAN, unaligned_access : BOOLEAN]

VARIABLES
  conf,       \* the macros the header was compiled with
  F,          \* the static variables with the factors
  pc, arg,    \* where the running call is, and its arguments
  str, len,   \* what _vmum_hash_aligned has still to hash
  i,          \* its index of words after str, and of factors
  rest,       \* len of _vmum_hash_default, without the block being hashed
  h,          \* result and state, for each build
  blk,        \* block_state, for each build
  reads,      \* history: offsets of the bytes this call has read
  reread,     \* history: whether it read one twice
  factors,    \* history: factors used since the state was last randomized
  reused,     \* history: whether one was used for two words
  clash,      \* history: whether a word of a block was equal to its factor
  prev, last  \* history: arguments and results of the last two calls

position == <<str, len, i, rest>>
history  == <<reads, reread, factors, reused, clash>>
vars     == <<conf, F, pc, arg, str, len, i, rest, h, blk,
              reads, reread, factors, reused, clash, prev, last>>

NoCall == [fn |-> "none"]
Args   == [fn : {"vmum_hash"}, key : Keys, len : Lens, seed : Seeds, aligned : BOOLEAN]

Zero == [b \in Builds |-> 0]
NoBlock == [b \in Builds |-> [l \in 0 .. 3 |-> 0]]

Init ==
  /\ conf \in Configs /\ F \in FactorSets
  /\ pc = "idle" /\ arg = NoCall /\ h = Zero /\ blk = NoBlock
  /\ str = 0 /\ len = 0 /\ i = 0 /\ rest = 0
  /\ reads = {} /\ reread = FALSE /\ factors = {} /\ reused = FALSE /\ clash = FALSE
  /\ prev = NoCall /\ last = NoCall

-----------------------------------------------------------------------------
(* The number that n bytes of the key are, from offset o on: the target is *)
(* little-endian, or _vmum_le, _vmum_le32 and _vmum_le16 swap the bytes.   *)
values == [n \in {1, 2, 4, 8} |-> CASE n = 1 -> BYTE [] n = 2 -> W16 [] n = 4 -> W32 [] n = 8 -> W64]
number(o, n) == Mem[arg.key][o] % values[n]

bitxor(a, c) == BitXor[<<a, c>>]

(* _vmum: the high and the low half of a product, added.                   *)

lo32(v) == v % W32
hi32(v) == v \div W32

mul_int128(v, p) == (((v * p) \div W64) + ((v * p) % W64)) % W64

(* Mutant: the carry of the first addition is overwritten.                 *)
mul_portable_one_carry(v, p) ==
  LET rm_0  == hi32(v) * lo32(p)
      rm_1  == hi32(p) * lo32(v)
      rl    == lo32(v) * lo32(p)
      t     == (rl + ((rm_0 * W32) % W64)) % W64
      lo    == (t + ((rm_1 * W32) % W64)) % W64
      carry == IF conf.independent /\ lo < t THEN 1 ELSE 0
      hi    == (hi32(v) * hi32(p) + (rm_0 \div W32) + (rm_1 \div W32) + carry) % W64
  IN  (hi + lo) % W64

(* By four multiplications of half words; the carries are only computed if *)
(* VMUM_TARGET_INDEPENDENT_HASH is defined.                                *)
mul_portable(v, p) ==
  LET rm_0  == hi32(v) * lo32(p)
      rm_1  == hi32(p) * lo32(v)
      rl    == lo32(v) * lo32(p)
      t     == (rl + ((rm_0 * W32) % W64)) % W64
      lo    == (t + ((rm_1 * W32) % W64)) % W64
      carry == IF conf.independent
               THEN (IF t < rl THEN 1 ELSE 0) + (IF lo < t THEN 1 ELSE 0)
               ELSE 0
      hi    == (hi32(v) * hi32(p) + (rm_0 \div W32) + (rm_1 \div W32) + carry) % W64
  IN  (hi + lo) % W64

_vmum(b, v, p) == IF b.int128 THEN mul_int128(v, p) ELSE mul_portable(v, p)

_vmum_final(b, v) == _vmum(b, v, v)

(* Unless VMUM_V1 is defined, no factor is ever multiplied by 0.           *)
_vmum_xor(v, f)  == IF conf.v1 \/ bitxor(v, f) # 0 THEN bitxor(v, f) ELSE f
_vmum_plus(v, f) == IF conf.v1 \/ (v + f) % W64 # 0 THEN (v + f) % W64 ELSE f

-----------------------------------------------------------------------------
(* The multiplication of blocks, in one 64-bit lane: half words by half    *)
(* words.  AVX2 shifts signed words, so a high half may be sign-extended.  *)

_vmum_val(v, p) == (lo32(v) * lo32(p) + hi32(v) * hi32(p)) % W64

_vmum_block(v, p) ==
  LET sar32(x) == hi32(x) + (IF 2 * x >= W64 THEN W64 - W32 ELSE 0)
  IN  (lo32(v) * lo32(p) + lo32(sar32(v)) * lo32(sar32(p))) % W64

_vmum_nonzero(v) == IF conf.v1 \/ v # 0 THEN v ELSE W64 - 1

lane_mul(b, v, p) == IF b.vector THEN _vmum_block(v, p) ELSE _vmum_val(v, p)

(* Word w of the block at str, mixed with its factor.                      *)
lane_word(b, w) ==
  LET v == number(str + 8 * w, 8)
      f == F.factors[w]
  IN  IF b.vector THEN _vmum_nonzero(bitxor(v, f)) ELSE _vmum_xor(v, f)

(* _vmum_update_block on lane l of the pair q of vectors, and on all 8.    *)
update_lane(b, l, q, s) ==
  bitxor(s, lane_mul(b, lane_word(b, 8 * q + l), lane_word(b, 8 * q + 4 + l)))
updated(b, l) ==
  LET s(q, v) == update_lane(b, l, q, v)
  IN  s(7, s(6, s(5, s(4, s(3, s(2, s(1, s(0, blk[b][l]))))))))

_vmum_fold_block(s) == bitxor(bitxor(bitxor(s[0], s[1]), s[2]), s[3])

-----------------------------------------------------------------------------
(* Bytes that a step reads, and factors that it uses.                      *)

Span(o, n) == o .. o + n - 1

read(S) == reads' = reads \cup S /\ reread' = (reread \/ reads \cap S # {})
use(S, T) ==
  /\ factors' = factors \cup S \cup T
  /\ reused' = (reused \/ factors \cap (S \cup T) # {} \/ S \cap T # {})

-----------------------------------------------------------------------------
(* The calls.                                                              *)

(* Bound: the caller hashes a key once or twice, then maybe another.       *)
Content(a) == <<a.key, a.len, a.seed>>
Repeats(a) == last # NoCall /\ prev = NoCall => Content(a) = Content(last.arg)

(* Mutant: the length does not go into the hash of an unaligned key.       *)
vmum_hash_bare_seed(a) ==
  LET whole == conf.unaligned_access \/ a.aligned
  IN  /\ pc = "idle" /\ Repeats(a)
      /\ arg' = a /\ h' = [b \in Builds |-> (IF whole THEN a.seed + a.len ELSE a.seed) % W64]
      /\ blk' = NoBlock /\ i' = 0 /\ str' = 0
      /\ pc' = (IF whole THEN "aligned" ELSE "default")
      /\ len' = (IF whole THEN a.len ELSE 0) /\ rest' = (IF whole THEN 0 ELSE a.len)
      /\ prev' = (IF prev = NoCall THEN last ELSE NoCall) /\ last' = NoCall
      /\ reads' = {} /\ reread' = FALSE /\ factors' = {} /\ reused' = FALSE /\ clash' = FALSE
      /\ UNCHANGED <<conf, F>>

vmum_hash(a) ==
  /\ pc = "idle" /\ Repeats(a)
  /\ arg' = a /\ h' = [b \in Builds |-> (a.seed + a.len) % W64]
  /\ blk' = NoBlock /\ i' = 0 /\ str' = 0
  /\ IF conf.unaligned_access \/ a.aligned
     THEN pc' = "aligned" /\ len' = a.len /\ rest' = 0
     ELSE pc' = "default" /\ len' = 0 /\ rest' = a.len
  /\ prev' = (IF prev = NoCall THEN last ELSE NoCall) /\ last' = NoCall
  /\ reads' = {} /\ reread' = FALSE /\ factors' = {} /\ reused' = FALSE /\ clash' = FALSE
  /\ UNCHANGED <<conf, F>>

BLOCK_LEN == 1024

(* Mutant: the loop does not stop when nothing is left.                    *)
default_block_always ==
  LET block_len == IF rest < BLOCK_LEN THEN rest ELSE BLOCK_LEN
  IN  /\ pc = "default"
      /\ pc' = "aligned" /\ len' = block_len /\ rest' = rest - block_len /\ i' = 0
      /\ UNCHANGED <<conf, F, arg, str, h, blk, history, prev, last>>

(* memmove to buf, and the call of _vmum_hash_aligned.                     *)
default_block ==
  LET block_len == IF rest < BLOCK_LEN THEN rest ELSE BLOCK_LEN
  IN  /\ pc = "default" /\ rest # 0
      /\ pc' = "aligned" /\ len' = block_len /\ rest' = rest - block_len /\ i' = 0
      /\ UNCHANGED <<conf, F, arg, str, h, blk, history, prev, last>>

hash_final ==
  /\ pc = "default" /\ rest = 0
  /\ pc' = "idle" /\ h' = [b \in Builds |-> _vmum_final(b, h[b])]
  /\ last' = [fn |-> "vmum_hash", arg |-> arg, h |-> h']
  /\ UNCHANGED <<conf, F, arg, position, blk, history, prev>>

(* A word: init, one step and finish.                                      *)
vmum_hash_init(seed)       == seed
vmum_hash_step(b, v, key)  == bitxor(_vmum(b, v, F.hash_step), _vmum(b, key, F.key_step))
vmum_hash_finish(b, v)     == _vmum_final(b, v)

vmum_hash64(key, seed) ==
  /\ pc = "idle"
  /\ arg' = [fn |-> "vmum_hash64", key |-> key, seed |-> seed]
  /\ h' = [b \in Builds |->
             vmum_hash_finish(b, vmum_hash_step(b, vmum_hash_init((seed + 8) % W64), key))]
  /\ prev' = NoCall /\ last' = NoCall
  /\ str' = 0 /\ len' = 0 /\ i' = 0 /\ rest' = 0 /\ blk' = NoBlock
  /\ reads' = {} /\ reread' = FALSE /\ factors' = {} /\ reused' = FALSE /\ clash' = FALSE
  /\ UNCHANGED <<conf, F, pc>>

(* New factors, by rand.  The hashes before and after have nothing in      *)
(* common.                                                                 *)
vmum_hash_randomize ==
  /\ pc = "idle" /\ F' \in FactorSets
  /\ prev' = NoCall /\ last' = NoCall /\ arg' = NoCall /\ h' = Zero
  /\ str' = 0 /\ len' = 0 /\ i' = 0 /\ rest' = 0 /\ blk' = NoBlock
  /\ reads' = {} /\ reread' = FALSE /\ factors' = {} /\ reused' = FALSE /\ clash' = FALSE
  /\ UNCHANGED <<conf, pc>>

-----------------------------------------------------------------------------
(* _vmum_hash_aligned.                                                     *)

BLOCK_BYTES == 512  \* _VMUM_UNROLL_BLOCK_FACTOR * sizeof (_vmum_block_t)
WORDS_BYTES == 128  \* _VMUM_UNROLL_FACTOR * sizeof (uint64_t)

aligned_start ==
  /\ pc = "aligned"
  /\ h' = [b \in Builds |-> _vmum(b, h[b], F.block_start)]
  /\ blk' = NoBlock /\ i' = 0
  /\ pc' = IF len >= BLOCK_BYTES THEN "blocks" ELSE "words"
  /\ factors' = {}
  /\ UNCHANGED <<conf, F, arg, str, len, rest, reads, reread, reused, clash, prev, last>>

(* Mutant: str stays at the first block.                                   *)
block_step_str_kept ==
  /\ pc = "blocks" /\ len >= BLOCK_BYTES
  /\ blk' = [b \in Builds |-> [l \in 0 .. 3 |-> lane_mul(b, updated(b, l), F.unroll[l])]]
  /\ clash' = (clash \/ \E w \in 0 .. 63 : bitxor(number(str + 8 * w, 8), F.factors[w]) = 0)
  /\ read(Span(str, BLOCK_BYTES))
  /\ len' = len - BLOCK_BYTES
  /\ UNCHANGED <<conf, F, pc, arg, str, i, rest, h, factors, reused, prev, last>>

(* All 64 words of a block; _vmum_factor_block randomizes block_state.     *)
block_step ==
  /\ pc = "blocks" /\ len >= BLOCK_BYTES
  /\ blk' = [b \in Builds |-> [l \in 0 .. 3 |-> lane_mul(b, updated(b, l), F.unroll[l])]]
  /\ clash' = (clash \/ \E w \in 0 .. 63 : bitxor(number(str + 8 * w, 8), F.factors[w]) = 0)
  /\ read(Span(str, BLOCK_BYTES))
  /\ len' = len - BLOCK_BYTES /\ str' = str + BLOCK_BYTES
  /\ UNCHANGED <<conf, F, pc, arg, i, rest, h, factors, reused, prev, last>>

blocks_done ==
  /\ pc = "blocks" /\ len < BLOCK_BYTES
  /\ pc' = "words" /\ h' = [b \in Builds |-> (h[b] + _vmum_fold_block(blk[b])) % W64]
  /\ UNCHANGED <<conf, F, arg, position, blk, history, prev, last>>

word(j) == number(str + 8 * j, 8)

(* The pair of words from j on, and the 8 pairs from i on.                 *)
mix_pair(b, j, s) ==
  bitxor(s, _vmum(b, _vmum_xor(word(j), F.factors[j]), _vmum_xor(word(j + 1), F.factors[j + 1])))
mixed(b) ==
  LET s(q, v) == mix_pair(b, i + 2 * q, v)
  IN  s(7, s(6, s(5, s(4, s(3, s(2, s(1, s(0, h[b]))))))))

words_step ==
  /\ pc = "words" /\ len >= WORDS_BYTES
  /\ h' = [b \in Builds |-> mixed(b)]
  /\ read(Span(str + 8 * i, WORDS_BYTES)) /\ use(Span(i, 16), {})
  /\ i' = i + 16 /\ len' = len - WORDS_BYTES
  /\ UNCHANGED <<conf, F, pc, arg, str, rest, blk, clash, prev, last>>

(* Mutant: an odd number of words is not rounded down.                     *)
pair_step_unrounded ==
  /\ pc = "words" /\ len < WORDS_BYTES /\ len >= 8
  /\ h' = [b \in Builds |-> bitxor(h[b], _vmum(b, _vmum_plus(word(i), F.factors[i]),
                                               _vmum_plus(word(i + 1), F.factors[i + 1])))]
  /\ read(Span(str + 8 * i, 16)) /\ use(Span(i, 2), {})
  /\ i' = i + 2 /\ len' = IF len >= 16 THEN len - 16 ELSE len - 8
  /\ UNCHANGED <<conf, F, pc, arg, str, rest, blk, clash, prev, last>>

(* One of the pairs there are in len / sizeof (uint64_t) & ~1 words.       *)
pair_step ==
  /\ pc = "words" /\ len < WORDS_BYTES /\ len >= 16
  /\ h' = [b \in Builds |-> bitxor(h[b], _vmum(b, _vmum_plus(word(i), F.factors[i]),
                                               _vmum_plus(word(i + 1), F.factors[i + 1])))]
  /\ read(Span(str + 8 * i, 16)) /\ use(Span(i, 2), {})
  /\ i' = i + 2 /\ len' = len - 16
  /\ UNCHANGED <<conf, F, pc, arg, str, rest, blk, clash, prev, last>>

(* r bytes, 1 to 7, from o on: read as 4, 2 and 1 as the bits of r say,    *)
(* and put together by shifts of 0, 2, 4 or 6 bytes.                       *)
shift == [n \in {0, 2, 4, 6} |-> CASE n = 0 -> 1 [] n = 2 -> W16 [] n = 4 -> W32 [] n = 6 -> W32 * W16]

tail_reads(o, r) ==
  LET r4 == 4 * (r \div 4)
      r2 == 2 * (r \div 2)
  IN  Span(o, r4) \cup Span(o + r4, r2 - r4) \cup Span(o + r2, r - r2)

tail_number(o, r) ==
  LET r4 == 4 * (r \div 4)
      r2 == 2 * (r \div 2)
  IN    (IF r4 > 0 THEN number(o, 4) ELSE 0)
      + (IF r2 > r4 THEN number(o + r4, 2) * shift[r4] ELSE 0)
      + (IF r > r2 THEN number(o + r2, 1) * shift[r2] ELSE 0)

(* Mutant: one too low, so that 7 bytes get the factor of the word before. *)
tail_factor_index_low(r) == i + 7 - r

tail_factor_index(r) == i + 8 - r

tail_u64(o, r) == (F.factors[tail_factor_index(r)] + tail_number(o, r)) % W64

(* The switch on what is left, at o.  The tail of 9 to 15 bytes is a word  *)
(* and 1 to 7 bytes.                                                       *)
tail_hash(b, o) ==
  LET w == number(o, 8)
      f == F.factors[i]
  IN  CASE len = 0        -> h[b]
        [] len \in 1 .. 7 -> bitxor(h[b], _vmum(b, tail_u64(o, len), F.tail))
        [] len = 8        -> bitxor(h[b], _vmum(b, (w + f) % W64, f))
        [] len > 8        -> bitxor(h[b], _vmum(b, bitxor(tail_u64(o + 8, len - 8), F.tail), _vmum_plus(w, f)))

tail_step ==
  LET o == str + 8 * i
      r == len % 8
      W == IF len >= 8 THEN 1 ELSE 0
      R == IF r > 0 THEN {tail_factor_index(r)} ELSE {}
  IN  /\ pc = "words" /\ len < 16
      /\ h' = [b \in Builds |-> tail_hash(b, o)]
      /\ read(Span(o, 8 * W) \cup tail_reads(o + 8 * W, r))
      /\ use(Span(i, W), R)
      /\ pc' = "default" /\ str' = o + len /\ len' = 0 /\ i' = 0
      /\ UNCHANGED <<conf, F, arg, rest, blk, clash, prev, last>>

Code ==
  \/ default_block \/ hash_final
  \/ aligned_start \/ block_step \/ blocks_done \/ words_step \/ pair_step \/ tail_step

Next ==
  \/ \E a \in Args : vmum_hash(a)
  \/ \E key \in Ints, seed \in Seeds : vmum_hash64(key, seed)
  \/ vmum_hash_randomize
  \/ Code

Spec == Init /\ [][Next]_vars

(* A running call is never suspended.                                      *)
FairSpec == Spec /\ WF_vars(Code)

-----------------------------------------------------------------------------
(* Properties.                                                             *)

Total == IF arg.fn = "vmum_hash" THEN arg.len ELSE 0

(* vmum_hash reads no byte outside the key, on any path and in any tail.   *)
ReadsInside == reads \subseteq Span(0, Total)

(* When it returns every byte has gone into the hash, none of them twice.  *)
EveryByteOnce == ~reread /\ (pc = "idle" => reads = Span(0, Total))

(* "Here we have enough factors to do hashing w/o state randominzation":   *)
(* after the blocks each word has a factor of its own, one of those there  *)
(* are.                                                                    *)
FactorsFresh == ~reused /\ factors \subseteq 0 .. NumFactors - 1

(* With VMUM_TARGET_INDEPENDENT_HASH all builds have the same hash: the    *)
(* carries of the portable product are right, and vectors do what the      *)
(* scalar code does, except where a word is equal to its factor.           *)
BuildsAgree ==
  conf.independent /\ (clash => conf.v1) => \A b, c \in Builds : h[b] = h[c]

(* The hash of a key depends on what the key holds and not on where it is: *)
(* on targets that need aligned access only for keys of one byte up to the *)
(* length of the buffer that unaligned keys are copied to.                 *)
SameKeySameHash ==
  prev # NoCall /\ last # NoCall =>
    \/ prev.h = last.h
    \/ /\ ~conf.unaligned_access /\ prev.arg.aligned # last.arg.aligned
       /\ last.arg.len \notin 1 .. BLOCK_LEN

(* vmum_hash64: "The hash is always the same for the same key on any       *)
(* target."                                                                *)
Hash64AnyTarget ==
  arg.fn = "vmum_hash64" => \A b, c \in Builds : h[b] = h[c]

(* Every call returns.                                                     *)
HashReturns == (pc # "idle") ~> (pc = "idle")

=============================================================================
