------------------------------- MODULE VMumWalk ------------------------------
(***************************************************************************)
(* How vmum_hash walks over a key, for every length and every address:     *)
(* what _vmum_hash_aligned has read is always a prefix of the key, and its *)
(* index of factors is always within the table.                            *)
(***************************************************************************)
EXTENDS VMum, TLAPS

(* The bytes read are those before str + 8 * i, and the rest of the key is *)
(* what len and rest count.  After the blocks i words have used i factors, *)
(* and less than a block is left of where they began.                      *)
WInv ==
  /\ str \in Nat /\ len \in Nat /\ i \in Nat /\ rest \in Nat
  /\ pc \in {"idle", "default", "aligned", "blocks", "words"}
  /\ ~reread /\ ~reused /\ factors \subseteq 0 .. NumFactors - 1
  /\ pc = "idle" => reads = Span(0, Total)
  /\ pc # "idle" =>
       arg \in Args /\ reads = Span(0, str + 8 * i) /\ str + 8 * i + len + rest = arg.len
  /\ pc = "default" => len = 0 /\ i = 0
  /\ pc = "aligned" => i = 0
  /\ pc = "blocks" => i = 0 /\ factors = {}
  /\ pc = "words" => factors = Span(0, i) /\ 8 * i + len < BLOCK_BYTES

(* The reads of 4, 2 and 1 bytes of a tail are its bytes, each once.       *)
LEMMA TailReads ==
  ASSUME NEW o \in Nat, NEW r \in 0 .. 7
  PROVE  tail_reads(o, r) = Span(o, r)
<1>1. CASE r \in 0 .. 3 BY <1>1, SMT DEF tail_reads, Span
<1>2. CASE r \in 4 .. 7 BY <1>2, SMT DEF tail_reads, Span
<1> QED BY <1>1, <1>2, SMT

(* A prefix and what follows it are a longer prefix, and have nothing in   *)
(* common.                                                                 *)
LEMMA Prefix ==
  ASSUME NEW n \in Nat, NEW k \in Nat
  PROVE  Span(0, n) \cup Span(n, k) = Span(0, n + k) /\ Span(0, n) \cap Span(n, k) = {}
BY SMT DEF Span

(* What the arguments of vmum_hash are.                                    *)
LEMMA ArgTypes ==
  ASSUME NEW a \in Args
  PROVE  a.fn = "vmum_hash" /\ a.len \in Nat /\ a.len <= MaxLen /\ a.key \in Keys /\ a.seed \in Word
<1>1. a.fn = "vmum_hash" /\ a.len \in Lens /\ a.key \in Keys /\ a.seed \in Seeds BY DEF Args
<1>2. Lens \subseteq 0 .. MaxLen /\ MaxLen \in Nat /\ Seeds \subseteq Word BY VMumAssumption
<1>3. a.len \in 0 .. MaxLen /\ a.seed \in Word BY <1>1, <1>2
<1> QED BY <1>1, <1>2, <1>3, SMT

(* At first nothing has been read.                                         *)
LEMMA WInit == Init => WInv
<1> SUFFICES ASSUME Init PROVE WInv OBVIOUS
<1>1. Total = 0 BY DEF Init, Total, NoCall
<1> QED BY <1>1, SMT DEF Init, WInv, Span

(* A call starts at the key's first byte; hashing a word reads no memory.  *)
LEMMA WCalls ==
  ASSUME WInv,
         \/ \E a \in Args : vmum_hash(a)
         \/ \E key \in Ints, seed \in Seeds : vmum_hash64(key, seed)
         \/ vmum_hash_randomize
  PROVE  WInv'
<1>1. ASSUME NEW a \in Args, vmum_hash(a) PROVE WInv'
  <2>1. a.len \in Nat /\ arg' = a BY <1>1, ArgTypes DEF vmum_hash
  <2>2. /\ i' = 0 /\ str' = 0 /\ reads' = {} /\ ~reread' /\ factors' = {} /\ ~reused'
        /\ \/ pc' = "aligned" /\ len' = a.len /\ rest' = 0
           \/ pc' = "default" /\ len' = 0 /\ rest' = a.len
    BY <1>1 DEF vmum_hash
  <2>3. Span(0, str' + 8 * i') = {} /\ str' + 8 * i' + len' + rest' = arg'.len
    BY <2>1, <2>2, SMT DEF Span
  <2>4. str' \in Nat /\ len' \in Nat /\ i' \in Nat /\ rest' \in Nat BY <2>1, <2>2, SMT
  <2>5. pc' \in {"default", "aligned"} /\ (pc' = "default" => len' = 0) BY <2>2
  <2> QED BY <2>1, <2>2, <2>3, <2>4, <2>5 DEF WInv
<1>2. ASSUME NEW key \in Ints, NEW seed \in Seeds, vmum_hash64(key, seed) PROVE WInv'
  <2>1. Total' = 0 BY <1>2 DEF vmum_hash64, Total
  <2> QED BY <1>2, <2>1, SMT DEF vmum_hash64, WInv, Span
<1>3. ASSUME vmum_hash_randomize PROVE WInv'
  <2>1. Total' = 0 BY <1>3 DEF vmum_hash_randomize, Total, NoCall
  <2> QED BY <1>3, <2>1, SMT DEF vmum_hash_randomize, WInv, Span
<1> QED BY <1>1, <1>2, <1>3

(* Each step of vmum_hash reads the bytes that follow those it has read.   *)
LEMMA WCode ==
  ASSUME WInv, Code
  PROVE  WInv'
<1>1. CASE default_block BY <1>1, SMT DEF default_block, WInv, history, BLOCK_LEN
<1>2. CASE hash_final
  <2>1. arg \in Args /\ pc = "default" /\ rest = 0 BY <1>2 DEF hash_final, WInv
  <2>2. arg' = arg BY <1>2 DEF hash_final
  <2>3. Total' = arg.len BY <2>1, <2>2, ArgTypes DEF Total
  <2>4. str + 8 * i = arg.len BY <1>2, <2>1, ArgTypes, SMT DEF WInv
  <2>5. reads' = Span(0, Total') BY <1>2, <2>1, <2>3, <2>4 DEF hash_final, WInv, history
  <2>6. pc' = "idle" BY <1>2 DEF hash_final
  <2> QED BY <1>2, <2>5, <2>6 DEF hash_final, WInv, position, history
<1>3. CASE aligned_start BY <1>3, SMT DEF aligned_start, WInv, Span, BLOCK_BYTES
<1>4. CASE block_step
  <2>1. arg \in Args /\ pc = "blocks" /\ len >= 512 /\ i = 0 /\ reads = Span(0, str)
    BY <1>4, SMT DEF block_step, WInv, BLOCK_BYTES
  <2>2. reads' = Span(0, str + 512) /\ ~reread'
    <3>1. Span(0, str) \cup Span(str, 512) = Span(0, str + 512) /\ Span(0, str) \cap Span(str, 512) = {}
      <4>1. str \in Nat /\ 512 \in Nat BY SMT DEF WInv
      <4> QED BY <4>1, Prefix
    <3> QED BY <1>4, <2>1, <3>1 DEF block_step, read, WInv, BLOCK_BYTES
  <2>3. str' \in Nat /\ len' \in Nat /\ str' + 8 * i + len' + rest = arg.len /\ str' + 8 * i = str + 512
    BY <1>4, <2>1, SMT DEF block_step, WInv, BLOCK_BYTES
  <2>4. pc' = pc /\ arg' = arg /\ i' = i /\ rest' = rest /\ factors' = factors /\ reused' = reused
    BY <1>4 DEF block_step
  <2> QED BY <2>1, <2>2, <2>3, <2>4 DEF WInv
<1>5. CASE blocks_done
  BY <1>5, SMT DEF blocks_done, WInv, Span, position, history, BLOCK_BYTES
<1>6. CASE words_step
  <2>1. arg \in Args /\ pc = "words" /\ len >= 128 /\ reads = Span(0, str + 8 * i) /\ factors = Span(0, i)
    BY <1>6, SMT DEF words_step, WInv, WORDS_BYTES
  <2>2. str + 8 * i \in Nat /\ str + 8 * i + 128 = str + 8 * (i + 16) BY SMT DEF WInv
  <2>3. reads' = Span(0, str + 8 * (i + 16)) /\ ~reread'
    <3>1. /\ Span(0, str + 8 * i) \cup Span(str + 8 * i, 128) = Span(0, str + 8 * i + 128)
          /\ Span(0, str + 8 * i) \cap Span(str + 8 * i, 128) = {}
      BY <2>2, Prefix
    <3> QED BY <1>6, <2>1, <2>2, <3>1 DEF words_step, read, WInv, WORDS_BYTES
  <2>4. factors' = Span(0, i + 16) /\ ~reused'
    <3>1. Span(0, i) \cup Span(i, 16) = Span(0, i + 16) /\ Span(0, i) \cap Span(i, 16) = {}
      <4>1. i \in Nat /\ 16 \in Nat BY SMT DEF WInv
      <4> QED BY <4>1, Prefix
    <3> QED BY <1>6, <2>1, <3>1 DEF words_step, use, WInv
  <2>5. /\ pc' = pc /\ arg' = arg /\ i' = i + 16 /\ len' = len - 128 /\ rest' = rest /\ str' = str
    BY <1>6 DEF words_step, WORDS_BYTES
  <2>6. /\ i' \in Nat /\ len' \in Nat /\ str + 8 * i' + len' + rest = arg.len
        /\ 8 * i' + len' < BLOCK_BYTES
    BY <2>1, <2>5, SMT DEF WInv, BLOCK_BYTES
  <2>7. factors' \subseteq 0 .. NumFactors - 1
    BY <2>4, <2>5, <2>6, SMT DEF Span, NumFactors, BLOCK_BYTES, WInv
  <2> QED BY <2>1, <2>3, <2>4, <2>5, <2>6, <2>7 DEF WInv
<1>7. CASE pair_step
  <2>1. arg \in Args /\ pc = "words" /\ len >= 16 /\ reads = Span(0, str + 8 * i) /\ factors = Span(0, i)
    BY <1>7, SMT DEF pair_step, WInv
  <2>2. str + 8 * i \in Nat /\ str + 8 * i + 16 = str + 8 * (i + 2) BY SMT DEF WInv
  <2>3. reads' = Span(0, str + 8 * (i + 2)) /\ ~reread'
    <3>1. /\ Span(0, str + 8 * i) \cup Span(str + 8 * i, 16) = Span(0, str + 8 * i + 16)
          /\ Span(0, str + 8 * i) \cap Span(str + 8 * i, 16) = {}
      BY <2>2, Prefix
    <3> QED BY <1>7, <2>1, <2>2, <3>1 DEF pair_step, read, WInv
  <2>4. factors' = Span(0, i + 2) /\ ~reused'
    <3>1. Span(0, i) \cup Span(i, 2) = Span(0, i + 2) /\ Span(0, i) \cap Span(i, 2) = {}
      <4>1. i \in Nat /\ 2 \in Nat BY SMT DEF WInv
      <4> QED BY <4>1, Prefix
    <3> QED BY <1>7, <2>1, <3>1 DEF pair_step, use, WInv
  <2>5. /\ pc' = pc /\ arg' = arg /\ i' = i + 2 /\ len' = len - 16 /\ rest' = rest /\ str' = str
    BY <1>7 DEF pair_step
  <2>6. /\ i' \in Nat /\ len' \in Nat /\ str + 8 * i' + len' + rest = arg.len
        /\ 8 * i' + len' < BLOCK_BYTES
    BY <2>1, <2>5, SMT DEF WInv, BLOCK_BYTES
  <2>7. factors' \subseteq 0 .. NumFactors - 1
    BY <2>4, <2>5, <2>6, SMT DEF Span, NumFactors, BLOCK_BYTES, WInv
  <2> QED BY <2>1, <2>3, <2>4, <2>5, <2>6, <2>7 DEF WInv
<1>8. CASE tail_step
  <2> DEFINE o == str + 8 * i
             r == len % 8
             W == IF len >= 8 THEN 1 ELSE 0
             R == IF r > 0 THEN {tail_factor_index(r)} ELSE {}
  <2>1. arg \in Args /\ pc = "words" /\ len < 16 /\ reads = Span(0, o) /\ factors = Span(0, i)
    BY <1>8, SMT DEF tail_step, WInv
  <2>2. o \in Nat /\ W \in 0 .. 1 /\ r \in 0 .. 7 /\ len = 8 * W + r /\ i \in Nat /\ i <= 63
    BY <2>1, SMT DEF WInv, BLOCK_BYTES
  <2>3. R \cap Span(0, i) = {} /\ R \cap Span(i, W) = {} /\ R \subseteq i .. i + 7
    BY <2>2, SMT DEF tail_factor_index, Span
  <2>4. /\ reads' = reads \cup (Span(o, 8 * W) \cup tail_reads(o + 8 * W, r))
        /\ reread' = (reread \/ reads \cap (Span(o, 8 * W) \cup tail_reads(o + 8 * W, r)) # {})
        /\ factors' = factors \cup Span(i, W) \cup R
        /\ reused' = (reused \/ factors \cap (Span(i, W) \cup R) # {} \/ Span(i, W) \cap R # {})
        /\ pc' = "default" /\ str' = o + len /\ len' = 0 /\ i' = 0 /\ arg' = arg /\ rest' = rest
    BY <1>8 DEF tail_step, read, use
  <2> HIDE DEF o, r, W, R
  <2>5. Span(o, 8 * W) \cup tail_reads(o + 8 * W, r) = Span(o, len)
    <3>1. tail_reads(o + 8 * W, r) = Span(o + 8 * W, r) BY <2>2, TailReads, SMT
    <3> QED BY <3>1, <2>2, SMT DEF Span
  <2>6. reads' = Span(0, o + len) /\ ~reread'
    <3>1. Span(0, o) \cup Span(o, len) = Span(0, o + len) /\ Span(0, o) \cap Span(o, len) = {}
      BY <2>2, Prefix DEF WInv
    <3> QED BY <2>1, <2>4, <2>5, <3>1 DEF WInv
  <2>7. ~reused' /\ factors' \subseteq 0 .. NumFactors - 1
    <3>1. Span(0, i) \cap Span(i, W) = {} BY <2>2, SMT DEF Span
    <3>2. Span(0, i) \subseteq 0 .. 79 /\ Span(i, W) \subseteq 0 .. 79 /\ R \subseteq 0 .. 79
      BY <2>2, <2>3, SMT DEF Span
    <3>3. NumFactors - 1 = 79 BY SMT DEF NumFactors
    <3>4. factors \cap (Span(i, W) \cup R) = {} BY <2>1, <2>3, <3>1
    <3>5. ~reused' BY <2>3, <2>4, <3>4 DEF WInv
    <3> QED BY <2>1, <2>4, <3>2, <3>3, <3>5
  <2>8. str' \in Nat /\ str' + 8 * 0 = o + len /\ str' + 8 * 0 + 0 + rest = arg.len
    BY <2>1, <2>2, <2>4, SMT DEF WInv, o
  <2> QED BY <2>1, <2>4, <2>6, <2>7, <2>8 DEF WInv
<1> QED BY <1>1, <1>2, <1>3, <1>4, <1>5, <1>6, <1>7, <1>8 DEF Code

(* No step leaves the walk's invariant.                                    *)
LEMMA WStep == WInv /\ [Next]_vars => WInv'
<1> SUFFICES ASSUME WInv, [Next]_vars PROVE WInv' OBVIOUS
<1>1. CASE Next BY <1>1, WCalls, WCode DEF Next
<1>2. CASE UNCHANGED vars
  <2>1. Total' = Total BY <1>2 DEF vars, Total
  <2> QED BY <1>2, <2>1 DEF vars, WInv
<1> QED BY <1>1, <1>2

(* The invariant of the walk holds in every state of every call.           *)
THEOREM Walk == Spec => []WInv
BY WInit, WStep, PTL DEF Spec

(* vmum_hash reads no byte outside the key, whatever its length and where  *)
(* it is: on no path does a tail, a pair or a block reach beyond it.       *)
THEOREM WalkInside == Spec => []ReadsInside
<1>1. WInv => ReadsInside
  <2> SUFFICES ASSUME WInv PROVE ReadsInside OBVIOUS
  <2>1. CASE pc = "idle" BY <2>1 DEF WInv, ReadsInside
  <2>2. CASE pc # "idle"
    <3>1. arg \in Args /\ reads = Span(0, str + 8 * i) /\ str + 8 * i + len + rest = arg.len
      BY <2>2 DEF WInv
    <3>2. Total = arg.len BY <3>1, ArgTypes DEF Total
    <3>3. str + 8 * i <= arg.len BY <3>1, ArgTypes, SMT DEF WInv
    <3>4. Span(0, str + 8 * i) \subseteq Span(0, arg.len) BY <3>1, <3>3, ArgTypes, SMT DEF Span, WInv
    <3> QED BY <3>1, <3>2, <3>4 DEF ReadsInside
  <2> QED BY <2>1, <2>2
<1> QED BY <1>1, Walk, PTL

(* When vmum_hash returns, every byte of the key has gone into the hash,   *)
(* and none of them twice.                                                 *)
THEOREM WalkOnce == Spec => []EveryByteOnce
<1>1. WInv => EveryByteOnce BY DEF WInv, EveryByteOnce
<1> QED BY <1>1, Walk, PTL

(* After the blocks no factor is used for two words, and none beyond the   *)
(* table: what the static_assert in _vmum_hash_aligned is there for.       *)
THEOREM WalkFactors == Spec => []FactorsFresh
<1>1. WInv => FactorsFresh BY DEF WInv, FactorsFresh
<1> QED BY <1>1, Walk, PTL

=============================================================================
