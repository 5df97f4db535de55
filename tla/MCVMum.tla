------------------------------- MODULE MCVMum --------------------------------
(***************************************************************************)
(* Small instances of VMum for TLC: bytes of one bit, so words of 8 bits.  *)
(***************************************************************************)
EXTENDS VMum, Bitwise

MCXor == [p \in (0 .. 255) \X (0 .. 255) |-> p[1] ^^ p[2]]

(* Byte o of a key, with no period that the loops could share.             *)
bit(key, o) == ((o * o + key * o) \div 3 + o \div 5 + key) % 2

MCMem ==
  [key \in Keys |-> [o \in 0 .. MaxLen |->
     LET upto[m \in 0 .. 8] == IF m = 0 THEN 0 ELSE upto[m - 1] + bit(key, o + m - 1) * 2 ^ (m - 1)
     IN  upto[8]]]
(* All kinds of tails after no word, a pair, 16 words, a block, and blocks *)
(* and a buffer's length and more.                                         *)
MCLens ==
  (0 .. 17) \cup {31, 127, 128, 137, 143, 391, 502, 511, 512, 527}
    \cup {1024, 1025, 1543, 2049}

mix(n, s) == (n * n * 73 + n * 151 + s * 29 + 7) % 256

MCFactors(s) ==
  [ hash_step |-> mix(1, s), key_step |-> mix(2, s), block_start |-> mix(3, s), tail |-> mix(4, s),
    unroll |-> [l \in 0 .. 3 |-> mix(5 + l, s)], factors |-> [n \in 0 .. 79 |-> mix(11 + n, s)] ]

MCFactorSets == {MCFactors(1), MCFactors(6)}

MCBuilds ==
  { [int128 |-> TRUE, vector |-> TRUE], [int128 |-> TRUE, vector |-> FALSE],
    [int128 |-> FALSE, vector |-> FALSE] }

(* The macros of a portable hash, of VMUM_V1, and none of them, with and   *)
(* without unaligned access.                                               *)
MCConfigs ==
  { [independent |-> TRUE, v1 |-> FALSE, unaligned_access |-> FALSE],
    [independent |-> TRUE, v1 |-> TRUE, unaligned_access |-> TRUE],
    [independent |-> FALSE, v1 |-> FALSE, unaligned_access |-> TRUE] }

(* What a user gets who defines nothing.                                   *)
MCDefault == { [independent |-> FALSE, v1 |-> FALSE, unaligned_access |-> TRUE] }

=============================================================================
