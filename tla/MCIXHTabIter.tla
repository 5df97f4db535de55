---------------------------- MODULE MCIXHTabIter -----------------------------
(***************************************************************************)
(* A small instance of IXHTabIter for TLC, on the v0 table.                *)
(***************************************************************************)
EXTENDS IXHTabIter, TLC

CONSTANTS k1, k2, k3, k4

(* Three keys have hash 0, which becomes 1, and tag 0; k2 has tag 1 and is *)
(* on the other side of the only split.  A bin of two elements is doubled  *)
(* or compacted, one of four split or compacted.                           *)
MCHash == [k \in Keys |-> IF k = k2 THEN 16 ELSE 0]

(* The keys of one hash, none of them Deletable, may change places.        *)
KeySymmetry == Permutations(Keys \ {k2})

=============================================================================
