------------------------------- MODULE MCIXHTab ------------------------------
(***************************************************************************)
(* Small instances of IXHTab for TLC.  Groups have 2 lanes, so a bin has   *)
(* at least 2 groups and 2 elements.                                       *)
(***************************************************************************)
EXTENDS IXHTab, TLC

CONSTANTS k1, k2, k3, k4, k5

(* Two keys of hash 3 and two of hash 11: a split by bit 1 moves them all, *)
(* one by bit 2 none, one by bit 3 divides them, and the bin they left now *)
(* has the mask 11.  Entry 5 of the directory still leads there, and k5    *)
(* comes in through it.                                                    *)
MCFarHash ==
  [k \in Keys |-> CASE k \in {k1, k2} -> 3 [] k \in {k3, k4} -> 11 [] k = k5 -> 5]

(* Three odd hashes that take the directory to depth 3, and two even ones. *)
MCDeepHash ==
  [k \in Keys |-> CASE k = k1 -> 0 [] k = k2 -> 3 [] k = k3 -> 5 [] k = k4 -> 4 [] k = k5 -> 6]

(* An odd hash and an even one.                                            *)
MCTwoHash == [k \in Keys |-> CASE k = k1 -> 0 [] k = k2 -> 2]

(* An even hash and three odd ones, two of them equal.                     *)
MCFourHash == [k \in Keys |-> CASE k = k1 -> 0 [] k = k2 -> 2 [] k = k3 -> 1 [] k = k4 -> 5]

(* Two even hashes and two odd ones, and bit 1 divides both pairs; a hash  *)
(* of 0 becomes 1.  Of the two bins, the one split second needs no bigger  *)
(* directory.                                                              *)
MCPairsHash == [k \in Keys |-> CASE k = k1 -> 2 [] k = k2 -> 3 [] k = k3 -> 0 [] k = k4 -> 4]

=============================================================================
