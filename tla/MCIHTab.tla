------------------------------- MODULE MCIHTab -------------------------------
(***************************************************************************)
(* Small instances of IHTab for TLC.                                       *)
(***************************************************************************)
EXTENDS IHTab, TLC

CONSTANTS k1, k2, k3

(* With groups of 2 lanes and H7_WEIGHT = 16 the tag is hash \div 16 and   *)
(* the group (hash \div 2) % n.                                            *)

(* The worst hash function there is: all keys have the last of 2, 4 or 8   *)
(* groups, and three of them need the group after it, which is group 0,    *)
(* also in a bin that is being rebuilt.                                    *)
MCSameHash == [k \in Keys |-> 30]

(* With MCSameHash nothing tells keys apart.                               *)
KeySymmetry == Permutations(Keys)

(* The same tag and, in a bin of 2 or 4 groups, two groups: the last one,  *)
(* whose probes wrap round, and the one they wrap round to.                *)
MCTwoHash == [k \in Keys |-> IF k = k1 THEN 30 ELSE 16]

=============================================================================
