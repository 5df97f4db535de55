----------------------------- MODULE MCIHTabIter -----------------------------
(***************************************************************************)
(* Small instances of IHTabIter for TLC.                                   *)
(***************************************************************************)
EXTENDS IHTabIter, TLC

CONSTANTS k1, k2

(* All keys probe the same groups: how elements are found does not matter  *)
(* to a loop over them.                                                    *)
MCHash == [k \in Keys |-> 28]

KeySymmetry == Permutations(Keys)

=============================================================================
