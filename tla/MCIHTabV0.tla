------------------------------ MODULE MCIHTabV0 ------------------------------
(***************************************************************************)
(* A small instance of IHTabV0 for TLC.                                    *)
(***************************************************************************)
EXTENDS IHTabV0, TLC

CONSTANTS k1, k2, k3, k4

(* Groups of 2 lanes.  k3 has tag 0, the others tag 1, which differs in    *)
(* the lowest bit.  k1, k2 and k3 have the last of 2 or 4 groups, k4 has   *)
(* the one that their probes wrap round to.                                *)
MCHash == [k \in Keys |-> CASE k \in {k1, k2} -> 30 [] k = k3 -> 14 [] k = k4 -> 16]

=============================================================================
