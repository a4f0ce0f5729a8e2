---------------------------- MODULE MCIdempotent ----------------------------
(***************************************************************************)
(* Instances of IdempotentTransfers in which the connections are alike.    *)
(***************************************************************************)
EXTENDS IdempotentTransfers, TLC

MCSymmetry == Permutations(Requests)
=============================================================================
