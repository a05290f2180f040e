--------------------------- MODULE MCCopyMove ----------------------------
(* A small instance of CopyMove. *)
EXTENDS CopyMove, TLC

CONSTANTS alice, bob

MCSessions == {alice, bob}
SessionSymmetry == Permutations(MCSessions)
==========================================================================
