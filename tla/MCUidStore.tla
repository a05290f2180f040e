--------------------------- MODULE MCUidStore ----------------------------
(* Model values and symmetry for model-checking UidStore. *)
EXTENDS UidStore, TLC

CONSTANTS inbox, k1, k2

MCOneMailbox == {inbox}
MCKeys == {k1, k2}
MCAllFaults == {"watermark", "unreadable", "power"}

KeySymmetry == Permutations(MCKeys)
==========================================================================
