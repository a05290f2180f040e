---------------------------- MODULE MCContent ----------------------------
(* Two readers, two inboxes that share a message id, one draft written twice,
   and a cache of two bytes: the larger contents evict everything else, and the
   changed message of inbox A does not fit. *)
EXTENDS Content

CONSTANTS x, y

ReaderSymmetry == Permutations(Readers)
MCMessageLength == [i \in Inboxes |-> IF i = "A" THEN <<1, 3>> ELSE <<2, 2>>]
MCDraftLength == [k \in Contents |-> IF k = x THEN 1 ELSE 2]
==========================================================================
