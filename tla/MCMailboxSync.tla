-------------------------- MODULE MCMailboxSync --------------------------
(* Small instances of MailboxSync. *)
EXTENDS MailboxSync, TLC

CONSTANTS alice, bob

MCSessions == {alice, bob}
MCOneSession == {alice}

\* The sessions differ only in their credentials.
SessionSymmetry == Permutations(MCSessions)
==========================================================================
