-------------------------- MODULE MCSessionView --------------------------
(* Small instances of SessionView. *)
EXTENDS SessionView

MCInboxFlags == {"seen", "deleted"}
==========================================================================
