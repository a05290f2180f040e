--------------------------- MODULE MCConnection ---------------------------
(* Two connections with one key between them, a limit of one or two. *)
EXTENDS Connection
==========================================================================
