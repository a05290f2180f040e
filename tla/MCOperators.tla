-------------------------- MODULE MCOperators ----------------------------
(* Every input of Operators up to the bounds of MCOperators.cfg. *)
EXTENDS Operators
==========================================================================
