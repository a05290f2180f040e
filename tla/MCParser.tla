----------------------------- MODULE MCParser -----------------------------
(* Connections of up to six octets in reads of up to two, with lines of three
   octets, one literal of two octets and commands of seven octets. *)
EXTENDS Parser

MCOctets == {Letter(1), SP, NUL, CR, LF, Literal(2), Literal(3)}
==========================================================================
