---------------------------- MODULE UidLedger ----------------------------
(***************************************************************************)
(* What the UID store promises its clients (RFC 3501 2.3.1.1, restated in  *)
(* the docstring of imapgw/uidstore.py and in DESIGN.md D6): the triple    *)
(* (mailbox, UIDVALIDITY, UID) names one item forever, UIDs and            *)
(* UIDVALIDITYs only grow, and a name that has vanished never comes back.  *)
(*                                                                         *)
(* names is everything a client has ever been told; alive is the part of   *)
(* it that still denotes an item.  The promise holds while the medium can  *)
(* be trusted to keep what was written to it.                              *)
(***************************************************************************)
EXTENDS Integers

CONSTANTS Mailboxes,    \* the (inbox_id, name) pairs
          MaxValidity   \* 2^32 - 1 in the code: UIDVALIDITY saturates there

VARIABLES names, alive, trusted

ledgerVars == <<names, alive, trusted>>

Init == names = {} /\ alive = {} /\ trusted = TRUE

\* n may be told to clients when `told` has been: its UIDVALIDITY is the newest
\* of its mailbox, and its UID is above every UID told under that UIDVALIDITY.
Fresh(n, told) ==
  n.uidvalidity < MaxValidity =>
    \A o \in told : o.name = n.name =>
      /\ o.uidvalidity <= n.uidvalidity
      /\ o.uidvalidity = n.uidvalidity => o.uid < n.uid

\* Give names, in one atomic batch, to items of one mailbox that have none.
Allocate(m) ==
  LET new == alive' \ alive IN
  /\ new # {}
  /\ alive \subseteq alive'
  /\ names' = names \cup new
  /\ \A n \in new : n.name = m /\ Fresh(n, names)
  /\ \A a, b \in new : a.uid = b.uid \/ a.key = b.key => a = b
  /\ \A n \in new, o \in alive : o.name = m => o.key # n.key

\* Items vanish, or the whole store of live items is lost.
Vanish ==
  /\ alive' \subseteq alive
  /\ alive' # alive
  /\ UNCHANGED names

\* The medium has lost something: nothing is promised from here on.
Broken == trusted' = FALSE

Next ==
  \/ trusted /\ trusted' /\ (Vanish \/ \E m \in Mailboxes : Allocate(m))
  \/ Broken

Spec == Init /\ [][Next]_ledgerVars
==========================================================================
