--------------------------- MODULE MCLabelHold ---------------------------
(* One message in both views, listed twice at once in INBOX; two sessions and *)
(* an outsider write its labels.  An EXPUNGE writes what a COPY writes and    *)
(* pins nothing: it is left out.                                              *)
EXTENDS LabelHold

MCViews == {"INBOX", "Trash"}
MCOps == OpNames \ {"expunge"}
MCListings == {<<"INBOX", 1>>, <<"INBOX", 2>>, <<"Trash", 1>>}
MCWriters == {"alice", "bob"}
==========================================================================
