---------------------------- MODULE LabelHold ----------------------------
(***************************************************************************)
(* The message views of imapgw/mailbox.py: INBOX and Trash list the same   *)
(* messages by their labels.  Label writes of the gateway (STORE, a body   *)
(* FETCH, EXPUNGE, COPY and MOVE) are held over what listings report,      *)
(* because the list endpoint lags behind the writes.                       *)
(*                                                                         *)
(* A listing reads one message per page, in order, and other steps happen  *)
(* between the moment upstream answers a page and the moment the gateway   *)
(* reads the answer.  Listings overlap, those of one view too: forced syncs *)
(* that waited for the same stale listing start one each, and so does every *)
(* joined sync that retries after an AuthError; when they start is left to *)
(* MailboxSync, and UIDs to UidStore.                                      *)
(***************************************************************************)
EXTENDS Integers, FiniteSets

CONSTANTS
  MaxMessage, \* bound: received messages, in the order of their timestamps
  Views,      \* the views that sessions list: "INBOX", "Trash"
  Listings,   \* bound: the listings that can run at once, as pairs of a view and a number
  Writers,    \* sessions that write labels
  Ops,        \* the writes that are made: see OpNames
  MaxWrites   \* bound: label writes, those made outside the gateway included

\* STORE +FLAGS and -FLAGS (\Seen), EXPUNGE, COPY or MOVE, and whoever writes
\* labels outside the gateway.
OpNames == {"seen", "unseen", "expunge", "copy", "outside"}

ASSUME HoldAssumption ==
  /\ MaxMessage \in Nat \ {0} /\ MaxWrites \in Nat
  /\ Views \subseteq {"INBOX", "Trash"} /\ Ops \subseteq OpNames
  /\ Listings \subseteq Views \X Nat

Messages == 1..MaxMessage
\* "read" stands for a message without the label unread, which \Seen turns on.
Labels == {"read", "trash"}

\* A value that is no set of labels: no hold, no pin, not in the view.
None == {"none"}
Nothing == [m \in Messages |-> None]

VARIABLES
  labels,   \* upstream: the labels of each message
  index,    \* upstream: the labels the list endpoint reports
  held,     \* _label_overrides
  pinned,   \* _pinned of Trash: the labels of the item kept visible
  expired,  \* the messages whose hold is past _override_ttl
  aged,     \* the messages whose pin is past _pin_ttl
  snap,     \* _latest of each view: the labels of each item shown
  listing,  \* the _do_sync tasks
  writer,   \* the label write each session awaits
  writes,   \* how many writes were made
  written   \* history: what a message was last answered to be, while that counts

upstream == <<labels, index>>
service == <<held, pinned, expired, aged, snap>>
vars == <<upstream, service, listing, writer, writes, written>>

\* at: the message of the page to ask for or to read next.  page: the answer, once
\* upstream has given it.  stale: history, the messages of which a write was
\* answered after their page.  A listing that has not begun and one that waits for
\* its first page know the same.
NoListing == [state |-> "asked", at |-> 1, page |-> None, got |-> Nothing, stale |-> {}]

\* item: the labels of the item as the command found it, until the answer; answer:
\* the labels that the gateway takes from upstream's answer.
NoWrite == [state |-> "idle", op |-> "none", view |-> "INBOX", m |-> 0, item |-> None,
            answer |-> None]

Init ==
  /\ labels = [m \in Messages |-> {}] /\ index = labels
  /\ held = Nothing /\ pinned = Nothing /\ expired = {} /\ aged = {}
  /\ snap = [v \in Views |-> Nothing]
  /\ listing = [l \in Listings |-> NoListing]
  /\ writer = [w \in Writers |-> NoWrite]
  /\ writes = 0
  /\ written = Nothing

--------------------------------------------------------------------------
(* Time, the index and whoever else writes labels *)

IndexCatchesUp(m) ==
  /\ index[m] # labels[m]
  /\ index' = [index EXCEPT ![m] = labels[m]]
  /\ UNCHANGED <<labels, service, listing, writer, writes, written>>

HoldExpires(m) ==
  /\ held[m] # None /\ m \notin expired
  /\ expired' = expired \cup {m}
  /\ written' = [written EXCEPT ![m] = None]
  /\ UNCHANGED <<upstream, held, pinned, aged, snap, listing, writer, writes>>

PinExpires(m) ==
  /\ pinned[m] # None /\ m \notin aged
  /\ aged' = aged \cup {m}
  /\ UNCHANGED <<upstream, held, pinned, expired, snap, listing, writer, writes, written>>

\* Somebody writes labels outside the gateway: what the gateway wrote no longer
\* counts as the truth.
UpstreamWrites(m, new) ==
  /\ "outside" \in Ops
  /\ writes < MaxWrites
  /\ new # labels[m]
  /\ labels' = [labels EXCEPT ![m] = new]
  /\ writes' = writes + 1
  /\ written' = [written EXCEPT ![m] = None]
  /\ UNCHANGED <<index, service, listing, writer>>

--------------------------------------------------------------------------
(* _do_sync of a message view *)

ViewOf(l) == l[1]

\* History: upstream has answered the page of m.
Answered(l, m) ==
  \/ m < listing[l].at
  \/ m = listing[l].at /\ listing[l].state = "answered"

\* The query of the view, answered from the index: INBOX asks without trashed
\* messages, Trash for trashed ones.
Matches(v, shown) == IF v = "Trash" THEN "trash" \in shown ELSE "trash" \notin shown

AnswerPage(l) ==
  LET m == listing[l].at IN
  /\ listing[l].state = "asked"
  /\ listing' = [listing EXCEPT ![l].state = "answered",
                   ![l].page = IF Matches(ViewOf(l), index[m]) THEN index[m] ELSE None]
  /\ UNCHANGED <<upstream, service, writer, writes, written>>

\* _effective_labels, and whether it lets go of the hold.
LetsGo(m, shown) == held[m] = shown \/ m \in expired
IgnoreHold(m, shown) == shown
EffectiveLabels(m, shown) == IF held[m] = None \/ LetsGo(m, shown) THEN shown ELSE held[m]

\* exclude_labels: INBOX hides what the effective labels call trashed.
Hidden(v, effective) == v = "INBOX" /\ "trash" \in effective

\* _apply_pins, for Trash.
PinsForever(got) == {m \in Messages : pinned[m] # None /\ got[m] = None}
PinsKept(got) == {m \in Messages : pinned[m] # None /\ got[m] = None /\ m \notin aged}
WithPins(v, got) ==
  [m \in Messages |-> IF v = "Trash" /\ m \in PinsKept(got) THEN pinned[m] ELSE got[m]]

\* History: the page that ends a hold is older than the index, or another listing,
\* of this view or the other, has been answered with an older page that it has not
\* read yet.
LetGoEarly(l, m) ==
  \/ index[m] # listing[l].page
  \/ \E k \in Listings \ {l} : /\ listing[k].state = "answered" /\ listing[k].at = m
                                /\ listing[k].page \notin {None, listing[l].page}

\* The gateway reads a page; after the last one the snapshot is replaced, in the
\* same step.
ReadPage(l) ==
  LET v == ViewOf(l)
      m == listing[l].at
      page == listing[l].page
      effective == EffectiveLabels(m, page)
      got == [listing[l].got EXCEPT ![m] =
                IF page = None \/ Hidden(v, effective) THEN None ELSE effective]
  IN
  /\ listing[l].state = "answered"
  /\ IF page # None /\ held[m] # None /\ LetsGo(m, page)
     THEN held' = [held EXCEPT ![m] = None] /\ expired' = expired \ {m}
     ELSE UNCHANGED <<held, expired>>
  /\ IF m < MaxMessage
     THEN /\ listing' = [listing EXCEPT ![l] = [@ EXCEPT !.state = "asked", !.at = m + 1,
                                                           !.page = None, !.got = got]]
          /\ UNCHANGED <<pinned, aged, snap>>
     ELSE /\ listing' = [listing EXCEPT ![l] = NoListing]
          /\ snap' = [snap EXCEPT ![v] = WithPins(v, got)]
          /\ IF v = "Trash"
             THEN /\ pinned' = [k \in Messages |-> IF k \in PinsKept(got) THEN pinned[k] ELSE None]
                  /\ aged' = aged \cap PinsKept(got)
             ELSE UNCHANGED <<pinned, aged>>
  /\ written' = [written EXCEPT ![m] = IF held'[m] # held[m] /\ LetGoEarly(l, m) THEN None ELSE @]
  /\ UNCHANGED <<upstream, writer, writes>>

\* A failed or malformed page: nothing lands.
ListingFails(l) ==
  /\ listing[l] # NoListing
  /\ listing' = [listing EXCEPT ![l] = NoListing]
  /\ UNCHANGED <<upstream, service, writer, writes, written>>

--------------------------------------------------------------------------
(* Label writes: set_flag, expunge_items and copy_to_trash on one message *)

Removed(op) == IF op = "unseen" THEN {"read"} ELSE {}
Added(op) == CASE op = "seen" -> {"read"} [] op = "unseen" -> {} [] OTHER -> {"trash"}

Changed(old, op) == (old \cup Added(op)) \ Removed(op)

\* A session works on an item of the snapshot it finds; Trash can be selected too.
Write(w, v, op, m) ==
  /\ writer[w].state = "idle" /\ writes < MaxWrites
  /\ snap[v][m] # None
  /\ writer' = [writer EXCEPT ![w] = [state |-> "sent", op |-> op, view |-> v, m |-> m,
                                      item |-> snap[v][m], answer |-> None]]
  /\ writes' = writes + 1
  /\ UNCHANGED <<upstream, service, listing, written>>

\* The PATCH takes effect upstream.  The answer tells the labels; without labels in
\* it the gateway takes those of its item, changed.
PatchApplies(w) ==
  LET m == writer[w].m
      new == Changed(labels[m], writer[w].op)
  IN
  /\ writer[w].state = "sent"
  /\ labels' = [labels EXCEPT ![m] = new]
  /\ \E answer \in {new, Changed(writer[w].item, writer[w].op)} :
       writer' = [writer EXCEPT ![w] = [@ EXCEPT !.state = "applied", !.item = None,
                                                  !.answer = answer]]
  /\ written' = [written EXCEPT ![m] = None]
  /\ UNCHANGED <<index, service, listing, writes>>

\* _hold_labels replaces whatever was held.
Hold(m, new) ==
  /\ held' = [held EXCEPT ![m] = new]
  /\ expired' = expired \ {m}

\* The answer is read: the labels are held, STORE patches the snapshot it worked
\* on, COPY pins the message in Trash.
PatchAnswered(w) ==
  LET m == writer[w].m
      new == writer[w].answer
      v == writer[w].view
  IN
  /\ writer[w].state = "applied"
  /\ Hold(m, new)
  /\ snap' = IF writer[w].op \in {"seen", "unseen"} /\ snap[v][m] # None
             THEN [snap EXCEPT ![v][m] = new] ELSE snap
  /\ IF writer[w].op = "copy"
     THEN pinned' = [pinned EXCEPT ![m] = new] /\ aged' = aged \ {m}
     ELSE UNCHANGED <<pinned, aged>>
  /\ written' = [written EXCEPT ![m] = IF labels[m] = new THEN new ELSE None]
  /\ listing' = [l \in Listings |-> [listing[l] EXCEPT !.stale =
                   IF Answered(l, m) THEN @ \cup {m} ELSE @]]
  /\ writer' = [writer EXCEPT ![w] = NoWrite]
  /\ UNCHANGED <<upstream, writes>>

\* The request fails, or its answer is lost: nothing is held.
PatchFails(w) ==
  /\ writer[w].state # "idle"
  /\ writer' = [writer EXCEPT ![w] = NoWrite]
  /\ UNCHANGED <<upstream, service, listing, writes, written>>

--------------------------------------------------------------------------
WriteSteps(w) == PatchApplies(w) \/ PatchAnswered(w) \/ PatchFails(w)

Next ==
  \/ \E m \in Messages : IndexCatchesUp(m) \/ HoldExpires(m) \/ PinExpires(m)
  \/ \E m \in Messages, new \in SUBSET Labels : UpstreamWrites(m, new)
  \/ \E l \in Listings : AnswerPage(l) \/ ReadPage(l) \/ ListingFails(l)
  \/ \E w \in Writers, v \in Views, op \in Ops \ {"outside"}, m \in Messages :
       Write(w, v, op, m)
  \/ \E w \in Writers : WriteSteps(w)

Spec == Init /\ [][Next]_vars

ListingsAt(v, m) == {l \in Listings : ViewOf(l) = v /\ listing[l].at = m}

\* The two time limits run out and requests end.  The index catches up and
\* listings are asked for and answered again and again: that is upstream's and
\* the clients' part, and Converges is conditional on it.
Fairness ==
  /\ \A m \in Messages : /\ WF_vars(HoldExpires(m)) /\ WF_vars(PinExpires(m))
                         /\ WF_vars(IndexCatchesUp(m))
  /\ \A w \in Writers : WF_vars(WriteSteps(w))
  /\ \A v \in Views, m \in Messages :
       /\ SF_vars(\E l \in ListingsAt(v, m) : AnswerPage(l))
       /\ SF_vars(\E l \in ListingsAt(v, m) : ReadPage(l))

FairSpec == Spec /\ Fairness

--------------------------------------------------------------------------
(* Properties *)

\* What a view shows of a message with these labels.
Seen(v, value) == IF Matches(v, value) THEN value ELSE None

\* A label the gateway wrote is held over stale listings of every view: a listing
\* whose page of the message upstream answers after the gateway knows of the write
\* shows the message as written or not at all, and never in INBOX if it was moved to
\* Trash.  That lasts until the hold expires, somebody else writes, or the hold is
\* replaced by an older answer or let go early (LetGoEarly): the listing that ends it
\* agrees while another one, which overlaps it, still has an older page to read.  An
\* item pinned in Trash keeps the labels of its COPY.
OwnWritesHold ==
  [][ \A l \in Listings, m \in Messages :
        LET v == ViewOf(l) IN
        /\ ReadPage(l) /\ listing[l].at = MaxMessage
        /\ m \notin listing[l].stale
        /\ written[m] # None
        => /\ \/ snap'[v][m] \in {None, written[m]}
              \/ v = "Trash" /\ snap'[v][m] = pinned[m]
           /\ Hidden(v, written[m]) => snap'[v][m] = None ]_vars

\* No hold and no pin keeps a wrong view for ever: once the writes are over, every
\* view comes to show each message with its labels upstream and stays so.
Converges ==
  <>[](\A v \in Views, m \in Messages : snap[v][m] = Seen(v, labels[m]))
==========================================================================
