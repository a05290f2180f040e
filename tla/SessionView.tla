--------------------------- MODULE SessionView ---------------------------
(***************************************************************************)
(* What one IMAP session shows its client of the selected mailbox: the     *)
(* message numbers and the flags (imapgw/session.py, and the handlers of   *)
(* imapgw/commands.py that read or change the view).                       *)
(*                                                                         *)
(* The snapshot and the \Deleted marks are shared: listings, other         *)
(* sessions and upstream change them whenever the session awaits.  The     *)
(* client applies every response in the order it was written; its copy of  *)
(* the view is a sequence of the messages it takes its numbers for.  The   *)
(* permanent flags are those of the mailbox (INBOX has both, Drafts only   *)
(* \Deleted; \Flagged behaves as \Seen does).  A command names one message.*)
(***************************************************************************)
EXTENDS Integers, FiniteSets, Sequences, SequencesExt

CONSTANTS
  MaxUid,   \* bound: UIDs handed out
  Flags     \* the mailbox's permanent_flags

ASSUME ViewAssumption == MaxUid \in Nat /\ Flags \subseteq {"seen", "deleted"}

VARIABLES
  latest,     \* the mailbox service's snapshot: live UIDs, those with \Seen, UIDNEXT
  marks,      \* deleted_mark of this mailbox
  state,      \* the session's state
  read_only,  \* selected by EXAMINE
  uids,       \* Selected.uids
  flags_seen, \* Selected.flags_seen
  cmd,        \* the command awaiting something
  mirror,     \* client: the message it takes each number for
  told,       \* client: the flags it was told
  lapses      \* history: what happened since SELECT that changes the view unannounced

shared == <<latest, marks>>
view == <<state, read_only, uids, flags_seen>>
client == <<mirror, told>>
vars == <<shared, view, cmd, client, lapses>>

\* silent: a STORE with .SILENT after which the client has the flags wrong.
\* fetch_fails: a FETCH that failed after recording flags the client lacks.
\* removal_fails: a refused CLOSE that changed the numbers.
Lapse(what, really) == lapses' = IF really THEN lapses \cup {what} ELSE lapses

--------------------------------------------------------------------------
Uids == 1..MaxUid

\* A value that is no set of flags: nothing recorded, nothing heard.
NotHeard == {"none"}
Nothing == [u \in Uids |-> NotHeard]

\* flags: what the response will report; marking: the \Deleted change STORE has
\* left to make; answer: what the client takes from an OK.
NoCommand == [op |-> "none", seq |-> 0, uid |-> 0, flags |-> {}, marking |-> FALSE,
              answer |-> NotHeard]
Doing(op) == [NoCommand EXCEPT !.op = op]

Init ==
  /\ latest = [live |-> {}, seen |-> {}, uidnext |-> 1]
  /\ marks = {}
  /\ state = "authenticated" /\ read_only = FALSE
  /\ uids = <<>> /\ flags_seen = Nothing
  /\ cmd = NoCommand
  /\ mirror = <<>> /\ told = Nothing /\ lapses = {}

\* The numbers of a set in order.
Ascending(S) ==
  CHOOSE s \in [1..Cardinality(S) -> S] :
    Range(s) = S /\ \A i, j \in 1..Cardinality(S) : i < j => s[i] < s[j]
Descending(S) == Reverse(Ascending(S))

\* flags_of an item of the snapshot.
FlagsOf(u) ==
  {f \in Flags : (f = "seen" /\ u \in latest.seen) \/ (f = "deleted" /\ u \in marks)}

--------------------------------------------------------------------------
(* Everybody else *)

\* A listing lands: what it no longer shows is gone and loses its mark, what is
\* new has new UIDs (MailboxSync's ArrivalsAreNewer), labels are as listed.
ListingLands ==
  \E kept \in SUBSET latest.live, next \in latest.uidnext..MaxUid + 1 :
    LET live == kept \cup latest.uidnext..next - 1 IN
    \E seen \in IF "seen" \in Flags THEN SUBSET live ELSE {{}} :
      /\ latest' = [live |-> live, seen |-> seen, uidnext |-> next]
      /\ marks' = marks \ (latest.live \ kept)
      /\ UNCHANGED <<view, cmd, client, lapses>>

\* set_flag of another session patches the snapshot in place.
OtherSetsSeen(u) ==
  /\ "seen" \in Flags
  /\ u \in latest.live
  /\ latest' = [latest EXCEPT !.seen = (@ \ {u}) \cup ({u} \ @)]
  /\ UNCHANGED <<marks, view, cmd, client, lapses>>

\* STORE \Deleted of another session.
OtherSetsDeleted(u) ==
  /\ "deleted" \in Flags
  /\ u \in latest.live
  /\ marks' = (marks \ {u}) \cup ({u} \ marks)
  /\ UNCHANGED <<latest, view, cmd, client, lapses>>

--------------------------------------------------------------------------
(* flush_pending *)

ExpungeLowestFirst(live) == Ascending({i \in 1..Len(uids) : uids[i] \notin live})
\* The numbers announced as EXPUNGE, highest first.
ExpungeNumbers(live) == Descending({i \in 1..Len(uids) : uids[i] \notin live})

\* Vanished items out, arrivals in, sorted by UID.
ViewAfter(live) ==
  LET known == Range(uids) \cap live
  IN Ascending(known \cup (live \ known))

\* The client drops a number for each EXPUNGE, one after the other, and adds
\* numbers at the end for EXISTS, which it will find to be what the session has
\* there.
Dropped(s, numbers) ==
  LET after[n \in 0..Len(numbers)] ==
        IF n = 0 THEN s ELSE RemoveAt(after[n - 1], numbers[n])
  IN after[Len(numbers)]
MirrorAfter(live) ==
  LET shrunk == Dropped(mirror, ExpungeNumbers(live))
      new == ViewAfter(live)
  IN IF Len(new) > Len(shrunk) THEN shrunk \o SubSeq(new, Len(shrunk) + 1, Len(new)) ELSE shrunk

\* Only a change from what is on record is announced.
AnnounceNothing(u) == FALSE
Announced(u) == flags_seen[u] # NotHeard /\ flags_seen[u] # FlagsOf(u)

FlushPending ==
  /\ uids' = ViewAfter(latest.live)
  /\ mirror' = MirrorAfter(latest.live)
  /\ flags_seen' = [u \in Uids |-> IF u \in Range(uids') THEN FlagsOf(u) ELSE NotHeard]
  /\ told' = [u \in Uids |->
       IF u \notin Range(mirror') THEN NotHeard
       ELSE LET said == {i \in 1..Len(uids') : mirror'[i] = u /\ Announced(uids'[i])}
            IN IF said = {} THEN told[u] ELSE FlagsOf(uids'[CHOOSE i \in said : TRUE])]
  /\ UNCHANGED <<state, read_only>>

--------------------------------------------------------------------------
(* SELECT, EXAMINE and the commands that end in a flush *)

Idle == cmd = NoCommand
Selected == Idle /\ state = "selected"

Begin(op) ==
  /\ cmd' = Doing(op)
  /\ UNCHANGED <<shared, view, client, lapses>>

\* SELECT deselects first, whatever comes of it.
Deselect ==
  /\ state' = "authenticated" /\ read_only' = FALSE
  /\ uids' = <<>> /\ flags_seen' = Nothing
  /\ mirror' = <<>> /\ told' = Nothing /\ lapses' = {}

Select(op) ==
  /\ Idle
  /\ Deselect
  /\ cmd' = Doing(op)
  /\ UNCHANGED shared

\* apply_snapshot once the listing is there.
SelectDone ==
  /\ cmd.op \in {"select", "examine"}
  /\ state' = "selected" /\ read_only' = (cmd.op = "examine")
  /\ uids' = Ascending(latest.live)
  /\ flags_seen' = [u \in Uids |-> IF u \in latest.live THEN FlagsOf(u) ELSE NotHeard]
  /\ mirror' = uids' /\ told' = Nothing
  /\ cmd' = NoCommand
  /\ UNCHANGED <<shared, lapses>>

Noop == Selected /\ Begin("noop")
Expunge == Selected /\ ~read_only /\ marks # {} /\ Begin("expunge")
Move == Selected /\ ~read_only /\ uids # <<>> /\ Begin("move")
AppendDraft == Idle /\ Begin("append")

\* NOOP, EXPUNGE and MOVE flush when their listing is there (an EXPUNGE that
\* could not remove everything then answers NO), APPEND when its re-listing is
\* over, whatever came of it.
FlushCommand ==
  /\ cmd.op \in {"noop", "expunge", "move", "append"}
  /\ IF state = "selected" THEN FlushPending ELSE UNCHANGED <<view, client>>
  /\ cmd' = NoCommand
  /\ UNCHANGED <<shared, lapses>>

\* The listing, the removal or the POST fails, or the command runs out of time.
\* A FETCH is left out here: see FetchFails.
CommandFails ==
  /\ cmd.op \notin {"none", "size"}
  /\ cmd' = NoCommand
  /\ UNCHANGED <<shared, view, client, lapses>>

--------------------------------------------------------------------------
(* CLOSE *)

CloseAtOnce ==
  /\ Selected
  /\ read_only \/ marks = {}
  /\ Deselect
  /\ UNCHANGED <<shared, cmd>>

Close == Selected /\ ~read_only /\ marks # {} /\ Begin("close")

CloseDone ==
  /\ cmd.op = "close"
  /\ Deselect
  /\ cmd' = NoCommand
  /\ UNCHANGED shared

\* Some removal failed: what vanished is dropped without a word, then the
\* tagged NO leaves the mailbox selected.
CloseRefused ==
  /\ cmd.op = "close"
  /\ uids' = SelectSeq(uids, LAMBDA u : u \in latest.live)
  /\ cmd' = NoCommand
  /\ Lapse("removal_fails", uids' # uids)
  /\ UNCHANGED <<shared, state, read_only, flags_seen, client>>

--------------------------------------------------------------------------
(* FETCH and STORE *)

\* The client names a message by its number; an item that vanished since the
\* last flush is skipped.
Target(i) ==
  /\ Selected
  /\ i \in 1..Len(uids)
  /\ uids[i] \in latest.live

\* record_flags, and the FETCH response the client reads.
Record(u, flags) == flags_seen' = [flags_seen EXCEPT ![u] = flags]
Tell(i, flags) ==
  told' = IF i <= Len(mirror) THEN [told EXCEPT ![mirror[i]] = flags] ELSE told

\* History: the client has other flags for this number than these.
Misinformed(i, flags) == i <= Len(mirror) /\ told[mirror[i]] \notin {NotHeard, flags}

FetchFlags(i) ==
  /\ Target(i)
  /\ Record(uids[i], FlagsOf(uids[i]))
  /\ Tell(i, FlagsOf(uids[i]))
  /\ UNCHANGED <<shared, state, read_only, uids, cmd, mirror, lapses>>

\* FLAGS and then RFC822.SIZE: the flags are recorded, then the size is awaited.
FetchSize(i) ==
  /\ Target(i)
  /\ Record(uids[i], FlagsOf(uids[i]))
  /\ cmd' = [Doing("size") EXCEPT !.seq = i, !.uid = uids[i], !.flags = FlagsOf(uids[i])]
  /\ UNCHANGED <<shared, state, read_only, uids, client, lapses>>

SizeArrives ==
  /\ cmd.op = "size"
  /\ Tell(cmd.seq, cmd.flags)
  /\ cmd' = NoCommand
  /\ UNCHANGED <<shared, view, mirror, lapses>>

\* The size cannot be had: no response for this item.
FetchFails ==
  /\ cmd.op = "size"
  /\ cmd' = NoCommand
  /\ Lapse("fetch_fails", Misinformed(cmd.seq, cmd.flags))
  /\ UNCHANGED <<shared, view, client>>

\* A body fetched without PEEK sets \Seen; the marks are those of the start.
FetchBody(i) ==
  /\ "seen" \in Flags
  /\ Target(i)
  /\ ~read_only
  /\ uids[i] \notin latest.seen
  /\ cmd' = [Doing("body") EXCEPT !.seq = i, !.uid = uids[i],
                                  !.flags = FlagsOf(uids[i]) \cup {"seen"}]
  /\ UNCHANGED <<shared, view, client, lapses>>

\* set_flag returned: _replace_item patches the snapshot if the item is there.
PatchSeen(u, value) ==
  latest' = [latest EXCEPT !.seen = IF u \notin latest.live THEN @
                                    ELSE IF value THEN @ \cup {u} ELSE @ \ {u}]

BodyArrives ==
  /\ cmd.op = "body"
  /\ PatchSeen(cmd.uid, TRUE)
  /\ Record(cmd.uid, cmd.flags)
  /\ Tell(cmd.seq, cmd.flags)
  /\ cmd' = NoCommand
  /\ UNCHANGED <<marks, state, read_only, uids, mirror, lapses>>

\* STORE: the flags an item has are computed from the snapshot and the marks of
\* the start.  mode is "+", "-" or "" (replace).
Wanted(current, mode, flags) ==
  CASE mode = "+" -> current \cup flags
    [] mode = "-" -> current \ flags
    [] mode = "" -> flags

\* With .SILENT the client works out the result from what it knew.
Taken(i, mode, flags, silent) ==
  IF ~silent THEN Wanted(FlagsOf(uids[i]), mode, flags)
  ELSE IF i <= Len(mirror) /\ told[mirror[i]] # NotHeard
       THEN Wanted(told[mirror[i]], mode, flags)
       ELSE NotHeard

SetDeleted(u, flags) == marks' = IF "deleted" \in flags THEN marks \cup {u} ELSE marks \ {u}

\* A change of \Seen goes upstream first; \Deleted comes after it.
Store(i, mode, flags, silent) ==
  LET u == uids[i]
      current == FlagsOf(u)
      wanted == Wanted(current, mode, flags)
  IN
  /\ Target(i)
  /\ ~read_only
  /\ flags # {} \/ mode = ""
  /\ Lapse("silent", Taken(i, mode, flags, silent) \notin {NotHeard, wanted})
  /\ IF "seen" \in (current \ wanted) \cup (wanted \ current)
     THEN /\ cmd' = [op |-> "store", seq |-> i, uid |-> u, flags |-> wanted,
                     marking |-> ("deleted" \in current) # ("deleted" \in wanted),
                     answer |-> Taken(i, mode, flags, silent)]
          /\ UNCHANGED <<shared, view, client>>
     ELSE /\ SetDeleted(u, wanted)
          /\ Record(u, wanted)
          /\ Tell(i, Taken(i, mode, flags, silent))
          /\ UNCHANGED <<latest, state, read_only, uids, cmd, mirror>>

StoreDone ==
  /\ cmd.op = "store"
  /\ PatchSeen(cmd.uid, "seen" \in cmd.flags)
  /\ IF cmd.marking THEN SetDeleted(cmd.uid, cmd.flags) ELSE UNCHANGED marks
  /\ Record(cmd.uid, cmd.flags)
  /\ Tell(cmd.seq, cmd.answer)
  /\ cmd' = NoCommand
  /\ UNCHANGED <<state, read_only, uids, mirror, lapses>>

--------------------------------------------------------------------------
Next ==
  \/ ListingLands
  \/ \E u \in Uids : OtherSetsSeen(u) \/ OtherSetsDeleted(u)
  \/ Select("select") \/ Select("examine") \/ SelectDone
  \/ Noop \/ Expunge \/ Move \/ AppendDraft \/ FlushCommand \/ CommandFails
  \/ CloseAtOnce \/ Close \/ CloseDone \/ CloseRefused
  \/ \E i \in 1..MaxUid : FetchFlags(i) \/ FetchSize(i) \/ FetchBody(i)
  \/ SizeArrives \/ FetchFails \/ BodyArrives
  \/ \E i \in 1..MaxUid, mode \in {"+", "-", ""}, flags \in SUBSET Flags, silent \in BOOLEAN :
       Store(i, mode, flags, silent)
  \/ StoreDone

Spec == Init /\ [][Next]_vars

--------------------------------------------------------------------------
(* Properties *)

\* The client and the session mean the same message by every number, at every
\* moment: EXPUNGE numbers are read one after the other and shift what follows,
\* and arrivals are sorted into a list the client can only extend.  (A refused
\* CLOSE drops what vanished without EXPUNGE and leaves the mailbox selected.)
NumbersAgree == "removal_fails" \notin lapses => mirror = uids

\* The client has exactly the messages of the snapshot, and every flag set it
\* has heard of is the present one.
CaughtUp ==
  /\ Range(mirror') = latest.live
  /\ \A u \in latest.live : told'[u] \in {NotHeard, FlagsOf(u)}

\* After a flush the client knows every change made elsewhere: none is lost
\* between what was recorded and what was said, whatever happened at the awaits.
SafePointCatchesUp ==
  [][FlushCommand /\ state = "selected" /\ lapses = {} => CaughtUp]_vars
==========================================================================
