---------------------------- MODULE CopyMove -----------------------------
(***************************************************************************)
(* COPY and MOVE of several messages into Trash: _copy of                  *)
(* imapgw/commands.py over copy_to_trash and sync of imapgw/mailbox.py.    *)
(* The batch is one PATCH after the other and can end half-way; meanwhile  *)
(* listings of both views run, share their result and hand out UIDs.       *)
(*                                                                         *)
(* A message is trashed or it is not; its other labels are LabelHold's.    *)
(* A listing reads one message per page.  A task is named after the        *)
(* session that started it, which starts no other while that one runs.  A  *)
(* hold or a pin past its time limit has the effect of none, so here it    *)
(* goes when the limit passes.                                             *)
(***************************************************************************)
EXTENDS SequenceSets

CONSTANTS
  MaxMessage,  \* bound: received messages, in the order of their timestamps
  Sessions,    \* all have credentials that upstream accepts
  MaxCommands, \* bound: commands begun
  MaxOutside   \* bound: changes made outside the gateway

Messages == 1..MaxMessage
Views == {"INBOX", "Trash"}
NoUids == [m \in Messages |-> 0]
NoOne == "no one"

ASSUME CopyAssumption ==
  /\ MaxMessage \in Nat \ {0} /\ MaxCommands \in Nat /\ MaxOutside \in Nat
  /\ NoOne \notin Sessions

VARIABLES
  trashed,    \* upstream: the messages with the label trash
  index,      \* upstream: those that the list endpoint reports as such
  uidOf,      \* UID store: the live map of each view, 0 where there is none
  next_uid,   \* UID store
  latest,     \* _latest: the UIDs of the items of each view
  listed,     \* the views that have a snapshot in _latest
  held,       \* _label_overrides: the messages held as trashed
  pins,       \* _pinned of Trash
  generation, \* _generation
  inflight,   \* _inflight: the task of each view and its generation
  task,       \* the _do_sync a session started
  caller,     \* the command of each session
  commands,   \* how many commands were begun
  outside,    \* how many changes were made outside
  given,      \* history: the Trash UID that a COPY allocated, while it must last
  gone        \* history: what was told as copied out of INBOX, while it must stay out

upstream == <<trashed, index>>
store == <<uidOf, next_uid>>
service == <<latest, listed, held, pins, generation>>
sync == <<inflight, task>>
bounds == <<commands, outside>>
vars == <<upstream, store, service, sync, caller, bounds, given, gone>>

FreeTask == [state |-> "free", view |-> "INBOX", at |-> 1, page |-> FALSE, got |-> {}]
NoFlight == [by |-> NoOne, gen |-> 0]

\* items: <<message, source UID>> still to be copied; pairs: what was copied.
\* done (history): those messages, while what is told of them binds.
\* own (history): every message so far got its Trash UID in its own turn.
\* expect (history): what was gone when the command entered sync().
Idle == [pc |-> "idle", op |-> "none", view |-> "INBOX", items |-> <<>>, pairs |-> <<>>,
         done |-> {}, own |-> TRUE, on |-> NoOne, gen |-> 0, expect |-> {}]

\* INBOX is selected; nobody has opened Trash since the start.
Init ==
  /\ trashed \in SUBSET Messages /\ index = trashed
  /\ uidOf = [v \in Views |-> [m \in Messages |->
                IF v = "INBOX" /\ m \notin trashed THEN m ELSE 0]]
  /\ next_uid = [v \in Views |-> IF v = "INBOX" THEN MaxMessage + 1 ELSE 1]
  /\ latest = uidOf /\ listed = {"INBOX"}
  /\ held = {} /\ pins = {}
  /\ generation = [v \in Views |-> 0]
  /\ inflight = [v \in Views |-> NoFlight]
  /\ task = [s \in Sessions |-> FreeTask]
  /\ caller = [s \in Sessions |-> Idle]
  /\ commands = 0 /\ outside = 0
  /\ given = NoUids /\ gone = {}

--------------------------------------------------------------------------
(* Upstream, others who use it, and time *)

\* What was told of these messages no longer binds.
Lapse(callers, lost) == [s \in Sessions |-> [callers[s] EXCEPT !.done = @ \ lost, !.expect = @ \ lost]]

OutsideChange(m) ==
  /\ outside < MaxOutside
  /\ outside' = outside + 1
  /\ trashed' = IF m \in trashed THEN trashed \ {m} ELSE trashed \cup {m}
  /\ given' = [given EXCEPT ![m] = 0]
  /\ gone' = gone \ {m}
  /\ caller' = Lapse(caller, {m})
  /\ UNCHANGED <<index, store, service, sync, commands>>

IndexCatchesUp(m) ==
  /\ (m \in index) # (m \in trashed)
  /\ index' = IF m \in trashed THEN index \cup {m} ELSE index \ {m}
  /\ UNCHANGED <<trashed, store, service, sync, caller, bounds, given, gone>>

HoldExpires(m) ==
  /\ m \in held
  /\ held' = held \ {m}
  /\ gone' = gone \ {m}
  /\ caller' = Lapse(caller, {m})
  /\ UNCHANGED <<upstream, store, latest, listed, pins, generation, sync, bounds, given>>

\* A listing of Trash that has been answered without m, other than t.
MissedIn(m, t) ==
  \E u \in Sessions \ {t} :
    /\ task[u].state # "free" /\ task[u].view = "Trash" /\ m \notin task[u].got
    /\ task[u].at > m \/ (task[u].at = m /\ task[u].state = "answered" /\ ~task[u].page)

PinExpires(m) ==
  /\ m \in pins
  /\ pins' = pins \ {m}
  /\ given' = [given EXCEPT ![m] = IF m \notin index \/ MissedIn(m, NoOne) THEN 0 ELSE @]
  /\ UNCHANGED <<upstream, store, latest, listed, held, generation, sync, caller, bounds, gone>>

--------------------------------------------------------------------------
(* sync(force=True), for the command c of session s *)

StartOwn(s, c, v, gen) ==
  /\ task[s].state = "free"
  /\ task' = [task EXCEPT ![s] = [FreeTask EXCEPT !.state = "asked", !.view = v]]
  /\ inflight' = [inflight EXCEPT ![v] = [by |-> s, gen |-> gen]]
  /\ caller' = [caller EXCEPT ![s] = [c EXCEPT !.pc = "join", !.on = s]]

Join(s, c, v) ==
  /\ caller' = [caller EXCEPT ![s] = [c EXCEPT !.pc = "join", !.on = inflight[v].by]]
  /\ UNCHANGED sync

WaitStale(s, c, v, gen) ==
  /\ caller' = [caller EXCEPT ![s] = [c EXCEPT !.pc = "stale", !.on = inflight[v].by, !.gen = gen]]
  /\ UNCHANGED sync

\* gen is the generation of v at this moment.
EnterSync(s, c, v, gen) ==
  IF inflight[v].by = NoOne THEN StartOwn(s, c, v, gen)
  ELSE IF inflight[v].gen >= gen THEN Join(s, c, v)
  ELSE WaitStale(s, c, v, gen)

\* The view a command awaits the listing of: Trash before a COPY, or its own.
Awaited(c) == IF c.items # <<>> THEN "Trash" ELSE c.view

LeaveStale(s) ==
  LET v == Awaited(caller[s]) IN
  /\ caller[s].pc = "unstale"
  /\ IF inflight[v].by # NoOne /\ inflight[v].gen >= caller[s].gen
     THEN Join(s, caller[s], v) ELSE StartOwn(s, caller[s], v, caller[s].gen)
  /\ UNCHANGED <<upstream, store, service, bounds, given, gone>>

\* NOOP and CHECK.
Noop(s, v) ==
  /\ caller[s].pc = "idle" /\ commands < MaxCommands
  /\ v \in listed
  /\ commands' = commands + 1
  /\ EnterSync(s, [Idle EXCEPT !.op = "noop", !.view = v, !.expect = gone], v, generation[v])
  /\ UNCHANGED <<upstream, store, service, outside, given, gone>>

--------------------------------------------------------------------------
(* _do_sync *)

AnswerPage(s) ==
  LET m == task[s].at IN
  /\ task[s].state = "asked"
  /\ task' = [task EXCEPT ![s].state = "answered",
                          ![s].page = (m \in index) = (task[s].view = "Trash")]
  /\ UNCHANGED <<upstream, store, service, inflight, caller, bounds, given, gone>>

\* ensure_uids in the order of the timestamps.
Unseen(v, shown) == {m \in shown : uidOf[v][m] = 0}
EnsureUids(v, shown) ==
  [m \in Messages |-> IF m \in Unseen(v, shown)
                      THEN next_uid[v] + Cardinality({k \in Unseen(v, shown) : k < m})
                      ELSE uidOf[v][m]]
TombstoneMissing(uids, shown) == [m \in Messages |-> IF m \in shown THEN uids[m] ELSE 0]

\* Everybody who waits for the task of s goes on: with the first PATCH of a COPY,
\* with the tagged answer, or back into sync().
BeginTurn(c) == [c EXCEPT !.pc = "sent", !.on = NoOne,
                          !.own = @ /\ uidOf["Trash"][c.items[1][1]] = 0]
Wake(s, landed) ==
  [c \in Sessions |->
     LET me == caller[c] IN
     IF me.on # s THEN me
     ELSE IF me.pc = "stale" THEN [me EXCEPT !.pc = "unstale", !.on = NoOne]
     ELSE IF landed /\ me.items # <<>>
          THEN [me EXCEPT !.pc = "first", !.on = NoOne]
          ELSE Idle]
Done(s) ==
  /\ task' = [task EXCEPT ![s] = FreeTask]
  /\ inflight' = [v \in Views |-> IF inflight[v].by = s THEN NoFlight ELSE inflight[v]]

\* _effective_labels: a hold is let go when the page agrees with it.  Another
\* listing may have been answered with an older page that it has not read.
LetGo(s, m) == task[s].view = "Trash" /\ task[s].page /\ m \in held
LetGoEarly(m) ==
  \/ m \notin index
  \/ \E u \in Sessions : /\ task[u].state = "answered" /\ task[u].view = "INBOX"
                         /\ task[u].at = m /\ task[u].page

\* A page is read, and after the last one the listing lands: pins, UIDs,
\* tombstones and the snapshot.
Hidden(s, m) == task[s].view = "INBOX" /\ m \in held
PinsKeptNone(shown) == {}
PinsKept(shown) == pins \ shown
ReadPage(s) ==
  LET m == task[s].at
      v == task[s].view
      got == task[s].got \cup IF task[s].page /\ ~Hidden(s, m) THEN {m} ELSE {}
      last == m = MaxMessage
      kept == IF v = "Trash" THEN PinsKept(got) ELSE {}
      shown == got \cup kept
      uids == EnsureUids(v, shown)
      early == IF LetGo(s, m) /\ LetGoEarly(m) THEN {m} ELSE {}
  IN
  /\ task[s].state = "answered"
  /\ held' = IF LetGo(s, m) THEN held \ {m} ELSE held
  /\ gone' = gone \ early
  /\ IF last
     THEN /\ uidOf' = [uidOf EXCEPT ![v] = TombstoneMissing(uids, shown)]
          /\ next_uid' = [next_uid EXCEPT ![v] = @ + Cardinality(Unseen(v, shown))]
          /\ latest' = [latest EXCEPT ![v] = TombstoneMissing(uids, shown)]
          /\ listed' = listed \cup {v}
          /\ pins' = IF v = "Trash" THEN kept ELSE pins
          /\ given' = [k \in Messages |->
               IF k \in pins \ pins' /\ (k \notin index \/ MissedIn(k, s)) THEN 0 ELSE given[k]]
          /\ caller' = Lapse(Wake(s, TRUE), early)
          /\ Done(s)
     ELSE /\ task' = [task EXCEPT ![s] = [@ EXCEPT !.state = "asked", !.at = m + 1, !.page = FALSE,
                                                !.got = got]]
          /\ caller' = Lapse(caller, early)
          /\ UNCHANGED <<store, latest, listed, pins, given, inflight>>
  /\ UNCHANGED <<upstream, generation, bounds>>

TaskFails(s) ==
  /\ task[s].state # "free"
  /\ caller' = Wake(s, FALSE)
  /\ Done(s)
  /\ UNCHANGED <<upstream, store, service, bounds, given, gone>>

--------------------------------------------------------------------------
(* _copy and copy_to_trash *)

\* The items that the session's set names and the snapshot has, in the order of
\* their UIDs.
InListOrder(v, f) == \A i, j \in DOMAIN f : i < j => f[i] > f[j]
InUidOrder(v, f) == \A i, j \in DOMAIN f : i < j => latest[v][f[i]] < latest[v][f[j]]
Selections(v, chosen) ==
  {[i \in DOMAIN q |-> <<q[i], latest[v][q[i]]>>] :
     q \in {f \in [1..Cardinality(chosen) -> chosen] : InUidOrder(v, f)}}

\* The first COPY lists Trash before it writes anything.
BeginCopy(s, op, v, chosen) ==
  /\ caller[s].pc = "idle" /\ commands < MaxCommands
  /\ v \in listed
  /\ chosen # {} /\ \A m \in chosen : latest[v][m] # 0
  /\ commands' = commands + 1
  /\ \E items \in Selections(v, chosen) :
       LET c == [Idle EXCEPT !.op = op, !.view = v, !.items = items] IN
       IF "Trash" \in listed
       THEN caller' = [caller EXCEPT ![s] = BeginTurn(c)] /\ UNCHANGED sync
       ELSE EnterSync(s, c, "Trash", generation["Trash"])
  /\ UNCHANGED <<upstream, store, service, outside, given, gone>>

\* Trash has been listed: the first PATCH is sent.
FirstTurn(s) ==
  /\ caller[s].pc = "first"
  /\ caller' = [caller EXCEPT ![s] = BeginTurn(@)]
  /\ UNCHANGED <<upstream, store, service, sync, bounds, given, gone>>

PatchApplies(s) ==
  /\ caller[s].pc = "sent"
  /\ trashed' = trashed \cup {caller[s].items[1][1]}
  /\ caller' = [caller EXCEPT ![s].pc = "applied"]
  /\ UNCHANGED <<index, store, service, sync, bounds, given, gone>>

\* Both views have changed, but only for who asks once the batch is through.
BumpTrashOnly(v) == [generation EXCEPT !["Trash"] = @ + 1]
BumpGenerations(v) == [[generation EXCEPT ![v] = @ + 1] EXCEPT !["Trash"] = @ + 1]

\* The answer of a PATCH: hold, UID and pin; then the next PATCH, or the end of
\* COPY, or the listing that MOVE waits for.
PatchAnswered(s) ==
  LET c == caller[s]
      m == c.items[1][1]
      uids == EnsureUids("Trash", {m})
      fresh == uidOf["Trash"][m] = 0
      now == [c EXCEPT !.items = Tail(@), !.pairs = Append(@, <<c.items[1][2], uids[m]>>),
                       !.done = IF m \in trashed THEN @ \cup {m} ELSE @]
  IN
  /\ c.pc = "applied"
  /\ held' = held \cup {m}
  /\ pins' = pins \cup {m}
  /\ uidOf' = [uidOf EXCEPT !["Trash"] = [uidOf["Trash"] EXCEPT ![m] = uids[m]]]
  /\ next_uid' = [next_uid EXCEPT !["Trash"] = IF fresh THEN @ + 1 ELSE @]
  /\ given' = [given EXCEPT ![m] = IF m \in trashed THEN uids[m] ELSE 0]
  /\ IF now.items # <<>>
     THEN /\ caller' = [caller EXCEPT ![s] = BeginTurn(now)]
          /\ UNCHANGED <<generation, gone, sync>>
     ELSE /\ generation' = BumpGenerations(c.view)
          /\ gone' = IF c.view = "INBOX" THEN gone \cup now.done ELSE gone
          /\ IF c.op = "copy"
             THEN caller' = [caller EXCEPT ![s] = [Idle EXCEPT !.pairs = now.pairs, !.own = now.own]]
                  /\ UNCHANGED sync
             ELSE EnterSync(s, [now EXCEPT !.expect = gone'], c.view, generation'[c.view])
  /\ UNCHANGED <<upstream, latest, listed, bounds>>

\* A failed PATCH, an answer that is lost, the command deadline: the batch ends
\* with a tagged NO where it stands.  The PATCH may have taken effect.
PatchFails(s) ==
  /\ caller[s].pc \in {"sent", "applied"}
  /\ caller' = [caller EXCEPT ![s] = Idle]
  /\ UNCHANGED <<upstream, store, service, sync, bounds, given, gone>>

\* The command deadline while a listing is awaited: the task goes on.
SyncTimesOut(s) ==
  /\ caller[s].pc \in {"join", "stale"}
  /\ caller' = [caller EXCEPT ![s] = Idle]
  /\ UNCHANGED <<upstream, store, service, sync, bounds, given, gone>>

--------------------------------------------------------------------------
Next ==
  \/ \E m \in Messages : OutsideChange(m) \/ IndexCatchesUp(m) \/ HoldExpires(m) \/ PinExpires(m)
  \/ \E s \in Sessions, v \in Views : Noop(s, v)
  \/ \E s \in Sessions, op \in {"copy", "move"}, v \in Views, chosen \in SUBSET Messages :
       BeginCopy(s, op, v, chosen)
  \/ \E s \in Sessions :
       \/ LeaveStale(s) \/ AnswerPage(s) \/ ReadPage(s) \/ TaskFails(s)
       \/ FirstTurn(s) \/ PatchApplies(s) \/ PatchAnswered(s) \/ PatchFails(s) \/ SyncTimesOut(s)

Spec == Init /\ [][Next]_vars

--------------------------------------------------------------------------
(* Properties *)

\* How a client reads a set of UIDs, and the pairs of COPYUID: the first source
\* with the first in Trash, and so on.
NumbersOf(item) == LET r == RangeOf(item) IN [i \in 1..(r[2] - r[1]) + 1 |-> r[1] + (i - 1)]
Expand(text) ==
  LET read[n \in 0..Len(text)] == IF n = 0 THEN <<>> ELSE read[n - 1] \o NumbersOf(text[n])
  IN read[Len(text)]
PairsRead(pairs) ==
  LET from == Expand(UidSet([i \in DOMAIN pairs |-> pairs[i][1]]))
      to == Expand(UidSet([i \in DOMAIN pairs |-> pairs[i][2]]))
  IN IF Len(from) = Len(to) THEN {<<from[i], to[i]>> : i \in DOMAIN from} ELSE {}

\* COPYUID gives the client the Trash UID of each message it copied, whatever other
\* sessions copy and list meanwhile, provided each message got its Trash UID in its
\* own turn.  (A message that had one already, as when a COPY is tried again, takes
\* the sorted sets out of step.)
CopyUidIsRead ==
  \A s \in Sessions : caller[s].own => PairsRead(caller[s].pairs) = Range(caller[s].pairs)

\* A Trash UID that COPY or MOVE allocated, in a batch that failed half-way too,
\* stays the UID of the message: no listing that is behind the label takes it
\* away, so the retry is told the same UID.  It lasts while nobody else moves the
\* message and the index is not later than the pin.
KeepsItsTrashUid == \A m \in Messages : given[m] # 0 => uidOf["Trash"][m] = given[m]

\* Whoever asks for a listing after a COPY or MOVE out of INBOX has gone through is
\* not shown the copied messages there, whichever listing answers: a listing that read
\* some pages before the batch does not.
LeavesTheSource ==
  [][ \A s \in Sessions, t \in Sessions :
        /\ caller[s].pc = "join" /\ caller[s].on = t /\ caller'[s].on # t
        /\ caller[s].view = "INBOX" /\ Awaited(caller[s]) = "INBOX"
        /\ ReadPage(t)
        => \A m \in caller[s].expect \cap gone' : latest'["INBOX"][m] = 0 ]_vars
==========================================================================
