--------------------------- MODULE MailboxSync ---------------------------
(***************************************************************************)
(* The sync engine of imapgw/mailbox.py for one mailbox, Drafts: listings  *)
(* coalesced across sessions, the mutation generation that keeps a listing *)
(* older than a mutation from answering for it, the pins that keep a draft *)
(* visible until a listing shows it, APPEND and EXPUNGE.                   *)
(*                                                                         *)
(* A version is one content of one draft and stands for its remote_key;    *)
(* versions are numbered in the order upstream stamped them.  Upstream     *)
(* keeps the current versions and a list index that may lag behind them.   *)
(* Code between two awaits is one step: the event loop has one thread.     *)
(***************************************************************************)
EXTENDS Integers, FiniteSets

CONSTANTS
  Sessions,      \* each has its own AgentMailClient, that is, credentials
  MaxTasks,      \* bound: _do_sync coroutines running at once
  MaxVersions,   \* bound: drafts created plus edits made
  MaxUid,        \* bound: UIDs handed out
  MaxCommands,   \* bound: commands started by all sessions together
  ListingLags,   \* may the list index trail the drafts?
  KeysRevoked,   \* may upstream reject a session's credentials?
  TimeoutsHappen \* may the command deadline cancel a command?

ASSUME SyncAssumption ==
  /\ MaxTasks \in Nat /\ MaxVersions \in Nat \ {0} /\ MaxUid \in Nat /\ MaxCommands \in Nat
  /\ ListingLags \in BOOLEAN /\ KeysRevoked \in BOOLEAN /\ TimeoutsHappen \in BOOLEAN

Tasks == 1..MaxTasks
Versions == 1..MaxVersions

\* Whoever runs sync(): the command of a session, or the re-listing its APPEND
\* left running ("bg"), which uses the same client.
Callers == Sessions \X {"cmd", "bg"}
Client(c) == c[1]

VARIABLES
  cur,        \* upstream: the current version of every draft
  index,      \* upstream: what the list endpoint shows
  draft,      \* upstream: the draft a version belongs to (0: not created yet)
  uidOf,      \* UID store: the live map, 0 where a key is not live
  next_uid,   \* UID store
  latest,     \* _latest: the snapshot the sessions read
  inflight,   \* _inflight: the task callers may join, its generation and client
  generation, \* _generation
  pins,       \* _pinned
  aged,       \* the versions created more than _pin_ttl ago
  rendered,   \* byte cache: the content kept under the stamp of a version, 0 for none
  tasks,      \* the _do_sync coroutines
  caller,     \* where each caller stands
  commands,   \* how many commands were started
  appended    \* history: the UID each acknowledged APPEND was answered with

upstream == <<cur, index, draft>>
store == <<uidOf, next_uid>>
service == <<latest, inflight, generation, pins, rendered>>
vars == <<upstream, store, service, aged, tasks, caller, commands, appended>>

--------------------------------------------------------------------------
(* Values *)

NoUids == [k \in Versions |-> 0]

NoSnapshot == [taken |-> FALSE, items |-> NoUids, uidnext |-> 1]

\* entries: the stamps a listing showed with the version fetched for each.
FreeTask == [state |-> "free", todo |-> {}, entries |-> {}, began |-> 0]

NoTask == 0
NoFlight == [task |-> NoTask, gen |-> 0, owner |-> "nobody"]

\* A caller runs op on behalf of a command and stands at pc:
\*   start   about to enter sync()
\*   await   shielded wait for its own task or one it joined
\*   retry   its own listing after another client's was denied, not shielded
\*   stale   waiting for a listing older than the last mutation to be over
\*   woken   the awaited listing is over, with the outcome
\*   unstale the stale listing is over
\*   post, created, get, delete, deleted: the requests of APPEND and EXPUNGE
Idle == [pc |-> "idle", op |-> "none", key |-> 0, task |-> NoTask, gen |-> 0,
         owner |-> "nobody", outcome |-> "none", began |-> 0]
At(pc, op, key) == [Idle EXCEPT !.pc = pc, !.op = op, !.key = key]

--------------------------------------------------------------------------
(* Upstream: the AgentMail drafts API as the gateway uses it *)

CurrentOf(d) == {k \in cur : draft[k] = d}
Newest == 1 + Cardinality({k \in Versions : draft[k] # 0})

\* Without lag the index follows the drafts in the same step.
IndexFollows == IF ListingLags THEN UNCHANGED index ELSE index' = cur'

CreateVersion(d, replaced) ==
  /\ Newest \in Versions
  /\ draft' = [draft EXCEPT ![Newest] = d]
  /\ cur' = (cur \ replaced) \cup {Newest}
  /\ IndexFollows

\* A draft is written outside the gateway (or by a request that outlived the
\* command that sent it).
UpstreamCreate ==
  /\ CreateVersion(Newest, {})
  /\ UNCHANGED <<store, service, aged, tasks, caller, commands, appended>>

\* Somebody edits a draft outside the gateway: a new version, so a new key.
UpstreamEdit(k) ==
  /\ k \in cur
  /\ CreateVersion(draft[k], {k})
  /\ UNCHANGED <<store, service, aged, tasks, caller, commands, appended>>

\* Somebody sends or deletes a draft outside the gateway.
UpstreamDelete(k) ==
  /\ k \in cur
  /\ cur' = cur \ {k}
  /\ IndexFollows
  /\ UNCHANGED <<draft, store, service, aged, tasks, caller, commands, appended>>

\* The index catches up on one draft.
IndexCatchesUp(d) ==
  /\ index' = {k \in index : draft[k] # d} \cup CurrentOf(d)
  /\ index' # index
  /\ UNCHANGED <<cur, draft, store, service, aged, tasks, caller, commands, appended>>

\* _pin_ttl passes for a version.
PinAges(k) ==
  /\ k \in pins \ aged
  /\ aged' = aged \cup {k}
  /\ UNCHANGED <<upstream, store, service, tasks, caller, commands, appended>>

--------------------------------------------------------------------------
(* UID store operations (module UidStore has their transactions) *)

\* ensure_uids: the unseen keys get the next UIDs in the order of the sort.
\* shown is a set of <<stamp, key>>; the sort is by stamp and stable, and a pin
\* (whose key is its stamp) comes after what the listing showed.
KeysIn(shown) == {e[2] : e \in shown}
Unseen(shown) == {e \in shown : uidOf[e[2]] = 0}
Precedes(e, f) == e[1] < f[1] \/ (e[1] = f[1] /\ e[2] > f[2])
EnsureUidsAboveLive(shown) ==
  [k \in Versions |->
     IF \E e \in Unseen(shown) : e[2] = k
     THEN CHOOSE u \in 1..MaxUid + 1 :
            \A j \in Versions : uidOf[j] < u /\ (u > 1 => \E i \in Versions : uidOf[i] = u - 1)
     ELSE uidOf[k]]
EnsureUids(shown) ==
  [k \in Versions |->
     IF \E e \in Unseen(shown) : e[2] = k
     THEN LET mine == CHOOSE e \in Unseen(shown) : e[2] = k
          IN next_uid + Cardinality({e \in Unseen(shown) : Precedes(e, mine)})
     ELSE uidOf[k]]
NextUidAfter(shown) == next_uid + Cardinality(Unseen(shown))

--------------------------------------------------------------------------
(* sync and _join *)

Goto(c, place) == caller' = [caller EXCEPT ![c] = place]

\* create_task(_do_sync) or a direct call of it, in the lowest free slot.
FreeTasks == {t \in Tasks : tasks[t].state = "free"}
Launch(t) ==
  /\ t \in FreeTasks
  /\ \A u \in FreeTasks : t <= u
  /\ tasks' = [tasks EXCEPT ![t] = [FreeTask EXCEPT !.state = "listing", !.began = generation]]

\* The caller lists by itself and registers the task for others to join, under
\* the generation it read when it entered sync().
StartOwn(c, gen) ==
  \E t \in Tasks :
    /\ Launch(t)
    /\ inflight' = [task |-> t, gen |-> gen, owner |-> Client(c)]
    /\ Goto(c, [caller[c] EXCEPT !.pc = "await", !.task = t, !.gen = gen, !.owner = Client(c)])

Join(c, gen) ==
  /\ Goto(c, [caller[c] EXCEPT !.pc = "await", !.task = inflight.task, !.gen = gen,
                               !.owner = inflight.owner])
  /\ UNCHANGED <<inflight, tasks>>

WaitStale(c, gen) ==
  /\ Goto(c, [caller[c] EXCEPT !.pc = "stale", !.task = inflight.task, !.gen = gen])
  /\ UNCHANGED <<inflight, tasks>>

Forced(c) == caller[c].op # "status"

\* sync() up to its first await.  STATUS alone does not force a listing and may
\* be answered from a snapshot younger than refresh_interval.
EnterSyncJoinsAny(c) ==
  /\ caller[c].pc = "start"
  /\ IF inflight.task # NoTask THEN Join(c, generation) ELSE StartOwn(c, generation)
  /\ UNCHANGED <<upstream, store, latest, generation, pins, rendered, aged, commands, appended>>
EnterSync(c) ==
  /\ caller[c].pc = "start"
  /\ \/ /\ ~Forced(c) /\ latest.taken
        /\ Goto(c, Idle)
        /\ UNCHANGED <<inflight, tasks>>
     \/ /\ inflight.task # NoTask
        /\ inflight.gen >= generation \/ ~Forced(c)
        /\ Join(c, generation)
     \/ /\ inflight.task # NoTask
        /\ inflight.gen < generation /\ Forced(c)
        /\ WaitStale(c, generation)
     \/ /\ inflight.task = NoTask
        /\ StartOwn(c, generation)
  /\ UNCHANGED <<upstream, store, latest, generation, pins, rendered, aged, commands, appended>>

\* The stale listing is over: join what runs now if it is recent enough.
LeaveStale(c) ==
  /\ caller[c].pc = "unstale"
  /\ IF inflight.task # NoTask /\ inflight.gen >= caller[c].gen
     THEN Join(c, caller[c].gen)
     ELSE StartOwn(c, caller[c].gen)
  /\ UNCHANGED <<upstream, store, latest, generation, pins, rendered, aged, commands, appended>>

\* The listing a caller waited for is over.  A denial of another client's
\* credentials makes it list again with its own, outside _inflight.
Resume(c) ==
  /\ caller[c].pc = "woken"
  /\ \/ /\ caller[c].outcome = "denied" /\ caller[c].owner # Client(c)
        /\ \E t \in Tasks :
             /\ Launch(t)
             /\ Goto(c, [caller[c] EXCEPT !.pc = "retry", !.task = t, !.owner = Client(c),
                                          !.outcome = "none"])
     \/ /\ caller[c].outcome = "ok"
        /\ Goto(c, IF caller[c].op = "append" THEN At("post", "append", 0) ELSE Idle)
        /\ UNCHANGED tasks
     \/ /\ \/ caller[c].outcome = "unavailable"
           \/ caller[c].outcome = "denied" /\ caller[c].owner = Client(c)
        /\ Goto(c, Idle)
        /\ UNCHANGED tasks
  /\ UNCHANGED <<upstream, store, service, aged, commands, appended>>

--------------------------------------------------------------------------
(* _do_sync *)

\* Everybody waiting for t is woken, and _done takes t out of _inflight if it
\* is still the registered task.  (Callers that find a finished task before
\* its callback ran see what they would have seen by joining it in time.)
WakeNoStale(t, outcome, began) ==
  caller' = [c \in Callers |->
    IF caller[c].task # t \/ caller[c].pc = "stale" THEN caller[c]
    ELSE [caller[c] EXCEPT !.pc = "woken", !.task = NoTask, !.outcome = outcome, !.began = began]]
Wake(t, outcome, began) ==
  caller' = [c \in Callers |->
    IF caller[c].task # t THEN caller[c]
    ELSE IF caller[c].pc = "stale"
         THEN [caller[c] EXCEPT !.pc = "unstale", !.task = NoTask]
         ELSE [caller[c] EXCEPT !.pc = "woken", !.task = NoTask, !.outcome = outcome,
                                !.began = began]]
Done(t) == inflight' = IF inflight.task = t THEN NoFlight ELSE inflight

\* _collect_drafts: the list answers with the stamps the index has.
ServeList(t) ==
  /\ tasks[t].state = "listing"
  /\ tasks' = [tasks EXCEPT ![t].state = "fetching", ![t].todo = index]
  /\ UNCHANGED <<upstream, store, service, aged, caller, commands, appended>>

Collect(t, k, contents) ==
  tasks' = [tasks EXCEPT ![t].todo = @ \ {k}, ![t].entries = @ \cup ({k} \X contents)]

\* _render_draft: the cached content of the listed stamp, if it has not been
\* evicted, or a GET, whose answer is cached under that stamp.  A draft that is
\* gone by then is left out.  Drafts are fetched one after the other.
FetchDraft(t, k) ==
  /\ k \in tasks[t].todo
  /\ \A j \in tasks[t].todo : k <= j
  /\ \/ rendered[k] # 0 /\ Collect(t, k, {rendered[k]}) /\ UNCHANGED rendered
     \/ CurrentOf(draft[k]) = {} /\ Collect(t, k, {}) /\ UNCHANGED rendered
     \/ \E v \in CurrentOf(draft[k]) :
          Collect(t, k, {v}) /\ rendered' = [rendered EXCEPT ![k] = v]
  /\ UNCHANGED <<upstream, store, latest, inflight, generation, pins, aged, caller, commands,
                 appended>>

\* _apply_pins: a pin is dropped when the listing shows the version or the pin
\* has expired, and otherwise adds its entry.
PinsKept(listed) == pins \ (KeysIn(listed) \cup aged)

ApplyNoPins(listed) == listed
ApplyPins(listed) == listed \cup {<<k, k>> : k \in PinsKept(listed)}

\* tombstone_missing, and the items of the snapshot.
TombstoneNothing(uids, shown) == uids
TombstoneMissing(uids, shown) == [k \in Versions |-> IF k \in KeysIn(shown) THEN uids[k] ELSE 0]
Items(uids, shown) == [k \in Versions |-> IF k \in KeysIn(shown) THEN uids[k] ELSE 0]

\* The rest of _do_sync, without an await: pins, UIDs, tombstones, snapshot.
Land(t) ==
  /\ tasks[t].state = "fetching" /\ tasks[t].todo = {}
  /\ LET listed == tasks[t].entries
         shown == ApplyPins(listed)
         uids == EnsureUids(shown)
     IN /\ NextUidAfter(shown) <= MaxUid + 1
        /\ uidOf' = TombstoneMissing(uids, shown)
        /\ next_uid' = NextUidAfter(shown)
        /\ latest' = [taken |-> TRUE, items |-> Items(uids, shown), uidnext |-> next_uid']
  /\ pins' = PinsKept(tasks[t].entries)
  /\ Wake(t, "ok", tasks[t].began)
  /\ Done(t)
  /\ tasks' = [tasks EXCEPT ![t] = FreeTask]
  /\ UNCHANGED <<upstream, generation, rendered, aged, commands, appended>>

\* A failed or malformed listing, or a rejected key, changes nothing else.
FailListing(t) ==
  /\ tasks[t].state # "free"
  /\ \E outcome \in {"unavailable", "denied"} :
       /\ outcome = "denied" => KeysRevoked
       /\ Wake(t, outcome, 0)
  /\ Done(t)
  /\ tasks' = [tasks EXCEPT ![t] = FreeTask]
  /\ UNCHANGED <<upstream, store, latest, generation, pins, rendered, aged, commands, appended>>

--------------------------------------------------------------------------
(* Commands *)

Command(s, place) ==
  /\ caller[<<s, "cmd">>] = Idle
  /\ commands < MaxCommands
  /\ commands' = commands + 1
  /\ Goto(<<s, "cmd">>, place)
  /\ UNCHANGED <<upstream, store, service, aged, tasks, appended>>

\* SELECT and NOOP force a listing, STATUS does not.
ListCommand(s) == Command(s, At("start", "list", 0))
StatusCommand(s) == Command(s, At("start", "status", 0))

\* append_draft: first contact gives the existing drafts their UIDs.
AppendCommand(s) ==
  Command(s, IF latest.taken THEN At("post", "append", 0) ELSE At("start", "append", 0))

\* The POST takes effect upstream.  (A lost response is retried with the same
\* client_id and answered with the same draft.)
PostDraft(c) ==
  /\ caller[c].pc = "post"
  /\ CreateVersion(Newest, {})
  /\ Goto(c, At("created", "append", Newest))
  /\ UNCHANGED <<store, service, aged, tasks, commands, appended>>

PostFails(c) ==
  /\ caller[c].pc = "post"
  /\ Goto(c, Idle)
  /\ UNCHANGED <<upstream, store, service, aged, tasks, commands, appended>>

\* The response: UID, pin, generation and the re-listing, without an await.
FinishAppend(c) ==
  LET k == caller[c].key
      bg == <<Client(c), "bg">>
  IN
  /\ caller[c].pc = "created"
  /\ caller[bg] = Idle
  /\ NextUidAfter({<<k, k>>}) <= MaxUid + 1
  /\ uidOf' = EnsureUids({<<k, k>>})
  /\ next_uid' = NextUidAfter({<<k, k>>})
  /\ pins' = pins \cup {k}
  /\ generation' = generation + 1
  /\ rendered' = [rendered EXCEPT ![k] = k]
  /\ caller' = [caller EXCEPT ![c] = Idle, ![bg] = At("start", "resync", 0)]
  /\ appended' = [appended EXCEPT ![k] = uidOf'[k]]
  /\ UNCHANGED <<upstream, latest, inflight, aged, tasks, commands>>

\* expunge_items on one draft of the snapshot.
ExpungeCommand(s, k) ==
  /\ latest.items[k] # 0
  /\ Command(s, At("get", "expunge", k))

\* GET: a draft that is gone, or is no longer the version the client marked, is
\* left alone and reported; the forced sync follows in any case.
CheckDraft(c) ==
  /\ caller[c].pc = "get"
  /\ \/ caller[c].key \in cur /\ Goto(c, At("delete", "expunge", caller[c].key))
     \/ Goto(c, At("start", "expunge", caller[c].key))
  /\ UNCHANGED <<upstream, store, service, aged, tasks, commands, appended>>

\* DELETE takes effect on whatever version the draft has by now.
DeleteDraft(c) ==
  LET gone == CurrentOf(draft[caller[c].key]) IN
  /\ caller[c].pc = "delete"
  /\ gone # {}
  /\ cur' = cur \ gone
  /\ IndexFollows
  /\ Goto(c, At("deleted", "expunge", caller[c].key))
  /\ UNCHANGED <<draft, store, service, aged, tasks, commands, appended>>

\* The draft was gone already: 404.
DeleteMisses(c) ==
  /\ caller[c].pc = "delete"
  /\ CurrentOf(draft[caller[c].key]) = {}
  /\ Goto(c, At("start", "expunge", caller[c].key))
  /\ UNCHANGED <<upstream, store, service, aged, tasks, commands, appended>>

\* The response to DELETE arrives: the pin goes and the generation moves.
FinishExpungeQuietly(c) ==
  /\ caller[c].pc = "deleted"
  /\ pins' = pins \ {caller[c].key}
  /\ Goto(c, At("start", "expunged", caller[c].key))
  /\ UNCHANGED <<upstream, store, latest, inflight, generation, rendered, aged, tasks, commands,
                 appended>>
FinishExpunge(c) ==
  /\ caller[c].pc = "deleted"
  /\ pins' = pins \ {caller[c].key}
  /\ generation' = generation + 1
  /\ Goto(c, At("start", "expunged", caller[c].key))
  /\ UNCHANGED <<upstream, store, latest, inflight, rendered, aged, tasks, commands, appended>>

\* The response is lost (5xx or a broken connection after the effect): the
\* client retries, gets 404, and the item counts as not removed.
DeleteResponseLost(c) ==
  /\ caller[c].pc = "deleted"
  /\ Goto(c, At("start", "expunge", caller[c].key))
  /\ UNCHANGED <<upstream, store, service, aged, tasks, commands, appended>>

\* The command deadline cancels a command at an await.  Shielded listings go
\* on; the retry of _join is awaited directly and dies with the command.
TimeOut(c) ==
  /\ TimeoutsHappen
  /\ c[2] = "cmd"
  /\ caller[c].pc \notin {"idle", "start"}
  /\ Goto(c, Idle)
  /\ tasks' = IF caller[c].pc = "retry" THEN [tasks EXCEPT ![caller[c].task] = FreeTask] ELSE tasks
  /\ UNCHANGED <<upstream, store, service, aged, commands, appended>>

--------------------------------------------------------------------------
\* One draft exists upstream, listed, before the gateway first looks.
Init ==
  /\ draft = [k \in Versions |-> IF k = 1 THEN 1 ELSE 0]
  /\ cur = {1} /\ index = {1}
  /\ uidOf = NoUids /\ next_uid = 1
  /\ latest = NoSnapshot
  /\ inflight = NoFlight
  /\ generation = 0
  /\ pins = {} /\ aged = {} /\ rendered = [k \in Versions |-> 0]
  /\ tasks = [t \in Tasks |-> FreeTask]
  /\ caller = [c \in Callers |-> Idle]
  /\ commands = 0
  /\ appended = NoUids

SyncSteps(c) == EnterSync(c) \/ LeaveStale(c) \/ Resume(c)
ListingSteps(t) ==
  \/ ServeList(t) \/ (\E k \in Versions : FetchDraft(t, k))
  \/ Land(t) \/ FailListing(t)
RequestSteps(c) ==
  \/ PostDraft(c) \/ PostFails(c) \/ FinishAppend(c)
  \/ CheckDraft(c) \/ DeleteDraft(c) \/ DeleteMisses(c) \/ FinishExpunge(c)
  \/ DeleteResponseLost(c)
Commands(s) ==
  \/ ListCommand(s) \/ StatusCommand(s) \/ AppendCommand(s)
  \/ \E k \in Versions : ExpungeCommand(s, k)

Next ==
  \/ \E c \in Callers : SyncSteps(c) \/ RequestSteps(c) \/ TimeOut(c)
  \/ \E t \in Tasks : ListingSteps(t)
  \/ \E s \in Sessions : Commands(s)
  \/ UpstreamCreate
  \/ \E k \in Versions : UpstreamEdit(k) \/ UpstreamDelete(k) \/ IndexCatchesUp(k) \/ PinAges(k)

Spec == Init /\ [][Next]_vars

\* The event loop runs whatever is ready, and every request ends: http_timeout
\* and the retry budget bound it.  Nothing is assumed of clients, of upstream
\* edits, of the index or of the command deadline.
Fairness ==
  /\ \A c \in Callers : WF_vars(SyncSteps(c)) /\ WF_vars(RequestSteps(c))
  /\ \A t \in Tasks : WF_vars(ListingSteps(t))

FairSpec == Spec /\ Fairness

--------------------------------------------------------------------------
(* Properties *)

\* What the sessions read is what the UID store holds: an item of the snapshot
\* is live under the UID it is shown with, and a live key the snapshot does not
\* show has a UID the snapshot has not reached.  APPEND writes the store outside
\* a listing, and _do_sync writes the store before the snapshot.
SnapshotIsStore ==
  latest.taken =>
    \A k \in Versions :
      /\ latest.items[k] # 0 => uidOf[k] = latest.items[k]
      /\ uidOf[k] # 0 /\ latest.items[k] = 0 => uidOf[k] >= latest.uidnext

\* A snapshot never shows, under a UID below the UIDNEXT of the one it replaces,
\* an item the other did not show there: flush_pending may append the arrivals to
\* the message numbers the client knows.  Listings land in any order.
ArrivalsAreNewer ==
  [][ latest.taken =>
        \A k \in Versions :
          latest'.items[k] \in {0, latest.items[k]} \cup {u \in Nat : u >= latest.uidnext} ]_latest

\* A forced sync answers with a listing that began at or after the generation
\* it found on entry, whatever it joined, waited for or retried.
ReturnedIsFresh ==
  \A c \in Callers :
    caller[c].pc = "woken" /\ caller[c].outcome = "ok" /\ Forced(c)
      => caller[c].began >= caller[c].gen

\* While a draft is pinned no listing takes its UID away: it is live under the
\* UID its APPEND was answered with.
PinnedStaysLive ==
  \A k \in pins : appended[k] # 0 /\ uidOf[k] = appended[k]

\* The listing that answers an EXPUNGE which removed a draft does not show that
\* draft, unless an APPEND answered after the removal pinned it.  (Stated of an
\* index that does not lag.)
RemovedIsGone ==
  [][ \A c \in Callers :
        /\ caller[c].op = "expunged" /\ caller[c].pc \in {"await", "retry"}
        /\ caller'[c].pc = "woken" /\ caller'[c].outcome = "ok"
        /\ ~ListingLags
        => latest'.items[caller[c].key] = 0 \/ caller[c].key \in pins' ]_vars

\* Every command and every re-listing ends: no caller waits for ever on a
\* listing that is over, nor on another caller.
EveryCallerReturns == \A c \in Callers : caller[c].pc # "idle" ~> caller[c].pc = "idle"

\* "A listing that does not yet show the new draft cannot remove it": an
\* acknowledged draft that still exists unedited keeps its UID until its pin
\* expires.
AppendedStaysListed ==
  \A k \in cur \ aged : appended[k] # 0 => uidOf[k] = appended[k]
==========================================================================
