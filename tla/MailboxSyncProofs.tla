------------------------ MODULE MailboxSyncProofs ------------------------
(***************************************************************************)
(* Proofs about MailboxSync, for any sessions and any bounds: what the     *)
(* store and the snapshot hold, which listing answers a caller, and that   *)
(* what was removed is gone.                                               *)
(***************************************************************************)
EXTENDS MailboxSync, FiniteSetTheorems, TLAPS

--------------------------------------------------------------------------
(* Types *)

Owners == Sessions \cup {"nobody"}
TaskRecords ==
  [state : {"free", "listing", "fetching"}, todo : SUBSET Versions,
   entries : SUBSET (Versions \X Versions), began : Nat]
Pcs == {"idle", "start", "await", "retry", "stale", "woken", "unstale", "post", "created", "get",
        "delete", "deleted"}
Ops == {"none", "list", "status", "append", "resync", "expunge", "expunged"}
Places ==
  [pc : Pcs, op : Ops, key : 0..MaxVersions, task : 0..MaxTasks, gen : Nat, owner : Owners,
   outcome : {"none", "ok", "unavailable", "denied"}, began : Nat]

UpstreamTypes ==
  /\ cur \subseteq Versions /\ index \subseteq Versions
  /\ draft \in [Versions -> 0..MaxVersions]
StoreTypes ==
  /\ uidOf \in [Versions -> Nat] /\ next_uid \in Nat
  /\ latest \in [taken : BOOLEAN, items : [Versions -> Nat], uidnext : Nat]
  /\ pins \subseteq Versions /\ appended \in [Versions -> Nat]
  /\ rendered \in [Versions -> 0..MaxVersions]
SyncTypes ==
  /\ inflight \in [task : 0..MaxTasks, gen : Nat, owner : Owners]
  /\ generation \in Nat
  /\ tasks \in [Tasks -> TaskRecords]
  /\ caller \in [Callers -> Places]

\* The key of a request is a version.
KeysAreVersions ==
  \A c \in Callers :
    caller[c].pc \in {"created", "get", "delete", "deleted"} \/ caller[c].op = "expunged"
      => caller[c].key \in Versions

Types == UpstreamTypes /\ StoreTypes /\ SyncTypes /\ KeysAreVersions

\* An idle caller, a request and a listing that has not begun are well typed.
LEMMA IdleType ==
  /\ Idle \in Places /\ Idle.pc = "idle" /\ Idle.op = "none" /\ Idle.task = 0 /\ Idle.gen = 0
  /\ Idle.outcome = "none"
BY SyncAssumption DEF Idle, Places, Pcs, Ops, NoTask, Owners

LEMMA AtType ==
  ASSUME NEW pc \in Pcs, NEW op \in Ops, NEW key \in 0..MaxVersions
  PROVE  /\ At(pc, op, key) \in Places
         /\ At(pc, op, key).pc = pc /\ At(pc, op, key).op = op /\ At(pc, op, key).key = key
         /\ At(pc, op, key).task = 0 /\ At(pc, op, key).gen = 0
         /\ At(pc, op, key).outcome = "none"
BY IdleType DEF At, Places

LEMMA FreeTaskType ==
  /\ FreeTask \in TaskRecords /\ FreeTask.state = "free"
  /\ FreeTask.todo = {} /\ FreeTask.entries = {} /\ FreeTask.began = 0
BY DEF FreeTask, TaskRecords

\* The record of a listing that begins now.
Begun == [FreeTask EXCEPT !.state = "listing", !.began = generation]

LEMMA BegunType ==
  ASSUME generation \in Nat
  PROVE  /\ Begun \in TaskRecords
         /\ Begun.state = "listing" /\ Begun.began = generation
         /\ Begun.todo = {} /\ Begun.entries = {}
BY DEF Begun, FreeTask, TaskRecords

\* Idle and the slots of tasks and versions are numbers.
LEMMA Numbers ==
  /\ NoTask = 0 /\ 0 \notin Tasks /\ Tasks \subseteq 0..MaxTasks /\ Tasks \subseteq Nat
  /\ Versions \subseteq 0..MaxVersions /\ 0 \notin Versions /\ Versions \subseteq Nat
  /\ 1 \in Versions
BY SyncAssumption DEF NoTask, Tasks, Versions

\* The client of a caller is a session, and callers of a session are callers.
LEMMA CallerFacts ==
  /\ \A c \in Callers : Client(c) \in Sessions /\ <<Client(c), "bg">> \in Callers
  /\ \A s \in Sessions : <<s, "cmd">> \in Callers
BY DEF Callers, Client

--------------------------------------------------------------------------
(* The inductive invariants *)

\* The store and the snapshot: every UID was handed out, and the snapshot was
\* taken no later than now.
StoreInv ==
  /\ next_uid > 0 /\ latest.uidnext <= next_uid
  /\ \A k \in Versions : uidOf[k] < next_uid
  /\ SnapshotIsStore
  /\ PinnedStaysLive

\* Waiting: a listing began no later than now; whoever waits, waits for one that
\* runs, and a forced sync only for one that began after it entered; the retry of
\* _join is nobody else's.
Waits == {"await", "retry", "stale"}
WaitsFor(c) ==
  /\ caller[c].gen <= generation
  /\ (caller[c].task # NoTask) <=> (caller[c].pc \in Waits)
  /\ caller[c].task # NoTask => tasks[caller[c].task].state # "free"
  /\ caller[c].pc \in {"await", "retry"} /\ Forced(c) => tasks[caller[c].task].began >= caller[c].gen
RetriesAlone(c) ==
  caller[c].pc = "retry" =>
    /\ inflight.task # caller[c].task
    /\ \A d \in Callers : d # c => caller[d].task # caller[c].task
FlightIsOn ==
  inflight.task # NoTask =>
    tasks[inflight.task].state # "free" /\ tasks[inflight.task].began >= inflight.gen
WaitInv ==
  /\ \A t \in Tasks : tasks[t].began <= generation
  /\ FlightIsOn
  /\ \A c \in Callers : WaitsFor(c) /\ RetriesAlone(c)
  /\ ReturnedIsFresh

\* Upstream: versions are created in order, a draft has one current version, and
\* without lag the index shows what is current.
Created == {k \in Versions : draft[k] # 0}
OneCurrent ==
  /\ \E n \in 0..MaxVersions : Created = 1..n
  /\ cur \subseteq Created /\ index \subseteq Created
  /\ \A k \in Versions : draft[k] <= k
  /\ \A j, k \in cur : draft[j] = draft[k] => j = k
  /\ ~ListingLags => index = cur

\* What a listing has to fetch, what is cached and what was posted exists; the
\* cached content of a current version is its own.
TodoExists == \A t \in Tasks : tasks[t].todo \subseteq Created
CacheIsOwn ==
  /\ \A j \in Versions : rendered[j] # 0 => j \in Created
  /\ \A j \in cur : rendered[j] \in {0, j}
PostedExists == \A c \in Callers : caller[c].pc = "created" => caller[c].key \in Created
VersionInv == OneCurrent /\ TodoExists /\ CacheIsOwn /\ PostedExists

\* A removed version is not current, and a listing that may answer its EXPUNGE
\* neither shows it nor has it to fetch.
Clean(t, key) ==
  /\ \A j \in tasks[t].todo : j # key /\ rendered[j] # key
  /\ \A e \in tasks[t].entries : e[2] # key
Since(c) == IF caller[c].pc = "start" THEN generation ELSE caller[c].gen
Removed(c) == caller[c].pc = "deleted" \/ caller[c].op = "expunged"
RemovedIsOld == \A c \in Callers : Removed(c) => caller[c].key \in Created \ cur
ListingsAreClean ==
  ~ListingLags =>
    \A c \in Callers : \A t \in Tasks :
      /\ caller[c].op = "expunged"
      /\ tasks[t].state # "free" /\ tasks[t].began >= Since(c)
      => Clean(t, caller[c].key)
GoneInv == RemovedIsOld /\ ListingsAreClean

--------------------------------------------------------------------------
(* What a step does to the callers, the listings and upstream *)

\* One caller moves.
LEMMA GotoMoves ==
  ASSUME caller \in [Callers -> Places], NEW c \in Callers, NEW place \in Places, Goto(c, place)
  PROVE  /\ caller' \in [Callers -> Places]
         /\ caller'[c] = place
         /\ \A d \in Callers : d # c => caller'[d] = caller[d]
BY DEF Goto

\* One listing begins, in a free slot.
LEMMA LaunchBegins ==
  ASSUME tasks \in [Tasks -> TaskRecords], generation \in Nat, NEW t \in Tasks, Launch(t)
  PROVE  /\ tasks' \in [Tasks -> TaskRecords]
         /\ tasks[t].state = "free"
         /\ tasks'[t] = Begun
         /\ \A u \in Tasks : u # t => tasks'[u] = tasks[u]
<1>1. tasks' = [tasks EXCEPT ![t] = Begun] /\ tasks[t].state = "free"
  BY DEF Launch, FreeTasks, Begun
<1> QED  BY <1>1, BegunType

\* StartOwn, Join, WaitStale and the retry of Resume: what they make of the caller.
Waiting(c, pc, t, gen) ==
  /\ caller' \in [Callers -> Places]
  /\ caller'[c].pc = pc /\ caller'[c].task = t /\ caller'[c].gen = gen
  /\ caller'[c].op = caller[c].op /\ caller'[c].key = caller[c].key
  /\ \A d \in Callers : d # c => caller'[d] = caller[d]

LEMMA StartOwnWaits ==
  ASSUME SyncTypes, NEW c \in Callers, NEW gen \in Nat, StartOwn(c, gen)
  PROVE  \E t \in Tasks :
           /\ Launch(t) /\ Waiting(c, "await", t, gen)
           /\ inflight' = [task |-> t, gen |-> gen, owner |-> Client(c)]
<1>1. PICK t \in Tasks :
        /\ Launch(t)
        /\ inflight' = [task |-> t, gen |-> gen, owner |-> Client(c)]
        /\ Goto(c, [caller[c] EXCEPT !.pc = "await", !.task = t, !.gen = gen, !.owner = Client(c)])
  BY DEF StartOwn
<1> DEFINE place == [caller[c] EXCEPT !.pc = "await", !.task = t, !.gen = gen, !.owner = Client(c)]
<1>2. /\ place \in Places
      /\ place.pc = "await" /\ place.task = t /\ place.gen = gen
      /\ place.op = caller[c].op /\ place.key = caller[c].key
  <2>1. caller[c] \in Places /\ "await" \in Pcs /\ t \in 0..MaxTasks /\ Client(c) \in Owners
    BY Numbers, CallerFacts DEF Pcs, SyncTypes, Owners
  <2> QED  BY <2>1 DEF Places
<1>3. Waiting(c, "await", t, gen)
  <2> HIDE DEF place
  <2> QED  BY <1>1, <1>2, GotoMoves DEF Waiting, SyncTypes, place
<1> QED  BY <1>1, <1>3

LEMMA JoinWaits ==
  ASSUME SyncTypes, NEW c \in Callers, NEW gen \in Nat, Join(c, gen)
  PROVE  Waiting(c, "await", inflight.task, gen) /\ UNCHANGED <<inflight, tasks>>
<1> DEFINE place == [caller[c] EXCEPT !.pc = "await", !.task = inflight.task, !.gen = gen,
                               !.owner = inflight.owner]
<1>1. /\ place \in Places
      /\ place.pc = "await" /\ place.task = inflight.task /\ place.gen = gen
      /\ place.op = caller[c].op /\ place.key = caller[c].key
  <2>1. /\ caller[c] \in Places /\ "await" \in Pcs
        /\ inflight.task \in 0..MaxTasks /\ inflight.owner \in Owners
    BY DEF Pcs, SyncTypes
  <2> QED  BY <2>1 DEF Places
<1>2. Goto(c, place) /\ UNCHANGED <<inflight, tasks>>
  BY DEF Join
<1> HIDE DEF place
<1> QED  BY <1>1, <1>2, GotoMoves DEF Waiting, SyncTypes

LEMMA WaitStaleWaits ==
  ASSUME SyncTypes, NEW c \in Callers, NEW gen \in Nat, WaitStale(c, gen)
  PROVE  Waiting(c, "stale", inflight.task, gen) /\ UNCHANGED <<inflight, tasks>>
<1> DEFINE place == [caller[c] EXCEPT !.pc = "stale", !.task = inflight.task, !.gen = gen]
<1>1. /\ place \in Places
      /\ place.pc = "stale" /\ place.task = inflight.task /\ place.gen = gen
      /\ place.op = caller[c].op /\ place.key = caller[c].key
  <2>1. /\ caller[c] \in Places /\ "stale" \in Pcs /\ inflight.task \in 0..MaxTasks
    BY DEF Pcs, SyncTypes
  <2> QED  BY <2>1 DEF Places
<1>2. Goto(c, place) /\ UNCHANGED <<inflight, tasks>>
  BY DEF WaitStale
<1> HIDE DEF place
<1> QED  BY <1>1, <1>2, GotoMoves DEF Waiting, SyncTypes

\* The retry of _join.
RetryOwn(c) ==
  \E t \in Tasks :
    /\ Launch(t)
    /\ Goto(c, [caller[c] EXCEPT !.pc = "retry", !.task = t, !.owner = Client(c),
                                 !.outcome = "none"])

LEMMA RetryWaits ==
  ASSUME SyncTypes, NEW c \in Callers, RetryOwn(c)
  PROVE  \E t \in Tasks : Launch(t) /\ Waiting(c, "retry", t, caller[c].gen)
<1>1. PICK t \in Tasks :
        /\ Launch(t)
        /\ Goto(c, [caller[c] EXCEPT !.pc = "retry", !.task = t, !.owner = Client(c),
                                     !.outcome = "none"])
  BY DEF RetryOwn
<1> DEFINE place == [caller[c] EXCEPT !.pc = "retry", !.task = t, !.owner = Client(c),
                                     !.outcome = "none"]
<1>2. /\ place \in Places
      /\ place.pc = "retry" /\ place.task = t /\ place.gen = caller[c].gen
      /\ place.op = caller[c].op /\ place.key = caller[c].key
  <2>1. caller[c] \in Places /\ "retry" \in Pcs /\ t \in 0..MaxTasks /\ Client(c) \in Owners
    BY Numbers, CallerFacts DEF Pcs, SyncTypes, Owners
  <2> QED  BY <2>1 DEF Places
<1>3. Waiting(c, "retry", t, caller[c].gen)
  <2> HIDE DEF place
  <2> QED  BY <1>1, <1>2, GotoMoves DEF Waiting, SyncTypes, place
<1> QED  BY <1>1, <1>3

\* The end of a listing: its slot is free, whoever waited for it goes on, with the
\* operation and the key it had, and nobody else moves.
Over(t, outcome, began) ==
  /\ tasks' \in [Tasks -> TaskRecords] /\ tasks'[t] = FreeTask
  /\ \A u \in Tasks : u # t => tasks'[u] = tasks[u]
  /\ inflight' = IF inflight.task = t THEN NoFlight ELSE inflight
  /\ caller' \in [Callers -> Places]
  /\ \A c \in Callers :
       IF caller[c].task # t THEN caller'[c] = caller[c]
       ELSE /\ caller'[c].op = caller[c].op /\ caller'[c].key = caller[c].key
            /\ caller'[c].gen = caller[c].gen /\ caller'[c].task = NoTask
            /\ \/ caller[c].pc = "stale" /\ caller'[c].pc = "unstale"
               \/ /\ caller[c].pc # "stale" /\ caller'[c].pc = "woken"
                  /\ caller'[c].outcome = outcome /\ caller'[c].began = began

LEMMA ListingIsOver ==
  ASSUME SyncTypes, NEW t \in Tasks, NEW outcome \in {"ok", "unavailable", "denied"},
         NEW began \in Nat, Wake(t, outcome, began), Done(t),
         tasks' = [tasks EXCEPT ![t] = FreeTask]
  PROVE  Over(t, outcome, began)
<1> DEFINE unstale(c) == [caller[c] EXCEPT !.pc = "unstale", !.task = NoTask]
<1> DEFINE woken(c) == [caller[c] EXCEPT !.pc = "woken", !.task = NoTask, !.outcome = outcome,
                                !.began = began]
<1>1. ASSUME NEW c \in Callers
      PROVE  /\ unstale(c) \in Places
             /\ unstale(c).pc = "unstale" /\ unstale(c).task = NoTask
             /\ unstale(c).op = caller[c].op /\ unstale(c).key = caller[c].key
             /\ unstale(c).gen = caller[c].gen
  <2>1. caller[c] \in Places /\ "unstale" \in Pcs /\ NoTask \in 0..MaxTasks
    BY Numbers, SyncAssumption DEF Pcs, SyncTypes
  <2> QED  BY <2>1 DEF Places
<1>2. ASSUME NEW c \in Callers
      PROVE  /\ woken(c) \in Places
             /\ woken(c).pc = "woken" /\ woken(c).task = NoTask
             /\ woken(c).op = caller[c].op /\ woken(c).key = caller[c].key
             /\ woken(c).gen = caller[c].gen
             /\ woken(c).outcome = outcome /\ woken(c).began = began
  <2>1. caller[c] \in Places /\ "woken" \in Pcs /\ NoTask \in 0..MaxTasks
    BY Numbers, SyncAssumption DEF Pcs, SyncTypes
  <2> QED  BY <2>1 DEF Places
<1>3. caller' = [c \in Callers |-> IF caller[c].task # t THEN caller[c]
                                   ELSE IF caller[c].pc = "stale" THEN unstale(c) ELSE woken(c)]
  BY DEF Wake
<1> HIDE DEF unstale, woken
<1>4. caller' \in [Callers -> Places]
  BY <1>1, <1>2, <1>3 DEF SyncTypes
<1>5. ASSUME NEW c \in Callers
      PROVE  IF caller[c].task # t THEN caller'[c] = caller[c]
             ELSE /\ caller'[c].op = caller[c].op /\ caller'[c].key = caller[c].key
                  /\ caller'[c].gen = caller[c].gen /\ caller'[c].task = NoTask
                  /\ \/ caller[c].pc = "stale" /\ caller'[c].pc = "unstale"
                     \/ /\ caller[c].pc # "stale" /\ caller'[c].pc = "woken"
                        /\ caller'[c].outcome = outcome /\ caller'[c].began = began
  BY <1>1, <1>2, <1>3
<1>6. /\ tasks' \in [Tasks -> TaskRecords] /\ tasks'[t] = FreeTask
      /\ \A u \in Tasks : u # t => tasks'[u] = tasks[u]
  BY FreeTaskType DEF SyncTypes
<1> QED  BY <1>4, <1>5, <1>6 DEF Over, Done

\* The steps of sync() and _join in five cases, each with the generation the caller
\* found on entry: it is done, joins, waits for a stale listing, lists, retries.
Rest(c) == \/ Goto(c, Idle)
           \/ Goto(c, At("post", "append", 0))
ListsOwn(c) ==
  \E t \in Tasks :
    /\ Launch(t) /\ Waiting(c, "await", t, Since(c))
    /\ inflight' = [task |-> t, gen |-> Since(c), owner |-> Client(c)]
Retries(c) ==
  /\ \E t \in Tasks : Launch(t) /\ Waiting(c, "retry", t, Since(c))
  /\ UNCHANGED inflight
Joins(c) ==
  /\ inflight.task # NoTask /\ (Forced(c) => inflight.gen >= Since(c))
  /\ Waiting(c, "await", inflight.task, Since(c))
  /\ UNCHANGED <<inflight, tasks>>
WaitsOut(c) ==
  /\ inflight.task # NoTask /\ Waiting(c, "stale", inflight.task, Since(c))
  /\ UNCHANGED <<inflight, tasks>>

LEMMA SyncCases ==
  ASSUME SyncTypes, NEW c \in Callers, SyncSteps(c)
  PROVE  /\ UNCHANGED <<upstream, store, latest, generation, pins, rendered, aged, commands,
                        appended>>
         /\ \/ Rest(c) /\ UNCHANGED <<inflight, tasks>>
            \/ Joins(c) \/ WaitsOut(c) \/ ListsOwn(c) \/ Retries(c)
<1>0. Since(c) \in Nat /\ generation \in Nat
  BY DEF Since, SyncTypes, Places
<1>1. CASE EnterSync(c)
  <2>1. Since(c) = generation
    BY <1>1 DEF EnterSync, Since
  <2>2. CASE Goto(c, Idle) /\ UNCHANGED <<inflight, tasks>>
    BY <1>1, <2>2 DEF EnterSync, Rest
  <2>3. CASE inflight.task # NoTask /\ (inflight.gen >= generation \/ ~Forced(c)) /\ Join(c, generation)
    BY <1>0, <1>1, <2>1, <2>3, JoinWaits DEF EnterSync, Joins
  <2>4. CASE inflight.task # NoTask /\ WaitStale(c, generation)
    BY <1>0, <1>1, <2>1, <2>4, WaitStaleWaits DEF EnterSync, WaitsOut
  <2>5. CASE StartOwn(c, generation)
    <3>1. ListsOwn(c)
      BY <1>0, <2>1, <2>5, StartOwnWaits DEF ListsOwn
    <3> QED  BY <1>1, <3>1 DEF EnterSync
  <2> QED  BY <1>1, <2>2, <2>3, <2>4, <2>5 DEF EnterSync
<1>2. CASE LeaveStale(c)
  <2>1. Since(c) = caller[c].gen
    BY <1>2 DEF LeaveStale, Since
  <2>2. CASE inflight.task # NoTask /\ inflight.gen >= caller[c].gen /\ Join(c, caller[c].gen)
    BY <1>0, <1>2, <2>1, <2>2, JoinWaits DEF LeaveStale, Joins
  <2>3. CASE StartOwn(c, caller[c].gen)
    <3>1. ListsOwn(c)
      BY <1>0, <2>1, <2>3, StartOwnWaits DEF ListsOwn
    <3> QED  BY <1>2, <3>1 DEF LeaveStale
  <2> QED  BY <1>2, <2>2, <2>3 DEF LeaveStale
<1>3. CASE Resume(c)
  <2>1. Since(c) = caller[c].gen /\ UNCHANGED <<upstream, store, service, aged, commands, appended>>
    BY <1>3 DEF Resume, Since
  <2>2. CASE RetryOwn(c)
    <3>1. Retries(c)
      BY <2>1, <2>2, RetryWaits DEF Retries, service
    <3> QED  BY <2>1, <3>1 DEF service
  <2>3. CASE Goto(c, IF caller[c].op = "append" THEN At("post", "append", 0) ELSE Idle)
             /\ UNCHANGED tasks
    BY <2>1, <2>3 DEF Rest, service
  <2>4. CASE Goto(c, Idle) /\ UNCHANGED tasks
    BY <2>1, <2>4 DEF Rest, service
  <2> QED  BY <1>3, <2>2, <2>3, <2>4 DEF Resume, RetryOwn
<1> QED  BY <1>1, <1>2, <1>3 DEF SyncSteps

--------------------------------------------------------------------------
(* Type correctness *)

LEMMA TypesInit == Init => Types
<1> SUFFICES ASSUME Init PROVE Types
  OBVIOUS
<1>1. UpstreamTypes
  BY Numbers, SyncAssumption DEF Init, UpstreamTypes
<1>2. StoreTypes
  <2>1. NoUids \in [Versions -> Nat] /\ [k \in Versions |-> 0] \in [Versions -> 0..MaxVersions]
    BY Numbers, SyncAssumption DEF NoUids
  <2>2. NoSnapshot \in [taken : BOOLEAN, items : [Versions -> Nat], uidnext : Nat]
    BY <2>1 DEF NoSnapshot
  <2> QED  BY <2>1, <2>2 DEF Init, StoreTypes
<1>3. SyncTypes
  <2>1. NoFlight \in [task : 0..MaxTasks, gen : Nat, owner : Owners]
    BY Numbers, SyncAssumption DEF NoFlight, Owners
  <2> QED  BY <2>1, FreeTaskType, IdleType DEF Init, SyncTypes
<1>4. KeysAreVersions
  BY IdleType DEF Init, KeysAreVersions
<1> QED  BY <1>1, <1>2, <1>3, <1>4 DEF Types

LEMMA CreateTypes ==
  ASSUME UpstreamTypes, NEW d \in 0..MaxVersions, NEW replaced, CreateVersion(d, replaced)
  PROVE  UpstreamTypes' /\ Newest \in Versions
BY DEF UpstreamTypes, CreateVersion, IndexFollows

\* UIDs are numbers, and the unseen entries finitely many.
LEMMA UnseenIsFinite ==
  ASSUME NEW shown \in SUBSET (Versions \X Versions)
  PROVE  /\ IsFiniteSet(shown) /\ IsFiniteSet(Unseen(shown))
         /\ Cardinality(Unseen(shown)) \in Nat
<1>1. IsFiniteSet(Versions)
  BY SyncAssumption, FS_Interval DEF Versions
<1>2. IsFiniteSet(Versions \X Versions)
  BY <1>1, FS_Product
<1>3. IsFiniteSet(shown) /\ Unseen(shown) \subseteq shown
  BY <1>2, FS_Subset DEF Unseen
<1> QED  BY <1>3, FS_Subset, FS_CardinalityType

\* ensure_uids: an unseen key gets a UID from next_uid on and below the next one
\* after; the others keep theirs.
LEMMA EnsureUidsFacts ==
  ASSUME StoreTypes, NEW shown \in SUBSET (Versions \X Versions)
  PROVE  /\ EnsureUids(shown) \in [Versions -> Nat]
         /\ NextUidAfter(shown) \in Nat /\ NextUidAfter(shown) >= next_uid
         /\ \A k \in Versions :
              IF uidOf[k] = 0 /\ k \in KeysIn(shown)
              THEN EnsureUids(shown)[k] >= next_uid /\ EnsureUids(shown)[k] < NextUidAfter(shown)
              ELSE EnsureUids(shown)[k] = uidOf[k]
<1> DEFINE U == Unseen(shown)
<1> DEFINE before(k) == {e \in U : Precedes(e, CHOOSE f \in U : f[2] = k)}
<1>1. IsFiniteSet(U) /\ Cardinality(U) \in Nat
  BY UnseenIsFinite
<1>2. ASSUME NEW k \in Versions, \E e \in U : e[2] = k
      PROVE  Cardinality(before(k)) \in Nat /\ Cardinality(before(k)) < Cardinality(U)
  <2> DEFINE mine == CHOOSE f \in U : f[2] = k
  <2>1. mine \in U /\ before(k) = {e \in U : Precedes(e, mine)}
    BY <1>2
  <2> HIDE DEF mine, before
  <2>2. mine[1] \in Nat /\ mine[2] \in Nat
    <3>1. mine \in Versions \X Versions
      BY <2>1 DEF Unseen
    <3> QED  BY <3>1, Numbers
  <2>3. before(k) \subseteq U \ {mine}
    <3>1. ~Precedes(mine, mine)
      BY <2>2 DEF Precedes
    <3> QED  BY <2>1, <3>1
  <2>4. IsFiniteSet(U \ {mine}) /\ Cardinality(U \ {mine}) = Cardinality(U) - 1
    BY <1>1, <2>1, FS_RemoveElement
  <2> HIDE DEF U
  <2>5. IsFiniteSet(before(k)) /\ Cardinality(before(k)) <= Cardinality(U \ {mine})
    BY <2>3, <2>4, FS_Subset
  <2>6. Cardinality(before(k)) \in Nat
    BY <2>5, FS_CardinalityType
  <2> QED  BY <1>1, <2>4, <2>5, <2>6
<1>3. ASSUME NEW k \in Versions
      PROVE  (\E e \in U : e[2] = k) <=> (uidOf[k] = 0 /\ k \in KeysIn(shown))
  BY DEF Unseen, KeysIn
<1>4. EnsureUids(shown) = [k \in Versions |-> IF \E e \in U : e[2] = k
                                              THEN next_uid + Cardinality(before(k))
                                              ELSE uidOf[k]]
  BY DEF EnsureUids
<1>5. NextUidAfter(shown) = next_uid + Cardinality(U)
  BY DEF NextUidAfter
<1> HIDE DEF before, U
<1>6. next_uid \in Nat /\ uidOf \in [Versions -> Nat]
  BY DEF StoreTypes
<1>7. EnsureUids(shown) \in [Versions -> Nat]
  BY <1>2, <1>4, <1>6
<1>8. ASSUME NEW k \in Versions
      PROVE  IF uidOf[k] = 0 /\ k \in KeysIn(shown)
             THEN EnsureUids(shown)[k] >= next_uid /\ EnsureUids(shown)[k] < NextUidAfter(shown)
             ELSE EnsureUids(shown)[k] = uidOf[k]
  BY <1>1, <1>2, <1>3, <1>4, <1>5, <1>6
<1> QED  BY <1>1, <1>5, <1>6, <1>7, <1>8

LEMMA WaitingTypes ==
  ASSUME Types, NEW c \in Callers, NEW pc \in Waits, NEW t, NEW gen, Waiting(c, pc, t, gen)
  PROVE  KeysAreVersions'
BY DEF Waiting, Waits, KeysAreVersions, Types

LEMMA TypesSync == ASSUME Types, NEW c \in Callers, SyncSteps(c) PROVE Types'
<1> USE DEF Types
<1>1. UNCHANGED <<upstream, store, latest, generation, pins, rendered, appended>>
  BY SyncCases
<1>2. UpstreamTypes' /\ StoreTypes'
  BY <1>1 DEF UpstreamTypes, StoreTypes, upstream, store
<1>3. CASE Rest(c) /\ UNCHANGED <<inflight, tasks>>
  <2>1. 0 \in 0..MaxVersions /\ "post" \in Pcs /\ "append" \in Ops
    BY SyncAssumption DEF Pcs, Ops
  <2>2. PICK place : Goto(c, place) /\ place \in {Idle, At("post", "append", 0)}
    BY <1>3 DEF Rest
  <2>3. place \in Places /\ place.pc \in {"idle", "post"} /\ place.op # "expunged"
    BY <2>1, <2>2, IdleType, AtType
  <2>4. SyncTypes'
    BY <1>1, <1>3, <2>2, <2>3, GotoMoves DEF SyncTypes
  <2>5. KeysAreVersions'
    BY <2>2, <2>3, GotoMoves DEF SyncTypes, KeysAreVersions
  <2> QED  BY <1>2, <2>4, <2>5
<1>4. CASE Joins(c) \/ WaitsOut(c)
  <2>1. SyncTypes'
    BY <1>1, <1>4 DEF SyncTypes, Joins, WaitsOut, Waiting
  <2>2. KeysAreVersions'
    BY <1>4, WaitingTypes DEF Joins, WaitsOut, Waits
  <2> QED  BY <1>2, <2>1, <2>2
<1>5. CASE ListsOwn(c)
  <2>1. PICK t \in Tasks : /\ Launch(t) /\ Waiting(c, "await", t, Since(c))
                           /\ inflight' = [task |-> t, gen |-> Since(c), owner |-> Client(c)]
    BY <1>5 DEF ListsOwn
  <2>2. Since(c) \in Nat /\ Client(c) \in Owners /\ t \in 0..MaxTasks
    BY CallerFacts, Numbers DEF Since, SyncTypes, Places, Owners
  <2>3. SyncTypes'
    BY <1>1, <2>1, <2>2, LaunchBegins DEF SyncTypes, Waiting
  <2> QED  BY <1>2, <2>1, <2>3, WaitingTypes DEF Waits
<1>6. CASE Retries(c)
  <2>1. PICK t \in Tasks : Launch(t) /\ Waiting(c, "retry", t, Since(c))
    BY <1>6 DEF Retries
  <2>2. SyncTypes'
    BY <1>1, <1>6, <2>1, LaunchBegins DEF SyncTypes, Waiting, Retries
  <2> QED  BY <1>2, <2>1, <2>2, WaitingTypes DEF Waits
<1> QED  BY <1>3, <1>4, <1>5, <1>6, SyncCases

\* A request that goes from one place to the next.
LEMMA PlaceTypes ==
  ASSUME Types, NEW c \in Callers, NEW place \in Places, Goto(c, place),
         place.pc \in {"created", "get", "delete", "deleted"} \/ place.op = "expunged"
           => place.key \in Versions
  PROVE  caller' \in [Callers -> Places] /\ KeysAreVersions'
BY GotoMoves DEF Types, SyncTypes, KeysAreVersions

\* What the next snapshot is made of is well typed.
LEMMA ShownTypes ==
  ASSUME Types, NEW t \in Tasks
  PROVE  /\ tasks[t].entries \in SUBSET (Versions \X Versions)
         /\ ApplyPins(tasks[t].entries) \in SUBSET (Versions \X Versions)
<1>1. tasks[t].entries \in SUBSET (Versions \X Versions)
  BY DEF Types, SyncTypes, TaskRecords
<1> QED  BY <1>1 DEF ApplyPins, PinsKept, Types, StoreTypes

\* What the parts of the state that a step leaves alone keep.
LEMMA FrameTypes ==
  /\ UNCHANGED upstream /\ UpstreamTypes => UpstreamTypes'
  /\ UNCHANGED <<uidOf, next_uid, latest, pins, appended, rendered>> /\ StoreTypes => StoreTypes'
  /\ UNCHANGED <<inflight, generation, tasks, caller>> /\ SyncTypes => SyncTypes'
  /\ UNCHANGED caller /\ KeysAreVersions => KeysAreVersions'
BY DEF UpstreamTypes, StoreTypes, SyncTypes, KeysAreVersions, upstream

\* Fetching a draft leaves the state and the generation of every listing, and adds
\* to one of them what it fetched.
Fetched(t, k, contents) ==
  /\ tasks' \in [Tasks -> TaskRecords]
  /\ tasks'[t].state = tasks[t].state /\ tasks'[t].began = tasks[t].began
  /\ tasks'[t].todo = tasks[t].todo \ {k}
  /\ tasks'[t].entries = tasks[t].entries \cup ({k} \X contents)
  /\ \A u \in Tasks : u # t => tasks'[u] = tasks[u]

LEMMA CollectFetches ==
  ASSUME SyncTypes, NEW t \in Tasks, NEW k \in Versions, NEW contents \in SUBSET Versions,
         Collect(t, k, contents)
  PROVE  Fetched(t, k, contents)
<1> DEFINE T == [tasks[t] EXCEPT !.todo = @ \ {k}, !.entries = @ \cup ({k} \X contents)]
<1>1. tasks[t] \in TaskRecords /\ tasks' = [tasks EXCEPT ![t] = T]
  BY DEF Collect, SyncTypes
<1>2. /\ T.state = tasks[t].state /\ T.began = tasks[t].began
      /\ T.todo = tasks[t].todo \ {k}
      /\ T.entries = tasks[t].entries \cup ({k} \X contents)
      /\ T \in TaskRecords
  <2>1. /\ tasks[t].todo \ {k} \in SUBSET Versions
        /\ tasks[t].entries \cup ({k} \X contents) \in SUBSET (Versions \X Versions)
    BY <1>1 DEF TaskRecords
  <2> QED  BY <1>1, <2>1 DEF TaskRecords
<1> HIDE DEF T
<1> QED  BY <1>1, <1>2 DEF Fetched, SyncTypes

LEMMA ListBegins ==
  ASSUME SyncTypes, index \subseteq Versions, NEW t \in Tasks, ServeList(t)
  PROVE  /\ tasks' \in [Tasks -> TaskRecords]
         /\ tasks[t].state = "listing" /\ tasks'[t].state = "fetching"
         /\ tasks'[t].began = tasks[t].began
         /\ tasks'[t].todo = index /\ tasks'[t].entries = tasks[t].entries
         /\ \A u \in Tasks : u # t => tasks'[u] = tasks[u]
<1> DEFINE T == [tasks[t] EXCEPT !.state = "fetching", !.todo = index]
<1>1. tasks[t] \in TaskRecords /\ tasks' = [tasks EXCEPT ![t] = T] /\ tasks[t].state = "listing"
  BY DEF ServeList, SyncTypes
<1>2. /\ T.state = "fetching" /\ T.began = tasks[t].began
      /\ T.todo = index /\ T.entries = tasks[t].entries /\ T \in TaskRecords
  BY <1>1 DEF TaskRecords
<1> HIDE DEF T
<1> QED  BY <1>1, <1>2 DEF SyncTypes

\* The three ways a draft is fetched: from the cache, not at all, with a GET.
FetchesFrom(t, k, contents, stored) ==
  /\ Fetched(t, k, contents) /\ rendered' = stored
  /\ k \in tasks[t].todo
  /\ UNCHANGED <<upstream, store, latest, inflight, generation, pins, caller, appended>>

LEMMA FetchCases ==
  ASSUME Types, NEW t \in Tasks, NEW k \in Versions, FetchDraft(t, k)
  PROVE  \/ rendered[k] # 0 /\ FetchesFrom(t, k, {rendered[k]}, rendered)
         \/ FetchesFrom(t, k, {}, rendered)
         \/ \E v \in CurrentOf(draft[k]) : FetchesFrom(t, k, {v}, [rendered EXCEPT ![k] = v])
<1>1. /\ k \in tasks[t].todo
      /\ UNCHANGED <<upstream, store, latest, inflight, generation, pins, caller, appended>>
      /\ \/ rendered[k] # 0 /\ Collect(t, k, {rendered[k]}) /\ UNCHANGED rendered
         \/ CurrentOf(draft[k]) = {} /\ Collect(t, k, {}) /\ UNCHANGED rendered
         \/ \E v \in CurrentOf(draft[k]) :
              Collect(t, k, {v}) /\ rendered' = [rendered EXCEPT ![k] = v]
  BY DEF FetchDraft
<1>2. SyncTypes /\ rendered[k] \in 0..MaxVersions /\ CurrentOf(draft[k]) \subseteq Versions
  BY DEF Types, StoreTypes, UpstreamTypes, CurrentOf
<1>3. CASE rendered[k] # 0 /\ Collect(t, k, {rendered[k]}) /\ UNCHANGED rendered
  <2>1. {rendered[k]} \in SUBSET Versions
    BY <1>2, <1>3 DEF Versions
  <2> QED  BY <1>1, <1>2, <1>3, <2>1, CollectFetches DEF FetchesFrom
<1>4. CASE Collect(t, k, {}) /\ UNCHANGED rendered
  BY <1>1, <1>2, <1>4, CollectFetches DEF FetchesFrom
<1>5. CASE \E v \in CurrentOf(draft[k]) :
             Collect(t, k, {v}) /\ rendered' = [rendered EXCEPT ![k] = v]
  <2>1. PICK v \in CurrentOf(draft[k]) :
             Collect(t, k, {v}) /\ rendered' = [rendered EXCEPT ![k] = v]
    BY <1>5
  <2>2. FetchesFrom(t, k, {v}, [rendered EXCEPT ![k] = v])
    BY <1>1, <1>2, <2>1, CollectFetches DEF FetchesFrom
  <2> QED  BY <2>2
<1> QED  BY <1>1, <1>3, <1>4, <1>5

LEMMA LandIsOver ==
  ASSUME Types, NEW t \in Tasks, Land(t)
  PROVE  Over(t, "ok", tasks[t].began)
<1>1. SyncTypes /\ tasks[t].began \in Nat
  BY DEF Types, SyncTypes, TaskRecords
<1>2. Wake(t, "ok", tasks[t].began) /\ Done(t) /\ tasks' = [tasks EXCEPT ![t] = FreeTask]
  BY DEF Land
<1> QED  BY <1>1, <1>2, ListingIsOver

LEMMA FailIsOver ==
  ASSUME Types, NEW t \in Tasks, FailListing(t)
  PROVE  \E outcome \in {"unavailable", "denied"} : Over(t, outcome, 0)
<1>1. PICK outcome \in {"unavailable", "denied"} : Wake(t, outcome, 0)
  BY DEF FailListing
<1>2. Done(t) /\ tasks' = [tasks EXCEPT ![t] = FreeTask] /\ SyncTypes
  BY DEF FailListing, Types
<1> QED  BY <1>1, <1>2, ListingIsOver

LEMMA OverTypes ==
  ASSUME Types, NEW t \in Tasks, NEW outcome, NEW began, Over(t, outcome, began), generation' \in Nat
  PROVE  SyncTypes' /\ KeysAreVersions'
<1>1. NoFlight \in [task : 0..MaxTasks, gen : Nat, owner : Owners]
  BY Numbers, SyncAssumption DEF NoFlight, Owners
<1>2. SyncTypes'
  BY <1>1 DEF Over, SyncTypes, Types
<1>3. KeysAreVersions'
  <2> SUFFICES ASSUME NEW c \in Callers,
                      caller'[c].pc \in {"created", "get", "delete", "deleted"}
                        \/ caller'[c].op = "expunged"
               PROVE  caller'[c].key \in Versions
    BY DEF KeysAreVersions
  <2> QED  BY DEF Over, KeysAreVersions, Types
<1> QED  BY <1>2, <1>3

\* What Land makes of the store and the snapshot: the keys shown keep or get their
\* UIDs, the others are tombstoned, and the snapshot holds the same.
Landed(t) ==
  LET shown == ApplyPins(tasks[t].entries)
      after == [k \in Versions |-> IF k \in KeysIn(shown) THEN EnsureUids(shown)[k] ELSE 0]
  IN /\ uidOf' = after /\ next_uid' = NextUidAfter(shown)
     /\ latest' = [taken |-> TRUE, items |-> after, uidnext |-> NextUidAfter(shown)]
     /\ pins' = PinsKept(tasks[t].entries)

LEMMA LandLands ==
  ASSUME NEW t \in Tasks, Land(t)
  PROVE  Landed(t) /\ UNCHANGED <<upstream, generation, rendered, aged, commands, appended>>
BY DEF Land, Landed, TombstoneMissing, Items

LEMMA TypesListing == ASSUME Types, NEW t \in Tasks, ListingSteps(t) PROVE Types'
<1> USE DEF Types
<1>1. CASE ServeList(t)
  <2>1. UNCHANGED <<upstream, store, service, caller, appended>>
    BY <1>1 DEF ServeList
  <2>2. SyncTypes'
    BY <1>1, <2>1, ListBegins DEF SyncTypes, UpstreamTypes, service
  <2> QED  BY <2>1, <2>2, FrameTypes DEF store, service
<1>2. CASE \E k \in Versions : FetchDraft(t, k)
  <2>1. PICK k \in Versions : FetchDraft(t, k)
    BY <1>2
  <2>2. PICK contents, stored : /\ FetchesFrom(t, k, contents, stored)
                                /\ \/ stored = rendered
                                   \/ \E v \in Versions : stored = [rendered EXCEPT ![k] = v]
    <3>1. CurrentOf(draft[k]) \subseteq Versions
      BY DEF CurrentOf, UpstreamTypes
    <3> QED  BY <2>1, <3>1, FetchCases
  <2>3. SyncTypes'
    BY <2>2 DEF FetchesFrom, Fetched, SyncTypes
  <2>4. rendered' \in [Versions -> 0..MaxVersions]
    BY <2>2, Numbers DEF FetchesFrom, StoreTypes
  <2>5. StoreTypes'
    BY <2>2, <2>4 DEF FetchesFrom, StoreTypes, store
  <2> QED  BY <2>2, <2>3, <2>5, FrameTypes DEF FetchesFrom
<1>3. CASE Land(t)
  <2>1. Over(t, "ok", tasks[t].began) /\ Landed(t)
        /\ UNCHANGED <<upstream, generation, rendered, aged, commands, appended>>
    BY <1>3, LandIsOver, LandLands
  <2>2. SyncTypes' /\ KeysAreVersions'
    BY <2>1, OverTypes DEF SyncTypes
  <2>3. StoreTypes'
    <3> DEFINE shown == ApplyPins(tasks[t].entries)
    <3> DEFINE after == [k \in Versions |-> IF k \in KeysIn(shown) THEN EnsureUids(shown)[k] ELSE 0]
    <3>1. shown \in SUBSET (Versions \X Versions)
      BY ShownTypes
    <3> HIDE DEF shown
    <3>2. after \in [Versions -> Nat] /\ NextUidAfter(shown) \in Nat
      BY <3>1, EnsureUidsFacts
    <3>3. pins' \subseteq Versions
      BY <2>1 DEF Landed, PinsKept, StoreTypes
    <3>4. /\ uidOf' = after /\ next_uid' = NextUidAfter(shown)
          /\ latest' = [taken |-> TRUE, items |-> after, uidnext |-> NextUidAfter(shown)]
      BY <2>1 DEF Landed, shown
    <3> HIDE DEF after
    <3> QED  BY <2>1, <3>2, <3>3, <3>4 DEF StoreTypes
  <2> QED  BY <2>1, <2>2, <2>3, FrameTypes
<1>4. CASE FailListing(t)
  <2>1. UNCHANGED <<upstream, store, latest, generation, pins, rendered, appended>>
    BY <1>4 DEF FailListing
  <2>2. SyncTypes' /\ KeysAreVersions'
    BY <1>4, <2>1, FailIsOver, OverTypes DEF SyncTypes
  <2> QED  BY <2>1, <2>2, FrameTypes DEF store
<1> QED  BY <1>1, <1>2, <1>3, <1>4 DEF ListingSteps

\* Every place a request or a command goes to.
LEMMA NextPlaces ==
  ASSUME NEW key \in Versions
  PROVE  /\ \A pc \in {"get", "delete", "deleted", "start"} : \A op \in {"expunge", "expunged"} :
              /\ At(pc, op, key) \in Places /\ At(pc, op, key).pc = pc
              /\ At(pc, op, key).op = op /\ At(pc, op, key).key = key
              /\ At(pc, op, key).task = 0 /\ At(pc, op, key).gen = 0
         /\ LET place == At("created", "append", key)
            IN place \in Places /\ place.pc = "created" /\ place.op = "append" /\ place.key = key
               /\ place.task = 0 /\ place.gen = 0
<1>1. {"get", "delete", "deleted", "start", "created"} \subseteq Pcs
  BY DEF Pcs
<1>2. {"expunge", "expunged", "append"} \subseteq Ops
  BY DEF Ops
<1> QED  BY <1>1, <1>2, Numbers, AtType

LEMMA StartPlaces ==
  /\ \A op \in {"list", "status", "append", "resync"} :
       /\ At("start", op, 0) \in Places /\ At("start", op, 0).pc = "start"
       /\ At("start", op, 0).op = op /\ At("start", op, 0).task = 0 /\ At("start", op, 0).gen = 0
  /\ LET place == At("post", "append", 0)
     IN place \in Places /\ place.pc = "post" /\ place.op = "append" /\ place.task = 0
        /\ place.gen = 0
<1>1. {"start", "post"} \subseteq Pcs /\ {"list", "status", "append", "resync"} \subseteq Ops
  BY DEF Pcs, Ops
<1>2. 0 \in 0..MaxVersions
  BY SyncAssumption
<1> QED  BY <1>1, <1>2, AtType

LEMMA TypesRequests == ASSUME Types, NEW c \in Callers, RequestSteps(c) PROVE Types'
<1> USE DEF Types
<1> DEFINE key == caller[c].key
<1>0. /\ caller[c].pc \in {"created", "get", "delete", "deleted"} => key \in Versions
  BY DEF KeysAreVersions
<1>1. CASE PostDraft(c)
  <2>1. UNCHANGED <<store, service, tasks, appended>> /\ CreateVersion(Newest, {})
        /\ Goto(c, At("created", "append", Newest))
    BY <1>1 DEF PostDraft
  <2>2. Newest \in Versions /\ Newest \in 0..MaxVersions
    BY <2>1, Numbers DEF CreateVersion
  <2>3. UpstreamTypes'
    BY <2>1, <2>2, CreateTypes
  <2>4. caller' \in [Callers -> Places] /\ KeysAreVersions'
    BY <2>1, <2>2, NextPlaces, PlaceTypes
  <2>5. SyncTypes'
    BY <2>1, <2>4 DEF SyncTypes, service
  <2> QED  BY <2>1, <2>3, <2>4, <2>5, FrameTypes DEF store, service
<1>2. CASE FinishAppend(c)
  <2> DEFINE bg == <<Client(c), "bg">>
  <2>1. /\ caller[c].pc = "created"
        /\ uidOf' = EnsureUids({<<key, key>>}) /\ next_uid' = NextUidAfter({<<key, key>>})
        /\ pins' = pins \cup {key} /\ generation' = generation + 1
        /\ rendered' = [rendered EXCEPT ![key] = key]
        /\ caller' = [caller EXCEPT ![c] = Idle, ![bg] = At("start", "resync", 0)]
        /\ appended' = [appended EXCEPT ![key] = uidOf'[key]]
        /\ UNCHANGED <<upstream, latest, inflight, tasks>>
    BY <1>2 DEF FinishAppend
  <2>2. key \in Versions /\ key \in 0..MaxVersions
    BY <1>0, <2>1, Numbers
  <2>3. {<<key, key>>} \in SUBSET (Versions \X Versions)
    BY <2>2
  <2>4. uidOf' \in [Versions -> Nat] /\ next_uid' \in Nat
    BY <2>1, <2>3, EnsureUidsFacts
  <2>5. StoreTypes'
    BY <2>1, <2>2, <2>4 DEF StoreTypes
  <2>6. /\ caller' \in [Callers -> Places]
        /\ \A d \in Callers : caller'[d] \in {caller[d], Idle, At("start", "resync", 0)}
    BY <2>1, IdleType, StartPlaces, CallerFacts DEF SyncTypes
  <2>7. SyncTypes'
    BY <2>1, <2>6 DEF SyncTypes
  <2>8. KeysAreVersions'
    BY <2>6, IdleType, StartPlaces DEF KeysAreVersions
  <2> QED  BY <2>1, <2>5, <2>7, <2>8, FrameTypes
<1>3. CASE DeleteDraft(c)
  <2>1. UNCHANGED <<draft, store, service, tasks, appended>> /\ IndexFollows
        /\ cur' \subseteq cur /\ Goto(c, At("deleted", "expunge", key)) /\ key \in Versions
    BY <1>0, <1>3 DEF DeleteDraft
  <2>2. UpstreamTypes'
    BY <2>1 DEF UpstreamTypes, IndexFollows
  <2>3. caller' \in [Callers -> Places] /\ KeysAreVersions'
    BY <2>1, NextPlaces, PlaceTypes
  <2>4. SyncTypes'
    BY <2>1, <2>3 DEF SyncTypes, service
  <2> QED  BY <2>1, <2>2, <2>3, <2>4, FrameTypes DEF store, service
<1>4. CASE FinishExpunge(c)
  <2>1. UNCHANGED <<upstream, store, latest, inflight, rendered, tasks, appended>>
        /\ pins' = pins \ {key} /\ generation' = generation + 1
        /\ Goto(c, At("start", "expunged", key)) /\ key \in Versions
    BY <1>0, <1>4 DEF FinishExpunge
  <2>2. caller' \in [Callers -> Places] /\ KeysAreVersions'
    BY <2>1, NextPlaces, PlaceTypes
  <2>3. SyncTypes'
    BY <2>1, <2>2 DEF SyncTypes
  <2>4. StoreTypes'
    BY <2>1 DEF StoreTypes, store
  <2> QED  BY <2>1, <2>2, <2>3, <2>4, FrameTypes
<1>5. CASE PostFails(c) \/ CheckDraft(c) \/ DeleteMisses(c) \/ DeleteResponseLost(c)
  <2>1. UNCHANGED <<upstream, store, service, tasks, appended>>
    BY <1>5 DEF PostFails, CheckDraft, DeleteMisses, DeleteResponseLost
  <2>2. \/ Goto(c, Idle)
        \/ key \in Versions /\ (Goto(c, At("delete", "expunge", key)) \/ Goto(c, At("start", "expunge", key)))
    BY <1>0, <1>5 DEF PostFails, CheckDraft, DeleteMisses, DeleteResponseLost
  <2>3. caller' \in [Callers -> Places] /\ KeysAreVersions'
    BY <2>2, IdleType, NextPlaces, PlaceTypes
  <2>4. SyncTypes'
    BY <2>1, <2>3 DEF SyncTypes, service
  <2> QED  BY <2>1, <2>3, <2>4, FrameTypes DEF store, service
<1> QED  BY <1>1, <1>2, <1>3, <1>4, <1>5 DEF RequestSteps

\* Every command begins in the same way: an idle caller goes to its first place.
Started(place) ==
  /\ place \in Places /\ place.task = 0 /\ place.gen = 0
  /\ place.pc \in {"start", "post", "get"} /\ place.op # "expunged"
  /\ place.pc = "get" => place.key \in Versions

LEMMA CommandCases ==
  ASSUME NEW s \in Sessions, Commands(s)
  PROVE  /\ UNCHANGED <<upstream, store, service, tasks, appended>>
         /\ \E place : Started(place) /\ Goto(<<s, "cmd">>, place)
<1>1. CASE ListCommand(s) \/ StatusCommand(s) \/ AppendCommand(s)
  <2>1. PICK place : Command(s, place) /\ place \in {At("start", "list", 0), At("start", "status", 0),
                                           At("start", "append", 0), At("post", "append", 0)}
    BY <1>1 DEF ListCommand, StatusCommand, AppendCommand
  <2>2. Started(place)
    BY <2>1, StartPlaces DEF Started
  <2> QED  BY <2>1, <2>2 DEF Command
<1>2. CASE \E k \in Versions : ExpungeCommand(s, k)
  <2>1. PICK k \in Versions : Command(s, At("get", "expunge", k))
    BY <1>2 DEF ExpungeCommand
  <2>2. Started(At("get", "expunge", k))
    BY <2>1, NextPlaces DEF Started
  <2> QED  BY <2>1, <2>2 DEF Command
<1> QED  BY <1>1, <1>2 DEF Commands

LEMMA TypesCommands == ASSUME Types, NEW s \in Sessions, Commands(s) PROVE Types'
<1> USE DEF Types
<1>1. UNCHANGED <<upstream, store, service, tasks, appended>>
  BY CommandCases
<1>2. PICK place : Started(place) /\ Goto(<<s, "cmd">>, place)
  BY CommandCases
<1>3. caller' \in [Callers -> Places] /\ KeysAreVersions'
  <2>1. /\ <<s, "cmd">> \in Callers /\ place \in Places
        /\ place.pc \in {"created", "get", "delete", "deleted"} \/ place.op = "expunged"
             => place.key \in Versions
    BY <1>2, CallerFacts DEF Started
  <2> QED  BY <1>2, <2>1, PlaceTypes
<1>4. SyncTypes'
  BY <1>1, <1>3 DEF SyncTypes, service
<1> QED  BY <1>1, <1>3, <1>4, FrameTypes DEF store, service

LEMMA TimeOutCases ==
  ASSUME Types, NEW c \in Callers, TimeOut(c)
  PROVE  /\ UNCHANGED <<upstream, store, service, appended>> /\ Goto(c, Idle)
         /\ \/ UNCHANGED tasks
            \/ /\ caller[c].pc = "retry"
               /\ tasks' = [tasks EXCEPT ![caller[c].task] = FreeTask]
BY DEF TimeOut

LEMMA TypesTimeOut == ASSUME Types, NEW c \in Callers, TimeOut(c) PROVE Types'
<1> USE DEF Types
<1>1. UNCHANGED <<upstream, store, service, appended>>
  BY TimeOutCases
<1>2. caller' \in [Callers -> Places] /\ KeysAreVersions'
  BY TimeOutCases, IdleType, PlaceTypes
<1>3. tasks' \in [Tasks -> TaskRecords]
  BY TimeOutCases, FreeTaskType DEF SyncTypes
<1>4. SyncTypes'
  BY <1>1, <1>2, <1>3 DEF SyncTypes, service
<1> QED  BY <1>1, <1>2, <1>4, FrameTypes DEF store, service

\* What happens upstream, and the ageing of a pin, is nothing of the gateway's.
UpstreamSteps ==
  \/ UpstreamCreate
  \/ \E k \in Versions : UpstreamEdit(k) \/ UpstreamDelete(k) \/ IndexCatchesUp(k)

LEMMA UpstreamIsApart ==
  UpstreamSteps => UNCHANGED <<store, service, tasks, caller, appended>>
BY DEF UpstreamSteps, UpstreamCreate, UpstreamEdit, UpstreamDelete, IndexCatchesUp

LEMMA TypesUpstream == ASSUME Types, UpstreamSteps PROVE Types'
<1> USE DEF Types
<1>1. UNCHANGED <<store, service, tasks, caller, appended>>
  BY UpstreamIsApart
<1>2. UpstreamTypes'
  <2>1. CASE UpstreamCreate
    <3>1. CreateVersion(Newest, {})
      BY <2>1 DEF UpstreamCreate
    <3>2. Newest \in 0..MaxVersions
      BY <3>1, Numbers DEF CreateVersion
    <3> QED  BY <3>1, <3>2, CreateTypes
  <2>2. ASSUME NEW k \in Versions, UpstreamEdit(k) PROVE UpstreamTypes'
    <3>1. CreateVersion(draft[k], {k}) /\ draft[k] \in 0..MaxVersions
      BY <2>2 DEF UpstreamEdit, UpstreamTypes
    <3> QED  BY <3>1, CreateTypes
  <2>3. ASSUME NEW k \in Versions, UpstreamDelete(k) PROVE UpstreamTypes'
    BY <2>3 DEF UpstreamDelete, UpstreamTypes, IndexFollows
  <2>4. ASSUME NEW k \in Versions, IndexCatchesUp(k) PROVE UpstreamTypes'
    BY <2>4 DEF IndexCatchesUp, UpstreamTypes, CurrentOf
  <2> QED  BY <2>1, <2>2, <2>3, <2>4 DEF UpstreamSteps
<1> QED  BY <1>1, <1>2, FrameTypes DEF store, service

\* A step that leaves everything alone but the clock of the pins and the count of
\* commands.
Stutters == UNCHANGED <<upstream, store, service, tasks, caller, appended>>

LEMMA NextCases ==
  ASSUME [Next]_vars
  PROVE  \/ \E c \in Callers : SyncSteps(c) \/ RequestSteps(c) \/ TimeOut(c)
         \/ \E t \in Tasks : ListingSteps(t)
         \/ \E s \in Sessions : Commands(s)
         \/ UpstreamSteps
         \/ Stutters
<1>1. CASE Next
  <2>1. CASE \E k \in Versions : PinAges(k)
    BY <2>1 DEF PinAges, Stutters
  <2> QED  BY <1>1, <2>1 DEF Next, UpstreamSteps
<1>2. CASE UNCHANGED vars
  BY <1>2 DEF vars, Stutters
<1> QED  BY <1>1, <1>2

LEMMA TypesNext == ASSUME Types, [Next]_vars PROVE Types'
<1>1. CASE Stutters
  BY <1>1, FrameTypes DEF Types, Stutters, store, service
<1> QED  BY <1>1, NextCases, TypesSync, TypesRequests, TypesTimeOut, TypesListing, TypesCommands,
            TypesUpstream

--------------------------------------------------------------------------
(* The store and the snapshot *)

\* The only steps that write the store, the snapshot or the pins.
LEMMA StoreWriters ==
  ASSUME Types, [Next]_vars
  PROVE  \/ UNCHANGED <<uidOf, next_uid, latest, pins, appended>>
         \/ \E t \in Tasks : Land(t)
         \/ \E c \in Callers : FinishAppend(c) \/ FinishExpunge(c)
<1> DEFINE Same == UNCHANGED <<uidOf, next_uid, latest, pins, appended>>
<1> USE DEF store, service
<1>1. ASSUME NEW c \in Callers, SyncSteps(c) PROVE Same
  BY <1>1, SyncCases DEF Types
<1>2. ASSUME NEW c \in Callers, RequestSteps(c), ~FinishAppend(c), ~FinishExpunge(c) PROVE Same
  BY <1>2 DEF RequestSteps, PostDraft, PostFails, CheckDraft, DeleteDraft, DeleteMisses,
              DeleteResponseLost
<1>3. ASSUME NEW c \in Callers, TimeOut(c) PROVE Same
  BY <1>3, TimeOutCases
<1>4. ASSUME NEW t \in Tasks, ListingSteps(t), ~Land(t) PROVE Same
  BY <1>4 DEF ListingSteps, ServeList, FetchDraft, FailListing
<1>5. ASSUME NEW s \in Sessions, Commands(s) PROVE Same
  BY <1>5, CommandCases
<1>6. CASE UpstreamSteps
  BY <1>6, UpstreamIsApart
<1>7. CASE Stutters
  BY <1>7 DEF Stutters
<1> HIDE DEF Same
<1>8. QED  BY <1>1, <1>2, <1>3, <1>4, <1>5, <1>6, <1>7, NextCases DEF Same

\* Land in the terms of the properties: a key that is shown keeps a UID it had and
\* otherwise gets one from next_uid on; the snapshot is the store.
LEMMA LandStores ==
  ASSUME Types, NEW t \in Tasks, Landed(t)
  PROVE  /\ next_uid' \in Nat /\ next_uid' >= next_uid /\ latest'.uidnext = next_uid'
         /\ latest'.taken
         /\ pins' \subseteq pins
         /\ \A k \in Versions :
              /\ latest'.items[k] = uidOf'[k]
              /\ \/ uidOf'[k] = 0 /\ k \notin pins'
                 \/ uidOf[k] # 0 /\ uidOf'[k] = uidOf[k]
                 \/ uidOf[k] = 0 /\ uidOf'[k] >= next_uid /\ uidOf'[k] < next_uid'
<1> DEFINE shown == ApplyPins(tasks[t].entries)
<1> DEFINE after == [k \in Versions |-> IF k \in KeysIn(shown) THEN EnsureUids(shown)[k] ELSE 0]
<1>1. shown \in SUBSET (Versions \X Versions)
  BY ShownTypes
<1>2. pins' \subseteq pins /\ \A k \in pins' : k \in KeysIn(shown)
  <2>1. pins' = PinsKept(tasks[t].entries) /\ pins' \subseteq pins
    BY DEF Landed, PinsKept
  <2>2. ASSUME NEW k \in pins' PROVE k \in KeysIn(shown)
    <3>1. <<k, k>> \in shown
      BY <2>1 DEF ApplyPins
    <3> QED  BY <3>1 DEF KeysIn
  <2> QED  BY <2>1, <2>2
<1>3. /\ uidOf' = after /\ next_uid' = NextUidAfter(shown)
      /\ latest' = [taken |-> TRUE, items |-> after, uidnext |-> NextUidAfter(shown)]
  BY DEF Landed
<1> HIDE DEF shown
<1>4. /\ NextUidAfter(shown) \in Nat /\ NextUidAfter(shown) >= next_uid
      /\ \A k \in Versions :
           IF uidOf[k] = 0 /\ k \in KeysIn(shown)
           THEN EnsureUids(shown)[k] >= next_uid /\ EnsureUids(shown)[k] < NextUidAfter(shown)
           ELSE EnsureUids(shown)[k] = uidOf[k]
  BY <1>1, EnsureUidsFacts DEF Types
<1> QED  BY <1>2, <1>3, <1>4

LEMMA StoreInvLand == ASSUME Types, StoreInv, NEW t \in Tasks, Land(t) PROVE StoreInv'
<1>0. Landed(t) /\ UNCHANGED appended
  BY LandLands
<1>1. /\ next_uid' \in Nat /\ next_uid' >= next_uid /\ latest'.uidnext = next_uid'
      /\ pins' \subseteq pins
      /\ \A k \in Versions :
           /\ latest'.items[k] = uidOf'[k]
           /\ \/ uidOf'[k] = 0 /\ k \notin pins'
              \/ uidOf[k] # 0 /\ uidOf'[k] = uidOf[k]
              \/ uidOf[k] = 0 /\ uidOf'[k] >= next_uid /\ uidOf'[k] < next_uid'
  BY <1>0, LandStores
<1>2. next_uid \in Nat /\ uidOf \in [Versions -> Nat] /\ pins \subseteq Versions
  BY DEF Types, StoreTypes
<1>3. next_uid' > 0 /\ latest'.uidnext <= next_uid' /\ \A k \in Versions : uidOf'[k] < next_uid'
  BY <1>1, <1>2 DEF StoreInv
<1>4. SnapshotIsStore'
  BY <1>1 DEF SnapshotIsStore
<1>5. PinnedStaysLive'
  BY <1>0, <1>1, <1>2 DEF PinnedStaysLive, StoreInv
<1> QED  BY <1>3, <1>4, <1>5 DEF StoreInv

LEMMA StoreInvAppend == ASSUME Types, StoreInv, NEW c \in Callers, FinishAppend(c) PROVE StoreInv'
<1> DEFINE key == caller[c].key
<1> DEFINE shown == {<<key, key>>}
<1>1. /\ key \in Versions /\ pins' = pins \cup {key} /\ UNCHANGED latest
      /\ uidOf' = EnsureUids(shown) /\ next_uid' = NextUidAfter(shown)
      /\ appended' = [appended EXCEPT ![key] = uidOf'[key]]
  BY DEF FinishAppend, Types, KeysAreVersions
<1>2. shown \in SUBSET (Versions \X Versions) /\ KeysIn(shown) = {key}
  BY <1>1 DEF KeysIn
<1>3. /\ uidOf \in [Versions -> Nat] /\ next_uid \in Nat /\ appended \in [Versions -> Nat]
      /\ latest.uidnext \in Nat /\ pins \subseteq Versions
  BY DEF Types, StoreTypes
<1> HIDE DEF shown, key
<1>4. /\ next_uid' \in Nat /\ next_uid' >= next_uid
      /\ \A k \in Versions :
           IF uidOf[k] = 0 /\ k = key
           THEN uidOf'[k] >= next_uid /\ uidOf'[k] < next_uid'
           ELSE uidOf'[k] = uidOf[k]
  BY <1>1, <1>2, EnsureUidsFacts DEF Types
<1>5. next_uid' > 0 /\ latest'.uidnext <= next_uid' /\ \A k \in Versions : uidOf'[k] < next_uid'
  BY <1>1, <1>3, <1>4 DEF StoreInv
<1>6. SnapshotIsStore'
  <2> SUFFICES ASSUME latest.taken, NEW k \in Versions
               PROVE  /\ latest.items[k] # 0 => uidOf'[k] = latest.items[k]
                      /\ uidOf'[k] # 0 /\ latest.items[k] = 0 => uidOf'[k] >= latest.uidnext
    BY <1>1 DEF SnapshotIsStore
  <2>1. /\ latest.items[k] # 0 => uidOf[k] = latest.items[k]
        /\ uidOf[k] # 0 /\ latest.items[k] = 0 => uidOf[k] >= latest.uidnext
        /\ latest.uidnext <= next_uid
    BY DEF SnapshotIsStore, StoreInv
  <2>2. uidOf[k] \in Nat /\ (uidOf'[k] = uidOf[k] \/ (uidOf[k] = 0 /\ uidOf'[k] >= next_uid))
    BY <1>3, <1>4
  <2>3. uidOf'[k] \in Nat
    BY <1>1, <1>2, EnsureUidsFacts DEF Types
  <2> QED  BY <1>3, <2>1, <2>2, <2>3
<1>7. PinnedStaysLive'
  BY <1>1, <1>3, <1>4 DEF PinnedStaysLive, StoreInv
<1> QED  BY <1>5, <1>6, <1>7 DEF StoreInv

LEMMA StoreInvNext == ASSUME Types, StoreInv, [Next]_vars PROVE StoreInv'
<1>1. CASE UNCHANGED <<uidOf, next_uid, latest, pins, appended>>
  BY <1>1 DEF StoreInv, SnapshotIsStore, PinnedStaysLive
<1>2. ASSUME NEW c \in Callers, FinishExpunge(c) PROVE StoreInv'
  BY <1>2 DEF FinishExpunge, store, StoreInv, SnapshotIsStore, PinnedStaysLive
<1> QED  BY <1>1, <1>2, StoreWriters, StoreInvLand, StoreInvAppend

LEMMA StoreInvInit == Init => StoreInv
BY Numbers DEF Init, StoreInv, SnapshotIsStore, PinnedStaysLive, NoSnapshot, NoUids

LEMMA StoreIsInductive == Spec => [](Types /\ StoreInv)
<1>1. Init => Types /\ StoreInv
  BY TypesInit, StoreInvInit
<1>2. Types /\ StoreInv /\ [Next]_vars => (Types /\ StoreInv)'
  BY TypesNext, StoreInvNext
<1> QED  BY <1>1, <1>2, PTL DEF Spec

\* What the sessions read is what the UID store holds, for any interleaving of
\* listings (_do_sync), APPENDs and EXPUNGEs.
THEOREM SnapshotAgrees == Spec => []SnapshotIsStore
<1>1. StoreInv => SnapshotIsStore
  BY DEF StoreInv
<1> QED  BY <1>1, StoreIsInductive, PTL

\* A pinned draft is live under the UID its APPEND was answered with, whatever
\* listings land meanwhile (_apply_pins).
THEOREM PinsHold == Spec => []PinnedStaysLive
<1>1. StoreInv => PinnedStaysLive
  BY DEF StoreInv
<1> QED  BY <1>1, StoreIsInductive, PTL

\* A new snapshot brings, below the UIDNEXT of the one it replaces, nothing that
\* one did not show: flush_pending may append the arrivals.
THEOREM ArrivalsAreAppended == Spec => ArrivalsAreNewer
<1> DEFINE Newer ==
      latest.taken =>
        \A k \in Versions :
          latest'.items[k] \in {0, latest.items[k]} \cup {u \in Nat : u >= latest.uidnext}
<1>1. ASSUME Types, StoreInv, [Next]_vars PROVE [Newer]_latest
  <2> SUFFICES ASSUME latest' # latest, latest.taken, NEW k \in Versions
               PROVE latest'.items[k] \in {0, latest.items[k]} \cup {u \in Nat : u >= latest.uidnext}
    OBVIOUS
  <2>1. PICK t \in Tasks : Land(t)
    BY <1>1, StoreWriters DEF FinishAppend, FinishExpunge
  <2>2. /\ latest'.items[k] = uidOf'[k]
        /\ \/ uidOf'[k] = 0
           \/ uidOf[k] # 0 /\ uidOf'[k] = uidOf[k]
           \/ uidOf[k] = 0 /\ uidOf'[k] >= next_uid
    BY <1>1, <2>1, LandLands, LandStores
  <2>3. uidOf[k] \in Nat /\ uidOf'[k] \in Nat /\ next_uid \in Nat /\ latest.uidnext \in Nat
    BY <1>1, TypesNext DEF Types, StoreTypes
  <2>4. /\ latest.uidnext <= next_uid
        /\ latest.items[k] # 0 => uidOf[k] = latest.items[k]
        /\ uidOf[k] # 0 /\ latest.items[k] = 0 => uidOf[k] >= latest.uidnext
    BY <1>1 DEF StoreInv, SnapshotIsStore
  <2> QED  BY <2>2, <2>3, <2>4
<1>2. Types /\ StoreInv /\ [Next]_vars => [Newer]_latest
  BY <1>1
<1> QED  BY <1>2, StoreIsInductive, PTL DEF Spec, ArrivalsAreNewer

--------------------------------------------------------------------------
(* Which listing answers a caller *)

\* A place where nobody waits: what every request and every command moves to.
Rests(place) == place.task = NoTask /\ place.gen = 0 /\ place.pc \notin Waits \cup {"woken", "unstale"}

\* A step that lets the listings run on and moves callers only to such places.
RunsOn ==
  /\ \A c \in Callers : caller'[c] = caller[c] \/ Rests(caller'[c])
  /\ \A t \in Tasks : /\ tasks'[t].began = tasks[t].began
                      /\ tasks[t].state # "free" => tasks'[t].state # "free"
  /\ UNCHANGED inflight
  /\ generation' \in Nat /\ generation' >= generation

LEMMA WaitInvRunsOn == ASSUME Types, WaitInv, RunsOn PROVE WaitInv'
<1>0. /\ generation \in Nat /\ generation' \in Nat /\ generation' >= generation
      /\ \A t \in Tasks : tasks[t].began \in Nat
      /\ \A c \in Callers : caller[c].gen \in Nat /\ caller[c].task \in 0..MaxTasks
      /\ inflight.task \in 0..MaxTasks
      /\ NoTask = 0 /\ \A t \in 0..MaxTasks : t # 0 => t \in Tasks
  BY DEF Types, SyncTypes, TaskRecords, Places, RunsOn, NoTask, Tasks
<1>1. \A t \in Tasks : tasks'[t].began <= generation'
  BY <1>0 DEF RunsOn, WaitInv
<1>2. FlightIsOn'
  BY <1>0 DEF RunsOn, WaitInv, FlightIsOn
<1>3. ASSUME NEW c \in Callers PROVE WaitsFor(c)'
  <2>1. CASE caller'[c] = caller[c]
    BY <1>0, <2>1 DEF RunsOn, WaitInv, WaitsFor, Forced, Waits
  <2>2. CASE Rests(caller'[c])
    BY <1>0, <2>2 DEF WaitsFor, Forced, Rests, Waits
  <2> QED  BY <2>1, <2>2 DEF RunsOn
<1>4. ASSUME NEW c \in Callers PROVE RetriesAlone(c)'
  <2> SUFFICES ASSUME caller'[c].pc = "retry"
               PROVE  /\ inflight.task # caller'[c].task
                      /\ \A d \in Callers : d # c => caller'[d].task # caller'[c].task
    BY DEF RetriesAlone, RunsOn
  <2>1. caller'[c] = caller[c]
    BY DEF RunsOn, Rests, Waits
  <2>2. caller[c].task # NoTask /\ RetriesAlone(c)
    BY <2>1 DEF WaitInv, WaitsFor, Waits
  <2>3. ASSUME NEW d \in Callers, d # c PROVE caller'[d].task # caller'[c].task
    BY <2>1, <2>2, <2>3 DEF RetriesAlone, RunsOn, Rests
  <2> QED  BY <2>1, <2>2, <2>3 DEF RetriesAlone
<1>5. ReturnedIsFresh'
  BY DEF ReturnedIsFresh, RunsOn, Rests, WaitInv, Forced
<1> QED  BY <1>1, <1>2, <1>3, <1>4, <1>5 DEF WaitInv

\* Joining the listing in flight, for its result or to wait it out.
LEMMA WaitInvJoins ==
  ASSUME Types, WaitInv, NEW c \in Callers, Joins(c) \/ WaitsOut(c), generation' = generation
  PROVE  WaitInv'
<1>0. /\ inflight.task # NoTask /\ inflight.task \in Tasks /\ UNCHANGED <<inflight, tasks>>
      /\ Since(c) <= generation /\ Since(c) \in Nat
      /\ inflight.gen \in Nat /\ tasks[inflight.task].began \in Nat
  BY DEF Joins, WaitsOut, Since, Types, SyncTypes, TaskRecords, Places, NoTask, Tasks, WaitInv, WaitsFor
<1>1. /\ caller'[c].pc \in {"await", "stale"} /\ caller'[c].task = inflight.task
      /\ caller'[c].gen = Since(c) /\ caller'[c].op = caller[c].op
      /\ caller'[c].pc = "await" => (Forced(c) => inflight.gen >= Since(c))
      /\ \A d \in Callers : d # c => caller'[d] = caller[d]
  BY DEF Joins, WaitsOut, Waiting
<1>2. (\A t \in Tasks : tasks'[t].began <= generation') /\ FlightIsOn'
  BY <1>0 DEF WaitInv, FlightIsOn
<1>3. WaitsFor(c)'
  <2>1. tasks[inflight.task].state # "free" /\ tasks[inflight.task].began >= inflight.gen
    BY <1>0 DEF WaitInv, FlightIsOn
  <2> QED  BY <1>0, <1>1, <2>1 DEF WaitsFor, Forced, Waits
<1>4. ASSUME NEW d \in Callers, d # c PROVE WaitsFor(d)'
  BY <1>0, <1>1, <1>4 DEF WaitInv, WaitsFor, Forced
<1>5. ASSUME NEW d \in Callers PROVE RetriesAlone(d)'
  <2> SUFFICES ASSUME caller'[d].pc = "retry"
               PROVE  /\ inflight.task # caller'[d].task
                      /\ \A e \in Callers : e # d => caller'[e].task # caller'[d].task
    BY <1>0 DEF RetriesAlone
  <2>1. caller'[d] = caller[d] /\ RetriesAlone(d)
    BY <1>1 DEF WaitInv
  <2> QED  BY <1>1, <2>1 DEF RetriesAlone
<1>6. ReturnedIsFresh'
  BY <1>1 DEF ReturnedIsFresh, WaitInv, Forced
<1> QED  BY <1>2, <1>3, <1>4, <1>5, <1>6 DEF WaitInv

\* Beginning a listing, for everybody or as the retry of _join: nobody waited for
\* the slot it takes.
LEMMA WaitInvLists ==
  ASSUME Types, WaitInv, NEW c \in Callers, ListsOwn(c) \/ Retries(c), generation' = generation
  PROVE  WaitInv'
<1>1. PICK t \in Tasks, pc \in {"await", "retry"} :
        /\ Launch(t) /\ Waiting(c, pc, t, Since(c))
        /\ \/ pc = "await" /\ inflight' = [task |-> t, gen |-> Since(c), owner |-> Client(c)]
           \/ pc = "retry" /\ UNCHANGED inflight
  BY DEF ListsOwn, Retries
<1>2. /\ tasks[t].state = "free" /\ tasks'[t].state = "listing" /\ tasks'[t].began = generation
      /\ \A u \in Tasks : u # t => tasks'[u] = tasks[u]
  BY <1>1, LaunchBegins, BegunType DEF Types, SyncTypes
<1>3. /\ Since(c) <= generation /\ Since(c) \in Nat /\ generation \in Nat
      /\ \A d \in Callers : caller[d].gen \in Nat /\ caller[d].task \in 0..MaxTasks
      /\ inflight.task \in 0..MaxTasks
      /\ NoTask = 0 /\ t # 0 /\ \A u \in 0..MaxTasks : u # 0 => u \in Tasks
  BY Numbers DEF Since, Types, SyncTypes, Places, WaitInv, WaitsFor, Tasks
<1>4. /\ caller'[c].pc = pc /\ caller'[c].task = t /\ caller'[c].gen = Since(c)
      /\ \A d \in Callers : d # c => caller'[d] = caller[d]
  BY <1>1 DEF Waiting
<1>5. (\A d \in Callers : caller[d].task # t) /\ inflight.task # t
  BY <1>2, <1>3 DEF WaitInv, WaitsFor, FlightIsOn
<1>6. \A u \in Tasks : tasks'[u].began <= generation'
  BY <1>2, <1>3 DEF WaitInv
<1>7. FlightIsOn'
  <2>1. CASE inflight' = [task |-> t, gen |-> Since(c), owner |-> Client(c)]
    BY <1>2, <1>3, <2>1 DEF FlightIsOn
  <2>2. CASE UNCHANGED inflight
    BY <1>2, <1>3, <1>5, <2>2 DEF FlightIsOn, WaitInv
  <2> QED  BY <1>1, <2>1, <2>2
<1>8. WaitsFor(c)'
  BY <1>1, <1>2, <1>3, <1>4 DEF WaitsFor, Forced, Waits
<1>9. ASSUME NEW d \in Callers, d # c PROVE WaitsFor(d)'
  BY <1>2, <1>3, <1>4, <1>5, <1>9 DEF WaitInv, WaitsFor, Forced, Waits
<1>10. ASSUME NEW d \in Callers PROVE RetriesAlone(d)'
  <2> SUFFICES ASSUME caller'[d].pc = "retry"
               PROVE  /\ inflight'.task # caller'[d].task
                      /\ \A e \in Callers : e # d => caller'[e].task # caller'[d].task
    BY DEF RetriesAlone
  <2>1. CASE d = c
    BY <1>1, <1>4, <1>5, <2>1
  <2>2. CASE d # c
    <3>1. caller'[d] = caller[d] /\ RetriesAlone(d) /\ inflight'.task \in {t, inflight.task}
      BY <1>1, <1>4, <2>2 DEF WaitInv
    <3> QED  BY <1>4, <1>5, <3>1 DEF RetriesAlone
  <2> QED  BY <2>1, <2>2
<1>11. ReturnedIsFresh'
  BY <1>1, <1>4 DEF ReturnedIsFresh, WaitInv, Forced
<1> QED  BY <1>6, <1>7, <1>8, <1>9, <1>10, <1>11 DEF WaitInv

\* A listing that ends wakes everybody who waited for it: nobody waits on for a
\* free slot, and a forced sync is answered by a listing that began late enough.
LEMMA WaitInvOver ==
  ASSUME Types, WaitInv, NEW t \in Tasks, NEW outcome, NEW began, Over(t, outcome, began),
         outcome = "ok" => began = tasks[t].began, generation' = generation
  PROVE  WaitInv'
<1>1. /\ tasks'[t] = FreeTask /\ FreeTask.began = 0
      /\ \A u \in Tasks : u # t => tasks'[u] = tasks[u]
      /\ inflight' = IF inflight.task = t THEN NoFlight ELSE inflight
      /\ NoFlight.task = NoTask
      /\ \A c \in Callers : IF caller[c].task # t THEN caller'[c] = caller[c]
                            ELSE /\ caller'[c].task = NoTask /\ caller'[c].gen = caller[c].gen
                                 /\ caller'[c].op = caller[c].op
                                 /\ caller'[c].pc \in {"woken", "unstale"}
  BY FreeTaskType DEF Over, NoFlight
<1>2. /\ generation \in Nat
      /\ \A d \in Callers : caller[d].gen \in Nat /\ caller[d].task \in 0..MaxTasks
      /\ inflight.task \in 0..MaxTasks
      /\ NoTask = 0 /\ t # 0 /\ \A u \in 0..MaxTasks : u # 0 => u \in Tasks
  BY Numbers DEF Types, SyncTypes, Places, Tasks
<1>3. \A u \in Tasks : tasks'[u].began <= generation'
  BY <1>1, <1>2 DEF WaitInv
<1>4. FlightIsOn'
  BY <1>1, <1>2 DEF FlightIsOn, WaitInv
<1>5. ASSUME NEW c \in Callers PROVE WaitsFor(c)'
  <2>1. CASE caller[c].task # t
    BY <1>1, <1>2, <2>1 DEF WaitInv, WaitsFor, Forced, Waits
  <2>2. CASE caller[c].task = t
    BY <1>1, <1>2, <2>2 DEF WaitInv, WaitsFor, Forced, Waits
  <2> QED  BY <2>1, <2>2
<1>6. ASSUME NEW c \in Callers PROVE RetriesAlone(c)'
  <2> SUFFICES ASSUME caller'[c].pc = "retry"
               PROVE  /\ inflight'.task # caller'[c].task
                      /\ \A d \in Callers : d # c => caller'[d].task # caller'[c].task
    BY DEF RetriesAlone
  <2>1. caller'[c] = caller[c] /\ RetriesAlone(c) /\ caller[c].task # NoTask
    BY <1>1 DEF WaitInv, WaitsFor, Waits
  <2> QED  BY <1>1, <2>1 DEF RetriesAlone
<1>7. ReturnedIsFresh'
  <2> SUFFICES ASSUME NEW c \in Callers, caller'[c].pc = "woken", caller'[c].outcome = "ok",
                      caller'[c].op # "status"
               PROVE  caller'[c].began >= caller'[c].gen
    BY DEF ReturnedIsFresh, Forced
  <2>1. CASE caller[c].task # t
    BY <1>1, <2>1 DEF WaitInv, ReturnedIsFresh, Forced
  <2>2. CASE caller[c].task = t
    <3>1. /\ caller[c].pc # "stale" /\ caller'[c].outcome = outcome /\ caller'[c].began = began
          /\ caller'[c].gen = caller[c].gen /\ Forced(c)
      BY <2>2 DEF Over, Forced
    <3>2. caller[c].pc \in {"await", "retry"}
      BY <1>2, <2>2, <3>1 DEF WaitInv, WaitsFor, Waits
    <3>3. tasks[t].began >= caller[c].gen
      BY <2>2, <3>1, <3>2 DEF WaitInv, WaitsFor
    <3> QED  BY <3>1, <3>3
  <2> QED  BY <2>1, <2>2
<1> QED  BY <1>3, <1>4, <1>5, <1>6, <1>7 DEF WaitInv

\* The deadline ends a retry together with its listing, which is nobody else's.
LEMMA WaitInvCancels ==
  ASSUME Types, WaitInv, NEW c \in Callers, caller[c].pc = "retry", Goto(c, Idle),
         tasks' = [tasks EXCEPT ![caller[c].task] = FreeTask], UNCHANGED <<inflight, generation>>
  PROVE  WaitInv'
<1> DEFINE t == caller[c].task
<1>1. /\ caller[c].task # NoTask /\ RetriesAlone(c)
      /\ caller'[c] = Idle /\ \A d \in Callers : d # c => caller'[d] = caller[d]
  BY IdleType, GotoMoves DEF WaitInv, WaitsFor, Waits, Types, SyncTypes
<1>2. /\ generation \in Nat
      /\ \A d \in Callers : caller[d].gen \in Nat /\ caller[d].task \in 0..MaxTasks
      /\ inflight.task \in 0..MaxTasks
      /\ NoTask = 0 /\ \A u \in 0..MaxTasks : u # 0 => u \in Tasks
  BY Numbers DEF Types, SyncTypes, Places, Tasks
<1>3. /\ t \in Tasks /\ inflight.task # t /\ \A d \in Callers : d # c => caller[d].task # t
      /\ tasks'[t] = FreeTask /\ FreeTask.began = 0
      /\ \A u \in Tasks : u # t => tasks'[u] = tasks[u]
  BY <1>1, <1>2, FreeTaskType DEF RetriesAlone, Types, SyncTypes
<1> HIDE DEF t
<1>4. (\A u \in Tasks : tasks'[u].began <= generation') /\ FlightIsOn'
  BY <1>2, <1>3 DEF WaitInv, FlightIsOn
<1>5. ASSUME NEW d \in Callers PROVE WaitsFor(d)'
  <2>1. CASE d = c
    BY <1>1, <1>2, <2>1, IdleType DEF WaitsFor, Waits, Forced
  <2>2. CASE d # c
    BY <1>1, <1>2, <1>3, <2>2 DEF WaitInv, WaitsFor, Forced
  <2> QED  BY <2>1, <2>2
<1>6. ASSUME NEW d \in Callers PROVE RetriesAlone(d)'
  <2> SUFFICES ASSUME caller'[d].pc = "retry"
               PROVE  /\ inflight.task # caller'[d].task
                      /\ \A e \in Callers : e # d => caller'[e].task # caller'[d].task
    BY DEF RetriesAlone
  <2>1. caller'[d] = caller[d] /\ RetriesAlone(d) /\ caller[d].task # NoTask
    BY <1>1, IdleType DEF WaitInv, WaitsFor, Waits
  <2> QED  BY <1>1, <1>2, <2>1, IdleType DEF RetriesAlone
<1>7. ReturnedIsFresh'
  BY <1>1, IdleType DEF ReturnedIsFresh, WaitInv, Forced
<1> QED  BY <1>4, <1>5, <1>6, <1>7 DEF WaitInv

\* One caller moves to a place where it does not wait.
LEMMA OneRests ==
  ASSUME Types, NEW c \in Callers, NEW place \in Places, Rests(place), Goto(c, place),
         UNCHANGED <<tasks, inflight>>, generation' \in {generation, generation + 1}
  PROVE  RunsOn
<1>1. \A d \in Callers : caller'[d] = caller[d] \/ Rests(caller'[d])
  BY GotoMoves DEF Types, SyncTypes
<1>2. generation' \in Nat /\ generation' >= generation
  BY DEF Types, SyncTypes
<1> QED  BY <1>1, <1>2 DEF RunsOn

\* The places of the commands and requests are such places.
LEMMA PlacesRest ==
  /\ Rests(Idle) /\ Rests(At("post", "append", 0)) /\ Rests(At("start", "resync", 0))
  /\ \A place : Started(place) => Rests(place)
  /\ \A key \in Versions :
       /\ Rests(At("created", "append", key))
       /\ \A pc \in {"get", "delete", "deleted", "start"} : \A op \in {"expunge", "expunged"} :
            Rests(At(pc, op, key))
<1>1. Rests(Idle)
  BY IdleType DEF Rests, NoTask, Waits
<1>2. Rests(At("post", "append", 0)) /\ Rests(At("start", "resync", 0))
  BY StartPlaces DEF Rests, NoTask, Waits
<1>3. \A place : Started(place) => Rests(place)
  BY DEF Started, Rests, NoTask, Waits
<1>4. ASSUME NEW key \in Versions
      PROVE  /\ Rests(At("created", "append", key))
             /\ \A pc \in {"get", "delete", "deleted", "start"} : \A op \in {"expunge", "expunged"} :
                  Rests(At(pc, op, key))
  BY NextPlaces DEF Rests, NoTask, Waits
<1> QED  BY <1>1, <1>2, <1>3, <1>4

LEMMA RequestsRunOn == ASSUME Types, NEW c \in Callers, RequestSteps(c) PROVE RunsOn
<1> DEFINE key == caller[c].key
<1>0. caller[c].pc \in {"created", "get", "delete", "deleted"} => key \in Versions
  BY DEF Types, KeysAreVersions
<1>1. CASE PostDraft(c)
  <2>1. /\ Newest \in Versions /\ Goto(c, At("created", "append", Newest))
        /\ UNCHANGED <<tasks, inflight, generation>>
    BY <1>1 DEF PostDraft, CreateVersion, service
  <2> QED  BY <2>1, NextPlaces, PlacesRest, OneRests
<1>2. CASE FinishAppend(c)
  <2>1. /\ generation' = generation + 1 /\ UNCHANGED <<tasks, inflight>>
        /\ caller' = [caller EXCEPT ![c] = Idle, ![<<Client(c), "bg">>] = At("start", "resync", 0)]
    BY <1>2 DEF FinishAppend
  <2>2. \A d \in Callers : caller'[d] = caller[d] \/ Rests(caller'[d])
    BY <2>1, PlacesRest DEF Types, SyncTypes
  <2> QED  BY <2>1, <2>2 DEF RunsOn, Types, SyncTypes
<1>3. CASE DeleteDraft(c)
  <2>1. /\ key \in Versions /\ Goto(c, At("deleted", "expunge", key))
        /\ UNCHANGED <<tasks, inflight, generation>>
    BY <1>0, <1>3 DEF DeleteDraft, service
  <2> QED  BY <2>1, NextPlaces, PlacesRest, OneRests
<1>4. CASE FinishExpunge(c)
  <2>1. /\ key \in Versions /\ Goto(c, At("start", "expunged", key))
        /\ UNCHANGED <<tasks, inflight>> /\ generation' = generation + 1
    BY <1>0, <1>4 DEF FinishExpunge
  <2> QED  BY <2>1, NextPlaces, PlacesRest, OneRests
<1>5. CASE PostFails(c) \/ CheckDraft(c) \/ DeleteMisses(c) \/ DeleteResponseLost(c)
  <2>1. UNCHANGED <<tasks, inflight, generation>>
    BY <1>5 DEF PostFails, CheckDraft, DeleteMisses, DeleteResponseLost, service
  <2>2. \/ Goto(c, Idle)
        \/ key \in Versions /\ (Goto(c, At("delete", "expunge", key)) \/ Goto(c, At("start", "expunge", key)))
    BY <1>0, <1>5 DEF PostFails, CheckDraft, DeleteMisses, DeleteResponseLost
  <2> QED  BY <2>1, <2>2, IdleType, NextPlaces, PlacesRest, OneRests
<1> QED  BY <1>1, <1>2, <1>3, <1>4, <1>5 DEF RequestSteps

LEMMA WaitInvNext == ASSUME Types, WaitInv, [Next]_vars PROVE WaitInv'
<1>0. generation \in Nat
  BY DEF Types, SyncTypes
<1>1. ASSUME NEW c \in Callers, SyncSteps(c) PROVE WaitInv'
  <2>1. generation' = generation
    BY <1>1, SyncCases DEF Types
  <2>2. CASE Rest(c) /\ UNCHANGED <<inflight, tasks>>
    <3>1. RunsOn
      BY <2>1, <2>2, IdleType, StartPlaces, PlacesRest, OneRests DEF Rest
    <3> QED  BY <3>1, WaitInvRunsOn
  <2> QED  BY <1>1, <2>1, <2>2, SyncCases, WaitInvJoins, WaitInvLists DEF Types
<1>2. ASSUME NEW c \in Callers, RequestSteps(c) PROVE WaitInv'
  BY <1>2, RequestsRunOn, WaitInvRunsOn
<1>3. ASSUME NEW c \in Callers, TimeOut(c) PROVE WaitInv'
  <2>1. UNCHANGED <<inflight, generation>> /\ Goto(c, Idle)
    BY <1>3, TimeOutCases DEF service
  <2>2. CASE UNCHANGED tasks
    BY <2>1, <2>2, IdleType, PlacesRest, OneRests, WaitInvRunsOn
  <2>3. CASE caller[c].pc = "retry" /\ tasks' = [tasks EXCEPT ![caller[c].task] = FreeTask]
    BY <2>1, <2>3, WaitInvCancels
  <2> QED  BY <1>3, <2>2, <2>3, TimeOutCases
<1>4. ASSUME NEW t \in Tasks, ListingSteps(t) PROVE WaitInv'
  <2>1. CASE ServeList(t)
    <3>1. UNCHANGED <<caller, inflight, generation>>
      BY <2>1 DEF ServeList, service
    <3>2. RunsOn
      BY <1>0, <2>1, <3>1, ListBegins DEF RunsOn, Types, UpstreamTypes
    <3> QED  BY <3>2, WaitInvRunsOn
  <2>2. ASSUME NEW k \in Versions, FetchDraft(t, k) PROVE WaitInv'
    <3>1. PICK contents, stored : FetchesFrom(t, k, contents, stored)
      BY <2>2, FetchCases
    <3>2. RunsOn
      BY <1>0, <3>1 DEF FetchesFrom, Fetched, RunsOn
    <3> QED  BY <3>2, WaitInvRunsOn
  <2>3. CASE Land(t)
    BY <2>3, LandIsOver, LandLands, WaitInvOver
  <2>4. CASE FailListing(t)
    <3>1. generation' = generation
      BY <2>4 DEF FailListing
    <3>2. PICK outcome \in {"unavailable", "denied"} : Over(t, outcome, 0)
      BY <2>4, FailIsOver
    <3> QED  BY <3>1, <3>2, WaitInvOver
  <2> QED  BY <1>4, <2>1, <2>2, <2>3, <2>4 DEF ListingSteps
<1>5. ASSUME NEW s \in Sessions, Commands(s) PROVE WaitInv'
  <2>1. PICK place : Started(place) /\ Goto(<<s, "cmd">>, place)
    BY <1>5, CommandCases
  <2>2. UNCHANGED <<tasks, inflight, generation>> /\ <<s, "cmd">> \in Callers /\ place \in Places
    BY <1>5, <2>1, CommandCases, CallerFacts DEF service, Started
  <2> QED  BY <2>1, <2>2, PlacesRest, OneRests, WaitInvRunsOn
<1>6. CASE UpstreamSteps \/ Stutters
  <2>1. UNCHANGED <<caller, tasks, inflight, generation>>
    BY <1>6, UpstreamIsApart DEF Stutters, service
  <2>2. RunsOn
    BY <1>0, <2>1 DEF RunsOn
  <2> QED  BY <2>2, WaitInvRunsOn
<1> QED  BY <1>1, <1>2, <1>3, <1>4, <1>5, <1>6, NextCases

LEMMA WaitInvInit == Init => WaitInv
<1> SUFFICES ASSUME Init PROVE WaitInv
  OBVIOUS
<1>1. (\A t \in Tasks : tasks[t].began <= generation) /\ FlightIsOn
  BY FreeTaskType DEF Init, FlightIsOn, NoFlight
<1>2. \A c \in Callers : WaitsFor(c) /\ RetriesAlone(c)
  BY IdleType, Numbers DEF Init, WaitsFor, RetriesAlone, Waits
<1>3. ReturnedIsFresh
  BY IdleType DEF Init, ReturnedIsFresh
<1> QED  BY <1>1, <1>2, <1>3 DEF WaitInv

LEMMA WaitIsInductive == Spec => [](Types /\ WaitInv)
<1>1. Init => Types /\ WaitInv
  BY TypesInit, WaitInvInit
<1>2. Types /\ WaitInv /\ [Next]_vars => (Types /\ WaitInv)'
  BY TypesNext, WaitInvNext
<1> QED  BY <1>1, <1>2, PTL DEF Spec

\* A forced sync() is answered by a listing that began at or after the generation
\* it found on entry, whatever it joined, waited out or retried.
THEOREM AnswersAreFresh == Spec => []ReturnedIsFresh
<1>1. WaitInv => ReturnedIsFresh
  BY DEF WaitInv
<1> QED  BY <1>1, WaitIsInductive, PTL

--------------------------------------------------------------------------
(* What was removed is gone *)

\* However the drafts change upstream: nothing that was replaced or deleted becomes
\* current again, and what becomes current is new.
Drifts ==
  /\ Created \subseteq Created'
  /\ cur' \ cur \subseteq Created' \ Created

LEMMA NewestIsNext ==
  ASSUME NEW n \in 0..MaxVersions, Created = 1..n
  PROVE  Newest = n + 1
<1>1. Cardinality(1..n) = n
  <2>1. n \in Nat /\ 1 \in Int /\ n \in Int
    BY SyncAssumption
  <2>2. Cardinality(1..n) = IF 1 > n THEN 0 ELSE n - 1 + 1
    BY <2>1, FS_Interval
  <2> QED  BY <2>1, <2>2
<1>2. Newest = 1 + Cardinality(Created) /\ n \in Nat
  BY SyncAssumption DEF Newest, Created
<1> QED  BY <1>1, <1>2

LEMMA CreateDrifts ==
  ASSUME UpstreamTypes, OneCurrent, NEW d, NEW replaced, CreateVersion(d, replaced),
         \/ d = Newest /\ replaced = {}
         \/ \E k \in cur : d = draft[k] /\ replaced = {k}
  PROVE  OneCurrent' /\ Drifts /\ Newest \in Created' /\ Newest \in Versions
<1>1. PICK n \in 0..MaxVersions : Created = 1..n
  BY DEF OneCurrent
<1>2. /\ Newest = n + 1 /\ n + 1 \in Versions /\ n \in Nat /\ n + 1 \in 0..MaxVersions
      /\ draft' = [draft EXCEPT ![n + 1] = d]
      /\ cur' = (cur \ replaced) \cup {n + 1}
      /\ IF ListingLags THEN index' = index ELSE index' = cur'
  <2>1. Newest = n + 1 /\ n \in Nat
    BY <1>1, NewestIsNext, SyncAssumption
  <2>2. Newest \in Versions
    BY DEF CreateVersion
  <2>3. n + 1 \in 0..MaxVersions
    BY <2>1, <2>2, Numbers
  <2>4. /\ draft' = [draft EXCEPT ![Newest] = d] /\ cur' = (cur \ replaced) \cup {Newest}
        /\ IF ListingLags THEN index' = index ELSE index' = cur'
    BY DEF CreateVersion, IndexFollows
  <2> QED  BY <2>1, <2>2, <2>3, <2>4
<1>3. cur \subseteq 1..n /\ index \subseteq 1..n /\ n + 1 \notin Created
  BY <1>1, <1>2 DEF OneCurrent
<1>4. d \in Nat /\ d # 0 /\ d <= n + 1
  <2>1. CASE d = Newest
    BY <1>2, <2>1
  <2>2. ASSUME NEW k \in cur, d = draft[k] PROVE d \in Nat /\ d # 0 /\ d <= n + 1
    BY <1>2, <1>3, <2>2 DEF OneCurrent, Created, UpstreamTypes, Versions
  <2> QED  BY <2>1, <2>2
<1>5. Created' = 1..(n + 1)
  <2>1. \A k \in Versions : draft'[k] = IF k = n + 1 THEN d ELSE draft[k]
    BY <1>2 DEF UpstreamTypes
  <2>2. Created' = Created \cup {n + 1}
    BY <1>2, <1>4, <2>1 DEF Created
  <2> QED  BY <1>1, <1>2, <2>2
<1>6. cur' \subseteq 1..(n + 1) /\ index' \subseteq 1..(n + 1)
  <2>1. 1..n \subseteq 1..(n + 1) /\ n + 1 \in 1..(n + 1)
    BY <1>2
  <2>2. index' = index \/ index' = cur'
    BY <1>2
  <2> QED  BY <1>2, <1>3, <2>1, <2>2
<1>7. \A k \in Versions : draft'[k] <= k
  BY <1>2, <1>4 DEF OneCurrent, UpstreamTypes
<1>8. ASSUME NEW j \in cur', NEW k \in cur', draft'[j] = draft'[k] PROVE j = k
  <2>1. ASSUME NEW i \in cur \ replaced PROVE draft'[i] = draft[i] /\ draft[i] # d
    <3>1. i \in 1..n /\ i \in Versions /\ i # n + 1 /\ draft[i] <= i
      BY <1>2, <1>3 DEF OneCurrent, Created, UpstreamTypes
    <3>2. draft'[i] = draft[i] /\ draft[i] \in Nat
      BY <1>2, <3>1 DEF UpstreamTypes
    <3>3. CASE d = Newest
      BY <1>2, <3>1, <3>2, <3>3
    <3>4. ASSUME NEW m \in cur, d = draft[m], replaced = {m} PROVE draft[i] # d
      BY <3>4 DEF OneCurrent
    <3> QED  BY <3>2, <3>3, <3>4
  <2>2. draft'[n + 1] = d
    BY <1>2 DEF UpstreamTypes
  <2>3. CASE j # n + 1 /\ k # n + 1
    <3>1. j \in cur \ replaced /\ k \in cur \ replaced
      BY <1>2, <2>3
    <3>2. draft[j] = draft[k]
      BY <1>8, <2>1, <3>1
    <3> QED  BY <3>1, <3>2 DEF OneCurrent
  <2> QED  BY <1>2, <1>8, <2>1, <2>2, <2>3
<1>9. OneCurrent'
  <2>1. \E m \in 0..MaxVersions : Created' = 1..m
    BY <1>2, <1>5
  <2>2. ~ListingLags => index' = cur'
    BY <1>2
  <2> QED  BY <1>5, <1>6, <1>7, <1>8, <2>1, <2>2 DEF OneCurrent
<1>10. Drifts
  BY <1>1, <1>2, <1>3, <1>5 DEF Drifts
<1> QED  BY <1>2, <1>5, <1>9, <1>10

LEMMA DeleteDrifts ==
  ASSUME OneCurrent, cur' \subseteq cur, draft' = draft, IndexFollows
  PROVE  OneCurrent' /\ Drifts
<1>1. Created' = Created
  BY DEF Created
<1>2. Drifts
  BY <1>1 DEF Drifts
<1>3. OneCurrent'
  BY <1>1 DEF OneCurrent, IndexFollows
<1> QED  BY <1>2, <1>3

LEMMA UpstreamDrifts == ASSUME Types, OneCurrent, UpstreamSteps PROVE OneCurrent' /\ Drifts
<1>1. CASE UpstreamCreate
  <2>1. CreateVersion(Newest, {})
    BY <1>1 DEF UpstreamCreate
  <2> QED  BY <2>1, CreateDrifts DEF Types
<1>2. ASSUME NEW k \in Versions, UpstreamEdit(k) PROVE OneCurrent' /\ Drifts
  <2>1. k \in cur /\ CreateVersion(draft[k], {k})
    BY <1>2 DEF UpstreamEdit
  <2> QED  BY <2>1, CreateDrifts DEF Types
<1>3. ASSUME NEW k \in Versions, UpstreamDelete(k) PROVE OneCurrent' /\ Drifts
  BY <1>3, DeleteDrifts DEF UpstreamDelete
<1>4. ASSUME NEW k \in Versions, IndexCatchesUp(k) PROVE OneCurrent' /\ Drifts
  <2>1. /\ UNCHANGED <<cur, draft>>
        /\ index' = {j \in index : draft[j] # k} \cup CurrentOf(k)
    BY <1>4 DEF IndexCatchesUp
  <2>2. Created' = Created
    BY <2>1 DEF Created
  <2>3. index' \subseteq Created
    BY <2>1 DEF OneCurrent, CurrentOf
  <2>4. index = cur => index' = cur
    BY <2>1 DEF CurrentOf
  <2> QED  BY <2>1, <2>2, <2>3, <2>4 DEF OneCurrent, Drifts
<1> QED  BY <1>1, <1>2, <1>3, <1>4 DEF UpstreamSteps

\* Steps of the gateway that leave upstream alone.
LEMMA NoDrift == ASSUME OneCurrent, UNCHANGED upstream PROVE OneCurrent' /\ Drifts /\ Created' = Created
BY DEF OneCurrent, Drifts, Created, upstream

\* The rest of the invariant over a step in which the drafts change as above: what
\* the step must show of the listings, of the cache and of the callers.
TodoKept ==
  \A t \in Tasks : tasks'[t].todo \subseteq tasks[t].todo \cup index
CacheKept ==
  \A j \in Versions :
    \/ rendered'[j] = rendered[j]
    \/ j \in Created /\ UNCHANGED cur /\ (j \in cur => rendered'[j] \in {0, j})
CallerKept(c) ==
  /\ caller'[c].pc = "created" => \/ caller[c].pc = "created" /\ caller'[c].key = caller[c].key
                                  \/ caller'[c].key \in Created'
  /\ Removed(c)' => \/ Removed(c) /\ caller'[c].key = caller[c].key
                    \/ caller'[c].key \in Created' \ cur'
CallersKept == \A c \in Callers : CallerKept(c)

LEMMA KeptVersions ==
  ASSUME Types, VersionInv, RemovedIsOld, OneCurrent', Drifts, TodoKept, CacheKept, CallersKept
  PROVE  VersionInv' /\ RemovedIsOld'
<1>1. TodoExists'
  BY DEF TodoExists, TodoKept, VersionInv, OneCurrent, Drifts
<1>2. CacheIsOwn'
  <2>1. ASSUME NEW j \in Versions, rendered'[j] # 0 PROVE j \in Created'
    BY <2>1 DEF CacheKept, CacheIsOwn, VersionInv, Drifts
  <2>2. ASSUME NEW j \in cur' PROVE rendered'[j] \in {0, j}
    <3>1. j \in Versions
      BY DEF OneCurrent, Created
    <3>2. CASE rendered'[j] = rendered[j]
      BY <3>1, <3>2 DEF CacheIsOwn, VersionInv, Drifts
    <3>3. CASE UNCHANGED cur /\ (j \in cur => rendered'[j] \in {0, j})
      BY <3>3
    <3> QED  BY <3>1, <3>2, <3>3 DEF CacheKept
  <2> QED  BY <2>1, <2>2 DEF CacheIsOwn
<1>3. PostedExists'
  BY DEF PostedExists, CallersKept, CallerKept, VersionInv, Drifts
<1>4. RemovedIsOld'
  <2> SUFFICES ASSUME NEW c \in Callers, Removed(c)' PROVE caller'[c].key \in Created' \ cur'
    BY DEF RemovedIsOld
  <2> QED  BY DEF RemovedIsOld, CallersKept, CallerKept, Drifts
<1> QED  BY <1>1, <1>2, <1>3, <1>4 DEF VersionInv

\* The listings stay clean: a caller that is waiting for its EXPUNGE to show waits
\* for no older listing than before, and no listing picks up a removed version.
KeyKept(c) ==
  caller'[c].op = "expunged" =>
    \/ /\ caller[c].op = "expunged" /\ caller'[c].key = caller[c].key
       /\ Since(c)' >= Since(c)
    \/ \A t \in Tasks : tasks'[t].began < Since(c)'
KeysKept == \A c \in Callers : KeyKept(c)
CleanKept ==
  \A t \in Tasks :
    tasks'[t].state # "free" =>
      \/ tasks'[t].todo = {} /\ tasks'[t].entries = {}
      \/ /\ tasks[t].state # "free" /\ tasks'[t].began = tasks[t].began
         /\ \A key \in Created \ cur : Clean(t, key) => Clean(t, key)'

LEMMA KeptClean ==
  ASSUME Types, Types', GoneInv, ListingLags \/ (KeysKept /\ CleanKept)
  PROVE  ListingsAreClean'
<1> SUFFICES ASSUME ~ListingLags, NEW c \in Callers, NEW t \in Tasks,
                    caller'[c].op = "expunged",
                    tasks'[t].state # "free", tasks'[t].began >= Since(c)',
                    NEW key, key = caller'[c].key
             PROVE  Clean(t, key)'
  BY DEF ListingsAreClean, Clean
<1>1. /\ Since(c) \in Nat /\ Since(c)' \in Nat
      /\ tasks[t].began \in Nat /\ tasks'[t].began \in Nat
  BY DEF Types, SyncTypes, TaskRecords, Places, Since
<1>2. caller[c].op = "expunged" /\ key = caller[c].key /\ Since(c)' >= Since(c)
  BY <1>1 DEF KeysKept, KeyKept
<1>3. CASE tasks'[t].todo = {} /\ tasks'[t].entries = {}
  BY <1>3 DEF Clean
<1>4. CASE /\ tasks[t].state # "free" /\ tasks'[t].began = tasks[t].began
           /\ \A k \in Created \ cur : Clean(t, k) => Clean(t, k)'
  <2>1. key \in Created \ cur
    BY <1>2 DEF GoneInv, RemovedIsOld, Removed
  <2>2. tasks[t].began >= Since(c)
    BY <1>1, <1>2, <1>4
  <2>3. Clean(t, key)
    BY <1>2, <1>4, <2>2 DEF GoneInv, ListingsAreClean
  <2> QED  BY <1>4, <2>1, <2>3
<1> QED  BY <1>3, <1>4 DEF CleanKept

\* Both, for a step that lets the cache be.
LEMMA SameCache ==
  ASSUME UNCHANGED rendered
  PROVE  /\ CacheKept
         /\ (\A t \in Tasks : \/ tasks'[t] = tasks[t]
                              \/ tasks'[t].todo = {} /\ tasks'[t].entries = {})
              => TodoKept /\ CleanKept
<1>1. CacheKept
  BY DEF CacheKept
<1>2. ASSUME \A t \in Tasks : tasks'[t] = tasks[t] \/ (tasks'[t].todo = {} /\ tasks'[t].entries = {})
      PROVE  TodoKept /\ CleanKept
  <2>1. TodoKept
    BY <1>2 DEF TodoKept
  <2>2. ASSUME NEW t \in Tasks, tasks'[t] = tasks[t], NEW key, Clean(t, key) PROVE Clean(t, key)'
    BY <2>2 DEF Clean
  <2>3. CleanKept
    BY <1>2, <2>2 DEF CleanKept
  <2> QED  BY <2>1, <2>3
<1> QED  BY <1>1, <1>2

LEMMA Kept ==
  ASSUME Types, Types', VersionInv, GoneInv, OneCurrent', Drifts,
         TodoKept, CacheKept, CallersKept, ListingLags \/ (KeysKept /\ CleanKept)
  PROVE  VersionInv' /\ GoneInv'
<1>1. VersionInv' /\ RemovedIsOld'
  BY KeptVersions DEF GoneInv
<1> QED  BY <1>1, KeptClean DEF GoneInv

\* A caller that does not move, and one that moves to a place that names no version.
LEMMA Unmoved ==
  ASSUME Types, NEW c \in Callers, caller'[c] = caller[c],
         generation' \in Nat, generation' >= generation
  PROVE  CallerKept(c) /\ KeyKept(c)
<1>1. Since(c)' >= Since(c)
  BY DEF Since, Types, SyncTypes, Places
<1>2. Removed(c)' <=> Removed(c)
  BY DEF Removed
<1> QED  BY <1>1, <1>2 DEF CallerKept, KeyKept

Forgets(place) == place.pc \notin {"created", "deleted"} /\ place.op # "expunged"

LEMMA Forgotten ==
  ASSUME NEW c, Forgets(caller'[c])
  PROVE  CallerKept(c) /\ KeyKept(c)
BY DEF Forgets, CallerKept, KeyKept, Removed

LEMMA OneForgets ==
  ASSUME Types, NEW c \in Callers, NEW place \in Places, Goto(c, place), Forgets(place),
         UNCHANGED generation
  PROVE  CallersKept /\ KeysKept
<1>1. generation' \in Nat /\ generation' >= generation
  BY DEF Types, SyncTypes
<1>2. caller'[c] = place /\ \A d \in Callers : d # c => caller'[d] = caller[d]
  BY GotoMoves DEF Types, SyncTypes
<1>3. ASSUME NEW d \in Callers PROVE CallerKept(d) /\ KeyKept(d)
  BY <1>1, <1>2, Unmoved, Forgotten
<1> QED  BY <1>3 DEF CallersKept, KeysKept

LEMMA NobodyMoves ==
  ASSUME Types, UNCHANGED <<caller, generation>>
  PROVE  CallersKept /\ KeysKept
<1>1. generation' \in Nat /\ generation' >= generation
  BY DEF Types, SyncTypes
<1> QED  BY <1>1, Unmoved DEF CallersKept, KeysKept

LEMMA OneWaits ==
  ASSUME Types, NEW c \in Callers, NEW pc \in Waits, NEW t, Waiting(c, pc, t, Since(c)),
         UNCHANGED generation
  PROVE  CallersKept /\ KeysKept
<1>1. generation' \in Nat /\ generation' >= generation /\ Since(c) \in Nat
  BY DEF Types, SyncTypes, Since, Places
<1>2. CallerKept(c) /\ KeyKept(c)
  <2>1. Since(c)' = Since(c)
    BY DEF Waiting, Waits, Since
  <2> QED  BY <1>1, <2>1 DEF Waiting, Waits, CallerKept, KeyKept, Removed
<1>3. ASSUME NEW d \in Callers, d # c PROVE CallerKept(d) /\ KeyKept(d)
  BY <1>1, <1>3, Unmoved DEF Waiting
<1> QED  BY <1>2, <1>3 DEF CallersKept, KeysKept

LEMMA AllAreWoken ==
  ASSUME Types, WaitInv, NEW t \in Tasks, NEW outcome, NEW began, Over(t, outcome, began),
         UNCHANGED generation
  PROVE  CallersKept /\ KeysKept
<1>1. generation' \in Nat /\ generation' >= generation /\ t # NoTask
  BY Numbers DEF Types, SyncTypes
<1>2. ASSUME NEW c \in Callers PROVE CallerKept(c) /\ KeyKept(c)
  <2>1. CASE caller[c].task # t
    BY <1>1, <2>1, Unmoved DEF Over
  <2>2. CASE caller[c].task = t
    <3>1. /\ caller'[c].op = caller[c].op /\ caller'[c].key = caller[c].key
          /\ caller'[c].gen = caller[c].gen /\ caller'[c].pc \in {"woken", "unstale"}
      BY <2>2 DEF Over
    <3>2. caller[c].pc \in Waits
      BY <1>1, <2>2 DEF WaitInv, WaitsFor
    <3>3. Since(c)' = Since(c) /\ Since(c) \in Nat
      BY <3>1, <3>2 DEF Since, Waits, Types, SyncTypes, Places
    <3> QED  BY <3>1, <3>3 DEF CallerKept, KeyKept, Removed
  <2> QED  BY <2>1, <2>2
<1> QED  BY <1>2 DEF CallersKept, KeysKept

LEMMA SyncGone ==
  ASSUME Types, Types', WaitInv, VersionInv, GoneInv, NEW c \in Callers, SyncSteps(c)
  PROVE  VersionInv' /\ GoneInv'
<1>1. UNCHANGED <<upstream, generation, rendered>>
  BY SyncCases DEF Types
<1>2. OneCurrent' /\ Drifts
  BY <1>1, NoDrift DEF VersionInv
<1>3. \A t \in Tasks : tasks'[t] = tasks[t] \/ (tasks'[t].todo = {} /\ tasks'[t].entries = {})
  <2>1. ASSUME NEW u \in Tasks, Launch(u)
        PROVE  \A t \in Tasks : tasks'[t] = tasks[t] \/ (tasks'[t].todo = {} /\ tasks'[t].entries = {})
    BY <2>1, LaunchBegins, BegunType DEF Types, SyncTypes
  <2> QED  BY <2>1, SyncCases DEF Types, Joins, WaitsOut, ListsOwn, Retries
<1>4. CallersKept /\ KeysKept
  <2>1. CASE Rest(c)
    <3>1. Forgets(Idle) /\ Forgets(At("post", "append", 0))
      BY IdleType, StartPlaces DEF Forgets
    <3> QED  BY <1>1, <2>1, <3>1, IdleType, StartPlaces, OneForgets DEF Rest
  <2>2. CASE \E pc \in Waits : \E t : Waiting(c, pc, t, Since(c))
    BY <1>1, <2>2, OneWaits
  <2>3. ASSUME Joins(c) \/ WaitsOut(c) \/ ListsOwn(c) \/ Retries(c)
        PROVE  \E pc \in Waits : \E t : Waiting(c, pc, t, Since(c))
    BY <2>3 DEF Joins, WaitsOut, ListsOwn, Retries, Waits
  <2> QED  BY <2>1, <2>2, <2>3, SyncCases DEF Types
<1> QED  BY <1>1, <1>2, <1>3, <1>4, SameCache, Kept

LEMMA ListingGone ==
  ASSUME Types, Types', WaitInv, VersionInv, GoneInv, NEW t \in Tasks, ListingSteps(t)
  PROVE  VersionInv' /\ GoneInv'
<1>1. CASE ServeList(t)
  <2>1. UNCHANGED <<upstream, generation, rendered, caller>>
    BY <1>1 DEF ServeList, service
  <2>2. /\ tasks[t].state = "listing" /\ tasks'[t].began = tasks[t].began
        /\ tasks'[t].todo = index /\ tasks'[t].entries = tasks[t].entries
        /\ \A u \in Tasks : u # t => tasks'[u] = tasks[u]
    BY <1>1, ListBegins DEF Types, UpstreamTypes
  <2>3. OneCurrent' /\ Drifts /\ CallersKept /\ KeysKept /\ CacheKept
    BY <2>1, NoDrift, NobodyMoves, SameCache DEF VersionInv
  <2>4. TodoKept
    BY <2>2 DEF TodoKept
  <2>5. ListingLags \/ CleanKept
    <3> SUFFICES ASSUME ~ListingLags PROVE CleanKept
      OBVIOUS
    <3>1. ASSUME NEW key \in Created \ cur, Clean(t, key) PROVE Clean(t, key)'
      <4>1. ASSUME NEW j \in index PROVE j # key /\ rendered[j] # key
        <5>1. j \in cur /\ rendered[j] \in {0, j} /\ key # 0
          BY Numbers DEF VersionInv, OneCurrent, CacheIsOwn, Created
        <5> QED  BY <5>1
      <4> QED  BY <2>1, <2>2, <3>1, <4>1 DEF Clean
    <3>2. ASSUME NEW u \in Tasks, u # t, NEW key, Clean(u, key) PROVE Clean(u, key)'
      BY <2>1, <2>2, <3>2 DEF Clean
    <3> QED  BY <2>2, <3>1, <3>2 DEF CleanKept
  <2> QED  BY <2>3, <2>4, <2>5, Kept
<1>2. ASSUME NEW k \in Versions, FetchDraft(t, k) PROVE VersionInv' /\ GoneInv'
  <2>1. PICK contents, stored :
          /\ FetchesFrom(t, k, contents, stored)
          /\ \/ rendered[k] # 0 /\ contents = {rendered[k]} /\ stored = rendered
             \/ contents = {} /\ stored = rendered
             \/ \E v \in CurrentOf(draft[k]) : contents = {v} /\ stored = [rendered EXCEPT ![k] = v]
    BY <1>2, FetchCases
  <2>2. /\ UNCHANGED <<upstream, generation, caller>> /\ k \in tasks[t].todo
        /\ rendered' = stored
        /\ tasks'[t].state = tasks[t].state /\ tasks'[t].began = tasks[t].began
        /\ tasks'[t].todo = tasks[t].todo \ {k}
        /\ tasks'[t].entries = tasks[t].entries \cup ({k} \X contents)
        /\ \A u \in Tasks : u # t => tasks'[u] = tasks[u]
    BY <2>1 DEF FetchesFrom, Fetched
  <2>3. OneCurrent' /\ Drifts /\ CallersKept /\ KeysKept
    BY <2>2, NoDrift, NobodyMoves DEF VersionInv
  <2>4. TodoKept
    BY <2>2 DEF TodoKept
  <2>5. CurrentOf(draft[k]) \subseteq cur /\ (k \in cur => CurrentOf(draft[k]) \subseteq {k})
    BY DEF CurrentOf, VersionInv, OneCurrent
  <2>6. /\ \A j \in Versions : j # k => rendered'[j] = rendered[j]
        /\ rendered'[k] = rendered[k] \/ rendered'[k] \in CurrentOf(draft[k])
    BY <2>1, <2>2 DEF Types, StoreTypes
  <2>7. CacheKept
    <3>1. k \in Created
      BY <2>2 DEF VersionInv, TodoExists
    <3> QED  BY <2>2, <2>5, <2>6, <3>1 DEF CacheKept, upstream
  <2>8. CleanKept
    <3>1. ASSUME NEW u \in Tasks, NEW key \in Created \ cur, Clean(u, key) PROVE Clean(u, key)'
      <4>1. tasks[u].todo \subseteq Versions
        BY DEF Types, SyncTypes, TaskRecords
      <4>2. ASSUME NEW j \in tasks[u].todo PROVE j # key /\ rendered'[j] # key
        BY <2>5, <2>6, <3>1, <4>1 DEF Clean
      <4>3. CASE u # t
        BY <2>2, <3>1, <4>2, <4>3 DEF Clean
      <4>4. CASE u = t
        <5>1. ASSUME NEW v \in contents PROVE v # key
          BY <2>1, <2>2, <2>5, <3>1, <4>4 DEF Clean
        <5>2. ASSUME NEW e \in tasks'[t].entries PROVE e[2] # key
          BY <2>2, <3>1, <4>4, <5>1 DEF Clean
        <5> QED  BY <2>2, <4>2, <4>4, <5>2 DEF Clean
      <4> QED  BY <4>3, <4>4
    <3> QED  BY <2>2, <3>1 DEF CleanKept
  <2> QED  BY <2>3, <2>4, <2>7, <2>8, Kept
<1>3. CASE Land(t) \/ FailListing(t)
  <2>1. UNCHANGED <<upstream, generation, rendered>>
    BY <1>3, LandLands DEF FailListing
  <2>2. PICK outcome, began : Over(t, outcome, began)
    BY <1>3, LandIsOver, FailIsOver
  <2>3. \A u \in Tasks : tasks'[u] = tasks[u] \/ (tasks'[u].todo = {} /\ tasks'[u].entries = {})
    BY <2>2, FreeTaskType DEF Over
  <2>4. CallersKept /\ KeysKept /\ OneCurrent' /\ Drifts
    BY <2>1, <2>2, AllAreWoken, NoDrift DEF VersionInv
  <2> QED  BY <2>1, <2>3, <2>4, SameCache, Kept
<1> QED  BY <1>1, <1>2, <1>3 DEF ListingSteps

LEMMA RequestGone ==
  ASSUME Types, Types', WaitInv, VersionInv, GoneInv, NEW c \in Callers, RequestSteps(c)
  PROVE  VersionInv' /\ GoneInv'
<1> DEFINE key == caller[c].key
<1>0. /\ caller[c].pc \in {"created", "get", "delete", "deleted"} => key \in Versions
      /\ generation \in Nat
  BY DEF Types, KeysAreVersions, SyncTypes
<1>1. ASSUME UNCHANGED <<rendered, tasks>>
      PROVE  CacheKept /\ TodoKept /\ CleanKept
  BY <1>1, SameCache
<1>2. CASE PostDraft(c)
  <2>1. /\ UNCHANGED <<rendered, tasks, generation>> /\ CreateVersion(Newest, {})
        /\ Goto(c, At("created", "append", Newest))
    BY <1>2 DEF PostDraft, service
  <2>2. OneCurrent' /\ Drifts /\ Newest \in Created' /\ Newest \in Versions
    BY <2>1, CreateDrifts DEF Types, VersionInv
  <2> DEFINE place == At("created", "append", Newest)
  <2>3. /\ place \in Places /\ place.pc = "created" /\ place.op = "append" /\ place.key = Newest
    BY <2>2, NextPlaces
  <2> HIDE DEF place
  <2>4. caller'[c] = place /\ \A d \in Callers : d # c => caller'[d] = caller[d]
    BY <2>1, <2>3, GotoMoves DEF Types, SyncTypes, place
  <2>5. CallerKept(c) /\ KeyKept(c)
    BY <2>2, <2>3, <2>4 DEF CallerKept, KeyKept, Removed
  <2>6. CallersKept /\ KeysKept
    BY <1>0, <2>1, <2>4, <2>5, Unmoved DEF CallersKept, KeysKept
  <2> QED  BY <1>1, <2>1, <2>2, <2>6, Kept
<1>3. CASE FinishAppend(c)
  <2>1. /\ caller[c].pc = "created" /\ generation' = generation + 1
        /\ rendered' = [rendered EXCEPT ![key] = key]
        /\ caller' = [caller EXCEPT ![c] = Idle, ![<<Client(c), "bg">>] = At("start", "resync", 0)]
        /\ UNCHANGED <<upstream, tasks>>
    BY <1>3 DEF FinishAppend
  <2>2. OneCurrent' /\ Drifts /\ key \in Created /\ key \in Versions
    BY <1>0, <2>1, NoDrift DEF VersionInv, PostedExists
  <2> HIDE DEF key
  <2>3. TodoKept
    BY <2>1 DEF TodoKept
  <2>4. CacheKept
    BY <2>1, <2>2 DEF CacheKept, upstream, Types, StoreTypes
  <2>5. CleanKept
    <3>1. ASSUME NEW t \in Tasks, NEW k \in Created \ cur, Clean(t, k) PROVE Clean(t, k)'
      <4>1. tasks[t].todo \subseteq Versions
        BY DEF Types, SyncTypes, TaskRecords
      <4> QED  BY <2>1, <2>2, <3>1, <4>1 DEF Clean, Types, StoreTypes
    <3> QED  BY <2>1, <3>1 DEF CleanKept
  <2>6. Forgets(Idle) /\ Forgets(At("start", "resync", 0))
    BY IdleType, StartPlaces DEF Forgets
  <2>7. \A d \in Callers : caller'[d] = caller[d] \/ Forgets(caller'[d])
    BY <2>1, <2>6 DEF Types, SyncTypes
  <2>8. CallersKept /\ KeysKept
    <3>1. generation' \in Nat /\ generation' >= generation
      BY <1>0, <2>1
    <3>2. ASSUME NEW d \in Callers PROVE CallerKept(d) /\ KeyKept(d)
      <4>1. CASE caller'[d] = caller[d]
        BY <3>1, <4>1, Unmoved
      <4>2. CASE Forgets(caller'[d])
        BY <4>2, Forgotten
      <4> QED  BY <2>7, <4>1, <4>2
    <3> QED  BY <3>2 DEF CallersKept, KeysKept
  <2> QED  BY <2>2, <2>3, <2>4, <2>5, <2>8, Kept
<1>4. CASE DeleteDraft(c)
  <2>1. /\ UNCHANGED <<draft, rendered, tasks, generation>> /\ IndexFollows
        /\ cur' = cur \ CurrentOf(draft[key]) /\ CurrentOf(draft[key]) # {}
        /\ Goto(c, At("deleted", "expunge", key)) /\ key \in Versions
    BY <1>0, <1>4 DEF DeleteDraft, service
  <2> HIDE DEF key
  <2>2. OneCurrent' /\ Drifts
    BY <2>1, DeleteDrifts DEF VersionInv
  <2>3. key \in Created' \ cur'
    <3>1. key \in Created
      BY <2>1 DEF CurrentOf, VersionInv, OneCurrent, Created
    <3> QED  BY <2>1, <2>2, <3>1 DEF CurrentOf, Drifts
  <2> DEFINE place == At("deleted", "expunge", key)
  <2>4. /\ place \in Places /\ place.pc = "deleted" /\ place.op = "expunge" /\ place.key = key
    BY <2>1, NextPlaces
  <2> HIDE DEF place
  <2>5. caller'[c] = place /\ \A d \in Callers : d # c => caller'[d] = caller[d]
    BY <2>1, <2>4, GotoMoves DEF Types, SyncTypes, place
  <2>6. CallerKept(c) /\ KeyKept(c)
    BY <2>3, <2>4, <2>5 DEF CallerKept, KeyKept, Removed
  <2>7. CallersKept /\ KeysKept
    BY <1>0, <2>1, <2>5, <2>6, Unmoved DEF CallersKept, KeysKept
  <2> QED  BY <1>1, <2>1, <2>2, <2>7, Kept
<1>5. CASE FinishExpunge(c)
  <2>1. /\ UNCHANGED <<upstream, rendered, tasks>> /\ generation' = generation + 1
        /\ Goto(c, At("start", "expunged", key)) /\ key \in Versions /\ Removed(c)
    BY <1>0, <1>5 DEF FinishExpunge, Removed
  <2>2. OneCurrent' /\ Drifts
    BY <2>1, NoDrift DEF VersionInv
  <2> DEFINE place == At("start", "expunged", key)
  <2>3. /\ place \in Places /\ place.pc = "start" /\ place.op = "expunged" /\ place.key = key
    BY <2>1, NextPlaces
  <2> HIDE DEF place
  <2>4. caller'[c] = place /\ \A d \in Callers : d # c => caller'[d] = caller[d]
    BY <2>1, <2>3, GotoMoves DEF Types, SyncTypes, place
  <2>5. \A t \in Tasks : tasks[t].began \in Nat /\ tasks[t].began <= generation
    BY DEF WaitInv, Types, SyncTypes, TaskRecords
  <2>6. CallerKept(c) /\ KeyKept(c)
    <3>1. Since(c)' = generation + 1
      BY <2>1, <2>3, <2>4 DEF Since
    <3> QED  BY <1>0, <2>1, <2>3, <2>4, <2>5, <3>1 DEF CallerKept, KeyKept, Removed
  <2>7. CallersKept /\ KeysKept
    BY <1>0, <2>1, <2>4, <2>6, Unmoved DEF CallersKept, KeysKept
  <2> QED  BY <1>1, <2>1, <2>2, <2>7, Kept
<1>6. CASE PostFails(c) \/ CheckDraft(c) \/ DeleteMisses(c) \/ DeleteResponseLost(c)
  <2>1. UNCHANGED <<upstream, rendered, tasks, generation>>
    BY <1>6 DEF PostFails, CheckDraft, DeleteMisses, DeleteResponseLost, service
  <2>2. \/ Goto(c, Idle)
        \/ key \in Versions /\ (Goto(c, At("delete", "expunge", key)) \/ Goto(c, At("start", "expunge", key)))
    BY <1>0, <1>6 DEF PostFails, CheckDraft, DeleteMisses, DeleteResponseLost
  <2>3. Forgets(Idle) /\ (key \in Versions => /\ Forgets(At("delete", "expunge", key))
                                              /\ Forgets(At("start", "expunge", key)))
    BY IdleType, NextPlaces DEF Forgets
  <2>4. CallersKept /\ KeysKept
    BY <2>1, <2>2, <2>3, IdleType, NextPlaces, OneForgets
  <2>5. OneCurrent' /\ Drifts
    BY <2>1, NoDrift DEF VersionInv
  <2> QED  BY <1>1, <2>1, <2>4, <2>5, Kept
<1> QED  BY <1>2, <1>3, <1>4, <1>5, <1>6 DEF RequestSteps

LEMMA GoneNext ==
  ASSUME Types, WaitInv, VersionInv, GoneInv, [Next]_vars
  PROVE  VersionInv' /\ GoneInv'
<1>0. Types'
  BY TypesNext
<1>1. ASSUME NEW c \in Callers, TimeOut(c) PROVE VersionInv' /\ GoneInv'
  <2>1. UNCHANGED <<upstream, rendered, generation>> /\ Goto(c, Idle)
    BY <1>1, TimeOutCases DEF service
  <2>2. \A t \in Tasks : tasks'[t] = tasks[t] \/ (tasks'[t].todo = {} /\ tasks'[t].entries = {})
    BY <1>1, TimeOutCases, FreeTaskType DEF Types, SyncTypes
  <2>3. Forgets(Idle)
    BY IdleType DEF Forgets
  <2>4. CallersKept /\ KeysKept /\ OneCurrent' /\ Drifts
    BY <2>1, <2>3, IdleType, OneForgets, NoDrift DEF VersionInv
  <2> QED  BY <1>0, <2>1, <2>2, <2>4, SameCache, Kept
<1>2. ASSUME NEW s \in Sessions, Commands(s) PROVE VersionInv' /\ GoneInv'
  <2>1. PICK place : Started(place) /\ Goto(<<s, "cmd">>, place)
    BY <1>2, CommandCases
  <2>2. /\ UNCHANGED <<upstream, rendered, tasks, generation>>
        /\ <<s, "cmd">> \in Callers /\ place \in Places /\ Forgets(place)
    BY <1>2, <2>1, CommandCases, CallerFacts DEF service, Started, Forgets
  <2>3. CallersKept /\ KeysKept /\ OneCurrent' /\ Drifts
    BY <2>1, <2>2, OneForgets, NoDrift DEF VersionInv
  <2> QED  BY <1>0, <2>2, <2>3, SameCache, Kept
<1>3. CASE UpstreamSteps
  <2>1. UNCHANGED <<rendered, tasks, caller, generation>>
    BY <1>3, UpstreamIsApart DEF service
  <2>2. CallersKept /\ KeysKept /\ OneCurrent' /\ Drifts
    BY <1>3, <2>1, NobodyMoves, UpstreamDrifts DEF VersionInv
  <2> QED  BY <1>0, <2>1, <2>2, SameCache, Kept
<1>4. CASE Stutters
  <2>1. UNCHANGED <<upstream, rendered, tasks, caller, generation>>
    BY <1>4 DEF Stutters, service
  <2>2. CallersKept /\ KeysKept /\ OneCurrent' /\ Drifts
    BY <2>1, NobodyMoves, NoDrift DEF VersionInv
  <2> QED  BY <1>0, <2>1, <2>2, SameCache, Kept
<1> QED  BY <1>0, <1>1, <1>2, <1>3, <1>4, NextCases, SyncGone, RequestGone, ListingGone

LEMMA GoneInit == Init => VersionInv /\ GoneInv
<1> SUFFICES ASSUME Init PROVE VersionInv /\ GoneInv
  OBVIOUS
<1>1. Created = {1} /\ 1..1 = {1} /\ 1 \in 0..MaxVersions
  BY Numbers DEF Init, Created
<1>2. OneCurrent
  BY <1>1, Numbers DEF Init, OneCurrent
<1>3. TodoExists /\ PostedExists /\ GoneInv
  BY FreeTaskType, IdleType DEF Init, TodoExists, PostedExists, GoneInv, RemovedIsOld, Removed,
                                ListingsAreClean
<1>4. CacheIsOwn
  BY Numbers DEF Init, CacheIsOwn
<1> QED  BY <1>2, <1>3, <1>4 DEF VersionInv

GoneIInv == Types /\ WaitInv /\ VersionInv /\ GoneInv

LEMMA GoneIsInductive == Spec => []GoneIInv
<1>1. Init => GoneIInv
  BY TypesInit, WaitInvInit, GoneInit DEF GoneIInv
<1>2. GoneIInv /\ [Next]_vars => GoneIInv'
  BY TypesNext, WaitInvNext, GoneNext DEF GoneIInv
<1> QED  BY <1>1, <1>2, PTL DEF Spec

\* Only a listing that lands answers a caller with success.
LEMMA OnlyLandAnswers ==
  ASSUME Types, [Next]_vars, NEW c \in Callers, caller[c].pc \in {"await", "retry"},
         caller'[c].pc = "woken", caller'[c].outcome = "ok"
  PROVE  \E t \in Tasks : Land(t) /\ caller[c].task = t
<1>1. ASSUME RunsOn PROVE FALSE
  BY <1>1 DEF RunsOn, Rests
<1>2. ASSUME NEW d \in Callers, SyncSteps(d) PROVE FALSE
  <2>1. CASE Rest(d) /\ UNCHANGED <<inflight, tasks>>
    <3>1. generation' = generation
      BY <1>2, SyncCases DEF Types
    <3> QED  BY <1>1, <2>1, <3>1, IdleType, StartPlaces, PlacesRest, OneRests DEF Rest
  <2>2. CASE \E pc \in Waits : \E t : Waiting(d, pc, t, Since(d))
    BY <2>2 DEF Waiting, Waits
  <2>3. ASSUME Joins(d) \/ WaitsOut(d) \/ ListsOwn(d) \/ Retries(d)
        PROVE  \E pc \in Waits : \E t : Waiting(d, pc, t, Since(d))
    BY <2>3 DEF Joins, WaitsOut, ListsOwn, Retries, Waits
  <2> QED  BY <1>2, <2>1, <2>2, <2>3, SyncCases DEF Types
<1>3. ASSUME NEW d \in Callers, RequestSteps(d) PROVE FALSE
  BY <1>1, <1>3, RequestsRunOn
<1>4. ASSUME NEW d \in Callers, TimeOut(d) PROVE FALSE
  BY <1>4, TimeOutCases, IdleType, GotoMoves DEF Types, SyncTypes
<1>5. ASSUME NEW s \in Sessions, Commands(s) PROVE FALSE
  <2>1. PICK place : Started(place) /\ Goto(<<s, "cmd">>, place)
    BY <1>5, CommandCases
  <2> QED  BY <2>1, CallerFacts, GotoMoves DEF Started, Types, SyncTypes
<1>6. CASE UpstreamSteps \/ Stutters
  BY <1>6, UpstreamIsApart DEF Stutters
<1>7. ASSUME NEW t \in Tasks, ListingSteps(t) PROVE Land(t) /\ caller[c].task = t
  <2>1. caller' # caller
    OBVIOUS
  <2>2. ~ServeList(t) /\ ~\E k \in Versions : FetchDraft(t, k)
    BY <2>1 DEF ServeList, FetchDraft
  <2>3. ~FailListing(t)
    <3> SUFFICES ASSUME FailListing(t) PROVE FALSE
      OBVIOUS
    <3>1. PICK outcome \in {"unavailable", "denied"} : Over(t, outcome, 0)
      BY FailIsOver
    <3> QED  BY <3>1 DEF Over
  <2>4. Land(t)
    BY <1>7, <2>2, <2>3 DEF ListingSteps
  <2> QED  BY <2>4, LandIsOver DEF Over
<1> QED  BY <1>2, <1>3, <1>4, <1>5, <1>6, <1>7, NextCases

\* The listing that answers an EXPUNGE which removed a draft does not show it, unless
\* an APPEND pinned that draft meanwhile, for an index that does not lag: neither a
\* listing older than the removal nor the byte cache brings the draft back.
THEOREM ExpungedIsGone == Spec => RemovedIsGone
<1> DEFINE Gone ==
      \A c \in Callers :
        /\ caller[c].op = "expunged" /\ caller[c].pc \in {"await", "retry"}
        /\ caller'[c].pc = "woken" /\ caller'[c].outcome = "ok"
        /\ ~ListingLags
        => latest'.items[caller[c].key] = 0 \/ caller[c].key \in pins'
<1>1. ASSUME GoneIInv, [Next]_vars PROVE Gone
  <2> SUFFICES ASSUME NEW c \in Callers,
                      caller[c].op = "expunged", caller[c].pc \in {"await", "retry"},
                      caller'[c].pc = "woken", caller'[c].outcome = "ok", ~ListingLags
               PROVE  latest'.items[caller[c].key] = 0 \/ caller[c].key \in pins'
    OBVIOUS
  <2> USE <1>1 DEF GoneIInv
  <2>1. PICK t \in Tasks : Land(t) /\ caller[c].task = t
    BY OnlyLandAnswers
  <2> DEFINE key == caller[c].key
  <2>2. tasks[t].state # "free" /\ tasks[t].began >= Since(c) /\ key \in Versions
    BY <2>1 DEF Land, WaitInv, WaitsFor, Forced, Since, Types, KeysAreVersions
  <2>3. Clean(t, key)
    BY <2>2 DEF GoneInv, ListingsAreClean
  <2>4. Landed(t)
    BY <2>1, LandLands
  <2> HIDE DEF key
  <2>5. CASE key \in KeysIn(ApplyPins(tasks[t].entries))
    <3>1. PICK e \in ApplyPins(tasks[t].entries) : e[2] = key
      BY <2>5 DEF KeysIn
    <3>2. e \notin tasks[t].entries
      BY <2>3, <3>1 DEF Clean
    <3>3. key \in PinsKept(tasks[t].entries)
      BY <3>1, <3>2 DEF ApplyPins
    <3> QED  BY <2>4, <3>3 DEF Landed, key
  <2>6. CASE key \notin KeysIn(ApplyPins(tasks[t].entries))
    BY <2>2, <2>4, <2>6 DEF Landed, key
  <2> QED  BY <2>5, <2>6
<1>2. GoneIInv /\ [Next]_vars => [Gone]_vars
  BY <1>1
<1> QED  BY <1>2, GoneIsInductive, PTL DEF Spec, RemovedIsGone
==========================================================================
