-------------------------- MODULE CopyMoveProofs --------------------------
(***************************************************************************)
(* Proofs about CopyMove, for any messages, sessions and bounds: the UID   *)
(* that a COPY or MOVE gives a message in Trash lasts, what it moved out   *)
(* of INBOX is not listed there, and its COPYUID is read as it was meant.  *)
(***************************************************************************)
EXTENDS CopyMove, FiniteSetTheorems, SequenceTheorems, TLAPS

--------------------------------------------------------------------------
(* Types *)

Tasks ==
  [state : {"free", "asked", "answered"}, view : Views, at : Messages, page : BOOLEAN,
   got : SUBSET Messages]
Flights == [by : Sessions \cup {NoOne}, gen : Nat]
Pcs == {"idle", "join", "stale", "unstale", "first", "sent", "applied"}
Places ==
  [pc : Pcs, op : {"none", "noop", "copy", "move"}, view : Views,
   items : Seq(Messages \X Nat), pairs : Seq(Nat \X Nat), done : SUBSET Messages, own : BOOLEAN,
   on : Sessions \cup {NoOne}, gen : Nat, expect : SUBSET Messages]

MessageTypes ==
  /\ trashed \subseteq Messages /\ index \subseteq Messages /\ held \subseteq Messages
  /\ pins \subseteq Messages /\ gone \subseteq Messages
StoreTypes ==
  /\ uidOf \in [Views -> [Messages -> Nat]] /\ next_uid \in [Views -> Nat]
  /\ latest \in [Views -> [Messages -> Nat]] /\ given \in [Messages -> Nat]
  /\ generation \in [Views -> Nat]
TaskTypes == inflight \in [Views -> Flights] /\ task \in [Sessions -> Tasks]
CallerTypes ==
  /\ caller \in [Sessions -> Places]
  /\ \A s \in Sessions : caller[s].pc \in {"first", "sent", "applied"} => caller[s].items # <<>>

Types == MessageTypes /\ StoreTypes /\ TaskTypes /\ CallerTypes

--------------------------------------------------------------------------
(* The invariant *)

\* The listing under way of a view, and the one that a caller waits for, run.
FlightRuns ==
  \A v \in Views : inflight[v].by # NoOne =>
    /\ task[inflight[v].by].state # "free" /\ task[inflight[v].by].view = v
    /\ inflight[v].gen <= generation[v]
JoinedRuns ==
  \A s \in Sessions : caller[s].pc = "join" =>
    /\ caller[s].on \in Sessions
    /\ task[caller[s].on].state # "free" /\ task[caller[s].on].view = Awaited(caller[s])
StaleIsOld ==
  \A s \in Sessions : caller[s].pc \in {"stale", "unstale"} =>
    caller[s].gen <= generation[Awaited(caller[s])]

\* A Trash UID that was given is the live one of a trashed message, which is pinned or
\* will be on every listing of Trash that runs.
Visible(m) == m \in index /\ ~MissedIn(m, NoOne)
GivenLasts ==
  \A m \in Messages : given[m] # 0 =>
    /\ m \in trashed /\ uidOf["Trash"][m] = given[m]
    /\ m \in pins \/ Visible(m)

\* What was told as copied is trashed, and held, or the index has it and no listing of
\* INBOX still has to read a page with it.
PageOf(u, m) == task[u].state = "answered" /\ task[u].view = "INBOX" /\ task[u].at = m /\ task[u].page
OutOfInbox(m) ==
  /\ m \in trashed
  /\ m \in held \/ (m \in index /\ \A u \in Sessions : ~PageOf(u, m))
Told == gone \cup UNION {caller[s].done : s \in Sessions}
ToldIsOut == \A m \in Told : OutOfInbox(m)
ExpectIsGone == \A s \in Sessions : caller[s].expect \subseteq gone

\* A listing that may answer a caller has nothing of what the caller expects to be gone.
InInbox(s) == caller[s].view = "INBOX" /\ Awaited(caller[s]) = "INBOX"
CurrentIsClean ==
  inflight["INBOX"].by # NoOne /\ inflight["INBOX"].gen >= generation["INBOX"]
    => task[inflight["INBOX"].by].got \cap gone = {}
JoinedIsClean ==
  \A s \in Sessions : caller[s].pc = "join" /\ InInbox(s)
    => task[caller[s].on].got \cap caller[s].expect = {}
StaleIsClean ==
  \A s \in Sessions :
    /\ caller[s].pc \in {"stale", "unstale"} /\ InInbox(s)
    /\ inflight["INBOX"].by # NoOne /\ inflight["INBOX"].gen >= caller[s].gen
    => task[inflight["INBOX"].by].got \cap caller[s].expect = {}

SyncInv == FlightRuns /\ JoinedRuns /\ StaleIsOld
InboxInv == ToldIsOut /\ ExpectIsGone /\ CurrentIsClean /\ JoinedIsClean /\ StaleIsClean
IInv == Types /\ SyncInv /\ GivenLasts /\ InboxInv

--------------------------------------------------------------------------
(* Records *)

LEMMA Numbers ==
  /\ 1 \in Messages /\ MaxMessage \in Messages /\ Messages \subseteq Nat /\ 0 \notin Messages
  /\ \A m \in Messages : m # MaxMessage => m + 1 \in Messages
  /\ "INBOX" \in Views /\ "Trash" \in Views /\ NoOne \notin Sessions
BY CopyAssumption DEF Messages, Views

LEMMA RecordTypes ==
  /\ Idle \in Places /\ Idle.pc = "idle" /\ Idle.items = <<>> /\ Idle.on = NoOne
  /\ Idle.done = {} /\ Idle.expect = {}
  /\ NoFlight \in Flights /\ NoFlight.by = NoOne
  /\ FreeTask \in Tasks /\ FreeTask.state = "free"
<1>1. <<>> \in Seq(Messages \X Nat) /\ <<>> \in Seq(Nat \X Nat)
  OBVIOUS
<1>2. Idle \in Places
  BY <1>1, Numbers DEF Idle, Places, Pcs
<1>3. NoFlight \in Flights /\ NoFlight.by = NoOne
  BY DEF NoFlight, Flights
<1>4. FreeTask \in Tasks /\ FreeTask.state = "free"
  BY Numbers DEF FreeTask, Tasks
<1> QED  BY <1>2, <1>3, <1>4 DEF Idle

\* A listing that begins.
Fresh(v) == [FreeTask EXCEPT !.state = "asked", !.view = v]
LEMMA FreshType ==
  ASSUME NEW v \in Views
  PROVE  /\ Fresh(v) \in Tasks /\ Fresh(v).state = "asked" /\ Fresh(v).view = v
         /\ Fresh(v).at = 1 /\ Fresh(v).got = {}
BY Numbers DEF Fresh, FreeTask, Tasks

LEMMA BeginTurnType ==
  ASSUME NEW c \in Places
  PROVE  /\ BeginTurn(c) \in Places
         /\ BeginTurn(c).pc = "sent" /\ BeginTurn(c).on = NoOne
         /\ BeginTurn(c).items = c.items /\ BeginTurn(c).done = c.done
         /\ BeginTurn(c).expect = c.expect /\ BeginTurn(c).view = c.view
<1> DEFINE own == c.own /\ uidOf["Trash"][c.items[1][1]] = 0
<1>1. BeginTurn(c) = [c EXCEPT !.pc = "sent", !.on = NoOne, !.own = own]
  BY DEF BeginTurn
<1>2. own \in BOOLEAN
  OBVIOUS
<1> HIDE DEF own
<1> QED  BY <1>1, <1>2 DEF Places, Pcs

\* What EnterSync makes of the caller: the place it goes to waits for a listing.
LEMMA WaitTypes ==
  ASSUME NEW c \in Places, NEW t \in Sessions, NEW gen \in Nat
  PROVE  /\ [c EXCEPT !.pc = "join", !.on = t] \in Places
         /\ [c EXCEPT !.pc = "stale", !.on = t, !.gen = gen] \in Places
         /\ [c EXCEPT !.pc = "unstale", !.on = NoOne] \in Places
         /\ [c EXCEPT !.pc = "first", !.on = NoOne] \in Places
BY DEF Places, Pcs

\* A caller that stays where it is, though it may expect less.
Stays(c) ==
  /\ caller'[c].pc = caller[c].pc /\ caller'[c].on = caller[c].on /\ caller'[c].gen = caller[c].gen
  /\ caller'[c].view = caller[c].view /\ caller'[c].items = caller[c].items
  /\ caller'[c].done \subseteq caller[c].done /\ caller'[c].expect \subseteq caller[c].expect

\* A caller that goes back into sync() when the older listing has ended.
Returns(c) ==
  /\ caller[c].pc = "stale" /\ caller'[c].pc = "unstale" /\ caller'[c].gen = caller[c].gen
  /\ caller'[c].view = caller[c].view /\ caller'[c].items = caller[c].items
  /\ caller'[c].done \subseteq caller[c].done /\ caller'[c].expect \subseteq caller[c].expect

\* A caller that waits for no listing.
Works(c) ==
  /\ caller'[c].pc \notin {"join", "stale", "unstale"}
  /\ caller'[c].expect \subseteq caller[c].expect

LEMMA LapseStays ==
  ASSUME NEW lost, NEW callers \in [Sessions -> Places]
  PROVE  /\ Lapse(callers, lost) \in [Sessions -> Places]
         /\ \A c \in Sessions :
              LET me == Lapse(callers, lost)[c] IN
              /\ me.pc = callers[c].pc /\ me.on = callers[c].on /\ me.gen = callers[c].gen
              /\ me.view = callers[c].view /\ me.items = callers[c].items
              /\ me.done = callers[c].done \ lost /\ me.expect = callers[c].expect \ lost
<1> DEFINE me(c) == [callers[c] EXCEPT !.done = callers[c].done \ lost,
                                       !.expect = callers[c].expect \ lost]
<1>1. Lapse(callers, lost) = [c \in Sessions |-> me(c)]
  BY DEF Lapse
<1>2. ASSUME NEW c \in Sessions
      PROVE  /\ me(c) \in Places /\ me(c).pc = callers[c].pc /\ me(c).on = callers[c].on
             /\ me(c).gen = callers[c].gen
             /\ me(c).view = callers[c].view /\ me(c).items = callers[c].items
             /\ me(c).done = callers[c].done \ lost /\ me(c).expect = callers[c].expect \ lost
  BY DEF Places
<1> HIDE DEF me
<1> QED  BY <1>1, <1>2

\* What becomes of those who wait for the listing of s, and of the others.
Woken(s, c) ==
  \/ caller[c].on # s /\ Stays(c)
  \/ caller[c].on = s /\ caller[c].pc = "stale" /\ Returns(c)
  \/ /\ caller[c].on = s /\ caller[c].pc # "stale"
     /\ caller'[c].pc \in {"first", "idle"}
     /\ caller'[c].pc = "first" => caller'[c].items # <<>>
     /\ caller'[c].expect \subseteq caller[c].expect /\ caller'[c].done \subseteq caller[c].done

LEMMA WakeShape ==
  ASSUME Types, NEW s \in Sessions, NEW landed \in BOOLEAN, NEW lost,
         caller' = Lapse(Wake(s, landed), lost)
  PROVE  /\ caller' \in [Sessions -> Places]
         /\ \A c \in Sessions : /\ Woken(s, c)
                                /\ caller'[c].done \cap lost = {} /\ caller'[c].expect \cap lost = {}
<1>1. caller \in [Sessions -> Places]
  BY DEF Types, CallerTypes
<1> DEFINE up(c) ==
      IF caller[c].on # s THEN caller[c]
      ELSE IF caller[c].pc = "stale" THEN [caller[c] EXCEPT !.pc = "unstale", !.on = NoOne]
      ELSE IF landed /\ caller[c].items # <<>>
           THEN [caller[c] EXCEPT !.pc = "first", !.on = NoOne]
           ELSE Idle
<1>2. Wake(s, landed) = [c \in Sessions |-> up(c)]
  BY DEF Wake
<1>3. ASSUME NEW c \in Sessions
      PROVE  /\ up(c) \in Places
             /\ \/ caller[c].on # s /\ up(c) = caller[c]
                \/ /\ caller[c].on = s /\ caller[c].pc = "stale" /\ up(c).pc = "unstale"
                   /\ up(c).gen = caller[c].gen /\ up(c).view = caller[c].view
                   /\ up(c).items = caller[c].items
                   /\ up(c).done = caller[c].done /\ up(c).expect = caller[c].expect
                \/ /\ caller[c].on = s /\ caller[c].pc # "stale" /\ up(c).pc = "first"
                   /\ up(c).items # <<>> /\ up(c).expect = caller[c].expect
                   /\ up(c).done = caller[c].done
                \/ caller[c].on = s /\ caller[c].pc # "stale" /\ up(c) = Idle
  <2>1. caller[c] \in Places
    BY <1>1
  <2>2. CASE caller[c].on # s
    BY <2>1, <2>2
  <2>3. CASE caller[c].on = s /\ caller[c].pc = "stale"
    BY <2>1, <2>3 DEF Places, Pcs
  <2>4. CASE caller[c].on = s /\ caller[c].pc # "stale"
    BY <2>1, <2>4, RecordTypes DEF Places, Pcs
  <2> QED  BY <2>2, <2>3, <2>4
<1> HIDE DEF up
<1>4. Wake(s, landed) \in [Sessions -> Places]
  BY <1>2, <1>3
<1>5. caller' \in [Sessions -> Places]
  BY <1>4, LapseStays
<1>6. ASSUME NEW c \in Sessions
      PROVE  /\ caller'[c].pc = up(c).pc /\ caller'[c].on = up(c).on /\ caller'[c].gen = up(c).gen
             /\ caller'[c].view = up(c).view /\ caller'[c].items = up(c).items
             /\ caller'[c].done = up(c).done \ lost /\ caller'[c].expect = up(c).expect \ lost
  BY <1>2, <1>4, LapseStays
<1>7. ASSUME NEW c \in Sessions PROVE Woken(s, c)
  BY <1>3, <1>6, RecordTypes DEF Woken, Stays, Returns
<1>8. ASSUME NEW c \in Sessions
      PROVE  caller'[c].done \cap lost = {} /\ caller'[c].expect \cap lost = {}
  BY <1>6
<1> QED  BY <1>5, <1>7, <1>8

LEMMA NoLapse ==
  ASSUME NEW callers \in [Sessions -> Places]
  PROVE  Lapse(callers, {}) = callers
<1>1. ASSUME NEW c \in Sessions
      PROVE  [callers[c] EXCEPT !.done = callers[c].done \ {}, !.expect = callers[c].expect \ {}]
             = callers[c]
  <2>1. callers[c].done \ {} = callers[c].done /\ callers[c].expect \ {} = callers[c].expect
    OBVIOUS
  <2> QED  BY <2>1 DEF Places
<1> QED  BY <1>1 DEF Lapse

--------------------------------------------------------------------------
(* Shapes of the steps *)

\* The caller s enters sync() of v, as c and with the generation gen: it starts a
\* listing, joins one or waits for an older one.
Waits(s, c, pc) ==
  /\ caller' \in [Sessions -> Places]
  /\ \A x \in Sessions \ {s} : caller'[x] = caller[x]
  /\ caller'[s].pc = pc /\ caller'[s].view = c.view /\ caller'[s].items = c.items
  /\ caller'[s].done = c.done /\ caller'[s].expect = c.expect
Starts(s, c, v, gen) ==
  /\ Waits(s, c, "join") /\ caller'[s].on = s
  /\ task[s].state = "free"
  /\ task' = [task EXCEPT ![s] = Fresh(v)]
  /\ inflight' = [inflight EXCEPT ![v] = [by |-> s, gen |-> gen]]
Joins(s, c, v, gen) ==
  /\ Waits(s, c, "join") /\ caller'[s].on = inflight[v].by
  /\ inflight[v].by # NoOne /\ inflight[v].gen >= gen
  /\ UNCHANGED sync
WaitsStale(s, c, v, gen) ==
  /\ Waits(s, c, "stale") /\ caller'[s].on = inflight[v].by /\ caller'[s].gen = gen
  /\ inflight[v].by # NoOne /\ inflight[v].gen < gen
  /\ UNCHANGED sync

LEMMA WaitShapes ==
  ASSUME Types, NEW s \in Sessions, NEW c \in Places, NEW v \in Views, NEW gen \in Nat
  PROVE  /\ StartOwn(s, c, v, gen) => Starts(s, c, v, gen)
         /\ inflight[v].by # NoOne /\ inflight[v].gen >= gen /\ Join(s, c, v) => Joins(s, c, v, gen)
         /\ inflight[v].by # NoOne /\ inflight[v].gen < gen /\ WaitStale(s, c, v, gen)
              => WaitsStale(s, c, v, gen)
<1>1. caller \in [Sessions -> Places] /\ inflight \in [Views -> Flights]
  BY DEF Types, CallerTypes, TaskTypes
<1>2. ASSUME NEW t \in Sessions, caller' = [caller EXCEPT ![s] = [c EXCEPT !.pc = "join", !.on = t]]
      PROVE  Waits(s, c, "join") /\ caller'[s].on = t
  <2> DEFINE me == [c EXCEPT !.pc = "join", !.on = t]
  <2>1. /\ me \in Places /\ me.pc = "join" /\ me.on = t /\ me.view = c.view /\ me.items = c.items
        /\ me.done = c.done /\ me.expect = c.expect
    BY DEF Places, Pcs
  <2> HIDE DEF me
  <2>2. caller' = [caller EXCEPT ![s] = me]
    BY <1>2 DEF me
  <2> QED  BY <1>1, <2>1, <2>2 DEF Waits
<1>3. ASSUME NEW t \in Sessions,
             caller' = [caller EXCEPT ![s] = [c EXCEPT !.pc = "stale", !.on = t, !.gen = gen]]
      PROVE  Waits(s, c, "stale") /\ caller'[s].on = t /\ caller'[s].gen = gen
  <2> DEFINE me == [c EXCEPT !.pc = "stale", !.on = t, !.gen = gen]
  <2>1. /\ me \in Places /\ me.pc = "stale" /\ me.on = t /\ me.gen = gen
        /\ me.view = c.view /\ me.items = c.items
        /\ me.done = c.done /\ me.expect = c.expect
    BY DEF Places, Pcs
  <2> HIDE DEF me
  <2>2. caller' = [caller EXCEPT ![s] = me]
    BY <1>3 DEF me
  <2> QED  BY <1>1, <2>1, <2>2 DEF Waits
<1>4. inflight[v].by # NoOne => inflight[v].by \in Sessions
  BY <1>1 DEF Flights
<1>5. StartOwn(s, c, v, gen) => Starts(s, c, v, gen)
  BY <1>2 DEF StartOwn, Starts, Fresh
<1>6. inflight[v].by # NoOne /\ inflight[v].gen >= gen /\ Join(s, c, v) => Joins(s, c, v, gen)
  BY <1>2, <1>4 DEF Join, Joins
<1>7. inflight[v].by # NoOne /\ inflight[v].gen < gen /\ WaitStale(s, c, v, gen)
        => WaitsStale(s, c, v, gen)
  BY <1>3, <1>4 DEF WaitStale, WaitsStale
<1> QED  BY <1>5, <1>6, <1>7

LEMMA EnterShapes ==
  ASSUME Types, NEW s \in Sessions, NEW c \in Places, NEW v \in Views, NEW gen \in Nat,
         EnterSync(s, c, v, gen)
  PROVE  \/ Starts(s, c, v, gen) \/ Joins(s, c, v, gen) \/ WaitsStale(s, c, v, gen)
<1>1. inflight[v].gen \in Nat
  BY DEF Types, TaskTypes, Flights
<1>2. inflight[v].gen >= gen \/ inflight[v].gen < gen
  BY <1>1
<1> QED  BY <1>1, <1>2, WaitShapes DEF EnterSync

\* The caller s goes on to me, and nobody else does.
Goes(s, me) ==
  /\ caller' = [caller EXCEPT ![s] = me] /\ me \in Places
  /\ UNCHANGED sync

\* The listing of s ends.
Ends(s) ==
  /\ task' = [task EXCEPT ![s] = FreeTask]
  /\ inflight' = [v \in Views |-> IF inflight[v].by = s THEN NoFlight ELSE inflight[v]]
  /\ caller' \in [Sessions -> Places] /\ \A c \in Sessions : Woken(s, c)

\* What ReadPage reads, and what it lets go too early.
GotNow(s) ==
  task[s].got \cup IF task[s].page /\ ~Hidden(s, task[s].at) THEN {task[s].at} ELSE {}
Early(s) == IF LetGo(s, task[s].at) /\ LetGoEarly(task[s].at) THEN {task[s].at} ELSE {}
KeptNow(s) == IF task[s].view = "Trash" THEN PinsKept(GotNow(s)) ELSE {}
ShownNow(s) == GotNow(s) \cup KeptNow(s)
UidsNow(s) == EnsureUids(task[s].view, ShownNow(s))

\* A listing that has another page to read, and one that lands.
ReadsOn(s) ==
  /\ task[s].at # MaxMessage
  /\ task' = [task EXCEPT ![s] = [@ EXCEPT !.state = "asked", !.at = task[s].at + 1, !.page = FALSE,
                                           !.got = GotNow(s)]]
  /\ caller' = Lapse(caller, Early(s))
  /\ UNCHANGED <<store, latest, listed, pins, given, inflight>>
Lands(s) ==
  /\ task[s].at = MaxMessage
  /\ LET v == task[s].view IN
     /\ uidOf' = [uidOf EXCEPT ![v] = TombstoneMissing(UidsNow(s), ShownNow(s))]
     /\ latest' = [latest EXCEPT ![v] = TombstoneMissing(UidsNow(s), ShownNow(s))]
     /\ next_uid' = [next_uid EXCEPT ![v] = @ + Cardinality(Unseen(v, ShownNow(s)))]
     /\ pins' = IF v = "Trash" THEN KeptNow(s) ELSE pins
  /\ given' = [k \in Messages |->
       IF k \in pins \ pins' /\ (k \notin index \/ MissedIn(k, s)) THEN 0 ELSE given[k]]
  /\ Ends(s)
  /\ \A c \in Sessions : caller'[c].done \cap Early(s) = {} /\ caller'[c].expect \cap Early(s) = {}

LEMMA ReadPageShape ==
  ASSUME Types, NEW s \in Sessions, ReadPage(s)
  PROVE  /\ task[s].state = "answered"
         /\ held' = IF LetGo(s, task[s].at) THEN held \ {task[s].at} ELSE held
         /\ gone' = gone \ Early(s)
         /\ UNCHANGED <<upstream, generation, bounds>>
         /\ ReadsOn(s) \/ Lands(s)
<1>1. CASE task[s].at = MaxMessage
  <2>1. caller' = Lapse(Wake(s, TRUE), Early(s)) /\ Done(s)
    BY <1>1 DEF ReadPage, Early
  <2>2. Ends(s)
    BY <2>1, WakeShape DEF Ends, Done
  <2>3. \A c \in Sessions : caller'[c].done \cap Early(s) = {} /\ caller'[c].expect \cap Early(s) = {}
    BY <2>1, WakeShape
  <2> QED  BY <1>1, <2>2, <2>3 DEF ReadPage, Lands, GotNow, KeptNow, ShownNow, UidsNow, Early
<1>2. CASE task[s].at # MaxMessage
  BY <1>2 DEF ReadPage, ReadsOn, GotNow, Early
<1> QED  BY <1>1, <1>2

LEMMA FailureEnds ==
  ASSUME Types, NEW s \in Sessions, TaskFails(s)
  PROVE  Ends(s) /\ UNCHANGED <<upstream, store, service, bounds, given, gone>>
<1>1. Wake(s, FALSE) \in [Sessions -> Places]
  <2>1. caller \in [Sessions -> Places]
    BY DEF Types, CallerTypes
  <2>2. ASSUME NEW c \in Sessions
        PROVE  [caller[c] EXCEPT !.pc = "unstale", !.on = NoOne] \in Places
    BY <2>1, WaitTypes
  <2> QED  BY <2>1, <2>2, RecordTypes DEF Wake
<1>2. caller' = Lapse(Wake(s, FALSE), {})
  BY <1>1, NoLapse DEF TaskFails
<1>3. caller' \in [Sessions -> Places] /\ \A c \in Sessions : Woken(s, c)
  BY <1>2, WakeShape
<1> QED  BY <1>3 DEF TaskFails, Ends, Done

\* The UIDs of a listing or of a PATCH.
LEMMA UidsAreNumbers ==
  ASSUME Types, NEW v \in Views, NEW shown \in SUBSET Messages
  PROVE  /\ EnsureUids(v, shown) \in [Messages -> Nat]
         /\ TombstoneMissing(EnsureUids(v, shown), shown) \in [Messages -> Nat]
         /\ Cardinality(Unseen(v, shown)) \in Nat
         /\ \A m \in Messages : uidOf[v][m] # 0 => EnsureUids(v, shown)[m] = uidOf[v][m]
<1>1. IsFiniteSet(Messages)
  BY CopyAssumption, FS_Interval DEF Messages
<1>2. \A S \in SUBSET Messages : Cardinality(S) \in Nat
  BY <1>1, FS_Subset, FS_CardinalityType
<1>3. Unseen(v, shown) \in SUBSET Messages
  BY DEF Unseen
<1>4. \A m \in Messages : Cardinality({k \in Unseen(v, shown) : k < m}) \in Nat
  BY <1>2, <1>3
<1>5. EnsureUids(v, shown) \in [Messages -> Nat]
  BY <1>4 DEF EnsureUids, Types, StoreTypes
<1>6. TombstoneMissing(EnsureUids(v, shown), shown) \in [Messages -> Nat]
  BY <1>5 DEF TombstoneMissing
<1>7. \A m \in Messages : uidOf[v][m] # 0 => EnsureUids(v, shown)[m] = uidOf[v][m]
  BY DEF EnsureUids, Unseen
<1> QED  BY <1>2, <1>3, <1>5, <1>6, <1>7

Enters(s, c, v, gen) ==
  /\ c \in Places /\ Awaited(c) = v
  /\ Starts(s, c, v, gen) \/ Joins(s, c, v, gen) \/ WaitsStale(s, c, v, gen)

LEMMA NoopEnters ==
  ASSUME Types, NEW s \in Sessions, NEW v \in Views, Noop(s, v)
  PROVE  /\ UNCHANGED <<upstream, store, service, given, gone>>
         /\ \E c \in Places : Enters(s, c, v, generation[v]) /\ c.expect = gone /\ c.done = {}
<1> DEFINE c == [Idle EXCEPT !.op = "noop", !.view = v, !.expect = gone]
<1>1. /\ c \in Places /\ c.view = v /\ c.items = <<>> /\ c.expect = gone /\ c.done = {}
  BY RecordTypes DEF Places, Types, MessageTypes
<1>2. EnterSync(s, c, v, generation[v])
  BY DEF Noop
<1>3. generation[v] \in Nat
  BY DEF Types, StoreTypes
<1> HIDE DEF c
<1>4. Enters(s, c, v, generation[v])
  BY <1>1, <1>2, <1>3, EnterShapes DEF Enters, Awaited
<1> QED  BY <1>1, <1>4 DEF Noop

LEMMA SelectionType ==
  ASSUME Types, NEW v \in Views, NEW chosen \in SUBSET Messages, chosen # {},
         NEW items \in Selections(v, chosen)
  PROVE  items \in Seq(Messages \X Nat) /\ items # <<>>
<1>1. IsFiniteSet(chosen)
  <2>1. IsFiniteSet(Messages)
    BY CopyAssumption, FS_Interval DEF Messages
  <2> QED  BY <2>1, FS_Subset
<1>2. Cardinality(chosen) \in Nat /\ Cardinality(chosen) # 0
  BY <1>1, FS_CardinalityType, FS_EmptySet
<1>3. PICK q \in [1..Cardinality(chosen) -> chosen] :
        items = [i \in DOMAIN q |-> <<q[i], latest[v][q[i]]>>]
  BY DEF Selections
<1>4. \A i \in DOMAIN q : <<q[i], latest[v][q[i]]>> \in Messages \X Nat
  BY DEF Types, StoreTypes
<1>5. items \in [1..Cardinality(chosen) -> Messages \X Nat]
  BY <1>3, <1>4
<1>6. items \in Seq(Messages \X Nat) /\ Len(items) = Cardinality(chosen)
  <2>1. items \in Seq(Messages \X Nat)
    BY <1>2, <1>5, SeqDef
  <2> QED  BY <1>2, <1>5, <2>1, LenProperties
<1> QED  BY <1>2, <1>6

LEMMA BeginCopyGoes ==
  ASSUME Types, NEW s \in Sessions, NEW op \in {"copy", "move"}, NEW v \in Views,
         NEW chosen \in SUBSET Messages, BeginCopy(s, op, v, chosen)
  PROVE  /\ UNCHANGED <<upstream, store, service, given, gone>>
         /\ \E c \in Places :
              /\ c.items # <<>> /\ c.expect = {} /\ c.done = {}
              /\ \/ Goes(s, BeginTurn(c))
                 \/ Enters(s, c, "Trash", generation["Trash"])
<1>1. PICK items \in Selections(v, chosen) :
        LET c == [Idle EXCEPT !.op = op, !.view = v, !.items = items] IN
        IF "Trash" \in listed
        THEN caller' = [caller EXCEPT ![s] = BeginTurn(c)] /\ UNCHANGED sync
        ELSE EnterSync(s, c, "Trash", generation["Trash"])
  BY DEF BeginCopy
<1>2. items \in Seq(Messages \X Nat) /\ items # <<>>
  BY SelectionType DEF BeginCopy
<1> DEFINE c == [Idle EXCEPT !.op = op, !.view = v, !.items = items]
<1>3. c \in Places /\ c.items = items /\ c.expect = {} /\ c.done = {}
  BY <1>2, RecordTypes DEF Places
<1>4. \/ caller' = [caller EXCEPT ![s] = BeginTurn(c)] /\ UNCHANGED sync
      \/ EnterSync(s, c, "Trash", generation["Trash"])
  BY <1>1
<1> HIDE DEF c
<1>5. generation["Trash"] \in Nat /\ "Trash" \in Views
  BY Numbers DEF Types, StoreTypes
<1>6. ASSUME EnterSync(s, c, "Trash", generation["Trash"])
      PROVE  Enters(s, c, "Trash", generation["Trash"])
  BY <1>2, <1>3, <1>5, <1>6, EnterShapes DEF Enters, Awaited
<1>7. Goes(s, BeginTurn(c)) \/ Enters(s, c, "Trash", generation["Trash"])
  BY <1>3, <1>4, <1>6, BeginTurnType DEF Goes
<1> QED  BY <1>2, <1>3, <1>7 DEF BeginCopy

LEMMA LeaveStaleEnters ==
  ASSUME Types, NEW s \in Sessions, LeaveStale(s)
  PROVE  /\ UNCHANGED <<upstream, store, service, given, gone>>
         /\ caller[s].pc = "unstale"
         /\ Enters(s, caller[s], Awaited(caller[s]), caller[s].gen)
<1>1. caller[s] \in Places /\ caller[s].gen \in Nat /\ Awaited(caller[s]) \in Views
  BY Numbers DEF Types, CallerTypes, Places, Awaited
<1>2. Starts(s, caller[s], Awaited(caller[s]), caller[s].gen)
      \/ Joins(s, caller[s], Awaited(caller[s]), caller[s].gen)
  BY <1>1, WaitShapes DEF LeaveStale
<1> QED  BY <1>1, <1>2 DEF LeaveStale, Enters

\* The turns of a batch that ask for no listing.
Turns(s) == FirstTurn(s) \/ PatchApplies(s) \/ PatchFails(s) \/ SyncTimesOut(s)
LEMMA TurnsGo ==
  ASSUME Types, NEW s \in Sessions, Turns(s)
  PROVE  /\ UNCHANGED <<index, store, service, given, gone, sync>>
         /\ trashed \subseteq trashed' /\ trashed' \subseteq Messages
         /\ \E me : /\ Goes(s, me) /\ Works(s)
                    /\ me.pc \in {"first", "sent", "applied"} => me.items # <<>>
                    /\ me.done \subseteq caller[s].done
<1>1. caller[s] \in Places /\ caller \in [Sessions -> Places]
  BY DEF Types, CallerTypes
<1>2. CASE FirstTurn(s)
  <2>1. caller[s].items # <<>>
    BY <1>2 DEF FirstTurn, Types, CallerTypes
  <2>2. Goes(s, BeginTurn(caller[s]))
    BY <1>1, <1>2, BeginTurnType DEF FirstTurn, Goes
  <2>3. Works(s)
    BY <1>1, <2>2, BeginTurnType DEF Goes, Works
  <2>4. UNCHANGED <<index, store, service, given, gone, sync, trashed>> /\ trashed \subseteq Messages
    BY <1>2 DEF FirstTurn, upstream, Types, MessageTypes
  <2> QED  BY <1>1, <2>1, <2>2, <2>3, <2>4, BeginTurnType
<1>3. CASE PatchApplies(s)
  <2> DEFINE me == [caller[s] EXCEPT !.pc = "applied"]
  <2>1. /\ me \in Places /\ me.pc = "applied" /\ me.items = caller[s].items
        /\ me.done = caller[s].done /\ me.expect = caller[s].expect
    BY <1>1 DEF Places, Pcs
  <2>2. caller' = [caller EXCEPT ![s] = me]
    BY <1>1, <1>3 DEF PatchApplies
  <2> HIDE DEF me
  <2>3. caller[s].items # <<>>
    BY <1>3 DEF PatchApplies, Types, CallerTypes
  <2>4. caller[s].items[1][1] \in Messages
    <3>1. caller[s].items \in Seq(Messages \X Nat)
      BY <1>1 DEF Places
    <3>2. caller[s].items[1] \in Messages \X Nat
      BY <2>3, <3>1
    <3> QED  BY <3>2
  <2>5. Goes(s, me) /\ Works(s)
    BY <1>1, <1>3, <2>1, <2>2 DEF PatchApplies, Goes, Works
  <2>6. trashed \subseteq trashed' /\ trashed' \subseteq Messages
    BY <1>3, <2>4 DEF PatchApplies, Types, MessageTypes
  <2> QED  BY <1>3, <2>1, <2>3, <2>5, <2>6 DEF PatchApplies
<1>4. CASE PatchFails(s) \/ SyncTimesOut(s)
  <2>1. Goes(s, Idle)
    BY <1>4, RecordTypes DEF PatchFails, SyncTimesOut, Goes
  <2>2. Works(s)
    BY <1>1, <2>1, RecordTypes DEF Goes, Works
  <2>3. UNCHANGED <<index, store, service, given, gone, sync, trashed>> /\ trashed \subseteq Messages
    BY <1>4 DEF PatchFails, SyncTimesOut, upstream, Types, MessageTypes
  <2> QED  BY <2>1, <2>2, <2>3, RecordTypes
<1> QED  BY <1>2, <1>3, <1>4 DEF Turns

\* The message whose PATCH is answered, its UID and the rest of the batch.
Answered(s) == caller[s].items[1][1]
UidNow(s) == EnsureUids("Trash", {Answered(s)})[Answered(s)]
DoneNow(s) == IF Answered(s) \in trashed THEN caller[s].done \cup {Answered(s)} ELSE caller[s].done
ToldNow(s) == IF caller[s].view = "INBOX" THEN gone \cup DoneNow(s) ELSE gone
Rest(s) ==
  [caller[s] EXCEPT !.items = Tail(caller[s].items),
                    !.pairs = Append(caller[s].pairs, <<caller[s].items[1][2], UidNow(s)>>),
                    !.done = DoneNow(s)]

LEMMA RestType ==
  ASSUME Types, NEW s \in Sessions, caller[s].pc = "applied"
  PROVE  /\ Answered(s) \in Messages /\ UidNow(s) \in Nat
         /\ Rest(s) \in Places /\ Rest(s).items = Tail(caller[s].items)
         /\ Rest(s).view = caller[s].view /\ Rest(s).done = DoneNow(s)
         /\ Rest(s).expect = caller[s].expect /\ DoneNow(s) \subseteq Messages
<1>1. caller[s] \in Places /\ caller[s].items # <<>>
  BY DEF Types, CallerTypes
<1>2. caller[s].items \in Seq(Messages \X Nat) /\ caller[s].pairs \in Seq(Nat \X Nat)
  BY <1>1 DEF Places
<1>3. caller[s].items[1] \in Messages \X Nat
  BY <1>1, <1>2
<1>4. Answered(s) \in Messages /\ caller[s].items[1][2] \in Nat
  BY <1>3 DEF Answered
<1>5. UidNow(s) \in Nat
  <2>1. {Answered(s)} \in SUBSET Messages
    BY <1>4
  <2>2. EnsureUids("Trash", {Answered(s)}) \in [Messages -> Nat]
    BY <2>1, UidsAreNumbers, Numbers
  <2> QED  BY <1>4, <2>2 DEF UidNow
<1>6. Tail(caller[s].items) \in Seq(Messages \X Nat)
  BY <1>1, <1>2, HeadTailProperties
<1>7. Append(caller[s].pairs, <<caller[s].items[1][2], UidNow(s)>>) \in Seq(Nat \X Nat)
  <2>1. <<caller[s].items[1][2], UidNow(s)>> \in Nat \X Nat
    BY <1>4, <1>5
  <2> QED  BY <1>2, <2>1, AppendProperties
<1>8. DoneNow(s) \in SUBSET Messages
  BY <1>1, <1>4 DEF DoneNow, Places
<1> DEFINE items == Tail(caller[s].items)
           pairs == Append(caller[s].pairs, <<caller[s].items[1][2], UidNow(s)>>)
<1>9. Rest(s) = [caller[s] EXCEPT !.items = items, !.pairs = pairs, !.done = DoneNow(s)]
  BY DEF Rest
<1>10. items \in Seq(Messages \X Nat) /\ pairs \in Seq(Nat \X Nat) /\ items = Tail(caller[s].items)
  BY <1>6, <1>7
<1> HIDE DEF items, pairs
<1>11. /\ Rest(s) \in Places /\ Rest(s).items = items
       /\ Rest(s).view = caller[s].view /\ Rest(s).done = DoneNow(s)
       /\ Rest(s).expect = caller[s].expect
  BY <1>1, <1>8, <1>9, <1>10 DEF Places
<1> QED  BY <1>4, <1>5, <1>8, <1>10, <1>11

LEMMA PatchAnsweredShape ==
  ASSUME Types, NEW s \in Sessions, PatchAnswered(s)
  PROVE  /\ caller[s].pc = "applied"
         /\ UNCHANGED <<upstream, latest>>
         /\ held' = held \cup {Answered(s)} /\ pins' = pins \cup {Answered(s)}
         /\ uidOf' = [uidOf EXCEPT !["Trash"] = [uidOf["Trash"] EXCEPT ![Answered(s)] = UidNow(s)]]
         /\ next_uid' \in [Views -> Nat]
         /\ given' = [given EXCEPT ![Answered(s)] = IF Answered(s) \in trashed THEN UidNow(s) ELSE 0]
         /\ \/ /\ UNCHANGED <<generation, gone>>
               /\ \E me : /\ Goes(s, me) /\ me.pc = "sent" /\ me.items # <<>>
                          /\ me.expect = caller[s].expect /\ me.done = DoneNow(s)
            \/ /\ generation' = BumpGenerations(caller[s].view) /\ gone' = ToldNow(s)
               /\ \E me : Goes(s, me) /\ me.pc = "idle" /\ me.expect = {} /\ me.done = {}
            \/ /\ generation' = BumpGenerations(caller[s].view) /\ gone' = ToldNow(s)
               /\ \E c \in Places : /\ Enters(s, c, caller[s].view, generation'[caller[s].view])
                                    /\ c.expect = gone' /\ c.done = DoneNow(s)
<1>1. caller[s].pc = "applied" /\ UNCHANGED <<upstream, latest>>
  BY DEF PatchAnswered
<1>2. /\ Answered(s) \in Messages /\ UidNow(s) \in Nat
      /\ Rest(s) \in Places /\ Rest(s).view = caller[s].view /\ Rest(s).done = DoneNow(s)
      /\ Rest(s).expect = caller[s].expect /\ DoneNow(s) \subseteq Messages
  BY <1>1, RestType
<1>3. /\ held' = held \cup {Answered(s)} /\ pins' = pins \cup {Answered(s)}
      /\ uidOf' = [uidOf EXCEPT !["Trash"] = [uidOf["Trash"] EXCEPT ![Answered(s)] = UidNow(s)]]
      /\ given' = [given EXCEPT ![Answered(s)] = IF Answered(s) \in trashed THEN UidNow(s) ELSE 0]
  BY DEF PatchAnswered, Answered, UidNow
<1>4. next_uid' \in [Views -> Nat]
  <2>1. next_uid \in [Views -> Nat]
    BY DEF Types, StoreTypes
  <2>2. \/ next_uid' = [next_uid EXCEPT !["Trash"] = @ + 1]
        \/ next_uid' = [next_uid EXCEPT !["Trash"] = @]
    BY DEF PatchAnswered
  <2> QED  BY <2>1, <2>2
<1>5. CASE Rest(s).items # <<>>
  <2>1. caller' = [caller EXCEPT ![s] = BeginTurn(Rest(s))] /\ UNCHANGED <<generation, gone, sync>>
    BY <1>5 DEF PatchAnswered, Rest, Answered, UidNow, DoneNow
  <2>2. Goes(s, BeginTurn(Rest(s)))
    BY <1>2, <2>1, BeginTurnType DEF Goes
  <2> QED  BY <1>1, <1>2, <1>3, <1>4, <1>5, <2>1, <2>2, BeginTurnType
<1>6. CASE Rest(s).items = <<>>
  <2>1. /\ generation' = BumpGenerations(caller[s].view)
        /\ gone' = IF caller[s].view = "INBOX" THEN gone \cup Rest(s).done ELSE gone
        /\ IF caller[s].op = "copy"
           THEN caller' = [caller EXCEPT ![s] = [Idle EXCEPT !.pairs = Rest(s).pairs,
                                                             !.own = Rest(s).own]]
                /\ UNCHANGED sync
           ELSE EnterSync(s, [Rest(s) EXCEPT !.expect = gone'], caller[s].view,
                          generation'[caller[s].view])
    BY <1>6 DEF PatchAnswered, Rest, Answered, UidNow, DoneNow
  <2>2. gone' = ToldNow(s)
    BY <1>2, <2>1 DEF ToldNow
  <2>3. CASE caller[s].op = "copy"
    <3> DEFINE me == [Idle EXCEPT !.pairs = Rest(s).pairs, !.own = Rest(s).own]
    <3>1. me \in Places /\ me.pc = "idle" /\ me.expect = {} /\ me.done = {}
      BY <1>2, RecordTypes DEF Places
    <3>2. caller' = [caller EXCEPT ![s] = me] /\ UNCHANGED sync
      BY <2>1, <2>3
    <3> HIDE DEF me
    <3>3. Goes(s, me)
      BY <3>1, <3>2 DEF Goes
    <3> QED  BY <1>1, <1>3, <1>4, <2>1, <2>2, <3>1, <3>3
  <2>4. CASE caller[s].op # "copy"
    <3> DEFINE c == [Rest(s) EXCEPT !.expect = ToldNow(s)]
    <3>1. ToldNow(s) \in SUBSET Messages
      BY <1>2 DEF ToldNow, Types, MessageTypes
    <3>2. /\ c \in Places /\ c.expect = ToldNow(s) /\ c.done = DoneNow(s) /\ c.items = <<>>
          /\ c.view = caller[s].view
      BY <1>2, <1>6, <3>1 DEF Places
    <3>3. EnterSync(s, c, caller[s].view, generation'[caller[s].view])
      BY <2>1, <2>2, <2>4
    <3> HIDE DEF c
    <3>4. caller[s].view \in Views /\ generation'[caller[s].view] \in Nat
      <4>1. caller[s].view \in Views
        BY DEF Types, CallerTypes, Places
      <4> QED  BY <2>1, <4>1 DEF BumpGenerations, Types, StoreTypes
    <3>5. Enters(s, c, caller[s].view, generation'[caller[s].view])
      BY <3>2, <3>3, <3>4, EnterShapes DEF Enters, Awaited
    <3> QED  BY <1>1, <1>3, <1>4, <2>1, <2>2, <3>2, <3>5
  <2> QED  BY <2>3, <2>4
<1> QED  BY <1>5, <1>6

--------------------------------------------------------------------------
(* The types are kept *)

\* What happens outside the sessions, and what its lapses leave.
Others ==
  \/ \E m \in Messages : OutsideChange(m) \/ IndexCatchesUp(m) \/ HoldExpires(m) \/ PinExpires(m)
  \/ UNCHANGED vars

LEMMA OthersShape ==
  ASSUME Types, Others
  PROVE  /\ UNCHANGED <<store, latest, generation, sync>>
         /\ trashed' \subseteq Messages /\ index' \subseteq Messages /\ held' \subseteq held
         /\ pins' \subseteq pins /\ gone' \subseteq gone /\ given' \in [Messages -> Nat]
         /\ caller' \in [Sessions -> Places] /\ \A c \in Sessions : Stays(c)
<1>1. caller \in [Sessions -> Places] /\ given \in [Messages -> Nat]
      /\ trashed \subseteq Messages /\ index \subseteq Messages
  BY DEF Types, CallerTypes, StoreTypes, MessageTypes
<1>2. UNCHANGED caller => \A c \in Sessions : Stays(c)
  BY DEF Stays
<1>3. ASSUME NEW m \in Messages, caller' = Lapse(caller, {m})
      PROVE  caller' \in [Sessions -> Places] /\ \A c \in Sessions : Stays(c)
  BY <1>1, <1>3, LapseStays DEF Stays
<1>4. ASSUME NEW m \in Messages, OutsideChange(m) \/ HoldExpires(m)
      PROVE  caller' = Lapse(caller, {m})
  BY <1>4 DEF OutsideChange, HoldExpires
<1>5. ASSUME NEW m \in Messages, OutsideChange(m)
      PROVE  /\ UNCHANGED <<store, latest, generation, sync, index, held, pins>>
             /\ trashed' \subseteq Messages /\ gone' \subseteq gone /\ given' \in [Messages -> Nat]
  BY <1>1, <1>5 DEF OutsideChange, service
<1>6. ASSUME NEW m \in Messages, HoldExpires(m)
      PROVE  /\ UNCHANGED <<store, latest, generation, sync, index, trashed, pins, given>>
             /\ held' \subseteq held /\ gone' \subseteq gone
  BY <1>6 DEF HoldExpires, upstream
<1>7. ASSUME NEW m \in Messages, IndexCatchesUp(m)
      PROVE  /\ UNCHANGED <<store, latest, generation, sync, trashed, held, pins, gone, given, caller>>
             /\ index' \subseteq Messages
  BY <1>1, <1>7 DEF IndexCatchesUp, service
<1>8. ASSUME NEW m \in Messages, PinExpires(m)
      PROVE  /\ UNCHANGED <<store, latest, generation, sync, trashed, index, held, gone, caller>>
             /\ pins' \subseteq pins /\ given' \in [Messages -> Nat]
  BY <1>1, <1>8 DEF PinExpires, upstream
<1>9. CASE UNCHANGED vars
  BY <1>1, <1>2, <1>9 DEF vars, upstream, service, store, sync
<1> QED  BY <1>1, <1>2, <1>3, <1>4, <1>5, <1>6, <1>7, <1>8, <1>9 DEF Others

LEMMA NextCases ==
  ASSUME [Next]_vars
  PROVE  \/ Others
         \/ \E s \in Sessions, v \in Views : Noop(s, v)
         \/ \E s \in Sessions, op \in {"copy", "move"}, v \in Views, chosen \in SUBSET Messages :
              BeginCopy(s, op, v, chosen)
         \/ \E s \in Sessions :
              LeaveStale(s) \/ AnswerPage(s) \/ ReadPage(s) \/ TaskFails(s) \/ Turns(s) \/ PatchAnswered(s)
BY DEF Next, Others, Turns

LEMMA TaskShapes ==
  ASSUME Types, NEW s \in Sessions
  PROVE  /\ task[s] \in Tasks /\ task[s].at \in Messages /\ task[s].view \in Views
         /\ task[s].got \subseteq Messages
         /\ GotNow(s) \subseteq Messages /\ ShownNow(s) \subseteq Messages /\ Early(s) \subseteq Messages
<1>1. task[s] \in Tasks
  BY DEF Types, TaskTypes
<1>2. task[s].at \in Messages /\ task[s].view \in Views /\ task[s].got \subseteq Messages
  BY <1>1 DEF Tasks
<1>3. GotNow(s) \subseteq Messages /\ Early(s) \subseteq Messages
  BY <1>2 DEF GotNow, Early
<1>4. KeptNow(s) \subseteq Messages
  BY DEF KeptNow, PinsKept, Types, MessageTypes
<1> QED  BY <1>1, <1>2, <1>3, <1>4 DEF ShownNow

\* The task of s when its page is answered, or when it asks for the next one.
LEMMA TaskMoves ==
  ASSUME Types, NEW s \in Sessions
  PROVE  /\ AnswerPage(s) =>
              /\ task[s].state = "asked"
              /\ UNCHANGED <<upstream, store, service, inflight, caller, given, gone>>
              /\ task' \in [Sessions -> Tasks] /\ \A u \in Sessions \ {s} : task'[u] = task[u]
              /\ task'[s].state = "answered" /\ task'[s].at = task[s].at
              /\ task'[s].view = task[s].view /\ task'[s].got = task[s].got
              /\ task'[s].page <=> ((task[s].at \in index) <=> (task[s].view = "Trash"))
         /\ ReadsOn(s) =>
              /\ task' \in [Sessions -> Tasks] /\ \A u \in Sessions \ {s} : task'[u] = task[u]
              /\ task'[s].state = "asked" /\ task'[s].at = task[s].at + 1
              /\ task'[s].view = task[s].view /\ task'[s].got = GotNow(s)
              /\ caller' \in [Sessions -> Places] /\ \A c \in Sessions : Stays(c)
              /\ \A c \in Sessions : /\ caller'[c].done \cap Early(s) = {}
                                     /\ caller'[c].expect \cap Early(s) = {}
<1>1. task[s] \in Tasks /\ task[s].at \in Messages /\ task \in [Sessions -> Tasks]
      /\ GotNow(s) \subseteq Messages
  BY TaskShapes DEF Types, TaskTypes
<1>2. ASSUME AnswerPage(s)
      PROVE  /\ task[s].state = "asked"
             /\ UNCHANGED <<upstream, store, service, inflight, caller, given, gone>>
             /\ task' \in [Sessions -> Tasks] /\ \A u \in Sessions \ {s} : task'[u] = task[u]
             /\ task'[s].state = "answered" /\ task'[s].at = task[s].at
             /\ task'[s].view = task[s].view /\ task'[s].got = task[s].got
             /\ task'[s].page <=> ((task[s].at \in index) <=> (task[s].view = "Trash"))
  <2> DEFINE page == (task[s].at \in index) = (task[s].view = "Trash")
  <2>1. page \in BOOLEAN /\ (page <=> ((task[s].at \in index) <=> (task[s].view = "Trash")))
    OBVIOUS
  <2>2. task' = [task EXCEPT ![s].state = "answered", ![s].page = page]
    BY <1>2 DEF AnswerPage
  <2> HIDE DEF page
  <2>3. /\ task' \in [Sessions -> Tasks] /\ \A u \in Sessions \ {s} : task'[u] = task[u]
        /\ task'[s].state = "answered" /\ task'[s].at = task[s].at
        /\ task'[s].view = task[s].view /\ task'[s].got = task[s].got /\ task'[s].page = page
    BY <1>1, <2>1, <2>2 DEF Tasks
  <2> QED  BY <1>2, <2>1, <2>3 DEF AnswerPage
<1>3. ASSUME ReadsOn(s)
      PROVE  /\ task' \in [Sessions -> Tasks] /\ \A u \in Sessions \ {s} : task'[u] = task[u]
             /\ task'[s].state = "asked" /\ task'[s].at = task[s].at + 1
             /\ task'[s].view = task[s].view /\ task'[s].got = GotNow(s)
             /\ caller' \in [Sessions -> Places] /\ \A c \in Sessions : Stays(c)
             /\ \A c \in Sessions : /\ caller'[c].done \cap Early(s) = {}
                                    /\ caller'[c].expect \cap Early(s) = {}
  <2> DEFINE me == [task[s] EXCEPT !.state = "asked", !.at = task[s].at + 1, !.page = FALSE,
                                   !.got = GotNow(s)]
  <2>1. task[s].at + 1 \in Messages
    BY <1>1, <1>3, Numbers DEF ReadsOn
  <2>2. /\ me \in Tasks /\ me.state = "asked" /\ me.at = task[s].at + 1 /\ me.view = task[s].view
        /\ me.got = GotNow(s)
    BY <1>1, <2>1 DEF Tasks
  <2>3. task' = [task EXCEPT ![s] = me]
    BY <1>1, <1>3 DEF ReadsOn
  <2> HIDE DEF me
  <2>4. /\ task' \in [Sessions -> Tasks] /\ \A u \in Sessions \ {s} : task'[u] = task[u]
        /\ task'[s] = me
    BY <1>1, <2>2, <2>3
  <2>5. caller' = Lapse(caller, Early(s)) /\ caller \in [Sessions -> Places]
    BY <1>3 DEF ReadsOn, Types, CallerTypes
  <2>6. /\ caller' \in [Sessions -> Places] /\ \A c \in Sessions : Stays(c)
        /\ \A c \in Sessions : /\ caller'[c].done \cap Early(s) = {}
                               /\ caller'[c].expect \cap Early(s) = {}
    BY <2>5, LapseStays DEF Stays
  <2> QED  BY <2>2, <2>4, <2>6
<1> QED  BY <1>2, <1>3

LEMMA GoesTypes ==
  ASSUME Types, NEW s \in Sessions, NEW me, Goes(s, me),
         me.pc \in {"first", "sent", "applied"} => me.items # <<>>
  PROVE  CallerTypes' /\ TaskTypes'
BY DEF Goes, Types, CallerTypes, TaskTypes, sync

LEMMA EntersTypes ==
  ASSUME Types, NEW s \in Sessions, NEW c, NEW v \in Views, NEW gen \in Nat, Enters(s, c, v, gen)
  PROVE  CallerTypes' /\ TaskTypes'
<1>1. caller \in [Sessions -> Places] /\ inflight \in [Views -> Flights] /\ task \in [Sessions -> Tasks]
  BY DEF Types, CallerTypes, TaskTypes
<1>2. CallerTypes'
  BY DEF Types, CallerTypes, Enters, Starts, Joins, WaitsStale, Waits
<1>3. CASE Starts(s, c, v, gen)
  <2>1. [by |-> s, gen |-> gen] \in Flights /\ Fresh(v) \in Tasks
    BY FreshType DEF Flights
  <2> QED  BY <1>1, <1>2, <1>3, <2>1 DEF Starts, TaskTypes
<1>4. CASE UNCHANGED sync
  BY <1>1, <1>2, <1>4 DEF sync, TaskTypes
<1> QED  BY <1>3, <1>4 DEF Enters, Joins, WaitsStale

LEMMA EndsTypes ==
  ASSUME Types, NEW s \in Sessions, Ends(s)
  PROVE  CallerTypes' /\ TaskTypes'
<1>1. CallerTypes'
  BY DEF Types, CallerTypes, Ends, Woken, Stays, Returns
<1>2. TaskTypes'
  BY RecordTypes DEF Types, TaskTypes, Ends
<1> QED  BY <1>1, <1>2

LEMMA StaysTypes ==
  ASSUME Types, caller' \in [Sessions -> Places], \A c \in Sessions : Stays(c)
  PROVE  CallerTypes'
BY DEF Types, CallerTypes, Stays

LEMMA LandTypes ==
  ASSUME Types, NEW s \in Sessions, Lands(s)
  PROVE  /\ uidOf' \in [Views -> [Messages -> Nat]] /\ next_uid' \in [Views -> Nat]
         /\ latest' \in [Views -> [Messages -> Nat]] /\ given' \in [Messages -> Nat]
         /\ pins' \subseteq pins
<1>1. task[s].view \in Views /\ ShownNow(s) \in SUBSET Messages
  BY TaskShapes
<1>2. /\ TombstoneMissing(UidsNow(s), ShownNow(s)) \in [Messages -> Nat]
      /\ Cardinality(Unseen(task[s].view, ShownNow(s))) \in Nat
  BY <1>1, UidsAreNumbers DEF UidsNow
<1>3. /\ uidOf' \in [Views -> [Messages -> Nat]] /\ latest' \in [Views -> [Messages -> Nat]]
      /\ next_uid' \in [Views -> Nat]
  BY <1>1, <1>2 DEF Lands, Types, StoreTypes
<1>4. given' \in [Messages -> Nat]
  BY DEF Lands, Types, StoreTypes
<1>5. pins' \subseteq pins
  BY DEF Lands, KeptNow, PinsKept
<1> QED  BY <1>3, <1>4, <1>5

LEMMA BumpType ==
  ASSUME Types, NEW v \in Views
  PROVE  /\ BumpGenerations(v) \in [Views -> Nat]
         /\ \A w \in Views : BumpGenerations(v)[w] >= generation[w]
         /\ BumpGenerations(v)[v] > generation[v]
<1>1. generation \in [Views -> Nat] /\ "Trash" \in Views
  BY Numbers DEF Types, StoreTypes
<1> QED  BY <1>1 DEF BumpGenerations

LEMMA TypesKept ==
  ASSUME Types, [Next]_vars
  PROVE  Types'
<1> USE DEF MessageTypes, StoreTypes
<1>1. MessageTypes /\ StoreTypes /\ TaskTypes /\ CallerTypes
  BY DEF Types
<1>2. CASE Others
  <2>1. CallerTypes'
    BY <1>2, OthersShape, StaysTypes
  <2>2. TaskTypes'
    BY <1>1, <1>2, OthersShape DEF TaskTypes, sync
  <2>3. MessageTypes' /\ StoreTypes'
    BY <1>1, <1>2, OthersShape DEF store
  <2> QED  BY <2>1, <2>2, <2>3 DEF Types
<1>3. UNCHANGED <<upstream, store, service, given, gone>> => MessageTypes' /\ StoreTypes'
  BY <1>1 DEF upstream, store, service
<1>4. ASSUME NEW s \in Sessions, NEW v \in Views, Noop(s, v) PROVE Types'
  BY <1>1, <1>3, <1>4, NoopEnters, EntersTypes DEF Types
<1>5. ASSUME NEW s \in Sessions, NEW op \in {"copy", "move"}, NEW v \in Views,
             NEW chosen \in SUBSET Messages, BeginCopy(s, op, v, chosen)
      PROVE  Types'
  <2>1. PICK c \in Places :
          /\ c.items # <<>> /\ c.expect = {} /\ c.done = {}
          /\ Goes(s, BeginTurn(c)) \/ Enters(s, c, "Trash", generation["Trash"])
    BY <1>5, BeginCopyGoes
  <2>2. CallerTypes' /\ TaskTypes'
    BY <1>1, <2>1, BeginTurnType, GoesTypes, EntersTypes, Numbers
  <2> QED  BY <1>3, <1>5, <2>2, BeginCopyGoes DEF Types
<1>6. ASSUME NEW s \in Sessions, LeaveStale(s) PROVE Types'
  <2>1. caller[s].gen \in Nat /\ Awaited(caller[s]) \in Views
    BY <1>1, Numbers DEF CallerTypes, Places, Awaited
  <2> QED  BY <1>3, <1>6, <2>1, LeaveStaleEnters, EntersTypes DEF Types
<1>7. ASSUME NEW s \in Sessions, AnswerPage(s) PROVE Types'
  <2>1. CallerTypes' /\ TaskTypes'
    BY <1>1, <1>7, TaskMoves DEF CallerTypes, TaskTypes
  <2> QED  BY <1>3, <1>7, <2>1, TaskMoves DEF Types
<1>8. ASSUME NEW s \in Sessions, ReadPage(s) PROVE Types'
  <2>1. UNCHANGED <<trashed, index, generation>> /\ held' \subseteq held /\ gone' \subseteq gone
    BY <1>8, ReadPageShape DEF upstream
  <2>2. CASE ReadsOn(s)
    <3>1. UNCHANGED <<store, latest, pins, given, inflight>>
      BY <2>2 DEF ReadsOn
    <3>2. CallerTypes' /\ TaskTypes'
      BY <1>1, <2>2, <3>1, TaskMoves, StaysTypes DEF TaskTypes
    <3> QED  BY <1>1, <2>1, <3>1, <3>2 DEF Types, store
  <2>3. CASE Lands(s)
    <3>1. CallerTypes' /\ TaskTypes'
      BY <2>3, EndsTypes DEF Lands
    <3> QED  BY <1>1, <2>1, <2>3, <3>1, LandTypes DEF Types
  <2> QED  BY <1>8, <2>2, <2>3, ReadPageShape
<1>9. ASSUME NEW s \in Sessions, TaskFails(s) PROVE Types'
  BY <1>3, <1>9, FailureEnds, EndsTypes DEF Types
<1>10. ASSUME NEW s \in Sessions, Turns(s) PROVE Types'
  <2>1. MessageTypes' /\ StoreTypes'
    BY <1>1, <1>10, TurnsGo DEF store, service
  <2>2. CallerTypes' /\ TaskTypes'
    <3>1. PICK me : /\ Goes(s, me)
                    /\ me.pc \in {"first", "sent", "applied"} => me.items # <<>>
      BY <1>10, TurnsGo
    <3> QED  BY <3>1, GoesTypes
  <2> QED  BY <2>1, <2>2 DEF Types
<1>11. ASSUME NEW s \in Sessions, PatchAnswered(s) PROVE Types'
  <2>1. /\ caller[s].pc = "applied" /\ UNCHANGED <<trashed, index, latest>>
        /\ held' = held \cup {Answered(s)} /\ pins' = pins \cup {Answered(s)}
        /\ uidOf' = [uidOf EXCEPT !["Trash"] = [uidOf["Trash"] EXCEPT ![Answered(s)] = UidNow(s)]]
        /\ next_uid' \in [Views -> Nat]
        /\ given' = [given EXCEPT ![Answered(s)] = IF Answered(s) \in trashed THEN UidNow(s) ELSE 0]
    BY <1>11, PatchAnsweredShape DEF upstream
  <2>2. Answered(s) \in Messages /\ UidNow(s) \in Nat /\ DoneNow(s) \subseteq Messages
    BY <2>1, RestType
  <2>3. uidOf' \in [Views -> [Messages -> Nat]] /\ given' \in [Messages -> Nat]
    BY <1>1, <2>1, <2>2
  <2>4. held' \subseteq Messages /\ pins' \subseteq Messages /\ trashed' \subseteq Messages
        /\ index' \subseteq Messages /\ latest' \in [Views -> [Messages -> Nat]]
    BY <1>1, <2>1, <2>2
  <2>5. ToldNow(s) \subseteq Messages
    BY <1>1, <2>2 DEF ToldNow
  <2>6. caller[s].view \in Views
    BY <1>1 DEF CallerTypes, Places
  <2>7. generation' \in [Views -> Nat] /\ gone' \subseteq Messages
    <3>1. \/ UNCHANGED <<generation, gone>>
          \/ generation' = BumpGenerations(caller[s].view) /\ gone' = ToldNow(s)
      BY <1>11, PatchAnsweredShape
    <3> QED  BY <1>1, <2>5, <2>6, <3>1, BumpType
  <2>8. CallerTypes' /\ TaskTypes'
    <3>1. \/ \E me : Goes(s, me) /\ (me.pc \in {"first", "sent", "applied"} => me.items # <<>>)
          \/ \E c \in Places : Enters(s, c, caller[s].view, generation'[caller[s].view])
      BY <1>11, PatchAnsweredShape
    <3> QED  BY <2>6, <2>7, <3>1, GoesTypes, EntersTypes
  <2> QED  BY <2>1, <2>3, <2>4, <2>7, <2>8 DEF Types
<1> QED  BY <1>2, <1>4, <1>5, <1>6, <1>7, <1>8, <1>9, <1>10, <1>11, NextCases

--------------------------------------------------------------------------
(* Who waits for which listing *)

\* The listings under way go on.
GoOn ==
  /\ UNCHANGED inflight
  /\ \A u \in Sessions : /\ task'[u].view = task[u].view
                         /\ task[u].state # "free" => task'[u].state # "free"
Grows == \A v \in Views : generation'[v] >= generation[v]
StayOrWork == \A c \in Sessions : Stays(c) \/ Works(c)

LEMMA Flying ==
  ASSUME Types, NEW v \in Views
  PROVE  /\ inflight[v].gen \in Nat /\ generation[v] \in Nat
         /\ inflight[v].by # NoOne => inflight[v].by \in Sessions
BY DEF Types, TaskTypes, Flights, StoreTypes

LEMMA GoOnKeepsSync ==
  ASSUME Types, Types', SyncInv, GoOn, Grows, StayOrWork
  PROVE  SyncInv'
<1>1. FlightRuns'
  <2> SUFFICES ASSUME NEW v \in Views, inflight'[v].by # NoOne
               PROVE  /\ task'[inflight'[v].by].state # "free" /\ task'[inflight'[v].by].view = v
                      /\ inflight'[v].gen <= generation'[v]
    BY DEF FlightRuns
  <2>1. /\ inflight'[v] = inflight[v] /\ inflight[v].by \in Sessions
        /\ inflight[v].gen \in Nat /\ generation[v] \in Nat /\ generation'[v] \in Nat
    BY Flying DEF GoOn, Types, StoreTypes
  <2>2. /\ task[inflight[v].by].state # "free" /\ task[inflight[v].by].view = v
        /\ inflight[v].gen <= generation[v]
    BY <2>1 DEF SyncInv, FlightRuns
  <2>3. generation'[v] >= generation[v]
    BY DEF Grows
  <2>4. inflight'[v].gen <= generation'[v]
    BY <2>1, <2>2, <2>3
  <2> QED  BY <2>1, <2>2, <2>4 DEF GoOn
<1>2. JoinedRuns'
  BY DEF SyncInv, JoinedRuns, GoOn, StayOrWork, Stays, Works, Awaited
<1>3. StaleIsOld'
  <2> SUFFICES ASSUME NEW c \in Sessions, caller'[c].pc \in {"stale", "unstale"}
               PROVE  caller'[c].gen <= generation'[Awaited(caller'[c])]
    BY DEF StaleIsOld, Awaited
  <2>1. /\ caller[c].pc = caller'[c].pc /\ caller'[c].gen = caller[c].gen
        /\ Awaited(caller'[c]) = Awaited(caller[c])
    BY DEF StayOrWork, Stays, Works, Awaited
  <2>2. caller[c].gen \in Nat /\ Awaited(caller[c]) \in Views
    BY Numbers DEF Types, CallerTypes, Places, Awaited
  <2>3. caller[c].gen <= generation[Awaited(caller[c])]
    BY <2>1 DEF SyncInv, StaleIsOld
  <2>4. generation[Awaited(caller[c])] \in Nat /\ generation'[Awaited(caller[c])] \in Nat
    BY <2>2 DEF Types, StoreTypes
  <2>5. generation'[Awaited(caller[c])] >= generation[Awaited(caller[c])]
    BY <2>2 DEF Grows
  <2> QED  BY <2>1, <2>2, <2>3, <2>4, <2>5
<1> QED  BY <1>1, <1>2, <1>3 DEF SyncInv

\* Nobody waits for the listing of a session that runs none.
LEMMA FreeIsAlone ==
  ASSUME Types, SyncInv, NEW s \in Sessions, task[s].state = "free"
  PROVE  /\ \A v \in Views : inflight[v].by # s
         /\ \A c \in Sessions : caller[c].pc = "join" => caller[c].on # s
BY Numbers DEF SyncInv, FlightRuns, JoinedRuns

LEMMA EntersSync ==
  ASSUME Types, Types', SyncInv, Grows, NEW s \in Sessions, NEW c, NEW v \in Views, NEW gen \in Nat,
         Enters(s, c, v, gen), gen <= generation'[v]
  PROVE  SyncInv'
<1>1. /\ \A x \in Sessions \ {s} : caller'[x] = caller[x]
      /\ Awaited(caller'[s]) = v /\ caller'[s].pc \in {"join", "stale"}
  BY DEF Enters, Starts, Joins, WaitsStale, Waits, Awaited
<1>2. ASSUME NEW x \in Sessions, caller'[x].pc \in {"stale", "unstale"}
      PROVE  caller'[x].gen <= generation'[Awaited(caller'[x])]
  <2>1. CASE x = s
    BY <1>1, <1>2, <2>1 DEF Enters, Starts, Joins, WaitsStale, Waits
  <2>2. CASE x # s
    <3>1. caller'[x] = caller[x]
      BY <1>1, <2>2
    <3>2. caller[x].gen \in Nat /\ Awaited(caller[x]) \in Views
      BY Numbers DEF Types, CallerTypes, Places, Awaited
    <3>3. caller[x].gen <= generation[Awaited(caller[x])]
      BY <1>2, <3>1 DEF SyncInv, StaleIsOld
    <3>4. /\ generation[Awaited(caller[x])] \in Nat /\ generation'[Awaited(caller[x])] \in Nat
          /\ generation'[Awaited(caller[x])] >= generation[Awaited(caller[x])]
      BY <3>2 DEF Types, StoreTypes, Grows
    <3> QED  BY <3>1, <3>2, <3>3, <3>4
  <2> QED  BY <2>1, <2>2
<1>3. StaleIsOld'
  BY <1>2 DEF StaleIsOld, Awaited
<1>4. ASSUME NEW w \in Views, inflight[w].by # NoOne
      PROVE  /\ inflight[w].by \in Sessions
             /\ task[inflight[w].by].state # "free" /\ task[inflight[w].by].view = w
             /\ inflight[w].gen <= generation'[w]
  <2>1. /\ task[inflight[w].by].state # "free" /\ task[inflight[w].by].view = w
        /\ inflight[w].gen <= generation[w]
    BY <1>4 DEF SyncInv, FlightRuns
  <2>2. generation'[w] >= generation[w] /\ generation'[w] \in Nat
    BY DEF Grows, Types, StoreTypes
  <2>3. inflight[w].gen <= generation'[w]
    BY <2>1, <2>2, Flying
  <2> QED  BY <1>4, <2>1, <2>3, Flying
<1>5. CASE Starts(s, c, v, gen)
  <2>1. /\ task \in [Sessions -> Tasks] /\ inflight \in [Views -> Flights]
        /\ task' = [task EXCEPT ![s] = Fresh(v)] /\ task[s].state = "free"
        /\ inflight' = [inflight EXCEPT ![v] = [by |-> s, gen |-> gen]]
        /\ caller'[s].on = s
    BY <1>5 DEF Starts, Types, TaskTypes
  <2>2. task'[s].state # "free" /\ task'[s].view = v /\ \A u \in Sessions \ {s} : task'[u] = task[u]
    BY <2>1, FreshType
  <2>3. FlightRuns'
    <3> SUFFICES ASSUME NEW w \in Views, inflight'[w].by # NoOne
                 PROVE  /\ task'[inflight'[w].by].state # "free" /\ task'[inflight'[w].by].view = w
                        /\ inflight'[w].gen <= generation'[w]
      BY DEF FlightRuns
    <3>1. CASE w = v
      BY <2>1, <2>2, <3>1
    <3>2. CASE w # v
      BY <1>4, <2>1, <2>2, <3>2, FreeIsAlone
    <3> QED  BY <3>1, <3>2
  <2>4. JoinedRuns'
    <3> SUFFICES ASSUME NEW x \in Sessions, caller'[x].pc = "join"
                 PROVE  /\ caller'[x].on \in Sessions
                        /\ task'[caller'[x].on].state # "free"
                        /\ task'[caller'[x].on].view = Awaited(caller'[x])
      BY DEF JoinedRuns, Awaited
    <3>1. CASE x = s
      BY <1>1, <2>1, <2>2, <3>1
    <3>2. CASE x # s
      BY <1>1, <2>1, <2>2, <3>2, FreeIsAlone DEF SyncInv, JoinedRuns
    <3> QED  BY <3>1, <3>2
  <2> QED  BY <1>3, <2>3, <2>4 DEF SyncInv
<1>6. CASE Joins(s, c, v, gen) \/ WaitsStale(s, c, v, gen)
  <2>1. UNCHANGED <<task, inflight>> /\ caller'[s].on = inflight[v].by /\ inflight[v].by # NoOne
    BY <1>6 DEF Joins, WaitsStale, sync
  <2>2. FlightRuns'
    BY <1>4, <2>1 DEF FlightRuns
  <2>3. JoinedRuns'
    <3> SUFFICES ASSUME NEW x \in Sessions, caller'[x].pc = "join"
                 PROVE  /\ caller'[x].on \in Sessions
                        /\ task[caller'[x].on].state # "free"
                        /\ task[caller'[x].on].view = Awaited(caller'[x])
      BY <2>1 DEF JoinedRuns, Awaited
    <3>1. CASE x = s
      BY <1>1, <1>4, <2>1, <3>1
    <3>2. CASE x # s
      BY <1>1, <3>2 DEF SyncInv, JoinedRuns
    <3> QED  BY <3>1, <3>2
  <2> QED  BY <1>3, <2>2, <2>3 DEF SyncInv
<1> QED  BY <1>5, <1>6 DEF Enters

LEMMA EndsSync ==
  ASSUME Types, Types', SyncInv, NEW s \in Sessions, Ends(s), UNCHANGED generation
  PROVE  SyncInv'
<1>1. /\ task \in [Sessions -> Tasks] /\ \A u \in Sessions \ {s} : task'[u] = task[u]
      /\ \A v \in Views : inflight'[v] = IF inflight[v].by = s THEN NoFlight ELSE inflight[v]
      /\ \A x \in Sessions : Woken(s, x)
  BY DEF Ends, Types, TaskTypes
<1>2. FlightRuns'
  <2> SUFFICES ASSUME NEW w \in Views, inflight'[w].by # NoOne
               PROVE  /\ task'[inflight'[w].by].state # "free" /\ task'[inflight'[w].by].view = w
                      /\ inflight'[w].gen <= generation'[w]
    BY DEF FlightRuns
  <2>1. inflight'[w] = inflight[w] /\ inflight[w].by # s
    BY <1>1, RecordTypes
  <2>2. inflight[w].by \in Sessions
    BY <2>1, Flying
  <2> QED  BY <1>1, <2>1, <2>2 DEF SyncInv, FlightRuns
<1>3. JoinedRuns'
  BY <1>1 DEF SyncInv, JoinedRuns, Woken, Stays, Returns, Awaited
<1>4. StaleIsOld'
  BY <1>1 DEF SyncInv, StaleIsOld, Woken, Stays, Returns, Awaited
<1> QED  BY <1>2, <1>3, <1>4 DEF SyncInv

--------------------------------------------------------------------------
(* What a listing has read and what is expected to be gone *)

CleanInv == CurrentIsClean /\ JoinedIsClean /\ StaleIsClean

\* What is told grows only with a new generation of INBOX.
NewsIsNew == gone' \subseteq gone \/ generation'["INBOX"] > generation["INBOX"]

\* No listing of INBOX reads anything that was told as gone.
ReadsNoGone ==
  \A u \in Sessions : task[u].view = "INBOX" => task'[u].got \cap gone \subseteq task[u].got

LEMMA GoOnKeepsClean ==
  ASSUME Types, Types', SyncInv, ExpectIsGone, CleanInv, GoOn, Grows, StayOrWork, NewsIsNew,
         ReadsNoGone
  PROVE  CleanInv'
<1> USE DEF CleanInv
<1>1. CurrentIsClean'
  <2> SUFFICES ASSUME inflight'["INBOX"].by # NoOne,
                      inflight'["INBOX"].gen >= generation'["INBOX"]
               PROVE  task'[inflight'["INBOX"].by].got \cap gone' = {}
    BY DEF CurrentIsClean
  <2> DEFINE f == inflight["INBOX"]
  <2>1. f = inflight'["INBOX"] /\ f.by # NoOne /\ f.by \in Sessions /\ f.gen \in Nat
    BY Flying, Numbers DEF GoOn
  <2>2. generation["INBOX"] \in Nat /\ generation'["INBOX"] \in Nat
        /\ generation'["INBOX"] >= generation["INBOX"]
    BY Numbers DEF Types, StoreTypes, Grows
  <2>3. task[f.by].view = "INBOX" /\ f.gen <= generation["INBOX"]
    BY <2>1, Numbers DEF SyncInv, FlightRuns
  <2> HIDE DEF f
  <2>4. f.gen >= generation["INBOX"] /\ ~(generation'["INBOX"] > generation["INBOX"])
    BY <2>1, <2>2, <2>3
  <2>5. task[f.by].got \cap gone = {}
    BY <2>1, <2>4 DEF CurrentIsClean, f
  <2>6. gone' \subseteq gone
    BY <2>4 DEF NewsIsNew
  <2> QED  BY <2>1, <2>3, <2>5, <2>6 DEF ReadsNoGone
<1>2. JoinedIsClean'
  <2> SUFFICES ASSUME NEW c \in Sessions, caller'[c].pc = "join", caller'[c].view = "INBOX",
                      Awaited(caller'[c]) = "INBOX"
               PROVE  task'[caller'[c].on].got \cap caller'[c].expect = {}
    BY DEF JoinedIsClean, InInbox, Awaited
  <2>1. Stays(c)
    BY DEF StayOrWork, Works
  <2>2. /\ caller[c].pc = "join" /\ InInbox(c) /\ caller'[c].on = caller[c].on
        /\ caller'[c].expect \subseteq caller[c].expect
    BY <2>1 DEF Stays, InInbox, Awaited
  <2>3. caller[c].on \in Sessions /\ task[caller[c].on].view = "INBOX"
    BY <2>2 DEF SyncInv, JoinedRuns, InInbox
  <2>4. task[caller[c].on].got \cap caller[c].expect = {} /\ caller[c].expect \subseteq gone
    BY <2>2 DEF JoinedIsClean, ExpectIsGone
  <2>5. task'[caller[c].on].got \cap gone \subseteq task[caller[c].on].got
    BY <2>3 DEF ReadsNoGone
  <2> QED  BY <2>2, <2>4, <2>5
<1>3. StaleIsClean'
  <2> SUFFICES ASSUME NEW c \in Sessions, caller'[c].pc \in {"stale", "unstale"},
                      caller'[c].view = "INBOX", Awaited(caller'[c]) = "INBOX",
                      inflight'["INBOX"].by # NoOne, inflight'["INBOX"].gen >= caller'[c].gen
               PROVE  task'[inflight'["INBOX"].by].got \cap caller'[c].expect = {}
    BY DEF StaleIsClean, InInbox, Awaited
  <2>1. Stays(c)
    BY DEF StayOrWork, Works
  <2>2. /\ caller[c].pc \in {"stale", "unstale"} /\ InInbox(c) /\ caller'[c].gen = caller[c].gen
        /\ caller'[c].expect \subseteq caller[c].expect
    BY <2>1 DEF Stays, InInbox, Awaited
  <2> DEFINE f == inflight["INBOX"]
  <2>3. f = inflight'["INBOX"] /\ f.by # NoOne /\ f.by \in Sessions /\ f.gen >= caller[c].gen
    BY <2>2, Flying, Numbers DEF GoOn
  <2>4. task[f.by].view = "INBOX"
    BY <2>3, Numbers DEF SyncInv, FlightRuns
  <2>5. task[f.by].got \cap caller[c].expect = {} /\ caller[c].expect \subseteq gone
    BY <2>2, <2>3 DEF StaleIsClean, ExpectIsGone
  <2> HIDE DEF f
  <2>6. task'[f.by].got \cap gone \subseteq task[f.by].got
    BY <2>3, <2>4 DEF ReadsNoGone
  <2> QED  BY <2>2, <2>3, <2>5, <2>6
<1> QED  BY <1>1, <1>2, <1>3

LEMMA EndsClean ==
  ASSUME Types, SyncInv, ExpectIsGone, CleanInv, NEW s \in Sessions, Ends(s), UNCHANGED generation,
         gone' \subseteq gone
  PROVE  CleanInv'
<1> USE DEF CleanInv
<1>1. /\ task \in [Sessions -> Tasks] /\ \A u \in Sessions \ {s} : task'[u] = task[u]
      /\ \A v \in Views : inflight'[v] = IF inflight[v].by = s THEN NoFlight ELSE inflight[v]
      /\ \A x \in Sessions : Woken(s, x)
  BY DEF Ends, Types, TaskTypes
<1>2. ASSUME inflight'["INBOX"].by # NoOne
      PROVE  /\ inflight'["INBOX"] = inflight["INBOX"] /\ inflight["INBOX"].by # NoOne
             /\ task'[inflight'["INBOX"].by] = task[inflight["INBOX"].by]
  BY <1>1, <1>2, RecordTypes, Numbers, Flying
<1>3. CurrentIsClean'
  BY <1>2 DEF CurrentIsClean
<1>4. JoinedIsClean'
  <2> SUFFICES ASSUME NEW c \in Sessions, caller'[c].pc = "join", caller'[c].view = "INBOX",
                      Awaited(caller'[c]) = "INBOX"
               PROVE  task'[caller'[c].on].got \cap caller'[c].expect = {}
    BY DEF JoinedIsClean, InInbox, Awaited
  <2>1. Stays(c) /\ caller[c].on # s
    BY <1>1 DEF Woken, Returns
  <2>2. /\ caller[c].pc = "join" /\ InInbox(c) /\ caller'[c].on = caller[c].on
        /\ caller'[c].expect \subseteq caller[c].expect
    BY <2>1 DEF Stays, InInbox, Awaited
  <2>3. caller[c].on \in Sessions
    BY <2>2 DEF SyncInv, JoinedRuns
  <2>4. task[caller[c].on].got \cap caller[c].expect = {}
    BY <2>2 DEF JoinedIsClean
  <2> QED  BY <1>1, <2>1, <2>2, <2>3, <2>4
<1>5. StaleIsClean'
  <2> SUFFICES ASSUME NEW c \in Sessions, caller'[c].pc \in {"stale", "unstale"},
                      caller'[c].view = "INBOX", Awaited(caller'[c]) = "INBOX",
                      inflight'["INBOX"].by # NoOne, inflight'["INBOX"].gen >= caller'[c].gen
               PROVE  task'[inflight'["INBOX"].by].got \cap caller'[c].expect = {}
    BY DEF StaleIsClean, InInbox, Awaited
  <2>1. Stays(c) \/ Returns(c)
    BY <1>1 DEF Woken
  <2>2. /\ caller[c].pc \in {"stale", "unstale"} /\ InInbox(c) /\ caller'[c].gen = caller[c].gen
        /\ caller'[c].expect \subseteq caller[c].expect
    BY <2>1 DEF Stays, Returns, InInbox, Awaited
  <2> QED  BY <1>2, <2>2 DEF StaleIsClean
<1> QED  BY <1>3, <1>4, <1>5

LEMMA EntersClean ==
  ASSUME Types, Types', SyncInv, ExpectIsGone, CleanInv, Grows, NewsIsNew,
         NEW s \in Sessions, NEW c, NEW v \in Views, NEW gen \in Nat, Enters(s, c, v, gen),
         Joins(s, c, v, gen) /\ v = "INBOX" /\ c.view = "INBOX"
           => task[inflight[v].by].got \cap c.expect = {}
  PROVE  CleanInv'
<1> USE DEF CleanInv
<1>1. /\ \A x \in Sessions \ {s} : caller'[x] = caller[x]
      /\ Awaited(caller'[s]) = v /\ caller'[s].pc \in {"join", "stale"}
      /\ caller'[s].expect = c.expect /\ caller'[s].view = c.view
  BY DEF Enters, Starts, Joins, WaitsStale, Waits, Awaited
<1>2. /\ generation["INBOX"] \in Nat /\ generation'["INBOX"] \in Nat
      /\ generation'["INBOX"] >= generation["INBOX"] /\ "INBOX" \in Views
      /\ inflight["INBOX"].gen \in Nat
  BY Numbers, Flying DEF Types, StoreTypes, Grows
\* A listing of INBOX that was under way is as clean as it was.
<1>3. ASSUME inflight["INBOX"].by # NoOne, inflight["INBOX"].gen >= generation'["INBOX"]
      PROVE  task[inflight["INBOX"].by].got \cap gone' = {}
  <2>1. inflight["INBOX"].gen <= generation["INBOX"]
    BY <1>2, <1>3 DEF SyncInv, FlightRuns
  <2>2. inflight["INBOX"].gen >= generation["INBOX"] /\ ~(generation'["INBOX"] > generation["INBOX"])
    BY <1>2, <1>3, <2>1
  <2>3. task[inflight["INBOX"].by].got \cap gone = {} /\ gone' \subseteq gone
    BY <1>3, <2>2 DEF CurrentIsClean, NewsIsNew
  <2> QED  BY <2>3
<1>4. ASSUME NEW x \in Sessions \ {s}, caller'[x].pc = "join", caller'[x].view = "INBOX",
             Awaited(caller'[x]) = "INBOX"
      PROVE  /\ caller[x].on \in Sessions /\ caller'[x].on = caller[x].on /\ caller[x].pc = "join"
             /\ task[caller[x].on].got \cap caller'[x].expect = {}
  BY <1>1, <1>4 DEF JoinedIsClean, SyncInv, JoinedRuns, InInbox
<1>5. ASSUME NEW x \in Sessions \ {s}, caller'[x].pc \in {"stale", "unstale"},
             caller'[x].view = "INBOX", Awaited(caller'[x]) = "INBOX",
             inflight["INBOX"].by # NoOne, inflight["INBOX"].gen >= caller'[x].gen
      PROVE  task[inflight["INBOX"].by].got \cap caller'[x].expect = {}
  BY <1>1, <1>5 DEF StaleIsClean, InInbox
<1>6. CASE Starts(s, c, v, gen)
  <2>1. /\ task \in [Sessions -> Tasks] /\ inflight \in [Views -> Flights]
        /\ task' = [task EXCEPT ![s] = Fresh(v)] /\ task[s].state = "free"
        /\ inflight' = [inflight EXCEPT ![v] = [by |-> s, gen |-> gen]]
        /\ caller'[s].on = s /\ caller'[s].pc = "join"
    BY <1>6 DEF Starts, Waits, Types, TaskTypes
  <2>2. task'[s].got = {} /\ \A u \in Sessions \ {s} : task'[u] = task[u]
    BY <2>1, FreshType
  <2>3. \/ inflight'["INBOX"].by = s
        \/ inflight'["INBOX"] = inflight["INBOX"] /\ inflight["INBOX"].by # s
    BY <1>2, <2>1, FreeIsAlone
  <2>4. inflight["INBOX"].by # NoOne => inflight["INBOX"].by \in Sessions
    BY <1>2, Flying
  <2>5. CurrentIsClean'
    BY <1>3, <2>2, <2>3, <2>4 DEF CurrentIsClean
  <2>6. JoinedIsClean'
    <3> SUFFICES ASSUME NEW x \in Sessions, caller'[x].pc = "join", caller'[x].view = "INBOX",
                        Awaited(caller'[x]) = "INBOX"
                 PROVE  task'[caller'[x].on].got \cap caller'[x].expect = {}
      BY DEF JoinedIsClean, InInbox, Awaited
    <3>1. CASE x = s
      BY <2>1, <2>2, <3>1
    <3>2. CASE x # s
      BY <1>4, <2>1, <2>2, <3>2, FreeIsAlone
    <3> QED  BY <3>1, <3>2
  <2>7. StaleIsClean'
    <3> SUFFICES ASSUME NEW x \in Sessions, caller'[x].pc \in {"stale", "unstale"},
                        caller'[x].view = "INBOX", Awaited(caller'[x]) = "INBOX",
                        inflight'["INBOX"].by # NoOne, inflight'["INBOX"].gen >= caller'[x].gen
                 PROVE  task'[inflight'["INBOX"].by].got \cap caller'[x].expect = {}
      BY DEF StaleIsClean, InInbox, Awaited
    <3>1. x # s
      BY <2>1
    <3> QED  BY <1>5, <2>2, <2>3, <2>4, <3>1
  <2> QED  BY <2>5, <2>6, <2>7
<1>7. CASE Joins(s, c, v, gen) \/ WaitsStale(s, c, v, gen)
  <2>1. UNCHANGED <<task, inflight>>
    BY <1>7 DEF Joins, WaitsStale, sync
  <2>2. CurrentIsClean'
    BY <1>3, <2>1 DEF CurrentIsClean
  <2>3. JoinedIsClean'
    <3> SUFFICES ASSUME NEW x \in Sessions, caller'[x].pc = "join", caller'[x].view = "INBOX",
                        Awaited(caller'[x]) = "INBOX"
                 PROVE  task[caller'[x].on].got \cap caller'[x].expect = {}
      BY <2>1 DEF JoinedIsClean, InInbox, Awaited
    <3>1. CASE x = s
      <4>1. Joins(s, c, v, gen) /\ caller'[s].on = inflight[v].by /\ v = "INBOX" /\ c.view = "INBOX"
        BY <1>1, <1>7, <3>1 DEF Joins, WaitsStale, Waits
      <4> QED  BY <1>1, <3>1, <4>1
    <3>2. CASE x # s
      BY <1>4, <3>2
    <3> QED  BY <3>1, <3>2
  <2>4. StaleIsClean'
    <3> SUFFICES ASSUME NEW x \in Sessions, caller'[x].pc \in {"stale", "unstale"},
                        caller'[x].view = "INBOX", Awaited(caller'[x]) = "INBOX",
                        inflight["INBOX"].by # NoOne, inflight["INBOX"].gen >= caller'[x].gen
                 PROVE  task[inflight["INBOX"].by].got \cap caller'[x].expect = {}
      BY <2>1 DEF StaleIsClean, InInbox, Awaited
    <3>1. CASE x = s
      <4>1. v = "INBOX" /\ caller'[s].gen = gen /\ inflight[v].gen < gen
        BY <1>1, <1>7, <3>1 DEF Joins, WaitsStale, Waits
      <4> QED  BY <1>2, <3>1, <4>1
    <3>2. CASE x # s
      BY <1>5, <3>2
    <3> QED  BY <3>1, <3>2
  <2> QED  BY <2>2, <2>3, <2>4
<1> QED  BY <1>6, <1>7 DEF Enters

--------------------------------------------------------------------------
(* The listings and the index *)

\* A listing of Trash that has been answered without m.
Missing(u, m) ==
  /\ task[u].state # "free" /\ task[u].view = "Trash" /\ m \notin task[u].got
  /\ task[u].at > m \/ (task[u].at = m /\ task[u].state = "answered" /\ ~task[u].page)

\* No listing comes to have a page of INBOX with a message that the index calls
\* trashed, or to miss such a message in Trash.
Faithful ==
  \A u \in Sessions, m \in index :
    /\ PageOf(u, m)' => PageOf(u, m)
    /\ Missing(u, m)' => Missing(u, m)

LEMMA MissedIs ==
  ASSUME NEW m, NEW t
  PROVE  MissedIn(m, t) <=> \E u \in Sessions \ {t} : Missing(u, m)
BY DEF MissedIn, Missing

LEMMA VisibleIs ==
  ASSUME NEW m
  PROVE  Visible(m) <=> m \in index /\ \A u \in Sessions : ~Missing(u, m)
BY MissedIs, Numbers DEF Visible

LEMMA VisibleWillBe ==
  ASSUME NEW m
  PROVE  Visible(m)' <=> m \in index' /\ \A u \in Sessions : ~Missing(u, m)'
BY Numbers DEF Visible, MissedIn, Missing

LEMMA TasksAreFaithful ==
  ASSUME Types, NEW s \in Sessions
  PROVE  /\ UNCHANGED task => Faithful
         /\ (\E v \in Views : task' = [task EXCEPT ![s] = Fresh(v)]) => Faithful
         /\ Ends(s) => Faithful
         /\ AnswerPage(s) => Faithful
         /\ task[s].state = "answered" /\ ReadsOn(s) => Faithful
<1> USE DEF Faithful, PageOf, Missing
<1>1. task \in [Sessions -> Tasks] /\ index \subseteq Messages /\ task[s] \in Tasks
      /\ task[s].at \in Messages
  BY TaskShapes DEF Types, TaskTypes, MessageTypes
<1>2. UNCHANGED task => Faithful
  OBVIOUS
<1>3. ASSUME NEW v \in Views, task' = [task EXCEPT ![s] = Fresh(v)] PROVE Faithful
  <2>1. /\ task'[s].state = "asked" /\ task'[s].at = 1 /\ \A u \in Sessions \ {s} : task'[u] = task[u]
    BY <1>1, <1>3, FreshType
  <2>2. \A m \in index : ~(1 > m)
    BY <1>1 DEF Messages
  <2> QED  BY <2>1, <2>2
<1>4. ASSUME Ends(s) PROVE Faithful
  <2>1. task'[s].state = "free" /\ \A u \in Sessions \ {s} : task'[u] = task[u]
    BY <1>1, <1>4, RecordTypes DEF Ends
  <2> QED  BY <2>1
<1>5. ASSUME AnswerPage(s) PROVE Faithful
  <2>1. /\ \A u \in Sessions \ {s} : task'[u] = task[u]
        /\ task'[s].at = task[s].at /\ task'[s].view = task[s].view /\ task'[s].got = task[s].got
        /\ task'[s].page <=> ((task[s].at \in index) <=> (task[s].view = "Trash"))
        /\ task[s].state = "asked"
    BY <1>5, TaskMoves
  <2>2. ASSUME NEW m \in index, PageOf(s, m)' PROVE FALSE
    BY <2>1, <2>2
  <2>3. ASSUME NEW m \in index, Missing(s, m)' PROVE Missing(s, m)
    BY <2>1, <2>3
  <2> QED  BY <2>1, <2>2, <2>3
<1>6. ASSUME task[s].state = "answered", ReadsOn(s) PROVE Faithful
  <2>1. /\ \A u \in Sessions \ {s} : task'[u] = task[u]
        /\ task'[s].state = "asked" /\ task'[s].at = task[s].at + 1
        /\ task'[s].view = task[s].view /\ task'[s].got = GotNow(s)
    BY <1>6, TaskMoves
  <2>2. ASSUME NEW m \in index, Missing(s, m)' PROVE Missing(s, m)
    <3>1. /\ task[s].view = "Trash" /\ m \notin GotNow(s) /\ task[s].at + 1 > m
      BY <2>1, <2>2
    <3>2. m \notin task[s].got /\ (m = task[s].at => ~task[s].page)
      BY <3>1 DEF GotNow, Hidden
    <3>3. m \in Nat /\ task[s].at \in Nat
      BY <1>1, Numbers
    <3>4. task[s].at > m \/ task[s].at = m
      BY <3>1, <3>3
    <3> QED  BY <1>6, <3>1, <3>2, <3>4
  <2> QED  BY <2>1, <2>2
<1> QED  BY <1>2, <1>3, <1>4, <1>5, <1>6

\* Callers that go or enter leave the listings so.
LEMMA CallersAreFaithful ==
  ASSUME Types, NEW s \in Sessions
  PROVE  /\ \A me : Goes(s, me) => Faithful
         /\ \A c, v, gen : v \in Views /\ Enters(s, c, v, gen) => Faithful
<1>1. ASSUME NEW me, Goes(s, me) PROVE Faithful
  BY <1>1, TasksAreFaithful DEF Goes, sync
<1>2. ASSUME NEW c, NEW v, NEW gen, v \in Views, Enters(s, c, v, gen) PROVE Faithful
  BY <1>2, TasksAreFaithful DEF Enters, Starts, Joins, WaitsStale, sync
<1> QED  BY <1>1, <1>2

--------------------------------------------------------------------------
(* The Trash UID *)

LEMMA GivenKept ==
  ASSUME Types, GivenLasts, Faithful, pins \subseteq pins',
         NEW m \in Messages, given'[m] = given[m], given[m] # 0,
         m \in trashed', uidOf'["Trash"][m] = uidOf["Trash"][m],
         m \in index => m \in index'
  PROVE  /\ uidOf'["Trash"][m] = given'[m]
         /\ m \in pins' \/ Visible(m)'
<1>1. uidOf["Trash"][m] = given[m] /\ (m \in pins \/ Visible(m))
  BY DEF GivenLasts
<1>2. CASE m \in pins
  BY <1>1, <1>2
<1>3. CASE Visible(m)
  <2>1. m \in index /\ \A u \in Sessions : ~Missing(u, m)
    BY <1>3, VisibleIs
  <2>2. m \in index' /\ \A u \in Sessions : ~Missing(u, m)'
    BY <2>1 DEF Faithful
  <2> QED  BY <1>1, <2>2, VisibleWillBe
<1> QED  BY <1>1, <1>2, <1>3

\* A listing of Trash shows every message whose UID was given.
LEMMA LandKeepsGiven ==
  ASSUME Types, GivenLasts, NEW s \in Sessions, task[s].state = "answered", Lands(s),
         UNCHANGED <<trashed, index>>
  PROVE  GivenLasts'
<1> SUFFICES ASSUME NEW m \in Messages, given'[m] # 0
             PROVE  /\ m \in trashed' /\ uidOf'["Trash"][m] = given'[m]
                    /\ m \in pins' \/ Visible(m)'
  BY DEF GivenLasts
<1>1. /\ given'[m] = given[m] /\ given[m] # 0
      /\ m \in pins \ pins' => m \in index /\ ~MissedIn(m, s)
  BY DEF Lands
<1>2. m \in trashed /\ uidOf["Trash"][m] = given[m] /\ (m \in pins \/ Visible(m))
  BY <1>1 DEF GivenLasts
<1>3. Faithful /\ task'[s].state = "free" /\ \A u \in Sessions \ {s} : task'[u] = task[u]
  BY TasksAreFaithful, RecordTypes DEF Lands, Ends, Types, TaskTypes
<1>4. CASE task[s].view # "Trash"
  <2>1. uidOf'["Trash"] = uidOf["Trash"] /\ pins' = pins
    BY <1>4, Numbers DEF Lands, Types, StoreTypes
  <2> QED  BY <1>1, <1>2, <1>3, <2>1, GivenKept
<1>5. CASE task[s].view = "Trash"
  <2>1. pins' = pins \ GotNow(s) /\ ShownNow(s) = GotNow(s) \cup (pins \ GotNow(s))
    BY <1>5 DEF Lands, KeptNow, ShownNow, PinsKept
  <2>2. task[s].at = MaxMessage /\ m \in Nat /\ MaxMessage \in Nat /\ m <= MaxMessage
    BY Numbers, CopyAssumption DEF Lands, Messages
  <2>3. Visible(m) => m \in GotNow(s)
    <3> SUFFICES ASSUME Visible(m) PROVE m \in GotNow(s)
      OBVIOUS
    <3>1. ~Missing(s, m)
      BY VisibleIs
    <3>2. m \in task[s].got \/ (m = task[s].at /\ task[s].page)
      BY <1>5, <2>2, <3>1 DEF Missing
    <3> QED  BY <1>5, <3>2 DEF GotNow, Hidden
  <2>4. m \in ShownNow(s)
    BY <1>2, <2>1, <2>3
  <2>5. uidOf'["Trash"][m] = uidOf["Trash"][m]
    <3>1. ShownNow(s) \in SUBSET Messages
      BY TaskShapes
    <3>2. EnsureUids("Trash", ShownNow(s))[m] = uidOf["Trash"][m]
      BY <1>1, <1>2, <3>1, UidsAreNumbers, Numbers
    <3>3. uidOf'["Trash"] = TombstoneMissing(UidsNow(s), ShownNow(s))
      BY <1>5, Numbers DEF Lands, Types, StoreTypes
    <3> QED  BY <1>5, <2>4, <3>2, <3>3 DEF TombstoneMissing, UidsNow
  <2>6. m \in pins' \/ Visible(m)'
    <3>1. CASE m \in pins'
      BY <3>1
    <3>2. CASE m \notin pins'
      <4>1. m \in index /\ \A u \in Sessions \ {s} : ~Missing(u, m)
        BY <1>1, <1>2, <3>2, VisibleIs, MissedIs
      <4>2. \A u \in Sessions : ~Missing(u, m)'
        BY <1>3, <4>1 DEF Missing
      <4> QED  BY <4>1, <4>2, VisibleWillBe
    <3> QED  BY <3>1, <3>2
  <2> QED  BY <1>1, <1>2, <2>5, <2>6
<1> QED  BY <1>4, <1>5

\* Steps that leave the store, the pins and the index alone.
LEMMA QuietKeepsGiven ==
  ASSUME Types, GivenLasts, Faithful, UNCHANGED <<uidOf, pins, index, given>>, trashed \subseteq trashed'
  PROVE  GivenLasts'
<1> SUFFICES ASSUME NEW m \in Messages, given'[m] # 0
             PROVE  /\ m \in trashed' /\ uidOf'["Trash"][m] = given'[m]
                    /\ m \in pins' \/ Visible(m)'
  BY DEF GivenLasts
<1>1. m \in trashed'
  BY DEF GivenLasts
<1> QED  BY <1>1, GivenKept

LEMMA OthersKeepGiven ==
  ASSUME Types, GivenLasts, Others
  PROVE  GivenLasts'
<1>1. Faithful
  <2>1. UNCHANGED task
    BY OthersShape DEF sync
  <2> QED  BY <2>1 DEF Faithful, PageOf, Missing
<1>2. UNCHANGED uidOf
  BY OthersShape DEF store
<1>3. ASSUME NEW m \in Messages, OutsideChange(m) PROVE GivenLasts'
  <2> SUFFICES ASSUME NEW k \in Messages, given'[k] # 0
               PROVE  /\ k \in trashed' /\ uidOf'["Trash"][k] = given'[k]
                      /\ k \in pins' \/ Visible(k)'
    BY DEF GivenLasts
  <2>1. k # m /\ given'[k] = given[k] /\ UNCHANGED <<index, pins>>
    BY <1>3 DEF OutsideChange, service, Types, StoreTypes
  <2>2. k \in trashed'
    BY <1>3, <2>1 DEF OutsideChange, GivenLasts
  <2> QED  BY <1>1, <1>2, <2>1, <2>2, GivenKept
<1>4. ASSUME NEW m \in Messages, IndexCatchesUp(m) PROVE GivenLasts'
  <2> SUFFICES ASSUME NEW k \in Messages, given'[k] # 0
               PROVE  /\ k \in trashed' /\ uidOf'["Trash"][k] = given'[k]
                      /\ k \in pins' \/ Visible(k)'
    BY DEF GivenLasts
  <2>1. UNCHANGED <<trashed, given, pins>>
    BY <1>4 DEF IndexCatchesUp, service
  <2>2. k \in trashed' /\ (k \in index => k \in index')
    BY <1>4, <2>1 DEF IndexCatchesUp, GivenLasts
  <2> QED  BY <1>1, <1>2, <2>1, <2>2, GivenKept
<1>5. ASSUME NEW m \in Messages, HoldExpires(m) PROVE GivenLasts'
  BY <1>1, <1>2, <1>5, QuietKeepsGiven DEF HoldExpires, upstream
<1>6. ASSUME NEW m \in Messages, PinExpires(m) PROVE GivenLasts'
  <2> SUFFICES ASSUME NEW k \in Messages, given'[k] # 0
               PROVE  /\ k \in trashed' /\ uidOf'["Trash"][k] = given'[k]
                      /\ k \in pins' \/ Visible(k)'
    BY DEF GivenLasts
  <2>1. /\ pins' = pins \ {m} /\ UNCHANGED <<trashed, index, task>>
        /\ given' = [given EXCEPT ![m] = IF m \notin index \/ MissedIn(m, NoOne) THEN 0 ELSE @]
    BY <1>6, OthersShape DEF PinExpires, upstream, sync
  <2>2. /\ given'[k] = given[k] /\ given[k] # 0
        /\ k = m => m \in index /\ ~MissedIn(m, NoOne)
    BY <2>1 DEF Types, StoreTypes
  <2>3. k \in trashed /\ uidOf["Trash"][k] = given[k] /\ (k \in pins \/ Visible(k))
    BY <2>2 DEF GivenLasts
  <2>4. Visible(k) => Visible(k)'
    BY <2>1, VisibleIs, VisibleWillBe DEF Missing
  <2>5. k = m => Visible(k)
    BY <2>2 DEF Visible
  <2> QED  BY <1>2, <2>1, <2>2, <2>3, <2>4, <2>5
<1>7. CASE UNCHANGED vars
  BY <1>1, <1>2, <1>7, QuietKeepsGiven DEF vars, upstream, service
<1> QED  BY <1>3, <1>4, <1>5, <1>6, <1>7 DEF Others

LEMMA GivenLastsKept ==
  ASSUME Types, GivenLasts, [Next]_vars
  PROVE  GivenLasts'
<1>1. ASSUME NEW s \in Sessions, NEW v \in Views, Noop(s, v) PROVE GivenLasts'
  BY <1>1, NoopEnters, CallersAreFaithful, QuietKeepsGiven DEF upstream, store, service
<1>2. ASSUME NEW s \in Sessions, NEW op \in {"copy", "move"}, NEW v \in Views,
             NEW chosen \in SUBSET Messages, BeginCopy(s, op, v, chosen)
      PROVE  GivenLasts'
  <2>1. UNCHANGED <<upstream, store, service, given>> /\ Faithful
    BY <1>2, BeginCopyGoes, CallersAreFaithful, Numbers
  <2> QED  BY <2>1, QuietKeepsGiven DEF upstream, store, service
<1>3. ASSUME NEW s \in Sessions, LeaveStale(s) PROVE GivenLasts'
  <2>1. Awaited(caller[s]) \in Views
    BY Numbers DEF Types, CallerTypes, Places, Awaited
  <2> QED  BY <1>3, <2>1, LeaveStaleEnters, CallersAreFaithful, QuietKeepsGiven
           DEF upstream, store, service
<1>4. ASSUME NEW s \in Sessions, AnswerPage(s) PROVE GivenLasts'
  BY <1>4, TaskMoves, TasksAreFaithful, QuietKeepsGiven DEF upstream, store, service
<1>5. ASSUME NEW s \in Sessions, ReadPage(s) PROVE GivenLasts'
  <2>1. task[s].state = "answered" /\ UNCHANGED <<trashed, index>>
    BY <1>5, ReadPageShape DEF upstream
  <2>2. CASE ReadsOn(s)
    <3>1. Faithful
      BY <2>1, <2>2, TasksAreFaithful
    <3> QED  BY <2>1, <2>2, <3>1, QuietKeepsGiven DEF ReadsOn, store
  <2>3. CASE Lands(s)
    BY <2>1, <2>3, LandKeepsGiven
  <2> QED  BY <1>5, <2>2, <2>3, ReadPageShape
<1>6. ASSUME NEW s \in Sessions, TaskFails(s) PROVE GivenLasts'
  BY <1>6, FailureEnds, TasksAreFaithful, QuietKeepsGiven DEF upstream, store, service
<1>7. ASSUME NEW s \in Sessions, Turns(s) PROVE GivenLasts'
  BY <1>7, TurnsGo, CallersAreFaithful, QuietKeepsGiven DEF store, service
<1>8. ASSUME NEW s \in Sessions, PatchAnswered(s) PROVE GivenLasts'
  <2> DEFINE m == Answered(s)
  <2>1. /\ caller[s].pc = "applied" /\ UNCHANGED <<trashed, index>> /\ pins' = pins \cup {m}
        /\ uidOf' = [uidOf EXCEPT !["Trash"] = [uidOf["Trash"] EXCEPT ![m] = UidNow(s)]]
        /\ given' = [given EXCEPT ![m] = IF m \in trashed THEN UidNow(s) ELSE 0]
    BY <1>8, PatchAnsweredShape DEF upstream
  <2>2. m \in Messages
    BY <2>1, RestType
  <2>3. Faithful
    <3>1. \/ \E me : Goes(s, me)
          \/ \E c \in Places : Enters(s, c, caller[s].view, generation'[caller[s].view])
      BY <1>8, PatchAnsweredShape
    <3>2. caller[s].view \in Views
      BY DEF Types, CallerTypes, Places
    <3> QED  BY <3>1, <3>2, CallersAreFaithful
  <2> HIDE DEF m
  <2> SUFFICES ASSUME NEW k \in Messages, given'[k] # 0
               PROVE  /\ k \in trashed' /\ uidOf'["Trash"][k] = given'[k]
                      /\ k \in pins' \/ Visible(k)'
    BY DEF GivenLasts
  <2>4. CASE k = m
    BY <2>1, <2>2, <2>4, Numbers DEF Types, StoreTypes
  <2>5. CASE k # m
    <3>1. given'[k] = given[k] /\ uidOf'["Trash"][k] = uidOf["Trash"][k]
      BY <2>1, <2>2, <2>5, Numbers DEF Types, StoreTypes
    <3>2. k \in trashed'
      BY <2>1, <3>1 DEF GivenLasts
    <3> QED  BY <2>1, <2>3, <3>1, <3>2, GivenKept
  <2> QED  BY <2>4, <2>5
<1> QED  BY <1>1, <1>2, <1>3, <1>4, <1>5, <1>6, <1>7, <1>8, NextCases, OthersKeepGiven

--------------------------------------------------------------------------
(* What was told *)

LEMMA ToldIs ==
  ASSUME NEW m
  PROVE  /\ m \in Told <=> m \in gone \/ \E c \in Sessions : m \in caller[c].done
         /\ m \in Told' <=> m \in gone' \/ \E c \in Sessions : m \in caller'[c].done
BY DEF Told

\* What is out of INBOX stays so when neither upstream nor the hold changes.
LEMMA OutKept ==
  ASSUME Faithful, NEW m, OutOfInbox(m), m \in trashed', m \in index => m \in index',
         m \in held => m \in held'
  PROVE  OutOfInbox(m)'
<1>1. m \in held' \/ (m \in index /\ \A u \in Sessions : ~PageOf(u, m))
  BY DEF OutOfInbox
<1>2. m \in index /\ (\A u \in Sessions : ~PageOf(u, m)) => \A u \in Sessions : ~PageOf(u, m)'
  BY DEF Faithful
<1>3. OutOfInbox(m)' <=> /\ m \in trashed'
                         /\ m \in held' \/ (m \in index' /\ \A u \in Sessions : ~PageOf(u, m)')
  BY DEF OutOfInbox
<1> QED  BY <1>1, <1>2, <1>3

\* Steps after which nothing more is told, and the index and the holds are as before.
LEMMA QuietKeepsTold ==
  ASSUME ToldIsOut, Faithful, UNCHANGED <<index, held>>, trashed \subseteq trashed',
         gone' \subseteq gone, \A c \in Sessions : caller'[c].done \subseteq Told
  PROVE  ToldIsOut'
<1> SUFFICES ASSUME NEW m \in Told' PROVE OutOfInbox(m)'
  BY DEF ToldIsOut
<1>1. m \in Told
  BY ToldIs
<1>2. OutOfInbox(m)
  BY <1>1 DEF ToldIsOut
<1> QED  BY <1>2, OutKept DEF OutOfInbox

LEMMA GoesDone ==
  ASSUME Types, NEW s \in Sessions
  PROVE  /\ \A me : Goes(s, me) /\ me.done \subseteq Told
              => \A c \in Sessions : caller'[c].done \subseteq Told
         /\ \A c, v, gen : Enters(s, c, v, gen) /\ c.done \subseteq Told
              => \A x \in Sessions : caller'[x].done \subseteq Told
<1>1. \A c \in Sessions : caller[c].done \subseteq Told
  BY ToldIs
<1>2. ASSUME NEW me, Goes(s, me), me.done \subseteq Told, NEW x \in Sessions
      PROVE  caller'[x].done \subseteq Told
  BY <1>1, <1>2 DEF Goes, Types, CallerTypes
<1>3. ASSUME NEW c, NEW v, NEW gen, Enters(s, c, v, gen), c.done \subseteq Told, NEW x \in Sessions
      PROVE  caller'[x].done \subseteq Told
  BY <1>1, <1>3 DEF Enters, Starts, Joins, WaitsStale, Waits
<1> QED  BY <1>2, <1>3

\* What expires or is undone is no longer told; the rest is out of INBOX as before.
LEMMA OthersKeepTold ==
  ASSUME Types, ToldIsOut, ExpectIsGone, Others
  PROVE  ToldIsOut' /\ ExpectIsGone'
<1>1. caller \in [Sessions -> Places] /\ UNCHANGED task
  BY OthersShape DEF Types, CallerTypes, sync
<1>2. Faithful
  BY <1>1 DEF Faithful, PageOf, Missing
<1>3. ASSUME NEW m \in Messages, caller' = Lapse(caller, {m}), gone' = gone \ {m}
      PROVE  /\ ExpectIsGone' /\ Told' \subseteq Told \ {m}
  <2>1. \A c \in Sessions : /\ caller'[c].done = caller[c].done \ {m}
                            /\ caller'[c].expect = caller[c].expect \ {m}
    BY <1>1, <1>3, LapseStays
  <2>2. ExpectIsGone'
    BY <1>3, <2>1 DEF ExpectIsGone
  <2>3. ASSUME NEW k, k \in Told' PROVE k \in Told /\ k # m
    <3>1. k \in gone' \/ \E c \in Sessions : k \in caller'[c].done
      BY <2>3, ToldIs
    <3>2. k # m /\ (k \in gone \/ \E c \in Sessions : k \in caller[c].done)
      BY <1>3, <2>1, <3>1
    <3> QED  BY <3>2, ToldIs
  <2> QED  BY <2>2, <2>3
<1>4. ASSUME NEW m \in Messages, OutsideChange(m) PROVE ToldIsOut' /\ ExpectIsGone'
  <2>1. caller' = Lapse(caller, {m}) /\ gone' = gone \ {m} /\ UNCHANGED <<index, held>>
    BY <1>4 DEF OutsideChange, service
  <2> SUFFICES ASSUME NEW k \in Told' PROVE OutOfInbox(k)'
    BY <1>3, <2>1 DEF ToldIsOut
  <2>2. k \in Told /\ k # m
    BY <1>3, <2>1
  <2>3. OutOfInbox(k)
    BY <2>2 DEF ToldIsOut
  <2>4. k \in trashed'
    BY <1>4, <2>2, <2>3 DEF OutOfInbox, OutsideChange
  <2> QED  BY <1>2, <2>1, <2>3, <2>4, OutKept
<1>5. ASSUME NEW m \in Messages, HoldExpires(m) PROVE ToldIsOut' /\ ExpectIsGone'
  <2>1. /\ caller' = Lapse(caller, {m}) /\ gone' = gone \ {m} /\ UNCHANGED <<index, trashed>>
        /\ held' = held \ {m}
    BY <1>5 DEF HoldExpires, upstream
  <2> SUFFICES ASSUME NEW k \in Told' PROVE OutOfInbox(k)'
    BY <1>3, <2>1 DEF ToldIsOut
  <2>2. k \in Told /\ k # m
    BY <1>3, <2>1
  <2>3. OutOfInbox(k)
    BY <2>2 DEF ToldIsOut
  <2>4. k \in trashed' /\ (k \in held => k \in held')
    BY <2>1, <2>2, <2>3 DEF OutOfInbox
  <2> QED  BY <1>2, <2>1, <2>3, <2>4, OutKept
<1>6. ASSUME UNCHANGED <<gone, caller>> PROVE ExpectIsGone' /\ Told' = Told
  BY <1>6 DEF ExpectIsGone, Told
<1>7. ASSUME NEW m \in Messages, IndexCatchesUp(m) PROVE ToldIsOut' /\ ExpectIsGone'
  <2>1. UNCHANGED <<trashed, held, gone, caller>>
    BY <1>7 DEF IndexCatchesUp, service
  <2> SUFFICES ASSUME NEW k \in Told PROVE OutOfInbox(k)'
    BY <1>6, <2>1 DEF ToldIsOut
  <2>2. OutOfInbox(k)
    BY DEF ToldIsOut
  <2>3. k \in trashed' /\ (k \in index => k \in index')
    BY <1>7, <2>1, <2>2 DEF OutOfInbox, IndexCatchesUp
  <2> QED  BY <1>2, <2>1, <2>2, <2>3, OutKept
<1>8. ASSUME NEW m \in Messages, PinExpires(m) PROVE ToldIsOut' /\ ExpectIsGone'
  <2>1. UNCHANGED <<index, trashed, held, gone, caller>>
    BY <1>8 DEF PinExpires, upstream
  <2> QED  BY <1>2, <1>6, <2>1, OutKept DEF ToldIsOut, OutOfInbox
<1>9. CASE UNCHANGED vars
  <2>1. UNCHANGED <<index, trashed, held, gone, caller>>
    BY <1>9 DEF vars, upstream, service
  <2> QED  BY <1>2, <1>6, <2>1, OutKept DEF ToldIsOut, OutOfInbox
<1> QED  BY <1>4, <1>5, <1>7, <1>8, <1>9 DEF Others

\* A hold is let go when the index has the label and no older page is to be read, or
\* the message is no longer told.
LEMMA ReadPageKeepsTold ==
  ASSUME Types, ToldIsOut, ExpectIsGone, NEW s \in Sessions, ReadPage(s)
  PROVE  ToldIsOut' /\ ExpectIsGone'
<1>1. /\ task[s].state = "answered"
      /\ held' = IF LetGo(s, task[s].at) THEN held \ {task[s].at} ELSE held
      /\ gone' = gone \ Early(s) /\ UNCHANGED <<trashed, index>>
      /\ ReadsOn(s) \/ Lands(s)
  BY ReadPageShape DEF upstream
<1>2. Faithful
  BY <1>1, TasksAreFaithful DEF Lands
<1>3. \A c \in Sessions :
        /\ caller'[c].done \subseteq caller[c].done /\ caller'[c].expect \subseteq caller[c].expect
        /\ caller'[c].done \cap Early(s) = {} /\ caller'[c].expect \cap Early(s) = {}
  <2>1. CASE ReadsOn(s)
    BY <2>1, TaskMoves DEF Stays
  <2>2. CASE Lands(s)
    BY <2>2 DEF Lands, Ends, Woken, Stays, Returns
  <2> QED  BY <1>1, <2>1, <2>2
<1>4. ExpectIsGone'
  BY <1>1, <1>3 DEF ExpectIsGone
<1> SUFFICES ASSUME NEW m \in Told' PROVE OutOfInbox(m)'
  BY <1>4 DEF ToldIsOut
<1>5. m \in Told /\ m \notin Early(s)
  BY <1>1, <1>3, ToldIs
<1>6. OutOfInbox(m)
  BY <1>5 DEF ToldIsOut
<1>7. m \in trashed' /\ (m \in index => m \in index')
  BY <1>1, <1>6 DEF OutOfInbox
<1>8. CASE m \in held => m \in held'
  BY <1>2, <1>6, <1>7, <1>8, OutKept
<1>9. CASE m \in held /\ m \notin held'
  <2>1. LetGo(s, m) /\ m = task[s].at
    BY <1>1, <1>9
  <2>2. ~LetGoEarly(m)
    BY <1>5, <2>1 DEF Early
  <2>3. m \in index /\ \A u \in Sessions : ~PageOf(u, m)
    BY <2>2 DEF LetGoEarly, PageOf
  <2>4. \A u \in Sessions : ~PageOf(u, m)'
    BY <1>2, <2>3 DEF Faithful
  <2> QED  BY <1>7, <2>3, <2>4 DEF OutOfInbox
<1> QED  BY <1>8, <1>9

LEMMA AnswerKeepsTold ==
  ASSUME Types, ToldIsOut, ExpectIsGone, NEW s \in Sessions, PatchAnswered(s)
  PROVE  ToldIsOut' /\ ExpectIsGone'
<1> DEFINE m == Answered(s)
<1>1. /\ caller[s].pc = "applied" /\ UNCHANGED <<trashed, index>> /\ held' = held \cup {m}
  BY PatchAnsweredShape DEF upstream
<1>2. \/ /\ UNCHANGED gone
         /\ \E me : /\ Goes(s, me) /\ me.expect = caller[s].expect /\ me.done = DoneNow(s)
      \/ /\ gone' = ToldNow(s)
         /\ \E me : Goes(s, me) /\ me.expect = {} /\ me.done = {}
      \/ /\ gone' = ToldNow(s)
         /\ \E c \in Places : /\ Enters(s, c, caller[s].view, generation'[caller[s].view])
                              /\ c.expect = gone' /\ c.done = DoneNow(s)
  BY PatchAnsweredShape
<1>3. /\ caller'[s].expect \subseteq caller[s].expect \/ caller'[s].expect \subseteq gone'
      /\ caller'[s].done \subseteq DoneNow(s)
      /\ \A x \in Sessions \ {s} : caller'[x] = caller[x]
  BY <1>2 DEF Goes, Enters, Starts, Joins, WaitsStale, Waits, Types, CallerTypes
<1>4. gone \subseteq gone' /\ gone' \subseteq gone \cup DoneNow(s)
  BY <1>2 DEF ToldNow
<1>5. ExpectIsGone'
  BY <1>3, <1>4 DEF ExpectIsGone
<1>6. Faithful
  <2>1. caller[s].view \in Views
    BY DEF Types, CallerTypes, Places
  <2> QED  BY <1>2, <2>1, CallersAreFaithful
<1> HIDE DEF m
<1> SUFFICES ASSUME NEW k \in Told' PROVE OutOfInbox(k)'
  BY <1>5 DEF ToldIsOut
<1>7. k \in Told \/ (k = m /\ m \in trashed)
  <2>1. \A d \in DoneNow(s) : d \in caller[s].done \/ (d = m /\ m \in trashed)
    BY DEF DoneNow, m
  <2> QED  BY <1>3, <1>4, <2>1, ToldIs
<1>8. CASE k \in Told
  <2>1. OutOfInbox(k)
    BY <1>8 DEF ToldIsOut
  <2> QED  BY <1>1, <1>6, <2>1, OutKept DEF OutOfInbox
<1>9. CASE k = m /\ m \in trashed
  BY <1>1, <1>9 DEF OutOfInbox
<1> QED  BY <1>7, <1>8, <1>9

LEMMA ToldKept ==
  ASSUME Types, ToldIsOut, ExpectIsGone, [Next]_vars
  PROVE  ToldIsOut' /\ ExpectIsGone'
<1>1. \A c \in Sessions : caller[c].done \subseteq Told
  BY ToldIs
<1>2. ASSUME NEW s \in Sessions, NEW v \in Views, Noop(s, v) PROVE ToldIsOut' /\ ExpectIsGone'
  <2>1. UNCHANGED <<trashed, index, held, gone>>
    BY <1>2, NoopEnters DEF upstream, service
  <2>2. PICK c \in Places : Enters(s, c, v, generation[v]) /\ c.expect = gone /\ c.done = {}
    BY <1>2, NoopEnters
  <2>3. ToldIsOut'
    BY <2>1, <2>2, GoesDone, CallersAreFaithful, QuietKeepsTold
  <2> QED  BY <2>1, <2>2, <2>3 DEF ExpectIsGone, Enters, Starts, Joins, WaitsStale, Waits
<1>3. ASSUME NEW s \in Sessions, NEW op \in {"copy", "move"}, NEW v \in Views,
             NEW chosen \in SUBSET Messages, BeginCopy(s, op, v, chosen)
      PROVE  ToldIsOut' /\ ExpectIsGone'
  <2>1. UNCHANGED <<trashed, index, held, gone>>
    BY <1>3, BeginCopyGoes DEF upstream, service
  <2>2. PICK c \in Places :
          /\ c.expect = {} /\ c.done = {}
          /\ Goes(s, BeginTurn(c)) \/ Enters(s, c, "Trash", generation["Trash"])
    BY <1>3, BeginCopyGoes
  <2>3. BeginTurn(c).done = {} /\ BeginTurn(c).expect = {}
    BY <2>2, BeginTurnType
  <2>4. ToldIsOut'
    BY <2>1, <2>2, <2>3, GoesDone, CallersAreFaithful, QuietKeepsTold, Numbers
  <2> QED  BY <2>1, <2>2, <2>3, <2>4
           DEF ExpectIsGone, Goes, Enters, Starts, Joins, WaitsStale, Waits, Types, CallerTypes
<1>4. ASSUME NEW s \in Sessions, LeaveStale(s) PROVE ToldIsOut' /\ ExpectIsGone'
  <2>1. UNCHANGED <<trashed, index, held, gone>>
    BY <1>4, LeaveStaleEnters DEF upstream, service
  <2>2. Enters(s, caller[s], Awaited(caller[s]), caller[s].gen) /\ Awaited(caller[s]) \in Views
    BY <1>4, LeaveStaleEnters, Numbers DEF Types, CallerTypes, Places, Awaited
  <2>3. ToldIsOut'
    BY <1>1, <2>1, <2>2, GoesDone, CallersAreFaithful, QuietKeepsTold
  <2> QED  BY <2>1, <2>2, <2>3 DEF ExpectIsGone, Enters, Starts, Joins, WaitsStale, Waits
<1>5. ASSUME NEW s \in Sessions, AnswerPage(s) PROVE ToldIsOut' /\ ExpectIsGone'
  <2>1. UNCHANGED <<trashed, index, held, gone, caller>> /\ Faithful
    BY <1>5, TaskMoves, TasksAreFaithful DEF upstream, service
  <2> QED  BY <1>1, <2>1, QuietKeepsTold DEF ExpectIsGone
<1>6. ASSUME NEW s \in Sessions, TaskFails(s) PROVE ToldIsOut' /\ ExpectIsGone'
  <2>1. UNCHANGED <<trashed, index, held, gone>> /\ Faithful /\ Ends(s)
    BY <1>6, FailureEnds, TasksAreFaithful DEF upstream, service
  <2>2. \A c \in Sessions : /\ caller'[c].done \subseteq caller[c].done
                            /\ caller'[c].expect \subseteq caller[c].expect
    BY <2>1 DEF Ends, Woken, Stays, Returns
  <2>3. \A c \in Sessions : caller'[c].done \subseteq Told
    BY <1>1, <2>2
  <2>4. ToldIsOut'
    BY <2>1, <2>3, QuietKeepsTold
  <2> QED  BY <2>1, <2>2, <2>4 DEF ExpectIsGone
<1>7. ASSUME NEW s \in Sessions, Turns(s) PROVE ToldIsOut' /\ ExpectIsGone'
  <2>1. UNCHANGED <<index, held, gone>> /\ trashed \subseteq trashed'
    BY <1>7, TurnsGo DEF service
  <2>2. PICK me : Goes(s, me) /\ Works(s) /\ me.done \subseteq caller[s].done
    BY <1>7, TurnsGo
  <2>3. me.done \subseteq Told
    BY <1>1, <2>2
  <2>4. ToldIsOut'
    BY <2>1, <2>2, <2>3, GoesDone, CallersAreFaithful, QuietKeepsTold
  <2> QED  BY <2>1, <2>2, <2>4 DEF ExpectIsGone, Goes, Works, Types, CallerTypes
<1> QED  BY <1>2, <1>3, <1>4, <1>5, <1>6, <1>7, OthersKeepTold, ReadPageKeepsTold, AnswerKeepsTold,
            NextCases

--------------------------------------------------------------------------
(* A list of UIDs that ascends, written as a sequence set and read again *)

\* A set of numbers with an element has a least one.
LEMMA LeastOf ==
  ASSUME NEW S, S \subseteq Nat, NEW x \in S
  PROVE  \E n \in S : \A m \in S : n <= m
<1>1. IsWellFoundedOn(OpToRel(<, Nat), Nat)
  BY NatLessThanWellFounded, Zenon
<1>2. PICK n \in S : \A m \in S : ~(<<m, n>> \in OpToRel(<, Nat))
  BY <1>1, WFMin, Zenon
<1>3. \A m \in S : ~(m < n)
  BY <1>2 DEF OpToRel
<1> QED  BY <1>3

\* The list u ascends.
Ascends(u) == \A i, j \in 1..Len(u) : i < j => u[i] < u[j]

\* sorted() leaves a list that ascends as it is.
LEMMA SortedIs ==
  ASSUME NEW u \in Seq(Nat), Ascends(u)
  PROVE  Sorted(u) = u
<1> DEFINE N == Len(u)
           D == 1..N
           Orders(p) == /\ \A i \in D : \E j \in D : p[j] = i
                        /\ \A i, j \in D : i < j => u[p[i]] <= u[p[j]]
           p == CHOOSE q \in [D -> D] : Orders(q)
<1>1. N \in Nat /\ u = [i \in D |-> u[i]] /\ \A i \in D : u[i] \in Nat
  OBVIOUS
<1>2. \E q \in [D -> D] : Orders(q)
  <2> DEFINE q == [i \in D |-> i]
  <2>1. q \in [D -> D] /\ \A i \in D : q[i] = i
    OBVIOUS
  <2> HIDE DEF q
  <2>2. \A i, j \in D : i < j => u[i] <= u[j]
    BY <1>1 DEF Ascends
  <2> QED  BY <2>1, <2>2
<1>3. p \in [D -> D] /\ Orders(p)
  BY <1>2
<1>4. Sorted(u) = [i \in D |-> u[p[i]]]
  BY DEF Sorted
<1> HIDE DEF p
<1>5. IsFiniteSet(D)
  <2>1. 1 \in Int /\ N \in Int
    BY <1>1
  <2> HIDE DEF N
  <2> QED  BY <2>1, FS_Interval
<1>6. p \in Surjection(D, D)
  BY <1>3 DEF Surjection
<1>7. p \in Injection(D, D)
  BY <1>5, <1>6, FS_SurjSameCardinalityImpliesInj
<1>8. \A i, j \in D : p[i] = p[j] => i = j
  BY <1>7 DEF Injection, IsInjective
<1>9. \A i, j \in D : i < j => p[i] < p[j]
  <2> SUFFICES ASSUME NEW i \in D, NEW j \in D, i < j PROVE p[i] < p[j]
    OBVIOUS
  <2>1. p[i] \in D /\ p[j] \in D /\ u[p[i]] <= u[p[j]]
    BY <1>3
  <2>a. p[i] # p[j]
    <3>1. i # j
      BY <1>1
    <3> QED  BY <1>8, <3>1
  <2>2. ~(p[j] < p[i])
    BY <1>1, <2>1 DEF Ascends
  <2> QED  BY <1>1, <2>1, <2>2, <2>a
<1> DEFINE moved == {i \in D : p[i] # i}
<1>10. moved = {}
  <2> SUFFICES ASSUME NEW x \in moved PROVE FALSE
    OBVIOUS
  <2>1. moved \subseteq Nat
    BY <1>1
  <2> HIDE DEF moved
  <2>2. PICK i \in moved : \A m \in moved : i <= m
    BY <2>1, LeastOf
  <2>3. i \in D /\ p[i] # i /\ p[i] \in D
    BY <1>3, <2>2 DEF moved
  <2>4. \A k \in D : k < i => p[k] = k
    BY <1>1, <2>2, <2>3 DEF moved
  <2>5. PICK v \in D : p[v] = i
    BY <1>3, <2>3
  <2>6. i < v
    BY <1>1, <2>3, <2>4, <2>5
  <2>7. p[i] < i
    BY <1>9, <2>3, <2>5, <2>6
  <2> QED  BY <1>8, <2>3, <2>4, <2>7
<1>11. \A i \in D : p[i] = i
  BY <1>10
<1> QED  BY <1>1, <1>4, <1>11

\* The runs, one UID after the other.
RunSteps(s, g) == g[0] = <<>> /\ \A n \in 1..Len(s) : g[n] = AddToRuns(g[n - 1], s[n])
LEMMA RunsStep ==
  ASSUME NEW s, Len(s) \in Nat
  PROVE  \E g : RunSteps(s, g) /\ RunsOf(s) = g[Len(s)]
<1> DEFINE Step(f, N) == [n \in 0..N |-> IF n = 0 THEN <<>> ELSE AddToRuns(f[n - 1], s[n])]
           bad == {N \in Nat : ~(\E f : f = Step(f, N))}
           g == CHOOSE f : f = Step(f, Len(s))
<1>1. bad = {}
  <2> SUFFICES ASSUME NEW x \in bad PROVE FALSE
    OBVIOUS
  <2>1. bad \subseteq Nat
    OBVIOUS
  <2> HIDE DEF bad
  <2>2. PICK N \in bad : \A m \in bad : N <= m
    BY <2>1, LeastOf
  <2>3. N \in Nat /\ ~(\E f : f = Step(f, N))
    BY <2>2 DEF bad
  <2>4. CASE N = 0
    <3> DEFINE f == [n \in 0..0 |-> <<>>]
    <3>1. f = Step(f, 0)
      OBVIOUS
    <3> QED  BY <2>3, <2>4, <3>1
  <2>5. CASE N # 0
    <3>1. N - 1 \in Nat /\ N - 1 \notin bad
      BY <2>1, <2>2, <2>3, <2>5
    <3>2. PICK f : f = Step(f, N - 1)
      BY <3>1 DEF bad
    <3> DEFINE h == [n \in 0..N |-> IF n = N THEN AddToRuns(f[N - 1], s[N]) ELSE f[n]]
    <3>3. \A n \in 0..N - 1 : h[n] = f[n]
      BY <2>3
    <3>4. \A n \in 0..N : h[n] = IF n = 0 THEN <<>> ELSE AddToRuns(h[n - 1], s[n])
      <4> SUFFICES ASSUME NEW n \in 0..N
                   PROVE  h[n] = IF n = 0 THEN <<>> ELSE AddToRuns(h[n - 1], s[n])
        OBVIOUS
      <4>1. CASE n = N
        BY <2>3, <2>5, <3>3, <4>1
      <4>2. CASE n # N
        <5>1. n \in 0..N - 1 /\ (n # 0 => n - 1 \in 0..N - 1)
          BY <2>3, <4>2
        <5>2. f[n] = IF n = 0 THEN <<>> ELSE AddToRuns(f[n - 1], s[n])
          BY <3>2, <5>1
        <5> QED  BY <3>3, <5>1, <5>2
      <4> QED  BY <4>1, <4>2
    <3>5. h = Step(h, N)
      BY <3>4
    <3> QED  BY <2>3, <3>5
  <2> QED  BY <2>4, <2>5
<1>2. g = Step(g, Len(s))
  BY <1>1
<1>3. RunsOf(s) = g[Len(s)]
  BY DEF RunsOf
<1> HIDE DEF g
<1>4. RunSteps(s, g)
  BY <1>2 DEF RunSteps
<1> QED  BY <1>3, <1>4

\* What a client reads, one item after the other.
ReadSteps(s, g) == g[0] = <<>> /\ \A n \in 1..Len(s) : g[n] = g[n - 1] \o NumbersOf(s[n])
LEMMA ReadStep ==
  ASSUME NEW s, Len(s) \in Nat
  PROVE  \E g : ReadSteps(s, g) /\ Expand(s) = g[Len(s)]
<1> DEFINE Step(f, N) == [n \in 0..N |-> IF n = 0 THEN <<>> ELSE f[n - 1] \o NumbersOf(s[n])]
           bad == {N \in Nat : ~(\E f : f = Step(f, N))}
           g == CHOOSE f : f = Step(f, Len(s))
<1>1. bad = {}
  <2> SUFFICES ASSUME NEW x \in bad PROVE FALSE
    OBVIOUS
  <2>1. bad \subseteq Nat
    OBVIOUS
  <2> HIDE DEF bad
  <2>2. PICK N \in bad : \A m \in bad : N <= m
    BY <2>1, LeastOf
  <2>3. N \in Nat /\ ~(\E f : f = Step(f, N))
    BY <2>2 DEF bad
  <2>4. CASE N = 0
    <3> DEFINE f == [n \in 0..0 |-> <<>>]
    <3>1. f = Step(f, 0)
      OBVIOUS
    <3> QED  BY <2>3, <2>4, <3>1
  <2>5. CASE N # 0
    <3>1. N - 1 \in Nat /\ N - 1 \notin bad
      BY <2>1, <2>2, <2>3, <2>5
    <3>2. PICK f : f = Step(f, N - 1)
      BY <3>1 DEF bad
    <3> DEFINE h == [n \in 0..N |-> IF n = N THEN f[N - 1] \o NumbersOf(s[N]) ELSE f[n]]
    <3>3. \A n \in 0..N - 1 : h[n] = f[n]
      BY <2>3
    <3>4. \A n \in 0..N : h[n] = IF n = 0 THEN <<>> ELSE h[n - 1] \o NumbersOf(s[n])
      <4> SUFFICES ASSUME NEW n \in 0..N
                   PROVE  h[n] = IF n = 0 THEN <<>> ELSE h[n - 1] \o NumbersOf(s[n])
        OBVIOUS
      <4>1. CASE n = N
        <5>1. n # 0 /\ n - 1 \in 0..N - 1 /\ n - 1 = N - 1
          BY <2>3, <2>5, <4>1
        <5>2. h[n] = f[N - 1] \o NumbersOf(s[n]) /\ h[n - 1] = f[N - 1]
          BY <3>3, <4>1, <5>1, Zenon
        <5> QED  BY <5>1, <5>2, Zenon
      <4>2. CASE n # N
        <5>1. n \in 0..N - 1 /\ (n # 0 => n - 1 \in 0..N - 1)
          BY <2>3, <4>2
        <5>2. f[n] = IF n = 0 THEN <<>> ELSE f[n - 1] \o NumbersOf(s[n])
          BY <3>2, <5>1
        <5> QED  BY <3>3, <5>1, <5>2
      <4> QED  BY <4>1, <4>2
    <3>5. h = Step(h, N)
      BY <3>4
    <3> QED  BY <2>3, <3>5
  <2> QED  BY <2>4, <2>5
<1>2. g = Step(g, Len(s))
  BY <1>1
<1>3. Expand(s) = g[Len(s)]
  BY DEF Expand
<1> HIDE DEF g
<1>4. ReadSteps(s, g)
  BY <1>2 DEF ReadSteps
<1> QED  BY <1>3, <1>4

\* Runs, the text that is written of them, and the numbers of a run.
Runs == {r \in Nat \X Nat : r[1] <= r[2]}
ItemsOf(R) == [i \in DOMAIN R |-> ItemOf(R[i])]
Upto(r) == [i \in 1..(r[2] - r[1]) + 1 |-> r[1] + (i - 1)]

LEMMA Regroup ==
  ASSUME NEW a \in Seq(Nat), NEW b \in Seq(Nat), NEW c \in Seq(Nat)
  PROVE  a \o (b \o c) = (a \o b) \o c
<1>1. (a \o b) \o c = a \o (b \o c)
  BY ConcatAssociative
<1> QED  BY <1>1

LEMMA ReadsNumber ==
  ASSUME NEW n
  PROVE  SeqNumber(Number(n)) = n
<1>1. "n" # "*"
  OBVIOUS
<1>2. Number(n) # StarText
  <2> SUFFICES ASSUME Number(n) = StarText PROVE FALSE
    OBVIOUS
  <2>1. Number(n)[1] = "n" /\ StarText[1] = "*"
    BY Zenon DEF Number, StarText
  <2> QED  BY <1>1, <2>1, Zenon
<1>3. Number(n)[2] = n
  BY DEF Number
<1> QED  BY <1>2, <1>3 DEF SeqNumber

LEMMA ReadsRun ==
  ASSUME NEW r \in Runs
  PROVE  NumbersOf(ItemOf(r)) = Upto(r)
<1> DEFINE a == Number(r[1])
           b == Number(r[2])
           item == ItemOf(r)
<1>1. SeqNumber(a) = r[1] /\ SeqNumber(b) = r[2]
  BY ReadsNumber
<1> HIDE DEF a, b
<1>2. item[1] = a /\ item[Len(item)] = b
  BY DEF ItemOf, a, b
<1> HIDE DEF item
<1>3. r \in Nat \X Nat /\ r[1] \in Nat /\ r[2] \in Nat /\ r[1] <= r[2] /\ r = <<r[1], r[2]>>
  BY DEF Runs
<1>4. RangeOf(item) = <<IF r[1] > r[2] THEN r[2] ELSE r[1], IF r[1] > r[2] THEN r[1] ELSE r[2]>>
  BY <1>1, <1>2, Zenon DEF RangeOf
<1>5. RangeOf(item) = r
  <2>1. ~(r[1] > r[2])
    BY <1>3
  <2> QED  BY <1>3, <1>4, <2>1
<1>6. NumbersOf(item) = Upto(r)
  BY <1>5 DEF NumbersOf, Upto
<1> QED  BY <1>6 DEF item

LEMMA UptoType ==
  ASSUME NEW r \in Runs
  PROVE  Upto(r) \in Seq(Nat) /\ Len(Upto(r)) = (r[2] - r[1]) + 1
<1>1. r[1] \in Nat /\ r[2] \in Nat /\ r[1] <= r[2]
  BY DEF Runs
<1>2. (r[2] - r[1]) + 1 \in Nat
  BY <1>1
<1>3. \A i \in 1..(r[2] - r[1]) + 1 : r[1] + (i - 1) \in Nat
  BY <1>1
<1> DEFINE N == (r[2] - r[1]) + 1
<1> HIDE DEF N
<1>4. [i \in 1..N |-> r[1] + (i - 1)] \in Seq(Nat)
  BY <1>2, <1>3 DEF N
<1>5. Len([i \in 1..N |-> r[1] + (i - 1)]) = N
  BY <1>2, <1>4 DEF N
<1> QED  BY <1>4, <1>5 DEF Upto, N

\* What a client reads of the text of runs, one run after the other.
Reads(R, g) == g[0] = <<>> /\ \A n \in 1..Len(R) : g[n] = g[n - 1] \o Upto(R[n])
LEMMA RunsAreRead ==
  ASSUME NEW R \in Seq(Runs)
  PROVE  \E g : /\ Reads(R, g) /\ Expand(ItemsOf(R)) = g[Len(R)]
                /\ \A n \in 0..Len(R) : g[n] \in Seq(Nat)
<1>1. Len(R) \in Nat /\ DOMAIN R = 1..Len(R) /\ \A i \in 1..Len(R) : R[i] \in Runs
  OBVIOUS
<1>2. Len(ItemsOf(R)) = Len(R) /\ \A i \in 1..Len(R) : ItemsOf(R)[i] = ItemOf(R[i])
  <2> DEFINE I == {ItemOf(r) : r \in Runs}
  <2>1. \A i \in 1..Len(R) : ItemOf(R[i]) \in I
    BY <1>1
  <2> HIDE DEF I
  <2>2. [i \in 1..Len(R) |-> ItemOf(R[i])] \in Seq(I)
    BY <1>1, <2>1
  <2> QED  BY <1>1, <2>2 DEF ItemsOf
<1>3. PICK g : ReadSteps(ItemsOf(R), g) /\ Expand(ItemsOf(R)) = g[Len(R)]
  BY <1>1, <1>2, ReadStep
<1>4. Reads(R, g)
  <2>1. \A n \in 1..Len(R) : NumbersOf(ItemsOf(R)[n]) = Upto(R[n])
    BY <1>1, <1>2, ReadsRun
  <2>2. g[0] = <<>> /\ \A n \in 1..Len(R) : g[n] = g[n - 1] \o NumbersOf(ItemsOf(R)[n])
    BY <1>2, <1>3, Zenon DEF ReadSteps
  <2> QED  BY <2>1, <2>2, Zenon DEF Reads
<1> DEFINE bad == {n \in 0..Len(R) : g[n] \notin Seq(Nat)}
<1>5. bad = {}
  <2> SUFFICES ASSUME NEW x \in bad PROVE FALSE
    OBVIOUS
  <2>1. bad \subseteq Nat
    OBVIOUS
  <2> HIDE DEF bad
  <2>2. PICK n \in bad : \A m \in bad : n <= m
    BY <2>1, LeastOf
  <2>3. n \in 0..Len(R) /\ g[n] \notin Seq(Nat)
    BY <2>2 DEF bad
  <2>4. n # 0
    <3>1. <<>> \in Seq(Nat)
      OBVIOUS
    <3> QED  BY <1>4, <2>3, <3>1 DEF Reads
  <2>5. n \in 1..Len(R) /\ n - 1 \in 0..Len(R) /\ n - 1 \notin bad
    BY <1>1, <2>1, <2>2, <2>3, <2>4
  <2>6. g[n - 1] \in Seq(Nat) /\ Upto(R[n]) \in Seq(Nat)
    BY <1>1, <2>5, UptoType DEF bad
  <2>7. g[n] = g[n - 1] \o Upto(R[n])
    BY <1>4, <2>5 DEF Reads
  <2>8. g[n] \in Seq(Nat)
    BY <2>6, <2>7, ConcatProperties
  <2> QED  BY <2>3, <2>8
<1> QED  BY <1>3, <1>4, <1>5

LEMMA ReadAppend ==
  ASSUME NEW R \in Seq(Runs), NEW r \in Runs
  PROVE  /\ Expand(ItemsOf(R)) \in Seq(Nat)
         /\ Expand(ItemsOf(Append(R, r))) = Expand(ItemsOf(R)) \o Upto(r)
<1> DEFINE Q == Append(R, r)
           N == Len(R)
<1>1. /\ Q \in Seq(Runs) /\ Len(Q) = N + 1 /\ N \in Nat
      /\ Q[N + 1] = r /\ \A i \in 1..N : Q[i] = R[i]
  OBVIOUS
<1> HIDE DEF Q
<1>2. PICK g : /\ Reads(R, g) /\ Expand(ItemsOf(R)) = g[N]
               /\ \A n \in 0..N : g[n] \in Seq(Nat)
  BY RunsAreRead
<1>3. PICK h : Reads(Q, h) /\ Expand(ItemsOf(Q)) = h[N + 1]
  <2>1. \E h : Reads(Q, h) /\ Expand(ItemsOf(Q)) = h[Len(Q)]
    BY <1>1, RunsAreRead
  <2> QED  BY <1>1, <2>1
<1> HIDE DEF N
<1> DEFINE bad == {n \in 0..N : g[n] # h[n]}
<1>4. bad = {}
  <2> SUFFICES ASSUME NEW x \in bad PROVE FALSE
    OBVIOUS
  <2>1. bad \subseteq Nat
    OBVIOUS
  <2> HIDE DEF bad
  <2>2. PICK n \in bad : \A m \in bad : n <= m
    BY <2>1, LeastOf
  <2>3. n \in 0..N /\ g[n] # h[n]
    BY <2>2 DEF bad
  <2>4. n # 0
    BY <1>2, <1>3, <2>3 DEF Reads
  <2>5. n \in 1..N /\ n \in 1..N + 1 /\ n - 1 \in 0..N /\ n - 1 \notin bad
    BY <1>1, <2>1, <2>2, <2>3, <2>4
  <2>6. g[n - 1] = h[n - 1]
    BY <2>5 DEF bad
  <2>7. g[n] = g[n - 1] \o Upto(R[n])
    BY <1>2, <2>5 DEF Reads, N
  <2>8. h[n] = h[n - 1] \o Upto(Q[n])
    BY <1>1, <1>3, <2>5 DEF Reads
  <2>9. Q[n] = R[n]
    BY <1>1, <2>5
  <2> QED  BY <2>3, <2>6, <2>7, <2>8, <2>9, Zenon
<1>5. g[N] = h[N] /\ g[N] \in Seq(Nat)
  <2>1. N \in 0..N /\ N \notin bad
    BY <1>1, <1>4
  <2> QED  BY <1>2, <2>1
<1>6. h[N + 1] = h[N] \o Upto(r)
  <2>1. N + 1 \in 1..Len(Q) /\ (N + 1) - 1 = N
    BY <1>1
  <2>2. h[N + 1] = h[(N + 1) - 1] \o Upto(Q[N + 1])
    BY <1>3, <2>1, Zenon DEF Reads
  <2> QED  BY <1>1, <2>1, <2>2, Zenon
<1>7. Expand(ItemsOf(Q)) = Expand(ItemsOf(R)) \o Upto(r)
  BY <1>2, <1>3, <1>5, <1>6, Zenon
<1>8. Expand(ItemsOf(R)) \in Seq(Nat)
  BY <1>2, <1>5, Zenon
<1> QED  BY <1>7, <1>8, Zenon DEF Q

\* Runs are the UIDs they were made of.
LEMMA MadeRunsAreRead ==
  ASSUME NEW u \in Seq(Nat), NEW g, RunSteps(u, g), NEW n \in 0..Len(u)
  PROVE  g[n] \in Seq(Runs) /\ Expand(ItemsOf(g[n])) = SubSeq(u, 1, n)
<1> DEFINE Good(k) == g[k] \in Seq(Runs) /\ Expand(ItemsOf(g[k])) = SubSeq(u, 1, k)
           bad == {k \in 0..Len(u) : ~Good(k)}
<1>1. Good(0)
  <2>1. g[0] = <<>> /\ <<>> \in Seq(Runs)
    BY DEF RunSteps
  <2>2. SubSeq(u, 1, 0) = <<>>
    BY SubSeqEmpty
  <2>3. ItemsOf(<<>>) = <<>>
    BY DEF ItemsOf
  <2>4. Expand(<<>>) = <<>>
    <3>1. Len(<<>>) = 0
      OBVIOUS
    <3>2. PICK f : ReadSteps(<<>>, f) /\ Expand(<<>>) = f[Len(<<>>)]
      BY <3>1, ReadStep
    <3> QED  BY <3>1, <3>2 DEF ReadSteps
  <2> QED  BY <2>1, <2>2, <2>3, <2>4
<1>2. ASSUME NEW k \in 1..Len(u), Good(k - 1) PROVE Good(k)
  <2> DEFINE G == g[k - 1]
             x == u[k]
  <2>1. G \in Seq(Runs) /\ x \in Nat /\ g[k] = AddToRuns(G, x)
    BY <1>2 DEF RunSteps
  <2>2. Expand(ItemsOf(G)) = SubSeq(u, 1, k - 1)
    BY <1>2
  <2>3. SubSeq(u, 1, k) = SubSeq(u, 1, k - 1) \o <<x>>
    <3>1. k \in Int /\ 1 \in Int /\ 1 \in 1..Len(u) + 1 /\ k \in 1..Len(u) /\ k >= 1
      OBVIOUS
    <3> QED  BY <3>1, SubSeqRecursiveSecond
  <2> HIDE DEF G, x
  <2>4. CASE G # <<>> /\ x = Last(G)[2] + 1
    <3>1. PICK F \in Seq(Runs), r \in Runs : G = Append(F, r)
      BY <2>1, <2>4, SequenceEmptyOrAppend
    <3> DEFINE q == <<r[1], x>>
    <3>2. Len(G) \in 1..Len(G) /\ G[Len(G)] = r /\ Last(G) = r
      BY <3>1 DEF Last
    <3>3. r[1] \in Nat /\ r[2] \in Nat /\ r[1] <= r[2] /\ r = <<r[1], r[2]>> /\ x = r[2] + 1
      BY <2>4, <3>2 DEF Runs
    <3>4. q \in Runs
      BY <3>3 DEF Runs
    <3>5. g[k] = Append(F, q)
      <4>1. g[k] = [G EXCEPT ![Len(G)][2] = x]
        BY <2>1, <2>4, Zenon DEF AddToRuns
      <4>2. [r EXCEPT ![2] = x] = q
        BY <3>3
      <4>3. g[k] = [G EXCEPT ![Len(G)] = q]
        BY <3>2, <4>1, <4>2
      <4>4. Len(Append(F, q)) = Len(G) /\ Append(F, q) \in Seq(Runs)
        BY <3>1, <3>4
      <4>5. [G EXCEPT ![Len(G)] = q] \in Seq(Runs) /\ Len([G EXCEPT ![Len(G)] = q]) = Len(G)
        BY <2>1, <3>2, <3>4, ExceptSeq
      <4>6. \A i \in 1..Len(G) : [G EXCEPT ![Len(G)] = q][i] = Append(F, q)[i]
        <5> SUFFICES ASSUME NEW i \in 1..Len(G)
                     PROVE  [G EXCEPT ![Len(G)] = q][i] = Append(F, q)[i]
          OBVIOUS
        <5>1. [G EXCEPT ![Len(G)] = q][i] = IF i = Len(G) THEN q ELSE G[i]
          BY <2>1
        <5>2. Append(F, q)[i] = IF i = Len(G) THEN q ELSE F[i]
          BY <3>1, <3>4
        <5>3. i # Len(G) => F[i] = G[i]
          BY <3>1
        <5> QED  BY <5>1, <5>2, <5>3
      <4> QED  BY <4>3, <4>4, <4>5, <4>6, SeqEqual
    <3>6. Upto(q) = Upto(r) \o <<x>>
      <4>1. Upto(q) = [i \in 1..(r[2] - r[1]) + 2 |-> r[1] + (i - 1)]
        BY <3>3 DEF Upto
      <4>2. Upto(r) \in Seq(Nat) /\ Len(Upto(r)) = (r[2] - r[1]) + 1
        BY UptoType
      <4>3. Upto(q) \in Seq(Nat) /\ Len(Upto(q)) = (r[2] - r[1]) + 2
        <5>1. Len(Upto(q)) = (q[2] - q[1]) + 1 /\ Upto(q) \in Seq(Nat)
          BY <3>4, UptoType
        <5>2. (q[2] - q[1]) + 1 = (r[2] - r[1]) + 2
          BY <3>3
        <5> QED  BY <5>1, <5>2
      <4>4. <<x>> \in Seq(Nat) /\ Len(<<x>>) = 1 /\ <<x>>[1] = x
        BY <2>1
      <4>5. /\ Upto(r) \o <<x>> \in Seq(Nat) /\ Len(Upto(r) \o <<x>>) = (r[2] - r[1]) + 2
            /\ \A i \in 1..(r[2] - r[1]) + 2 :
                 (Upto(r) \o <<x>>)[i] = IF i <= (r[2] - r[1]) + 1 THEN Upto(r)[i] ELSE x
        <5> HIDE DEF q
        <5>1. /\ Upto(r) \o <<x>> \in Seq(Nat) /\ Len(Upto(r) \o <<x>>) = Len(Upto(r)) + 1
              /\ \A i \in 1..Len(Upto(r)) + 1 :
                   (Upto(r) \o <<x>>)[i] = IF i <= Len(Upto(r)) THEN Upto(r)[i] ELSE x
          BY <4>2, <4>4, ConcatProperties
        <5>2. Len(Upto(r)) + 1 = (r[2] - r[1]) + 2
          BY <3>3, <4>2
        <5> QED  BY <4>2, <5>1, <5>2
      <4>6. \A i \in 1..(r[2] - r[1]) + 2 : Upto(q)[i] = r[1] + (i - 1)
        BY <4>1
      <4>7. \A i \in 1..(r[2] - r[1]) + 1 : Upto(r)[i] = r[1] + (i - 1)
        BY DEF Upto
      <4> HIDE DEF q
      <4>8. \A i \in 1..(r[2] - r[1]) + 2 : Upto(q)[i] = (Upto(r) \o <<x>>)[i]
        <5> SUFFICES ASSUME NEW i \in 1..(r[2] - r[1]) + 2 PROVE Upto(q)[i] = (Upto(r) \o <<x>>)[i]
          OBVIOUS
        <5> DEFINE read == (Upto(r) \o <<x>>)[i]
                   before == Upto(r)[i]
        <5>1. read = IF i <= (r[2] - r[1]) + 1 THEN before ELSE x
          BY <4>5
        <5>2. i <= (r[2] - r[1]) + 1 => before = r[1] + (i - 1)
          <6>1. i <= (r[2] - r[1]) + 1 => i \in 1..(r[2] - r[1]) + 1
            BY <3>3
          <6> QED  BY <4>7, <6>1
        <5> HIDE DEF read, before
        <5>3. read = r[1] + (i - 1)
          BY <3>3, <5>1, <5>2
        <5> QED  BY <4>6, <5>3 DEF read
      <4> QED  BY <4>3, <4>5, <4>8, SeqEqual
    <3>7. Upto(r) \in Seq(Nat) /\ <<x>> \in Seq(Nat)
      BY <2>1, UptoType
    <3> HIDE DEF q
    <3>8. Expand(ItemsOf(g[k])) = Expand(ItemsOf(F)) \o (Upto(r) \o <<x>>)
      BY <3>4, <3>5, <3>6, ReadAppend
    <3>9. Expand(ItemsOf(G)) = Expand(ItemsOf(F)) \o Upto(r) /\ Expand(ItemsOf(F)) \in Seq(Nat)
      BY <3>1, ReadAppend
    <3>10. Expand(ItemsOf(g[k])) = Expand(ItemsOf(G)) \o <<x>>
      <4>1. Expand(ItemsOf(F)) \o (Upto(r) \o <<x>>) = (Expand(ItemsOf(F)) \o Upto(r)) \o <<x>>
        BY <3>7, <3>9, Regroup, Zenon
      <4> QED  BY <3>8, <3>9, <4>1, Zenon
    <3>11. g[k] \in Seq(Runs)
      BY <3>4, <3>5
    <3> QED  BY <2>2, <2>3, <3>10, <3>11, Zenon
  <2>5. CASE ~(G # <<>> /\ x = Last(G)[2] + 1)
    <3> DEFINE q == <<x, x>>
    <3>1. q \in Runs /\ q[1] = x /\ q[2] = x
      BY <2>1 DEF Runs
    <3>2. Upto(q) = <<x>>
      BY <2>1 DEF Upto
    <3>3. g[k] = Append(G, q)
      BY <2>1, <2>5, Zenon DEF AddToRuns
    <3> HIDE DEF q
    <3>4. Expand(ItemsOf(g[k])) = Expand(ItemsOf(G)) \o <<x>>
      BY <2>1, <3>1, <3>2, <3>3, ReadAppend
    <3>5. g[k] \in Seq(Runs)
      BY <2>1, <3>1, <3>3
    <3> QED  BY <2>2, <2>3, <3>4, <3>5, Zenon
  <2> QED  BY <2>4, <2>5
<1> HIDE DEF Good
<1>3. bad = {}
  <2> SUFFICES ASSUME NEW y \in bad PROVE FALSE
    OBVIOUS
  <2>1. bad \subseteq Nat
    OBVIOUS
  <2> HIDE DEF bad
  <2>2. PICK k \in bad : \A m \in bad : k <= m
    BY <2>1, LeastOf
  <2>3. k \in 0..Len(u) /\ ~Good(k)
    BY <2>2 DEF bad
  <2>4. k # 0
    BY <1>1, <2>3
  <2>5. k \in 1..Len(u) /\ k - 1 \in 0..Len(u) /\ k - 1 \notin bad
    BY <2>1, <2>2, <2>3, <2>4
  <2> QED  BY <1>2, <2>3, <2>5 DEF bad
<1>4. Good(n)
  BY <1>3
<1> QED  BY <1>4 DEF Good

\* What is written of UIDs that ascend is read as those UIDs.
LEMMA UidSetIsRead ==
  ASSUME NEW u \in Seq(Nat), Ascends(u)
  PROVE  Expand(UidSet(u)) = u
<1>1. UidSet(u) = ItemsOf(RunsOf(u))
  BY SortedIs DEF UidSet, ItemsOf
<1>2. Len(u) \in Nat /\ Len(u) \in 0..Len(u)
  OBVIOUS
<1>3. PICK g : RunSteps(u, g) /\ RunsOf(u) = g[Len(u)]
  BY <1>2, RunsStep
<1>4. Expand(ItemsOf(g[Len(u)])) = SubSeq(u, 1, Len(u))
  BY <1>2, <1>3, MadeRunsAreRead
<1>5. SubSeq(u, 1, Len(u)) = u
  BY SubSeqFull
<1> QED  BY <1>1, <1>3, <1>4, <1>5, Zenon

\* The pairs x, in order of the k-th component.
Rises(x, k) == \A i, j \in 1..Len(x) : i < j => x[i][k] < x[j][k]
LEMMA PairsAreRead ==
  ASSUME NEW pairs \in Seq(Nat \X Nat), Rises(pairs, 1), Rises(pairs, 2)
  PROVE  PairsRead(pairs) = Range(pairs)
<1> DEFINE N == Len(pairs)
           one == [i \in DOMAIN pairs |-> pairs[i][1]]
           two == [i \in DOMAIN pairs |-> pairs[i][2]]
<1>1. /\ N \in Nat /\ DOMAIN pairs = 1..N
      /\ \A i \in 1..N : /\ pairs[i][1] \in Nat /\ pairs[i][2] \in Nat
                         /\ pairs[i] = <<pairs[i][1], pairs[i][2]>>
  OBVIOUS
<1>2. one \in Seq(Nat) /\ Len(one) = N /\ \A i \in 1..N : one[i] = pairs[i][1]
  <2> HIDE DEF N
  <2>1. [i \in 1..N |-> pairs[i][1]] \in Seq(Nat)
    BY <1>1
  <2> QED  BY <1>1, <2>1
<1>3. two \in Seq(Nat) /\ Len(two) = N /\ \A i \in 1..N : two[i] = pairs[i][2]
  <2> HIDE DEF N
  <2>1. [i \in 1..N |-> pairs[i][2]] \in Seq(Nat)
    BY <1>1
  <2> QED  BY <1>1, <2>1
<1>4. Ascends(one) /\ Ascends(two)
  BY <1>1, <1>2, <1>3 DEF Ascends, Rises
<1>5. Expand(UidSet(one)) = one /\ Expand(UidSet(two)) = two
  BY <1>2, <1>3, <1>4, UidSetIsRead
<1>6. DOMAIN one = 1..N
  BY <1>1
<1> HIDE DEF N
<1>7. PairsRead(pairs) = {<<one[i], two[i]>> : i \in DOMAIN one}
  BY <1>2, <1>3, <1>5, Zenon DEF PairsRead
<1> HIDE DEF one, two
<1>8. {<<one[i], two[i]>> : i \in DOMAIN one} = {pairs[i] : i \in 1..N}
  <2>1. \A i \in 1..N : <<one[i], two[i]>> = pairs[i]
    BY <1>1, <1>2, <1>3
  <2> QED  BY <1>6, <2>1
<1> QED  BY <1>1, <1>7, <1>8 DEF Range

--------------------------------------------------------------------------
(* What COPYUID says *)

\* A batch takes its messages in the order of their UIDs, each once.
InOrder(c) ==
  /\ Rises(c.items, 2) /\ Rises(c.pairs, 1)
  /\ \A i \in 1..Len(c.pairs), j \in 1..Len(c.items) : c.pairs[i][1] < c.items[j][2]
  /\ \A i, j \in 1..Len(c.items) : i < j => c.items[i][1] # c.items[j][1]

\* While each message gets its Trash UID in its own turn, these UIDs ascend, and so does
\* one that a listing gives the message whose PATCH is under way.
InTurn(c, trash, next) ==
  c.own =>
    /\ Rises(c.pairs, 2) /\ \A i \in 1..Len(c.pairs) : c.pairs[i][2] < next
    /\ c.pc \in {"sent", "applied"} =>
         LET u == trash[c.items[1][1]] IN u = 0 \/ \A i \in 1..Len(c.pairs) : c.pairs[i][2] < u

TrashBelowNext == \A m \in Messages : uidOf["Trash"][m] < next_uid["Trash"]
BatchInv ==
  /\ \A s \in Sessions : InOrder(caller[s]) /\ InTurn(caller[s], uidOf["Trash"], next_uid["Trash"])
  /\ TrashBelowNext

\* A message of Trash keeps its UID, loses it, or gets one that nothing had before.
TrashGrows ==
  /\ next_uid'["Trash"] >= next_uid["Trash"]
  /\ \A m \in Messages : \/ uidOf'["Trash"][m] \in {0, uidOf["Trash"][m]}
                         \/ uidOf'["Trash"][m] >= next_uid["Trash"]
  /\ TrashBelowNext'

\* A batch that goes on as it was, and a caller without one.
Batches(c, d) ==
  /\ d.items = c.items /\ d.pairs = c.pairs /\ d.own = c.own
  /\ d.pc \in {"sent", "applied"} => c.pc \in {"sent", "applied"}
Rests(d) == d.items = <<>> /\ d.pairs = <<>> /\ d.pc \notin {"sent", "applied"}

LEMMA PlaceParts ==
  ASSUME NEW c \in Places
  PROVE  /\ Len(c.items) \in Nat /\ Len(c.pairs) \in Nat /\ c.own \in BOOLEAN
         /\ c.items \in Seq(Messages \X Nat) /\ c.pairs \in Seq(Nat \X Nat)
         /\ \A i \in 1..Len(c.items) : c.items[i][1] \in Messages /\ c.items[i][2] \in Nat
         /\ \A i \in 1..Len(c.pairs) : c.pairs[i][1] \in Nat /\ c.pairs[i][2] \in Nat
         /\ c.items # <<>> => 1 \in 1..Len(c.items)
<1>1. c.items \in Seq(Messages \X Nat) /\ c.pairs \in Seq(Nat \X Nat) /\ c.own \in BOOLEAN
  BY DEF Places
<1>2. ASSUME NEW x \in Seq(Messages \X Nat)
      PROVE  /\ Len(x) \in Nat /\ (x # <<>> => 1 \in 1..Len(x))
             /\ \A i \in 1..Len(x) : x[i][1] \in Messages /\ x[i][2] \in Nat
  OBVIOUS
<1>3. ASSUME NEW x \in Seq(Nat \X Nat)
      PROVE  Len(x) \in Nat /\ \A i \in 1..Len(x) : x[i][1] \in Nat /\ x[i][2] \in Nat
  OBVIOUS
<1> QED  BY <1>1, <1>2, <1>3

LEMMA RestsInTurn ==
  ASSUME NEW c, Rests(c), NEW trash, NEW next
  PROVE  InOrder(c) /\ InTurn(c, trash, next)
<1>1. c.items = <<>> /\ c.pairs = <<>> /\ c.pc \notin {"sent", "applied"}
  BY DEF Rests
<1>2. Len(<<>>) = 0 /\ 1..0 = {}
  OBVIOUS
<1> QED  BY <1>1, <1>2 DEF InOrder, InTurn, Rises

LEMMA BatchStaysInTurn ==
  ASSUME Types, TrashGrows, next_uid'["Trash"] \in Nat, uidOf'["Trash"] \in [Messages -> Nat],
         NEW c \in Places, NEW d, Batches(c, d),
         c.pc \in {"sent", "applied"} => c.items # <<>>,
         InOrder(c), InTurn(c, uidOf["Trash"], next_uid["Trash"])
  PROVE  InOrder(d) /\ InTurn(d, uidOf'["Trash"], next_uid'["Trash"])
<1>1. InOrder(d)
  BY DEF Batches, InOrder
<1>2. ASSUME d.own PROVE
        /\ Rises(d.pairs, 2) /\ \A i \in 1..Len(d.pairs) : d.pairs[i][2] < next_uid'["Trash"]
        /\ d.pc \in {"sent", "applied"} =>
             LET u == uidOf'["Trash"][d.items[1][1]] IN
             u = 0 \/ \A i \in 1..Len(d.pairs) : d.pairs[i][2] < u
  <2>1. d.items = c.items /\ d.pairs = c.pairs /\ c.own
    BY <1>2 DEF Batches
  <2>2. /\ next_uid["Trash"] \in Nat /\ next_uid'["Trash"] >= next_uid["Trash"]
        /\ \A m \in Messages : uidOf["Trash"][m] \in Nat
    BY Numbers DEF TrashGrows, Types, StoreTypes
  <2>3. \A i \in 1..Len(c.pairs) : c.pairs[i][2] \in Nat /\ c.pairs[i][2] < next_uid["Trash"]
    BY <2>1, PlaceParts DEF InTurn
  <2>4. \A i \in 1..Len(c.pairs) : c.pairs[i][2] < next_uid'["Trash"]
    BY <2>2, <2>3
  <2>5. ASSUME d.pc \in {"sent", "applied"}
        PROVE  LET u == uidOf'["Trash"][c.items[1][1]] IN
               u = 0 \/ \A i \in 1..Len(c.pairs) : c.pairs[i][2] < u
    <3> DEFINE m == c.items[1][1]
               old == uidOf["Trash"][m]
               new == uidOf'["Trash"][m]
    <3>1. c.pc \in {"sent", "applied"}
      BY <2>5 DEF Batches
    <3>2. m \in Messages
      BY <3>1, PlaceParts
    <3>3. old = 0 \/ \A i \in 1..Len(c.pairs) : c.pairs[i][2] < old
      BY <2>1, <3>1 DEF InTurn
    <3>4. new \in Nat /\ (new = 0 \/ new = old \/ new >= next_uid["Trash"])
      BY <3>2 DEF TrashGrows
    <3> HIDE DEF m, old, new
    <3>5. new = 0 \/ \A i \in 1..Len(c.pairs) : c.pairs[i][2] < new
      BY <2>2, <2>3, <3>3, <3>4
    <3> QED  BY <3>5 DEF new, m
  <2>6. Rises(c.pairs, 2)
    BY <2>1 DEF InTurn
  <2> QED  BY <2>1, <2>4, <2>5, <2>6
<1> QED  BY <1>1, <1>2 DEF InTurn

\* When every caller goes on as it was or has no batch, and Trash only grows.
LEMMA BatchesKept ==
  ASSUME Types, Types', BatchInv, TrashGrows,
         \A c \in Sessions : Batches(caller[c], caller'[c]) \/ Rests(caller'[c])
  PROVE  BatchInv'
<1>1. /\ next_uid'["Trash"] \in Nat /\ uidOf'["Trash"] \in [Messages -> Nat]
      /\ TrashBelowNext'
  BY Numbers DEF Types, StoreTypes, TrashGrows
<1>2. ASSUME NEW c \in Sessions
      PROVE  InOrder(caller'[c]) /\ InTurn(caller'[c], uidOf'["Trash"], next_uid'["Trash"])
  <2>1. caller[c] \in Places /\ (caller[c].pc \in {"sent", "applied"} => caller[c].items # <<>>)
    BY DEF Types, CallerTypes
  <2>2. InOrder(caller[c]) /\ InTurn(caller[c], uidOf["Trash"], next_uid["Trash"])
    BY DEF BatchInv
  <2>3. CASE Rests(caller'[c])
    BY <2>3, RestsInTurn
  <2>4. CASE Batches(caller[c], caller'[c])
    BY <1>1, <2>1, <2>2, <2>4, BatchStaysInTurn
  <2> QED  BY <2>3, <2>4
<1> QED  BY <1>1, <1>2 DEF BatchInv, InOrder, InTurn, Rises, TrashBelowNext

LEMMA StoreStays ==
  ASSUME BatchInv, UNCHANGED store, Types
  PROVE  TrashGrows
<1>1. next_uid["Trash"] \in Nat
  BY Numbers DEF Types, StoreTypes
<1> QED  BY <1>1 DEF store, TrashGrows, BatchInv, TrashBelowNext

\* The callers of each step
LEMMA LapseBatches ==
  ASSUME NEW lost, NEW callers \in [Sessions -> Places]
  PROVE  \A c \in Sessions : Batches(callers[c], Lapse(callers, lost)[c])
<1> DEFINE me(c) == [callers[c] EXCEPT !.done = callers[c].done \ lost,
                                       !.expect = callers[c].expect \ lost]
<1>1. Lapse(callers, lost) = [c \in Sessions |-> me(c)]
  BY DEF Lapse
<1>2. ASSUME NEW c \in Sessions PROVE Batches(callers[c], me(c))
  BY DEF Places, Batches
<1> HIDE DEF me
<1> QED  BY <1>1, <1>2

LEMMA WakeBatches ==
  ASSUME Types, NEW s \in Sessions, NEW landed \in BOOLEAN, NEW lost,
         caller' = Lapse(Wake(s, landed), lost)
  PROVE  \A c \in Sessions : Batches(caller[c], caller'[c]) \/ Rests(caller'[c])
<1>1. caller \in [Sessions -> Places]
  BY DEF Types, CallerTypes
<1> DEFINE up(c) ==
      IF caller[c].on # s THEN caller[c]
      ELSE IF caller[c].pc = "stale" THEN [caller[c] EXCEPT !.pc = "unstale", !.on = NoOne]
      ELSE IF landed /\ caller[c].items # <<>>
           THEN [caller[c] EXCEPT !.pc = "first", !.on = NoOne]
           ELSE Idle
<1>2. Wake(s, landed) = [c \in Sessions |-> up(c)]
  BY DEF Wake
<1>3. ASSUME NEW c \in Sessions
      PROVE  up(c) \in Places /\ (Batches(caller[c], up(c)) \/ Rests(up(c)))
  <2>1. caller[c] \in Places
    BY <1>1
  <2>2. CASE caller[c].on # s
    BY <2>1, <2>2 DEF Batches
  <2>3. CASE caller[c].on = s /\ caller[c].pc = "stale"
    BY <2>1, <2>3 DEF Places, Pcs, Batches
  <2>4. CASE caller[c].on = s /\ caller[c].pc # "stale"
    <3>1. Idle \in Places /\ Rests(Idle)
      BY RecordTypes DEF Rests, Idle
    <3>2. LET y == [caller[c] EXCEPT !.pc = "first", !.on = NoOne] IN
          y \in Places /\ Batches(caller[c], y)
      BY <2>1 DEF Places, Pcs, Batches
    <3> QED  BY <2>4, <3>1, <3>2
  <2> QED  BY <2>2, <2>3, <2>4
<1> HIDE DEF up
<1>4. Wake(s, landed) \in [Sessions -> Places] /\ \A c \in Sessions : Wake(s, landed)[c] = up(c)
  BY <1>2, <1>3
<1>5. \A c \in Sessions : Batches(up(c), caller'[c])
  BY <1>4, LapseBatches
<1> QED  BY <1>3, <1>5 DEF Batches, Rests

\* The caller s enters sync() as c.
Asks(s, c) ==
  /\ \A x \in Sessions \ {s} : caller'[x] = caller[x]
  /\ Batches(c, caller'[s]) /\ caller'[s].pc \notin {"sent", "applied"}
LEMMA WaitsBatches ==
  ASSUME Types, NEW s \in Sessions, NEW c \in Places, NEW v, NEW gen,
         StartOwn(s, c, v, gen) \/ Join(s, c, v) \/ WaitStale(s, c, v, gen)
  PROVE  Asks(s, c)
<1>1. caller \in [Sessions -> Places]
  BY DEF Types, CallerTypes
<1>2. ASSUME NEW t
      PROVE  /\ LET y == [c EXCEPT !.pc = "join", !.on = t] IN
                Batches(c, y) /\ y.pc \notin {"sent", "applied"}
             /\ LET y == [c EXCEPT !.pc = "stale", !.on = t, !.gen = gen] IN
                Batches(c, y) /\ y.pc \notin {"sent", "applied"}
  BY DEF Places, Batches
<1>3. PICK y, t : /\ caller' = [caller EXCEPT ![s] = y]
                  /\ \/ y = [c EXCEPT !.pc = "join", !.on = t]
                     \/ y = [c EXCEPT !.pc = "stale", !.on = t, !.gen = gen]
  BY DEF StartOwn, Join, WaitStale
<1>4. Batches(c, y) /\ y.pc \notin {"sent", "applied"}
  BY <1>2, <1>3
<1>5. caller'[s] = y /\ \A x \in Sessions \ {s} : caller'[x] = caller[x]
  BY <1>1, <1>3
<1> QED  BY <1>4, <1>5 DEF Asks

LEMMA EnterBatches ==
  ASSUME Types, NEW s \in Sessions, NEW c \in Places, NEW v, NEW gen, EnterSync(s, c, v, gen)
  PROVE  Asks(s, c)
BY WaitsBatches DEF EnterSync

\* The caller s begins the next turn of c.
LEMMA TurnBatches ==
  ASSUME NEW c \in Places
  PROVE  /\ BeginTurn(c).items = c.items /\ BeginTurn(c).pairs = c.pairs
         /\ BeginTurn(c).own <=> c.own /\ uidOf["Trash"][c.items[1][1]] = 0
<1> DEFINE own == c.own /\ uidOf["Trash"][c.items[1][1]] = 0
<1>1. BeginTurn(c) = [c EXCEPT !.pc = "sent", !.on = NoOne, !.own = own]
  BY DEF BeginTurn
<1>2. own \in BOOLEAN /\ (own <=> c.own /\ uidOf["Trash"][c.items[1][1]] = 0)
  OBVIOUS
<1> HIDE DEF own
<1>3. /\ BeginTurn(c).items = c.items /\ BeginTurn(c).pairs = c.pairs /\ BeginTurn(c).own = own
  BY <1>1 DEF Places
<1> QED  BY <1>2, <1>3

\* Of a batch that begins its first turn, nothing is copied yet.
LEMMA TurnInTurn ==
  ASSUME NEW c \in Places, InOrder(c), InTurn(c, uidOf["Trash"], next_uid["Trash"])
  PROVE  /\ InOrder(BeginTurn(c))
         /\ InTurn(BeginTurn(c), uidOf["Trash"], next_uid["Trash"])
<1> DEFINE d == BeginTurn(c)
<1>1. d.items = c.items /\ d.pairs = c.pairs
      /\ (d.own <=> c.own /\ uidOf["Trash"][c.items[1][1]] = 0)
  BY TurnBatches
<1> HIDE DEF d
<1>2. InOrder(d)
  BY <1>1 DEF InOrder
<1>3. InTurn(d, uidOf["Trash"], next_uid["Trash"])
  BY <1>1 DEF InTurn
<1> QED  BY <1>2, <1>3 DEF d

\* The messages of a command are in the order of their UIDs.
LEMMA SelectionInOrder ==
  ASSUME Types, NEW v \in Views, NEW chosen \in SUBSET Messages,
         NEW items \in Selections(v, chosen)
  PROVE  /\ Rises(items, 2)
         /\ \A i, j \in 1..Len(items) : i < j => items[i][1] # items[j][1]
<1>1. IsFiniteSet(chosen)
  <2>1. IsFiniteSet(Messages)
    BY CopyAssumption, FS_Interval DEF Messages
  <2> QED  BY <2>1, FS_Subset
<1>2. Cardinality(chosen) \in Nat
  BY <1>1, FS_CardinalityType
<1>3. PICK q \in [1..Cardinality(chosen) -> chosen] :
        /\ items = [i \in DOMAIN q |-> <<q[i], latest[v][q[i]]>>]
        /\ InUidOrder(v, q)
  BY DEF Selections
<1>4. \A i \in DOMAIN q : <<q[i], latest[v][q[i]]>> \in Messages \X Nat
  BY DEF Types, StoreTypes
<1>5. items \in [1..Cardinality(chosen) -> Messages \X Nat]
  BY <1>3, <1>4
<1>6. items \in Seq(Messages \X Nat)
  BY <1>2, <1>5, SeqDef
<1>7. Len(items) = Cardinality(chosen)
  BY <1>2, <1>5, <1>6, LenProperties
<1>8. \A i \in 1..Len(items) : items[i][1] = q[i] /\ items[i][2] = latest[v][q[i]] /\ q[i] \in Messages
  BY <1>3, <1>7
<1>9. \A i, j \in 1..Len(items) : i < j => latest[v][q[i]] < latest[v][q[j]]
  BY <1>3, <1>7 DEF InUidOrder
<1>10. \A m \in Messages : latest[v][m] \in Nat
  BY DEF Types, StoreTypes
<1>11. \A i, j \in 1..Len(items) : i < j => q[i] # q[j]
  BY <1>8, <1>9, <1>10
<1> QED  BY <1>8, <1>9, <1>11 DEF Rises

\* What a listing of Trash does to its UIDs, and the answer of a PATCH.
LEMMA UidsGrow ==
  ASSUME Types, TrashBelowNext, NEW shown \in SUBSET Messages, NEW m \in Messages
  PROVE  LET u == EnsureUids("Trash", shown)[m]
             next == next_uid["Trash"] + Cardinality(Unseen("Trash", shown))
         IN /\ next \in Nat /\ next >= next_uid["Trash"] /\ 0 < next_uid["Trash"]
            /\ m \notin Unseen("Trash", shown) => u = uidOf["Trash"][m]
            /\ m \in Unseen("Trash", shown) => u >= next_uid["Trash"] /\ u < next
            /\ m \in shown => u < next
<1> DEFINE S == Unseen("Trash", shown)
           B == {k \in S : k < m}
           old == next_uid["Trash"]
           u == EnsureUids("Trash", shown)[m]
<1>1. IsFiniteSet(S)
  <2>1. IsFiniteSet(Messages)
    BY CopyAssumption, FS_Interval DEF Messages
  <2> QED  BY <2>1, FS_Subset DEF Unseen
<1>2. Cardinality(S) \in Nat /\ Cardinality(B) \in Nat /\ Cardinality(B) <= Cardinality(S)
      /\ (Cardinality(B) = Cardinality(S) => B = S)
  <2>1. B \in SUBSET S
    OBVIOUS
  <2> QED  BY <1>1, <2>1, FS_Subset, FS_CardinalityType
<1>3. m \in S => Cardinality(B) < Cardinality(S)
  <2>1. m \notin B
    BY Numbers
  <2> QED  BY <1>2, <2>1
<1>4. u = IF m \in S THEN old + Cardinality(B) ELSE uidOf["Trash"][m]
  BY DEF EnsureUids
<1>5. m \in shown /\ m \notin S => u = uidOf["Trash"][m]
  BY <1>4
<1>6. old \in Nat /\ uidOf["Trash"][m] \in Nat /\ uidOf["Trash"][m] < old
  BY Numbers DEF Types, StoreTypes, TrashBelowNext
<1> HIDE DEF S, B, old, u
<1>7. /\ old + Cardinality(S) \in Nat /\ old + Cardinality(S) >= old /\ 0 < old
      /\ m \notin S => u = uidOf["Trash"][m]
      /\ m \in S => u >= old /\ u < old + Cardinality(S)
      /\ m \in shown => u < old + Cardinality(S)
  BY <1>2, <1>3, <1>4, <1>6
<1> QED  BY <1>7 DEF S, old, u

LEMMA LandGrows ==
  ASSUME Types, BatchInv, NEW s \in Sessions, Lands(s)
  PROVE  TrashGrows
<1>1. TrashBelowNext /\ ShownNow(s) \in SUBSET Messages /\ task[s].view \in Views
  BY TaskShapes DEF BatchInv
<1>2. /\ uidOf \in [Views -> [Messages -> Nat]] /\ next_uid \in [Views -> Nat]
      /\ "Trash" \in Views /\ next_uid["Trash"] \in Nat
  BY Numbers DEF Types, StoreTypes
<1>3. CASE task[s].view # "Trash"
  <2>1. uidOf'["Trash"] = uidOf["Trash"] /\ next_uid'["Trash"] = next_uid["Trash"]
    BY <1>1, <1>2, <1>3 DEF Lands
  <2> QED  BY <1>1, <1>2, <2>1 DEF TrashGrows, TrashBelowNext
<1>4. CASE task[s].view = "Trash"
  <2> DEFINE shown == ShownNow(s)
             next == next_uid["Trash"] + Cardinality(Unseen("Trash", shown))
  <2>1. /\ uidOf'["Trash"] = TombstoneMissing(EnsureUids("Trash", shown), shown)
        /\ next_uid'["Trash"] = next
    BY <1>2, <1>4 DEF Lands, UidsNow
  <2>2. \A m \in Messages :
          LET u == EnsureUids("Trash", shown)[m] IN
          /\ next \in Nat /\ next >= next_uid["Trash"] /\ 0 < next_uid["Trash"]
          /\ m \notin Unseen("Trash", shown) => u = uidOf["Trash"][m]
          /\ m \in Unseen("Trash", shown) => u >= next_uid["Trash"] /\ u < next
          /\ m \in shown => u < next
    BY <1>1, UidsGrow
  <2>3. \A m \in Messages :
          uidOf'["Trash"][m] = IF m \in shown THEN EnsureUids("Trash", shown)[m] ELSE 0
    BY <2>1 DEF TombstoneMissing
  <2>4. next \in Nat /\ next >= next_uid["Trash"] /\ 0 < next
    BY <1>2, <2>2, Numbers
  <2> HIDE DEF next, shown
  <2>5. ASSUME NEW m \in Messages
        PROVE  /\ \/ uidOf'["Trash"][m] \in {0, uidOf["Trash"][m]}
                  \/ uidOf'["Trash"][m] >= next_uid["Trash"]
               /\ uidOf'["Trash"][m] < next
    BY <2>2, <2>3, <2>4
  <2> QED  BY <2>1, <2>4, <2>5 DEF TrashGrows, TrashBelowNext
<1> QED  BY <1>3, <1>4

LEMMA PatchGrows ==
  ASSUME Types, BatchInv, NEW s \in Sessions, PatchAnswered(s)
  PROVE  /\ TrashGrows
         /\ \A m \in Messages \ {Answered(s)} : uidOf'["Trash"][m] = uidOf["Trash"][m]
         /\ UidNow(s) < next_uid'["Trash"]
         /\ IF uidOf["Trash"][Answered(s)] = 0 THEN UidNow(s) = next_uid["Trash"]
                                               ELSE UidNow(s) = uidOf["Trash"][Answered(s)]
<1> DEFINE m == Answered(s)
           next == next_uid["Trash"]
<1>1. /\ m \in Messages /\ UidNow(s) \in Nat
      /\ uidOf' = [uidOf EXCEPT !["Trash"] = [uidOf["Trash"] EXCEPT ![m] = UidNow(s)]]
  BY PatchAnsweredShape, RestType
<1>2. /\ uidOf \in [Views -> [Messages -> Nat]] /\ next_uid \in [Views -> Nat]
      /\ "Trash" \in Views /\ next \in Nat
  BY Numbers DEF Types, StoreTypes
<1>3. next_uid'["Trash"] = IF uidOf["Trash"][m] = 0 THEN next + 1 ELSE next
  BY <1>2 DEF PatchAnswered, Answered
<1>4. /\ uidOf'["Trash"][m] = UidNow(s)
      /\ \A k \in Messages \ {m} : uidOf'["Trash"][k] = uidOf["Trash"][k]
  BY <1>1, <1>2
<1>5. IF uidOf["Trash"][m] = 0 THEN UidNow(s) = next ELSE UidNow(s) = uidOf["Trash"][m]
  <2>1. Unseen("Trash", {m}) = IF uidOf["Trash"][m] = 0 THEN {m} ELSE {}
    BY DEF Unseen
  <2>2. {k \in {m} : k < m} = {}
    BY <1>1, Numbers
  <2>3. Cardinality({}) = 0
    BY FS_EmptySet
  <2>4. UidNow(s) = IF m \in Unseen("Trash", {m})
                    THEN next + Cardinality({k \in Unseen("Trash", {m}) : k < m})
                    ELSE uidOf["Trash"][m]
    BY <1>1 DEF UidNow, EnsureUids
  <2> HIDE DEF m, next
  <2>5. CASE uidOf["Trash"][m] = 0
    <3>1. UidNow(s) = next + Cardinality({k \in {m} : k < m})
      BY <2>1, <2>4, <2>5
    <3>2. UidNow(s) = next + 0
      BY <2>2, <2>3, <3>1
    <3> QED  BY <1>2, <2>5, <3>2
  <2>6. CASE uidOf["Trash"][m] # 0
    BY <2>1, <2>4, <2>6
  <2> QED  BY <2>5, <2>6
<1>6. \A k \in Messages : uidOf["Trash"][k] \in Nat /\ uidOf["Trash"][k] < next
  BY <1>2 DEF BatchInv, TrashBelowNext
<1> HIDE DEF m, next
<1>7. UidNow(s) < next_uid'["Trash"]
  BY <1>1, <1>2, <1>3, <1>5, <1>6
<1>8. next_uid'["Trash"] \in Nat /\ next_uid'["Trash"] >= next
  BY <1>2, <1>3
<1>9. ASSUME NEW k \in Messages
      PROVE  /\ uidOf'["Trash"][k] \in {0, uidOf["Trash"][k]} \/ uidOf'["Trash"][k] >= next
             /\ uidOf'["Trash"][k] < next_uid'["Trash"]
  <2>1. CASE k = m
    BY <1>2, <1>4, <1>5, <1>7, <2>1
  <2>2. CASE k # m
    BY <1>2, <1>4, <1>6, <1>8, <2>2
  <2> QED  BY <2>1, <2>2
<1>10. TrashGrows
  BY <1>8, <1>9 DEF TrashGrows, TrashBelowNext, next
<1> QED  BY <1>4, <1>5, <1>7, <1>10 DEF m, next

\* The batch of s after the answer of a PATCH.
LEMMA AnswerMoves ==
  ASSUME Types, NEW s \in Sessions, PatchAnswered(s)
  PROVE  /\ \A x \in Sessions \ {s} : caller'[x] = caller[x]
         /\ caller'[s].items = Tail(caller[s].items)
         /\ caller'[s].pairs = Append(caller[s].pairs, <<caller[s].items[1][2], UidNow(s)>>)
         /\ caller'[s].own => caller[s].own
         /\ caller'[s].own /\ caller'[s].pc \in {"sent", "applied"} =>
              uidOf["Trash"][caller'[s].items[1][1]] = 0
<1> DEFINE pairs == Append(caller[s].pairs, <<caller[s].items[1][2], UidNow(s)>>)
           d == caller'[s]
<1>1. caller[s].pc = "applied" /\ caller \in [Sessions -> Places]
  BY PatchAnsweredShape DEF Types, CallerTypes
<1>2. Rest(s) \in Places /\ Rest(s).items = Tail(caller[s].items) /\ DoneNow(s) \in SUBSET Messages
  BY <1>1, RestType
<1>3. Rest(s).pairs = pairs /\ Rest(s).own = caller[s].own
  <2>1. caller[s] \in Places
    BY <1>1
  <2> HIDE DEF pairs
  <2>2. Rest(s) = [caller[s] EXCEPT !.items = Tail(caller[s].items), !.pairs = pairs, !.done = DoneNow(s)]
    BY DEF Rest, pairs
  <2> QED  BY <2>1, <2>2 DEF Places
<1> HIDE DEF pairs
<1>4. CASE Rest(s).items # <<>>
  <2>1. caller' = [caller EXCEPT ![s] = BeginTurn(Rest(s))]
    BY <1>4 DEF PatchAnswered, Rest, Answered, UidNow, DoneNow
  <2>2. d = BeginTurn(Rest(s)) /\ \A x \in Sessions \ {s} : caller'[x] = caller[x]
    BY <1>1, <2>1
  <2> QED  BY <1>2, <1>3, <2>2, TurnBatches DEF pairs
<1>5. CASE Rest(s).items = <<>>
  <2>1. IF caller[s].op = "copy"
        THEN caller' = [caller EXCEPT ![s] = [Idle EXCEPT !.pairs = Rest(s).pairs, !.own = Rest(s).own]]
        ELSE EnterSync(s, [Rest(s) EXCEPT !.expect = gone'], caller[s].view, generation'[caller[s].view])
    BY <1>5 DEF PatchAnswered, Rest, Answered, UidNow, DoneNow
  <2>2. CASE caller[s].op = "copy"
    <3> DEFINE me == [Idle EXCEPT !.pairs = Rest(s).pairs, !.own = Rest(s).own]
    <3>1. me.pc = "idle" /\ me.pairs = pairs /\ me.own = caller[s].own /\ me.items = <<>>
      BY <1>3, RecordTypes DEF Places
    <3>2. d = me /\ \A x \in Sessions \ {s} : caller'[x] = caller[x]
      BY <1>1, <2>1, <2>2
    <3> HIDE DEF me
    <3> QED  BY <1>2, <1>5, <3>1, <3>2 DEF pairs
  <2>3. CASE caller[s].op # "copy"
    <3> DEFINE c == [Rest(s) EXCEPT !.expect = gone']
    <3>1. gone' \in SUBSET Messages
      BY <1>2, PatchAnsweredShape DEF Types, MessageTypes, ToldNow
    <3>2. /\ c \in Places /\ c.items = Rest(s).items /\ c.pairs = Rest(s).pairs /\ c.own = Rest(s).own
      BY <1>2, <3>1 DEF Places
    <3>3. EnterSync(s, c, caller[s].view, generation'[caller[s].view])
      BY <2>1, <2>3
    <3> HIDE DEF c
    <3>4. Asks(s, c)
      BY <3>2, <3>3, EnterBatches
    <3> QED  BY <1>2, <1>3, <3>2, <3>4 DEF Asks, Batches, pairs
  <2> QED  BY <2>2, <2>3
<1> QED  BY <1>4, <1>5

\* The pair that a PATCH adds comes last, and the batch stays in order.
LEMMA AnswerInTurn ==
  ASSUME Types, Types', BatchInv, NEW s \in Sessions, PatchAnswered(s)
  PROVE  /\ InOrder(caller'[s])
         /\ InTurn(caller'[s], uidOf'["Trash"], next_uid'["Trash"])
<1> DEFINE c == caller[s]
           d == caller'[s]
           I == c.items
           J == d.items
           P == c.pairs
           Q == d.pairs
           w == UidNow(s)
           N == Len(P)
<1>1. /\ c \in Places /\ d \in Places /\ I # <<>> /\ c.pc = "applied" /\ w \in Nat
      /\ d.pc \in {"sent", "applied"} => J # <<>>
  BY PatchAnsweredShape, RestType DEF Types, CallerTypes
<1>2. /\ J = Tail(I) /\ Q = Append(P, <<I[1][2], w>>)
      /\ d.own => c.own
      /\ d.own /\ d.pc \in {"sent", "applied"} => uidOf["Trash"][J[1][1]] = 0
  BY AnswerMoves
<1>3. InOrder(c) /\ InTurn(c, uidOf["Trash"], next_uid["Trash"])
  BY DEF BatchInv
<1>4. /\ Answered(s) = I[1][1] /\ w < next_uid'["Trash"]
      /\ \A m \in Messages \ {I[1][1]} : uidOf'["Trash"][m] = uidOf["Trash"][m]
      /\ IF uidOf["Trash"][I[1][1]] = 0 THEN w = next_uid["Trash"] ELSE w = uidOf["Trash"][I[1][1]]
  BY PatchGrows DEF Answered
<1>5. /\ next_uid["Trash"] \in Nat /\ next_uid'["Trash"] \in Nat
      /\ next_uid'["Trash"] >= next_uid["Trash"]
  BY PatchGrows, Numbers DEF Types, StoreTypes, TrashGrows
<1>6. /\ I \in Seq(Messages \X Nat) /\ P \in Seq(Nat \X Nat) /\ N \in Nat /\ Len(I) \in Nat
      /\ 1 \in 1..Len(I)
      /\ \A i \in 1..Len(I) : I[i][1] \in Messages /\ I[i][2] \in Nat
      /\ \A i \in 1..N : P[i][1] \in Nat /\ P[i][2] \in Nat
  BY <1>1, PlaceParts
<1>7. Len(J) = Len(I) - 1 /\ \A i \in 1..Len(J) : J[i] = I[i + 1] /\ i + 1 \in 1..Len(I)
  <2> HIDE DEF I, J
  <2>1. Len(Tail(I)) = Len(I) - 1 /\ \A i \in 1..Len(I) - 1 : Tail(I)[i] = I[i + 1]
    BY <1>1, <1>6, HeadTailProperties DEF I
  <2>2. J = Tail(I)
    BY <1>2
  <2>3. \A i \in 1..Len(I) - 1 : i + 1 \in 1..Len(I)
    BY <1>6
  <2> QED  BY <2>1, <2>2, <2>3
<1>8. /\ Len(Q) = N + 1 /\ \A i \in 1..N : Q[i] = P[i]
      /\ Q[N + 1][1] = I[1][2] /\ Q[N + 1][2] = w
  <2> HIDE DEF I, P, Q, w, N
  <2>1. <<I[1][2], w>> \in Nat \X Nat
    BY <1>1, <1>6 DEF w
  <2> QED  BY <1>2, <1>6, <2>1, AppendProperties DEF N, Q, P, I, w
<1>9. /\ \A i, j \in 1..Len(I) : i < j => I[i][2] < I[j][2]
      /\ \A i, j \in 1..Len(I) : i < j => I[i][1] # I[j][1]
      /\ \A i, j \in 1..N : i < j => P[i][1] < P[j][1]
      /\ \A i \in 1..N, j \in 1..Len(I) : P[i][1] < I[j][2]
  BY <1>3 DEF InOrder, Rises
<1>10. c.own => /\ \A i, j \in 1..N : i < j => P[i][2] < P[j][2]
                /\ \A i \in 1..N : P[i][2] < next_uid["Trash"]
                /\ LET u == uidOf["Trash"][I[1][1]] IN u = 0 \/ \A i \in 1..N : P[i][2] < u
  BY <1>1, <1>3 DEF InTurn, Rises
<1> HIDE DEF I, J, P, Q, w, N
<1>11. InOrder(d)
  <2>1. \A i, j \in 1..Len(J) : i < j => J[i][2] < J[j][2] /\ J[i][1] # J[j][1]
    <3> SUFFICES ASSUME NEW i \in 1..Len(J), NEW j \in 1..Len(J), i < j
                 PROVE  J[i][2] < J[j][2] /\ J[i][1] # J[j][1]
      OBVIOUS
    <3>1. J[i] = I[i + 1] /\ i + 1 \in 1..Len(I) /\ J[j] = I[j + 1] /\ j + 1 \in 1..Len(I)
      BY <1>7
    <3>2. i + 1 < j + 1
      BY <1>6, <1>7
    <3>3. I[i + 1][2] < I[j + 1][2] /\ I[i + 1][1] # I[j + 1][1]
      BY <1>9, <3>1, <3>2
    <3> QED  BY <3>1, <3>3
  <2>2. \A i, j \in 1..Len(Q) : i < j => Q[i][1] < Q[j][1]
    <3> SUFFICES ASSUME NEW i \in 1..N + 1, NEW j \in 1..N + 1, i < j PROVE Q[i][1] < Q[j][1]
      BY <1>8
    <3>1. i \in 1..N
      BY <1>6
    <3>2. CASE j = N + 1
      <4>1. Q[i] = P[i] /\ P[i][1] < I[1][2]
        BY <1>6, <1>8, <1>9, <3>1
      <4>2. Q[j][1] = I[1][2]
        BY <1>8, <3>2
      <4> QED  BY <4>1, <4>2
    <3>3. CASE j # N + 1
      <4>1. j \in 1..N
        BY <1>6, <3>3
      <4> QED  BY <1>8, <1>9, <3>1, <4>1
    <3> QED  BY <3>2, <3>3
  <2>3. \A i \in 1..Len(Q), j \in 1..Len(J) : Q[i][1] < J[j][2]
    <3> SUFFICES ASSUME NEW i \in 1..N + 1, NEW j \in 1..Len(J) PROVE Q[i][1] < J[j][2]
      BY <1>8
    <3>1. J[j] = I[j + 1] /\ j + 1 \in 1..Len(I) /\ 1 < j + 1
      BY <1>6, <1>7
    <3>2. CASE i = N + 1
      BY <1>6, <1>8, <1>9, <3>1, <3>2
    <3>3. CASE i # N + 1
      <4>1. i \in 1..N
        BY <1>6, <3>3
      <4> QED  BY <1>8, <1>9, <3>1, <4>1
    <3> QED  BY <3>2, <3>3
  <2> QED  BY <2>1, <2>2, <2>3 DEF InOrder, Rises, J, Q
<1>12. ASSUME d.own
       PROVE  /\ Rises(Q, 2) /\ \A i \in 1..Len(Q) : Q[i][2] < next_uid'["Trash"]
              /\ d.pc \in {"sent", "applied"} => uidOf'["Trash"][J[1][1]] = 0
  <2>1. /\ \A i, j \in 1..N : i < j => P[i][2] < P[j][2]
        /\ \A i \in 1..N : P[i][2] < next_uid["Trash"]
        /\ LET u == uidOf["Trash"][I[1][1]] IN u = 0 \/ \A i \in 1..N : P[i][2] < u
    BY <1>2, <1>10, <1>12
  <2>2. \A i \in 1..N : P[i][2] < w
    BY <1>4, <2>1
  <2>3. \A i, j \in 1..N + 1 : i < j => Q[i][2] < Q[j][2]
    <3> SUFFICES ASSUME NEW i \in 1..N + 1, NEW j \in 1..N + 1, i < j PROVE Q[i][2] < Q[j][2]
      OBVIOUS
    <3>1. i \in 1..N
      BY <1>6
    <3>2. CASE j = N + 1
      BY <1>8, <2>2, <3>1, <3>2
    <3>3. CASE j # N + 1
      <4>1. j \in 1..N
        BY <1>6, <3>3
      <4> QED  BY <1>8, <2>1, <3>1, <4>1
    <3> QED  BY <3>2, <3>3
  <2>4. \A i \in 1..N + 1 : Q[i][2] < next_uid'["Trash"]
    <3> SUFFICES ASSUME NEW i \in 1..N + 1 PROVE Q[i][2] < next_uid'["Trash"]
      OBVIOUS
    <3>1. CASE i = N + 1
      BY <1>4, <1>8, <3>1
    <3>2. CASE i # N + 1
      <4>1. i \in 1..N
        BY <1>6, <3>2
      <4>2. Q[i] = P[i] /\ P[i][2] \in Nat /\ P[i][2] < next_uid["Trash"]
        BY <1>6, <1>8, <2>1, <4>1
      <4>3. P[i][2] < next_uid'["Trash"]
        BY <1>5, <4>2
      <4> QED  BY <4>2, <4>3
    <3> QED  BY <3>1, <3>2
  <2>5. ASSUME d.pc \in {"sent", "applied"} PROVE uidOf'["Trash"][J[1][1]] = 0
    <3>1. J # <<>> /\ uidOf["Trash"][J[1][1]] = 0
      BY <1>1, <1>2, <1>12, <2>5
    <3>2. 1 \in 1..Len(J)
      BY <1>1, <3>1, PlaceParts DEF J
    <3>3. J[1] = I[2] /\ 2 \in 1..Len(I)
      BY <1>6, <1>7, <3>2
    <3>4. J[1][1] \in Messages /\ J[1][1] # I[1][1]
      BY <1>6, <1>9, <3>3
    <3> QED  BY <1>4, <3>1, <3>4
  <2> QED  BY <1>8, <2>3, <2>4, <2>5 DEF Rises
<1>13. InTurn(d, uidOf'["Trash"], next_uid'["Trash"])
  BY <1>12 DEF InTurn, J, Q
<1> QED  BY <1>11, <1>13

\* The caller s goes on to a batch in order, while the others and Trash stay.
LEMMA OneBatchKept ==
  ASSUME Types, BatchInv, UNCHANGED store, NEW s \in Sessions,
         \A x \in Sessions \ {s} : caller'[x] = caller[x],
         InOrder(caller'[s]), InTurn(caller'[s], uidOf["Trash"], next_uid["Trash"])
  PROVE  BatchInv'
<1>1. \A x \in Sessions : /\ InOrder(caller'[x])
                          /\ InTurn(caller'[x], uidOf["Trash"], next_uid["Trash"])
  BY DEF BatchInv
<1> QED  BY <1>1 DEF BatchInv, TrashBelowNext, store, InOrder, InTurn, Rises

\* A batch that has not begun is in turn, wherever its caller is.
LEMMA NewInTurn ==
  ASSUME NEW c, NEW d, InOrder(c), c.pairs = <<>>, d.items = c.items, d.pairs = c.pairs,
         NEW trash, NEW next
  PROVE  InOrder(d) /\ InTurn(d, trash, next)
<1>1. Len(<<>>) = 0 /\ 1..0 = {}
  OBVIOUS
<1>2. InTurn(d, trash, next)
  BY <1>1 DEF InTurn, Rises
<1> QED  BY <1>2 DEF InOrder

\* The caller s enters sync() with a batch in order.
LEMMA AsksKeepsBatches ==
  ASSUME Types, Types', BatchInv, UNCHANGED store, NEW s \in Sessions, NEW c \in Places, Asks(s, c),
         InOrder(c), c.pc \notin {"sent", "applied"}, InTurn(c, uidOf["Trash"], next_uid["Trash"])
  PROVE  BatchInv'
<1>1. Batches(c, caller'[s]) /\ \A x \in Sessions \ {s} : caller'[x] = caller[x]
  BY DEF Asks
<1>2. InOrder(caller'[s]) /\ InTurn(caller'[s], uidOf["Trash"], next_uid["Trash"])
  BY <1>1 DEF Batches, InOrder, InTurn
<1> QED  BY <1>1, <1>2, OneBatchKept

LEMMA BatchInvKept ==
  ASSUME Types, Types', BatchInv, [Next]_vars
  PROVE  BatchInv'
<1>1. caller \in [Sessions -> Places]
  BY DEF Types, CallerTypes
<1>2. CASE Others
  <2>1. UNCHANGED store
    BY <1>2, OthersShape
  <2>2. \/ UNCHANGED caller
        \/ \E m \in Messages : caller' = Lapse(caller, {m})
    BY <1>2 DEF Others, OutsideChange, HoldExpires, IndexCatchesUp, PinExpires, vars
  <2>3. \A c \in Sessions : Batches(caller[c], caller'[c])
    <3>1. CASE UNCHANGED caller
      BY <3>1 DEF Batches
    <3>2. ASSUME NEW m \in Messages, caller' = Lapse(caller, {m})
          PROVE  \A c \in Sessions : Batches(caller[c], caller'[c])
      BY <1>1, <3>2, LapseBatches
    <3> QED  BY <2>2, <3>1, <3>2
  <2> QED  BY <2>1, <2>3, StoreStays, BatchesKept
<1>3. ASSUME NEW s \in Sessions, NEW v \in Views, Noop(s, v) PROVE BatchInv'
  <2> DEFINE c == [Idle EXCEPT !.op = "noop", !.view = v, !.expect = gone]
  <2>1. c \in Places /\ c.items = <<>> /\ c.pairs = <<>> /\ c.pc = "idle"
    BY RecordTypes DEF Places, Types, MessageTypes, Idle
  <2>2. EnterSync(s, c, v, generation[v]) /\ UNCHANGED store
    BY <1>3 DEF Noop
  <2> HIDE DEF c
  <2>3. Asks(s, c) /\ Rests(c)
    BY <2>1, <2>2, EnterBatches DEF Rests
  <2> QED  BY <2>1, <2>2, <2>3, RestsInTurn, AsksKeepsBatches
<1>4. ASSUME NEW s \in Sessions, NEW op \in {"copy", "move"}, NEW v \in Views,
             NEW chosen \in SUBSET Messages, BeginCopy(s, op, v, chosen)
      PROVE  BatchInv'
  <2>1. UNCHANGED store /\ chosen # {}
    BY <1>4 DEF BeginCopy
  <2>2. PICK items \in Selections(v, chosen) :
          LET c == [Idle EXCEPT !.op = op, !.view = v, !.items = items] IN
          IF "Trash" \in listed
          THEN caller' = [caller EXCEPT ![s] = BeginTurn(c)] /\ UNCHANGED sync
          ELSE EnterSync(s, c, "Trash", generation["Trash"])
    BY <1>4 DEF BeginCopy
  <2> DEFINE c == [Idle EXCEPT !.op = op, !.view = v, !.items = items]
  <2>3. items \in Seq(Messages \X Nat)
    BY <2>1, SelectionType
  <2>4. c \in Places /\ c.items = items /\ c.pairs = <<>> /\ c.pc = "idle"
    BY <2>3, RecordTypes DEF Places, Idle
  <2>5. \/ caller' = [caller EXCEPT ![s] = BeginTurn(c)]
        \/ EnterSync(s, c, "Trash", generation["Trash"])
    BY <2>2
  <2> HIDE DEF c
  <2>6. InOrder(c)
    <3>1. Len(<<>>) = 0 /\ 1..0 = {}
      OBVIOUS
    <3> QED  BY <2>4, <3>1, SelectionInOrder DEF InOrder, Rises
  <2>7. InTurn(c, uidOf["Trash"], next_uid["Trash"])
    BY <2>4, <2>6, NewInTurn
  <2>8. CASE caller' = [caller EXCEPT ![s] = BeginTurn(c)]
    <3>1. caller'[s] = BeginTurn(c) /\ \A x \in Sessions \ {s} : caller'[x] = caller[x]
      BY <1>1, <2>8
    <3> QED  BY <2>1, <2>4, <2>6, <2>7, <3>1, TurnInTurn, OneBatchKept
  <2>9. CASE EnterSync(s, c, "Trash", generation["Trash"])
    <3>1. Asks(s, c)
      BY <2>4, <2>9, EnterBatches
    <3> QED  BY <2>1, <2>4, <2>6, <2>7, <3>1, AsksKeepsBatches
  <2> QED  BY <2>5, <2>8, <2>9
<1>5. ASSUME NEW s \in Sessions, LeaveStale(s) PROVE BatchInv'
  <2>1. caller[s].pc = "unstale" /\ caller[s] \in Places /\ UNCHANGED store
    BY <1>1, <1>5 DEF LeaveStale
  <2>2. Asks(s, caller[s])
    BY <1>5, <2>1, WaitsBatches DEF LeaveStale
  <2>3. InOrder(caller[s]) /\ InTurn(caller[s], uidOf["Trash"], next_uid["Trash"])
    BY DEF BatchInv
  <2> QED  BY <2>1, <2>2, <2>3, AsksKeepsBatches
<1>6. ASSUME NEW s \in Sessions, AnswerPage(s) PROVE BatchInv'
  <2>1. UNCHANGED <<store, caller>>
    BY <1>6 DEF AnswerPage
  <2>2. \A c \in Sessions : Batches(caller[c], caller'[c])
    BY <2>1 DEF Batches
  <2> QED  BY <2>1, <2>2, StoreStays, BatchesKept
<1>7. ASSUME NEW s \in Sessions, ReadPage(s) PROVE BatchInv'
  <2>1. CASE ReadsOn(s)
    <3>1. UNCHANGED store /\ caller' = Lapse(caller, Early(s))
      BY <2>1 DEF ReadsOn
    <3>2. \A c \in Sessions : Batches(caller[c], caller'[c])
      BY <1>1, <3>1, LapseBatches
    <3> QED  BY <3>1, <3>2, StoreStays, BatchesKept
  <2>2. CASE Lands(s)
    <3>1. task[s].at = MaxMessage
      BY <2>2 DEF Lands
    <3>2. caller' = Lapse(Wake(s, TRUE), Early(s))
      BY <1>7, <3>1 DEF ReadPage, Early
    <3>3. \A c \in Sessions : Batches(caller[c], caller'[c]) \/ Rests(caller'[c])
      BY <3>2, WakeBatches
    <3> QED  BY <2>2, <3>3, LandGrows, BatchesKept
  <2> QED  BY <1>7, <2>1, <2>2, ReadPageShape
<1>8. ASSUME NEW s \in Sessions, TaskFails(s) PROVE BatchInv'
  <2>1. UNCHANGED store /\ caller' = Wake(s, FALSE)
    BY <1>8 DEF TaskFails
  <2>2. caller' = Lapse(Wake(s, FALSE), {})
    <3>1. ASSUME NEW c \in Sessions
          PROVE  [caller[c] EXCEPT !.pc = "unstale", !.on = NoOne] \in Places
      BY <1>1, WaitTypes
    <3>2. Wake(s, FALSE) \in [Sessions -> Places]
      BY <1>1, <3>1, RecordTypes DEF Wake
    <3> QED  BY <2>1, <3>2, NoLapse
  <2>3. \A c \in Sessions : Batches(caller[c], caller'[c]) \/ Rests(caller'[c])
    BY <2>2, WakeBatches
  <2> QED  BY <2>1, <2>3, StoreStays, BatchesKept
<1>9. ASSUME NEW s \in Sessions, FirstTurn(s) PROVE BatchInv'
  <2>1. UNCHANGED store /\ caller' = [caller EXCEPT ![s] = BeginTurn(caller[s])]
    BY <1>9 DEF FirstTurn
  <2>2. caller'[s] = BeginTurn(caller[s]) /\ \A x \in Sessions \ {s} : caller'[x] = caller[x]
    BY <1>1, <2>1
  <2>3. InOrder(caller[s]) /\ InTurn(caller[s], uidOf["Trash"], next_uid["Trash"])
    BY DEF BatchInv
  <2> QED  BY <1>1, <2>1, <2>2, <2>3, TurnInTurn, OneBatchKept
<1>10. ASSUME NEW s \in Sessions, PatchApplies(s) PROVE BatchInv'
  <2> DEFINE me == [caller[s] EXCEPT !.pc = "applied"]
  <2>1. UNCHANGED store /\ caller[s].pc = "sent" /\ caller' = [caller EXCEPT ![s] = me]
    BY <1>1, <1>10 DEF PatchApplies
  <2>2. Batches(caller[s], me)
    BY <1>1, <2>1 DEF Places, Batches
  <2> HIDE DEF me
  <2>3. \A c \in Sessions : Batches(caller[c], caller'[c])
    BY <1>1, <2>1, <2>2 DEF Batches
  <2> QED  BY <2>1, <2>3, StoreStays, BatchesKept
<1>11. ASSUME NEW s \in Sessions, PatchFails(s) \/ SyncTimesOut(s) PROVE BatchInv'
  <2>1. UNCHANGED store /\ caller' = [caller EXCEPT ![s] = Idle]
    BY <1>11 DEF PatchFails, SyncTimesOut
  <2>2. Rests(Idle)
    BY DEF Idle, Rests
  <2>3. \A c \in Sessions : Batches(caller[c], caller'[c]) \/ Rests(caller'[c])
    BY <1>1, <2>1, <2>2 DEF Batches
  <2> QED  BY <2>1, <2>3, StoreStays, BatchesKept
<1>12. ASSUME NEW s \in Sessions, PatchAnswered(s) PROVE BatchInv'
  <2>1. InOrder(caller'[s]) /\ InTurn(caller'[s], uidOf'["Trash"], next_uid'["Trash"])
    BY <1>12, AnswerInTurn
  <2>2. TrashGrows /\ \A x \in Sessions \ {s} : caller'[x] = caller[x]
    BY <1>12, PatchGrows, AnswerMoves
  <2>3. ASSUME NEW x \in Sessions \ {s}
        PROVE  InOrder(caller'[x]) /\ InTurn(caller'[x], uidOf'["Trash"], next_uid'["Trash"])
    <3>1. /\ next_uid'["Trash"] \in Nat /\ uidOf'["Trash"] \in [Messages -> Nat]
          /\ caller[x] \in Places /\ (caller[x].pc \in {"sent", "applied"} => caller[x].items # <<>>)
      BY Numbers DEF Types, StoreTypes, CallerTypes
    <3>2. InOrder(caller[x]) /\ InTurn(caller[x], uidOf["Trash"], next_uid["Trash"])
      BY DEF BatchInv
    <3>3. Batches(caller[x], caller'[x])
      BY <2>2 DEF Batches
    <3> QED  BY <2>2, <3>1, <3>2, <3>3, BatchStaysInTurn
  <2>4. TrashBelowNext'
    BY <2>2 DEF TrashGrows
  <2> QED  BY <2>1, <2>3, <2>4 DEF BatchInv, InOrder, InTurn, Rises, TrashBelowNext
<1> QED  BY <1>2, <1>3, <1>4, <1>5, <1>6, <1>7, <1>8, <1>9, <1>10, <1>11, <1>12, NextCases DEF Turns

--------------------------------------------------------------------------
(* The theorems *)

LEMMA InitHolds == Init => IInv
<1> SUFFICES ASSUME Init PROVE IInv
  OBVIOUS
<1> USE DEF Init
<1>1. MessageTypes
  BY DEF MessageTypes
<1>2. StoreTypes
  <2>1. \A m \in Messages : m \in Nat
    BY Numbers
  <2>2. MaxMessage + 1 \in Nat
    BY CopyAssumption
  <2> QED  BY <2>1, <2>2 DEF StoreTypes, NoUids
<1>3. TaskTypes /\ CallerTypes
  BY RecordTypes DEF TaskTypes, CallerTypes
<1>4. SyncInv
  BY RecordTypes DEF SyncInv, FlightRuns, JoinedRuns, StaleIsOld
<1>5. GivenLasts
  BY DEF GivenLasts, NoUids
<1>6. ToldIsOut
  <2>1. \A m : m \notin Told
    BY RecordTypes, ToldIs DEF Told
  <2> QED  BY <2>1 DEF ToldIsOut
<1>7. ExpectIsGone /\ CurrentIsClean /\ JoinedIsClean /\ StaleIsClean
  BY RecordTypes, Numbers DEF ExpectIsGone, CurrentIsClean, JoinedIsClean, StaleIsClean
<1> QED  BY <1>1, <1>2, <1>3, <1>4, <1>5, <1>6, <1>7 DEF IInv, Types, InboxInv

\* Of what was told, a listing of INBOX reads nothing.
LEMMA ReadsNothingTold ==
  ASSUME Types, ToldIsOut, NEW s \in Sessions, task[s].state = "answered", task[s].view = "INBOX"
  PROVE  GotNow(s) \cap gone \subseteq task[s].got
<1> SUFFICES ASSUME NEW m \in GotNow(s), m \in gone, m \notin task[s].got PROVE FALSE
  OBVIOUS
<1>1. m = task[s].at /\ task[s].page /\ m \notin held
  BY DEF GotNow, Hidden
<1>2. OutOfInbox(m)
  BY ToldIs DEF ToldIsOut
<1> QED  BY <1>1, <1>2 DEF OutOfInbox, PageOf

LEMMA WaitersKept ==
  ASSUME Types, Types', SyncInv, InboxInv, [Next]_vars
  PROVE  SyncInv' /\ CleanInv'
<1>1. ToldIsOut /\ ExpectIsGone /\ CleanInv
  BY DEF InboxInv, CleanInv
<1>2. task \in [Sessions -> Tasks] /\ caller \in [Sessions -> Places] /\ generation \in [Views -> Nat]
  BY DEF Types, TaskTypes, CallerTypes, StoreTypes
<1>3. UNCHANGED generation => Grows
  BY <1>2 DEF Grows
<1>4. UNCHANGED sync => GoOn /\ ReadsNoGone
  BY DEF sync, GoOn, ReadsNoGone
<1>5. gone' \subseteq gone => NewsIsNew
  BY DEF NewsIsNew
<1>6. CASE Others
  <2>1. UNCHANGED <<generation, sync>> /\ gone' \subseteq gone /\ StayOrWork
    BY <1>6, OthersShape DEF StayOrWork
  <2> QED  BY <1>1, <1>3, <1>4, <1>5, <2>1, GoOnKeepsSync, GoOnKeepsClean
<1>7. ASSUME NEW s \in Sessions, NEW v \in Views, Noop(s, v) PROVE SyncInv' /\ CleanInv'
  <2>1. UNCHANGED <<generation, gone>> /\ generation[v] \in Nat
    BY <1>2, <1>7, NoopEnters DEF service
  <2>2. PICK c \in Places : Enters(s, c, v, generation[v]) /\ c.expect = gone
    BY <1>7, NoopEnters
  <2>3. generation[v] <= generation'[v] /\ Grows /\ NewsIsNew
    BY <1>3, <1>5, <2>1
  <2>4. Joins(s, c, v, generation[v]) /\ v = "INBOX" /\ c.view = "INBOX"
          => task[inflight[v].by].got \cap c.expect = {}
    BY <1>1, <2>2 DEF Joins, CleanInv, CurrentIsClean
  <2> QED  BY <1>1, <2>1, <2>2, <2>3, <2>4, EntersSync, EntersClean
<1>8. ASSUME NEW s \in Sessions, NEW op \in {"copy", "move"}, NEW v \in Views,
             NEW chosen \in SUBSET Messages, BeginCopy(s, op, v, chosen)
      PROVE  SyncInv' /\ CleanInv'
  <2>1. UNCHANGED <<generation, gone>> /\ generation["Trash"] \in Nat /\ Grows /\ NewsIsNew
    BY <1>2, <1>3, <1>5, <1>8, BeginCopyGoes, Numbers DEF service
  <2>2. PICK c \in Places :
          /\ c.expect = {}
          /\ Goes(s, BeginTurn(c)) \/ Enters(s, c, "Trash", generation["Trash"])
    BY <1>8, BeginCopyGoes
  <2>3. CASE Goes(s, BeginTurn(c))
    <3>1. StayOrWork /\ UNCHANGED sync
      <4>1. BeginTurn(c).pc = "sent" /\ BeginTurn(c).expect = {}
        BY <2>2, BeginTurnType
      <4> QED  BY <1>2, <2>3, <4>1 DEF StayOrWork, Stays, Works, Goes
    <3> QED  BY <1>1, <1>4, <2>1, <3>1, GoOnKeepsSync, GoOnKeepsClean
  <2>4. CASE Enters(s, c, "Trash", generation["Trash"])
    <3>1. generation["Trash"] <= generation'["Trash"]
      BY <2>1
    <3> QED  BY <1>1, <2>1, <2>4, <3>1, EntersSync, EntersClean, Numbers
  <2> QED  BY <2>2, <2>3, <2>4
<1>9. ASSUME NEW s \in Sessions, LeaveStale(s) PROVE SyncInv' /\ CleanInv'
  <2> DEFINE v == Awaited(caller[s])
             gen == caller[s].gen
  <2>1. UNCHANGED <<generation, gone>> /\ Grows /\ NewsIsNew
    BY <1>3, <1>5, <1>9, LeaveStaleEnters DEF service
  <2>2. Enters(s, caller[s], v, gen) /\ caller[s].pc = "unstale" /\ v \in Views /\ gen \in Nat
    BY <1>2, <1>9, LeaveStaleEnters, Numbers DEF Places, Awaited
  <2>3. gen <= generation'[v]
    BY <2>1, <2>2 DEF SyncInv, StaleIsOld
  <2>4. Joins(s, caller[s], v, gen) /\ v = "INBOX" /\ caller[s].view = "INBOX"
          => task[inflight[v].by].got \cap caller[s].expect = {}
    BY <1>1, <2>2 DEF Joins, CleanInv, StaleIsClean, InInbox
  <2> HIDE DEF v, gen
  <2> QED  BY <1>1, <2>1, <2>2, <2>3, <2>4, EntersSync, EntersClean
<1>10. ASSUME NEW s \in Sessions, AnswerPage(s) PROVE SyncInv' /\ CleanInv'
  <2>1. UNCHANGED <<generation, gone, caller, inflight>> /\ StayOrWork
    BY <1>10, TaskMoves DEF service, StayOrWork, Stays
  <2>2. GoOn /\ ReadsNoGone
    BY <1>10, <2>1, TaskMoves DEF GoOn, ReadsNoGone
  <2> QED  BY <1>1, <1>3, <1>5, <2>1, <2>2, GoOnKeepsSync, GoOnKeepsClean
<1>11. ASSUME NEW s \in Sessions, ReadPage(s) PROVE SyncInv' /\ CleanInv'
  <2>1. /\ task[s].state = "answered" /\ UNCHANGED generation /\ gone' \subseteq gone
        /\ ReadsOn(s) \/ Lands(s)
    BY <1>11, ReadPageShape
  <2>2. CASE ReadsOn(s)
    <3>1. /\ \A u \in Sessions \ {s} : task'[u] = task[u]
          /\ task'[s].state = "asked" /\ task'[s].view = task[s].view /\ task'[s].got = GotNow(s)
          /\ \A c \in Sessions : Stays(c)
      BY <2>2, TaskMoves
    <3>2. UNCHANGED inflight
      BY <2>2 DEF ReadsOn
    <3>3. GoOn /\ StayOrWork
      BY <3>1, <3>2 DEF GoOn, StayOrWork
    <3>4. ReadsNoGone
      BY <1>1, <2>1, <3>1, ReadsNothingTold DEF ReadsNoGone
    <3> QED  BY <1>1, <1>3, <1>5, <2>1, <3>3, <3>4, GoOnKeepsSync, GoOnKeepsClean
  <2>3. CASE Lands(s)
    BY <1>1, <2>1, <2>3, EndsSync, EndsClean DEF Lands
  <2> QED  BY <2>1, <2>2, <2>3
<1>12. ASSUME NEW s \in Sessions, TaskFails(s) PROVE SyncInv' /\ CleanInv'
  <2>1. Ends(s) /\ UNCHANGED generation /\ gone' \subseteq gone
    BY <1>12, FailureEnds DEF service
  <2> QED  BY <1>1, <2>1, EndsSync, EndsClean
<1>13. ASSUME NEW s \in Sessions, Turns(s) PROVE SyncInv' /\ CleanInv'
  <2>1. UNCHANGED <<generation, sync>> /\ gone' \subseteq gone
    BY <1>13, TurnsGo DEF service
  <2>2. PICK me : Goes(s, me) /\ Works(s)
    BY <1>13, TurnsGo
  <2>3. StayOrWork
    BY <1>2, <2>2 DEF StayOrWork, Goes, Stays
  <2> QED  BY <1>1, <1>3, <1>4, <1>5, <2>1, <2>3, GoOnKeepsSync, GoOnKeepsClean
<1>14. ASSUME NEW s \in Sessions, PatchAnswered(s) PROVE SyncInv' /\ CleanInv'
  <2>1. caller[s].view \in Views
    BY <1>2 DEF Places
  <2>2. ASSUME NEW me, Goes(s, me), me.pc \in {"sent", "idle"}, me.expect \subseteq caller[s].expect,
               Grows, NewsIsNew
        PROVE  SyncInv' /\ CleanInv'
    <3>1. StayOrWork /\ UNCHANGED sync
      BY <1>2, <2>2 DEF StayOrWork, Stays, Works, Goes
    <3> QED  BY <1>1, <1>4, <2>2, <3>1, GoOnKeepsSync, GoOnKeepsClean
  <2>3. CASE UNCHANGED <<generation, gone>> /\ \E me : /\ Goes(s, me) /\ me.pc = "sent"
                                                       /\ me.expect = caller[s].expect
    BY <1>3, <1>5, <2>2, <2>3
  <2>4. ASSUME generation' = BumpGenerations(caller[s].view), gone' = ToldNow(s)
        PROVE  /\ Grows /\ NewsIsNew
               /\ generation'[caller[s].view] \in Nat
               /\ generation'[caller[s].view] > generation[caller[s].view]
    <3>1. /\ Grows /\ generation'[caller[s].view] \in Nat
          /\ generation'[caller[s].view] > generation[caller[s].view]
      BY <2>1, <2>4, BumpType DEF Grows
    <3>2. NewsIsNew
      BY <2>4, <3>1 DEF NewsIsNew, ToldNow
    <3> QED  BY <3>1, <3>2
  <2>5. CASE /\ generation' = BumpGenerations(caller[s].view) /\ gone' = ToldNow(s)
             /\ \E me : Goes(s, me) /\ me.pc = "idle" /\ me.expect = {}
    BY <2>2, <2>4, <2>5
  <2>6. CASE /\ generation' = BumpGenerations(caller[s].view) /\ gone' = ToldNow(s)
             /\ \E c \in Places : Enters(s, c, caller[s].view, generation'[caller[s].view])
    <3> DEFINE v == caller[s].view
               gen == generation'[v]
    <3>1. PICK c \in Places : Enters(s, c, v, gen)
      BY <2>6
    <3>2. gen \in Nat /\ gen > generation[v] /\ Grows /\ NewsIsNew /\ generation[v] \in Nat
      BY <1>2, <2>1, <2>4, <2>6
    <3>3. ~Joins(s, c, v, gen)
      <4>1. inflight[v].by # NoOne => inflight[v].gen <= generation[v]
        BY <2>1 DEF SyncInv, FlightRuns
      <4>2. inflight[v].gen \in Nat
        BY <2>1, Flying
      <4> QED  BY <3>2, <4>1, <4>2 DEF Joins
    <3>4. gen <= generation'[v]
      BY <3>2
    <3> HIDE DEF v, gen
    <3>5. v \in Views
      BY <2>1 DEF v
    <3> QED  BY <1>1, <3>1, <3>2, <3>3, <3>4, <3>5, EntersSync, EntersClean
  <2>7. \/ /\ UNCHANGED <<generation, gone>>
           /\ \E me : /\ Goes(s, me) /\ me.pc = "sent" /\ me.expect = caller[s].expect
        \/ /\ generation' = BumpGenerations(caller[s].view) /\ gone' = ToldNow(s)
           /\ \E me : Goes(s, me) /\ me.pc = "idle" /\ me.expect = {}
        \/ /\ generation' = BumpGenerations(caller[s].view) /\ gone' = ToldNow(s)
           /\ \E c \in Places : Enters(s, c, caller[s].view, generation'[caller[s].view])
    BY <1>14, PatchAnsweredShape
  <2> QED  BY <2>3, <2>5, <2>6, <2>7
<1> QED  BY <1>6, <1>7, <1>8, <1>9, <1>10, <1>11, <1>12, <1>13, <1>14, NextCases

LEMMA CopyIsInductive == Spec => []IInv
<1>1. ASSUME IInv, [Next]_vars PROVE IInv'
  <2>1. Types'
    BY <1>1, TypesKept DEF IInv
  <2>2. GivenLasts'
    BY <1>1, GivenLastsKept DEF IInv
  <2>3. ToldIsOut' /\ ExpectIsGone'
    BY <1>1, ToldKept DEF IInv, InboxInv
  <2>4. SyncInv' /\ CleanInv'
    BY <1>1, <2>1, WaitersKept DEF IInv
  <2> QED  BY <2>1, <2>2, <2>3, <2>4 DEF IInv, InboxInv, CleanInv
<1> QED  BY <1>1, InitHolds, PTL DEF Spec

\* The Trash UID that COPY or MOVE gave a message, in a batch that failed half-way too,
\* stays its UID, whatever listings of Trash were answered without the message.
THEOREM TrashUidsLast == Spec => []KeepsItsTrashUid
<1>1. IInv => KeepsItsTrashUid
  BY DEF IInv, GivenLasts, KeepsItsTrashUid
<1> QED  BY <1>1, CopyIsInductive, PTL

\* Whoever asks for a listing of INBOX after a COPY or MOVE has gone through is not
\* shown the messages it took away, whichever listing answers.
THEOREM CopiedIsGone == Spec => LeavesTheSource
<1> DEFINE Left ==
      \A s \in Sessions, t \in Sessions :
        /\ caller[s].pc = "join" /\ caller[s].on = t /\ caller'[s].on # t
        /\ caller[s].view = "INBOX" /\ Awaited(caller[s]) = "INBOX"
        /\ ReadPage(t)
        => \A m \in caller[s].expect \cap gone' : latest'["INBOX"][m] = 0
<1>1. ASSUME IInv PROVE Left
  <2> SUFFICES ASSUME NEW s \in Sessions, NEW t \in Sessions,
                      caller[s].pc = "join", caller[s].on = t, caller'[s].on # t,
                      caller[s].view = "INBOX", Awaited(caller[s]) = "INBOX", ReadPage(t),
                      NEW m \in caller[s].expect
               PROVE  latest'["INBOX"][m] = 0
    OBVIOUS
  <2> USE <1>1 DEF IInv, SyncInv, InboxInv
  <2>1. task[t].state = "answered" /\ task[t].view = "INBOX"
    BY ReadPageShape DEF JoinedRuns
  <2>2. Lands(t)
    <3>1. ~ReadsOn(t)
      BY TaskMoves DEF Stays
    <3> QED  BY <3>1, ReadPageShape
  <2>3. m \in gone /\ m \notin task[t].got
    BY DEF ExpectIsGone, JoinedIsClean, InInbox
  <2>4. m \notin ShownNow(t)
    BY <2>1, <2>3, ReadsNothingTold DEF ShownNow, KeptNow
  <2>5. m \in Messages
    BY <2>3 DEF Types, MessageTypes
  <2>6. latest'["INBOX"] = TombstoneMissing(UidsNow(t), ShownNow(t))
    BY <2>1, <2>2, Numbers DEF Lands, Types, StoreTypes
  <2> QED  BY <2>4, <2>5, <2>6 DEF TombstoneMissing
<1>2. IInv => [Left]_vars
  BY <1>1
<1> QED  BY <1>2, CopyIsInductive, PTL DEF LeavesTheSource

LEMMA BatchIsInductive == Spec => [](Types /\ BatchInv)
<1>1. Init => Types /\ BatchInv
  <2> SUFFICES ASSUME Init PROVE Types /\ BatchInv
    OBVIOUS
  <2>1. Types
    BY InitHolds DEF IInv
  <2>2. TrashBelowNext
    BY Numbers DEF Init, TrashBelowNext
  <2>3. ASSUME NEW s \in Sessions
        PROVE  InOrder(caller[s]) /\ InTurn(caller[s], uidOf["Trash"], next_uid["Trash"])
    <3>1. Rests(caller[s])
      BY DEF Init, Idle, Rests
    <3> QED  BY <3>1, RestsInTurn
  <2> QED  BY <2>1, <2>2, <2>3 DEF BatchInv
<1>2. Types /\ BatchInv /\ [Next]_vars => (Types /\ BatchInv)'
  BY TypesKept, BatchInvKept
<1> QED  BY <1>1, <1>2, PTL DEF Spec

\* A client that reads the two sets of a COPYUID and takes their numbers in turn pairs
\* each message with the Trash UID it got, however other sessions' batches and listings
\* fall between the PATCHes, as long as each message got its UID in its own turn.
THEOREM CopyUidIsPaired == Spec => []CopyUidIsRead
<1>1. Types /\ BatchInv => CopyUidIsRead
  <2> SUFFICES ASSUME Types, BatchInv, NEW s \in Sessions, caller[s].own
               PROVE  PairsRead(caller[s].pairs) = Range(caller[s].pairs)
    BY DEF CopyUidIsRead
  <2>1. caller[s].pairs \in Seq(Nat \X Nat)
    BY DEF Types, CallerTypes, Places
  <2>2. Rises(caller[s].pairs, 1) /\ Rises(caller[s].pairs, 2)
    BY DEF BatchInv, InOrder, InTurn
  <2> QED  BY <2>1, <2>2, PairsAreRead
<1> QED  BY <1>1, BatchIsInductive, PTL
===========================================================================
