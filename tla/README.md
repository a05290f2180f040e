# A TLA+ verification project for imapgw

`imapgw` is an IMAP server in front of the AgentMail REST API: it shows the messages and drafts of
an inbox as IMAP mailboxes. This project models the parts of it that keep state, and the algorithms
whose result matters, checks them with TLC on small instances, and proves with TLAPS, for every value
of the constants, the safety properties of the components that keep state, of the parser and of the
matcher of LIST.

## 1. Inventory

| Component | State | Operations | What makes it correct |
|---|---|---|---|
| UID store (`uidstore.py`) | tables `mailbox`, `uid_map`, `deleted_mark`; sidecar `<db>.validity` | `mailbox_info`, `ensure_uids`, `tombstone_missing`, `set_deleted`, open, recovery | a (mailbox, UIDVALIDITY, UID) names one item for ever; transactions are atomic; the tables agree |
| Mailbox service, sync engine (`mailbox.py`) | `_latest`, `_inflight`, `_generation`, `_pinned` | `sync`, `_join`, `_do_sync`, `append_draft`, `expunge_items` | a forced sync sees the mutations before it; new items get new UIDs; own drafts do not vanish; nobody waits for ever |
| Mailbox service, message views | `_label_overrides`, Trash pins, one snapshot per view | listings by label, `set_flag`, `copy_to_trash`, `expunge_items` | own label writes are not contradicted by a lagging list endpoint, and not for ever either |
| Mailbox service, COPY and MOVE (`mailbox.py`, `commands.py`) | the batch under way, on top of the two above | `_copy`, `copy_to_trash` | COPYUID pairs the right UIDs; a half-failed batch leaves nothing that contradicts what clients were told |
| Mailbox service, content, and byte cache (`mailbox.py`, `bytecache.py`) | ordered items and byte count, shared by all inboxes | `raw_bytes`, `size_of`, `_render_draft`; `get`, `put` | what is served is what was asked for; reported sizes stay; the budget is kept |
| Session view (`session.py`, `commands.py`) | `Selected.uids`, `flags_seen`, state, read-only | SELECT, NOOP, FETCH, STORE, EXPUNGE, MOVE, CLOSE, APPEND, `flush_pending` | client and session mean the same message by a number; every change is announced |
| Connection, login, server, redactor (`session.py`, `commands.py`, `server.py`, `config.py`) | task and session of each connection, deadlines, credentials, `_secrets`, `_sessions` | read loop, dispatch, LOGIN, LOGOUT, close, connection limit, `stop` | deadlines are kept and earned; no session is left over; keys are redacted exactly while they are held |
| API client and its threads (`apiclient.py`) | attempt, deadline, page token, tokens seen, pool queue | `_with_retries`, `_paginate`, `ThreadedTransport` | requests end in time; listings are complete or refused; a given-up write happens late at most once |
| Command parser (`parser.py`) | buffer, pending command, awaited literal | `feed`, `events`, `reset`, the tokenizer | independent of how the octets are cut; limits hold; literals are data |
| FETCH, SEARCH, LIST (`fetch.py`, `search.py`, `commands.py`) | none | sequence sets, attributes and sections, search keys, wildcards | agreement with a reference definition |
| Drafts content, responses, settings (`drafts.py`, `responses.py`, `config.py`) | none | MIME and HTML conversion, formatting, reading of the environment | not modelled, see section 5 |

How they interact: the server gives each connection a task and a session. The session feeds what it
reads to its parser, runs the commands one at a time and calls the mailbox service. The service is
shared by all sessions of the process; it calls the API client, whose requests are awaited while a
thread of a pool carries them out, and the UID store and the cache, whose calls are synchronous. One
asyncio event loop runs it all, so code between two awaits is atomic, and at every await the other
sessions, the background listings and upstream move on. The hard behaviours follow from that: listings
that overlap and land in any order, state read before an await and used after it, a list endpoint that
lags behind writes, responses that are lost after the effect, batches that end half-way, command
deadlines that leave a thread at work, a shutdown beside the tasks it ends, crashes in the middle of an
allocation, recovery from a corrupt database, and clocks that go back. `PROJECT.json` lists these hazards
at their lines, with the properties aimed at each.

## 2. Modules

| Module | Models | Role |
|---|---|---|
| `UidLedger` | | abstract specification: names appear in batches, above all earlier ones, and vanish for good |
| `UidStore` | `uidstore.py` | the store, transaction step by step; refines `UidLedger` |
| `UidStoreProofs`, `MailboxSyncProofs`, `LabelHoldProofs`, `CopyMoveProofs`, `ContentProofs`, `SessionViewProofs`, `ConnectionProofs`, `ApiClientProofs` | | the theorems about the module each is named after; `ConnectionProofs` also has those about `Parser`, `SessionViewProofs` those about `ListPatterns` (section 4) |
| `MailboxSync` | sync engine of `mailbox.py` on Drafts | concurrent listings, APPEND, EXPUNGE |
| `LabelHold` | message views of `mailbox.py` | INBOX and Trash, held labels, Trash pins |
| `CopyMove` | `_copy`, `copy_to_trash`, `sync` | COPY and MOVE of batches: sync, holds, pins, generations and UIDs of two views together |
| `Content` | `raw_bytes`, `size_of`, `_collect_drafts` | readers and a listing over the shared cache; uses `ByteCache` |
| `ByteCache` | `bytecache.py` | the LRU cache, as operators |
| `SessionView` | `session.py`, `commands.py` | one session and its client |
| `Connection` | `server.py`, `session.py`, LOGIN and LOGOUT, `RedactingFilter` | the life of connections and of the server |
| `ApiClient` | `apiclient.py` | retries, pagination and the thread pool |
| `Tokenizer`, `Parser` | `parser.py` | octets to commands |
| `SequenceSets` | `fetch.py`, `_uid_set` | sequence sets read and written; used by `Search` and `CopyMove` |
| `Fetch`, `Search` | `fetch.py`, `search.py` | pure algorithms |
| `ListPatterns` | `_wildcard_match` of `commands.py` | the matcher of LIST and LSUB, turn by turn of its loops |
| `Operators` | | the pure algorithms against their references |
| `MC...` | | constants for TLC |

Definitions that end up in a mutant of the project (for example `ClockOnlyUidvalidity` before
`NextUidvalidity`) are wrong on purpose: each is the definition after it with a plausible mistake,
and the property that catches the mistake is named in `PROJECT.json`.

### UidStore

State: the three tables as a function and two sets, the sidecar's value, the open transaction, what
the next open will find (`file`), and the process. `Begin` is `BEGIN IMMEDIATE` with
`_ensure_mailbox`, on a mailbox that has its row (`BeginFound`) or that gets one (`BeginCreated`); the
watermark is read and written there, outside the transaction, as in the code. `VisitKey` is one turn of
the loop of `ensure_uids`, which takes any key as its next entry, then `Commit` or `Rollback`;
`mailbox_info` is `Begin` and one of these with no entry between. Steps matter because the process
may die between any two. `tombstone_missing` and `set_deleted` are one step each: their transactions
leave nothing behind when they are rolled back. `FileChanges` (external) makes the file corrupt or
absent between two runs; `Open` and `Recover` succeed, `Refuse` is an open that a locked or read-only
file, or a corrupt one that cannot be renamed, stops, and `RecoverFails` renames the file and then cannot
create another. The clock may read anything at any call.

Three faults of the medium can be allowed (`Faults`). With `"watermark"` a write of the sidecar fails and
is only logged. With `"unreadable"` a read of it fails, or finds it empty, malformed or gone, and counts as
0, after which the lower value is written over it. With `"power"` a power loss takes the tables back to
the last WAL sync, and the sidecar, which nothing syncs, to what was last written back (`flushed`), to the
new value or to an empty file, each whatever becomes of the other.

`named` is a history of every name ever committed. `NeverRedefined` is about it; `ImplementsLedger`
maps it to the ledger's `names` and the live rows to `alive`. Both bind while the history `intact` is
true: no write of the sidecar has failed, no read of it has given a lower UIDVALIDITY than the value
last written would have (a failed read that the clock makes up for does no harm), and no power loss has
changed the tables or the sidecar. The other properties hold whatever the medium does.

The exception at UIDVALIDITY 2^32 - 1 is stated in the property: `_next_uidvalidity` saturates there,
and a store recreated after that repeats the value.

### MailboxSync

One mailbox, Drafts, because it has the whole engine: listings with one GET per draft, versions, pins,
generations. A *version* is one content of one draft and stands for its `remote_key`. Upstream keeps
the current version of each draft and an index for the list endpoint, which may lag. A caller is a
command of a session or the re-listing that its APPEND leaves running; it stands at one of the awaits of
`sync` and `_join` or at one of the requests of APPEND and EXPUNGE. A task is a `_do_sync`, which lists,
fetches the drafts one after the other, then lands in one step: pins, UIDs, tombstones, snapshot, and
waking of everybody who waits for it. `TimeOut` is the command deadline, which cancels the caller but
not the shielded listings.

### LabelHold

Messages with the labels "read" (for a message without `unread`) and "trash", two views, a page per
message. A listing is a pair of a view and a number, so that several listings of one view run at once, as
they do when callers have waited for the same stale listing (`mailbox.py:257-260`) and when `_join` retries
(`:288`); which of them is when started is left to `MailboxSync`, so any of them may begin at any time.
`AnswerPage` is the moment upstream answers, `ReadPage` the moment the gateway reads: what
happens in between is what makes holds difficult. The same two moments of a label write are `PatchApplies`
and `PatchAnswered`; an answer that carries no labels makes the gateway hold those of its item, changed
(`Changed`). The history `written` is what the gateway last told a client of a message, while nobody else
wrote and the hold has not expired, and `stale` the messages whose page a listing was answered before that.
`OwnWritesHold` says that no page answered later contradicts what was written. A hold that is let go early,
because a page agrees although the index is behind or although any other listing, of the same view
or the other, has an older page still to read, is named `LetGoEarly` (section 3).

### CopyMove

The composition of what the two modules above take apart: each session runs COPY, MOVE or NOOP over
INBOX and Trash; a batch is one PATCH after the other, each with its own moment of effect, answer and
failure; listings of both views are shared through `_inflight` and allocate and tombstone UIDs; the
generations move only at the end of a whole batch. A message is trashed or not. `pairs` is what
COPYUID is made of, written by `UidSet` of `SequenceSets` and read back by `Expand` as a client would.
Held labels and pins expire by choice.

### Content and ByteCache

Bytes are their owner, version and length, so a truncated, mixed-up or stale answer is a different
value. Two inboxes have a message with the same id; one may change, which the API promises it does not
and the code guards against. A draft is written under stamps (`updated_at`), and the same content may
come back under a later stamp. A reader stands at one of the requests of `raw_bytes` or `size_of`, the
listing at the GET of `_render_draft`; every put may evict what another step has just looked up.

### SessionView

One session, the shared snapshot and marks, and the client. The client keeps the list of messages it
takes its numbers for (`mirror`) and the flags it was told (`told`), and applies each response in order;
`NumbersAgree` and `SafePointCatchesUp` compare this with the session and with the mailbox. What a
listing may do to the snapshot (`ListingLands`) is what `MailboxSync` establishes in `ArrivalsAreNewer`.

Three things in the code do change the session's record without telling the client. The history `lapses`
holds those that have happened since SELECT, and the properties except them by name:

- a STORE .SILENT records the resulting flags as told (`commands.py:584`), a change made elsewhere
  included, although `README.md:225-226` of the repository has such changes announced;
- FETCH (FLAGS RFC822.SIZE) records the flags before the size is there (`commands.py:361`), and a failure
  then drops the response;
- a CLOSE that could not remove everything drops the vanished items without EXPUNGE (`commands.py:630`)
  and leaves the mailbox selected, its numbers shifted.

A lapse counts only when it leaves the client with something wrong.

### Connection

Each connection has the task that the listener gave it, which stands at one of the awaits of
`Session.run`, `dispatch` and `close`; `stop()` has a farewell task per session that calls the same
`close` beside it. A read may end commands and begin another; the ones it ended wait in `more`. The
assembly deadline is counted in ticks, the other timeouts (idle, write, command, farewell) may fire
whenever they are pending. Cancellation arrives where the task waits, and which `finally` clauses run
depends on where that is. The redactor's counts are per key; connections may share a key.

### ApiClient

One call: a write (one request) or a listing (a request per page). The upstream fixes a chain of page
tokens, any function at all, so every loop is tried. Time counts from the first attempt of a request;
attempts last a chosen time and sleeps are punctual. `Whole` is the reference: the pages reachable from
the first one. An attempt first waits in the pool's queue behind other requests, then a thread has it. A
cancelled call withdraws a queued request, but a thread that has begun goes on (`orphan`) and its write
may take effect late; shutdown refuses what is queued.

### Tokenizer and Parser

The parser octet by octet, over an alphabet with one octet for each role the code tells apart. One turn
of the loop of `events()` is `EventsStep`, and `Drain` repeats it until nothing changes; `ConsumeLine` is
`_consume_line`, with `Opened` the pending command it begins or finds and `Await` the announcement of a
literal. The literal, line, command and literal-count limits are constants. The reference of
`CutsDoNotMatter` is the same parser fed everything at once. `HeldIsBounded` leaves out the buffer after
a fatal error: what follows a line that is too long stays there while the session ends.

### ListPatterns

`_wildcard_match` collapses adjacent wildcards, then walks pattern and name together and, when they
differ, goes back to the last wildcard and lets its run take one character more. One action is one turn
of one of its three loops (`CollapseNext`; `TakeWildcard`, `TakeCharacter`, `GoBack` and `GiveUp`;
`SkipWildcard`), and the variables are those of the function, with indices from 1 and `star = 0` for -1.
The reference of `PatternsMatch` is `Place`: there is a way to cut the name into one piece per character
of the pattern as it was given, any run for a wildcard and itself for any other character. Case, folded
before, is left out. The module is checked as part of `Operators`.

### SequenceSets, Fetch, Search and Operators

Operators translated from the code, and in `Operators`, beside the variables of `ListPatterns`, a state that
is one input, with an invariant per family that compares the result with a definition by sets: a sequence
set is the set of numbers it denotes, a section is the part of the message the RFC names, a search hit is a
message for which the formula is true. SEARCH is evaluated on messages that may vanish while they are read.
`Search` uses RECURSIVE operators, so it stays with TLC.

## 3. Runs

Passing:

| Run | Shows | Bounds |
|---|---|---|
| `uidstore` | all properties of the store, with medium faults | one mailbox, two keys, two UIDs, all three faults; two stores and a reused second, the maximum UIDVALIDITY within reach |
| `sync` | freshness, removal, every caller returns | two sessions, two commands, four tasks, two versions; no symmetry, since liveness is checked |
| `sync_lag` | snapshot and store agree, new UIDs, pins hold, under index lag | one session, three versions, four UIDs |
| `view` | numbers and flags | two UIDs, both flags: removal and arrival meet in one flush, and so do two removals |
| `hold` | own writes hold; the views converge | one message, two overlapping listings of INBOX and one of Trash, two writers and an outsider, two writes of any kind but EXPUNGE (for the labels a COPY) |
| `copy` | COPYUID, Trash UIDs, what was copied leaves INBOX | two messages, two sessions, two commands, one change made elsewhere |
| `content` | what is served and counted | two readers, two inboxes, a cache of two bytes, a message that grows or keeps its length, a draft written twice |
| `api` | completeness, time, late writes | all 256 chains over three tokens, three attempts, two requests ahead in the queue |
| `connection` | redaction, limit, deadlines, shutdown | two connections, one key, limit 1 or 2, assembly timeout of two ticks, two commands |
| `parser` | cuts, limits, literals | six octets in reads of at most two; limits small enough that each is reached |
| `operators` | the pure algorithms | patterns of four characters and names of five, over two letters and both wildcards; all sets of two items over four numbers, FETCH of three items, messages of five to seven octets, search keys of two levels |

Why the bounds are enough: each hazard needs two of a kind (two listings, two sessions, a batch of two,
two cached items, two reads) and one limit within reach, and every instance has that; each property is
broken on its run by a mutant of the code, so the case it is about does happen there.

`MailboxSync`, `CopyMove`, `Parser` and `Operators` do not check for deadlock: commands and inputs are
bounded, so the model stops when all have been used or the function has returned. The others do.

One run expects a violation, against a sentence of the documentation quoted in `PROJECT.json` under
`findings`: `sync_lost`, in which an older listing lands after a newer one that released the pin of an
appended draft, and tombstones its UID.

What the passing properties leave out on purpose, because the code does not promise it or does otherwise.
Each exception is a named definition or a history of the model:

- UID store. When the sidecar write fails (`uidstore.py:213` only logs it), a recovery within the same
  second issues the same UIDVALIDITY again. A sidecar that cannot be read this once, or is empty or
  deleted, counts as 0 (`uidstore.py:202-206`): unless the clock is ahead of the watermark, the next new
  row gets a UIDVALIDITY that may have been used, and the watermark is overwritten with it. The sidecar is
  renamed into place without being synced (`uidstore.py:208-212`), so a power loss can roll it back or
  empty it while the tables survive; with `PRAGMA synchronous = NORMAL` a power loss also frees UIDs that
  were told. `intact` ends at each of these.
- Sync. Several listings of a mailbox do run at once (callers that waited for the same stale listing, and
  the retry of `_join`), and the one that began earlier may land later and become the snapshot. The
  properties of `MailboxSync` hold all the same, with the exception shown by `sync_lost`; a Trash UID
  can be lost the same way once a listing has released its pin, and `KeepsItsTrashUid` binds until then.
  The model has one background re-listing of each session at a time: `FinishAppend` waits for the last
  one, where the code makes a task per APPEND (`mailbox.py:594`). Listings that overlap are there
  all the same, begun by sessions and by the re-listings of others.
- A DELETE whose response is lost is retried into a 404: the pin stays, and the deleted draft is listed
  until the pin expires. `RemovedIsGone` is about removals the gateway knows of.
- Holds. The answers of two sessions read out of order hold the older labels up to the time limit. A page
  that agrees releases the hold (`mailbox.py:191-193`) that an older, unread page of any other listing
  still needs: of the other view, or of the same view, whose listings overlap (`mailbox.py:257-260` and
  `:288`). The older page may have been asked for after the write, and lands the old labels. A label set,
  cleared and set again agrees with a page from before the first write. All end with the next listing or the hold's expiry, which is `Converges`. An item pinned in Trash keeps the labels its COPY saw.
- COPY. COPYUID writes two sorted sets; a message that had a Trash UID before its turn takes them out of
  step, although `README.md:130` and `DESIGN.md:561` present them as pairs. After a batch that fails half-way
  the generations do not move, so a listing that began earlier may still answer.
- Content. A reported size is compared only while the cache remembers it, where `mailbox.py:511` and
  `README.md:270` promise it for good. A `put` of contents over the budget drops what the key had without
  reducing the count (`bytecache.py:34-36`); that needs a message which changes so that one version fits
  the cache and the other does not (`CrossesBudget`).
- View. The three lapses above. A \Deleted mark may be set on a UID that vanished while STORE awaited the
  label write, and stays there.
- Connection. A pipelined command that begins in the read which ends another one shares that one's
  deadline (`session.py:162-167`; `DESIGN.md:533` says that it "resets at each complete command"). A session cancelled inside
  `close()` keeps its key registered, at shutdown only. `HandlerEnds` lets a command of a session that was
  closed meanwhile leave it authenticated or logged out, whichever command it is: SELECT and CLOSE do set the
  state (`session.py:308-313`, `commands.py:277-281`), the others do not. A task accepted but not begun when `stop()` finds
  nobody to say farewell to outlives it.
- API client. A write that a thread had begun when its command timed out may land after a later write of
  the same client: `LateOnlyIfTaken` says that it happens at most once.
- Parser. A line of exactly `max_line` octets whose CR has arrived and whose LF has not is refused as too
  long (`CutBeforeLf`). Tags of more than 64 characters (`parser.py:91`) are not told from others.
- Operators. A message that starts with a blank line has a HEADER that reaches to the next blank line;
  partials with the same offset and different counts share a response label and the first is answered;
  the number 2^32 is read as `*`. The references are stated accordingly.

### Fairness

- `MailboxSync`: weak fairness of each caller's and each listing's next step. The event loop runs what is
  ready; every request ends because `http_timeout`, `max_attempts` and `retry_budget` bound it (module
  `ApiClient`). Nothing is assumed of clients, upstream edits, the index or the deadline.
- `LabelHold`: the two time limits run out and requests end (weak fairness); of each view some listing is
  answered, and some answer read, again and again (strong fairness for each view and page, of no listing in
  particular), and the index catches up. The last two are upstream's and the clients' part: `Converges` is
  conditional on them.
- `Connection`: weak fairness of each connection's task (handlers end by `command_timeout`, flushes and
  closing by `write_timeout`), of the read timeout that applies (idle without a command in progress,
  assembly with one; not of an idle timeout shorter than what is left of the assembly time, `ReadIdles`,
  which a client can put off octet by octet), of each farewell (five seconds), of
  the two last steps of `stop()`, and of time. Nothing is assumed of clients; they send a bounded number
  of commands, without which a session that is busy need not end.
- `ApiClient`: an attempt and a sleep end, and the pool's threads take up what is queued. `http_timeout`
  bounds each socket operation of an attempt, so a server that trickles bytes can stretch an attempt
  beyond it; `Durations` is whatever an attempt can last.

## 4. Proofs

The runs check the listed properties on small instances; the theorems state the same definitions for all
values of the constants: any number of sessions, callers, listings, messages, readers or connections, any
chain of page tokens, any limits, any octets in any cut, patterns and names of any length. The bounds of
the models are constants too, so a theorem holds however far they are raised.

| Module | Theorems | Property |
|---|---|---|
| `UidStoreProofs` | `TypeCorrect`, `AllocationIsAtomic`, `LiveKeysAreUnique`, `MarksAreIssued`, `NamesAreForever`, `StoreImplementsLedger` | `TypeOK`, `AllocationAtomic`, `LiveKeyUnique`, `MarksNameIssuedUids`, `NeverRedefined`, `ImplementsLedger` |
| `MailboxSyncProofs` | `SnapshotAgrees`, `PinsHold`, `ArrivalsAreAppended`, `AnswersAreFresh`, `ExpungedIsGone` | `SnapshotIsStore`, `PinnedStaysLive`, `ArrivalsAreNewer`, `ReturnedIsFresh`, `RemovedIsGone` |
| `LabelHoldProofs` | `WritesAreHeld` | `OwnWritesHold` |
| `CopyMoveProofs` | `TrashUidsLast`, `CopiedIsGone`, `CopyUidIsPaired` | `KeepsItsTrashUid`, `LeavesTheSource`, `CopyUidIsRead` |
| `ContentProofs` | `ContentIsServed`, `ListedIsCurrent`, `SizesAreKept`, `CountIsKept` | `AnswersAreTheContent`, `ListedContentIsCurrent`, `ReportedSizeIsKept`, `CountIsExact` |
| `SessionViewProofs` | `NumbersAlwaysAgree`, `FlushCatchesUp` | `NumbersAgree`, `SafePointCatchesUp` |
| | `PatternsAreMatched`; `MatchingAdvances` | `PatternsMatch`; the matcher ends |
| `ConnectionProofs` | `RedactionIsExact`, `LimitIsKept`, `ClosedServesNothing`, `TimeoutsAreEarned` | `RedactorIsExact`, `WithinLimit`, `ClosedIsNotServed`, `TimeoutIsEarned` |
| | `CutsNeverMatter`, `HeldIsAlwaysBounded`, `LiteralsAreAlwaysOpaque` | `CutsDoNotMatter`, `HeldIsBounded`, `LiteralsAreOpaque` |
| `ApiClientProofs` | `ListingsAreComplete`, `RequestsEndInTime`, `LateAtMostOnce` | `CompleteListing`, `EndsInTime`, `LateOnlyIfTaken` |

They rest on the ASSUMEs of the modules they extend and on nothing else: bounds are numbers, and
positive where the module would be empty without; the set of connections is finite and "none" is not a key
(`ConnectionAssumption`); the end of a chain and its first page are not page tokens (`ApiAssumption`);
"nobody" is not a session (`CopyAssumption`); the two versions of a message and every draft have octets,
and content keys are cache keys apart from the message id (`ContentAssumption`, `KeyAssumption`);
permanent flags are among \Seen and \Deleted (`ViewAssumption`); the octet that stands for the announcement of
a literal says a number (`OctetsAssumption`).

None of the properties is inductive as it stands. Each proof has the invariant that is, beside the types;
TLC has checked each on the instances of the runs or on smaller ones. A step lemma per action follows, and the theorems
come last.

**UID store.** `AllocationIsAtomic` and its neighbours hold whatever the medium does and rest on `CInv`: the
tables agree with each other (rows are exactly the UIDs below `next_uid`, marks are issued, a mailbox
without a row has nothing), `synced` agrees in the same way because power loss makes it the tables, and
the open transaction has the row's UIDVALIDITY and rows that continue the table. `NeverRedefined` and the
refinement bind as long as the medium is intact (section 3 says why they end there) and add `NInv`: the
sidecar covers every UIDVALIDITY ever named or in use (`WatermarkCovers`), a UIDVALIDITY about to be
committed for a new row is greater than all named ones (`NewEraIsNewest`), and within the present
UIDVALIDITY every name ever issued is below `next_uid` (`EraAhead`). `Begin` establishes the second from
the first, `Commit` the third, and recovery keeps the first since it leaves the sidecar alone. A step
that reads the sidecar wrongly keeps them only if the value issued is the one due, and a power loss only if
it changes nothing; every other such step ends `intact` and with it what is to be shown. For the
refinement each action but `Commit`, `TombstoneMissing` and those that empty the tables is a stutter of
the ledger.

**Sync engine.** Three invariants. `StoreInv`: every UID is below `next_uid`, and the snapshot's UIDNEXT is
no later; with it a landing, however old, leaves snapshot and store in agreement. `WaitInv` is about who
waits for what: a listing that a forced caller waits for began at or after the generation the caller saw,
the shared flight is never older than it says, and the listing `_join` retries with is nobody else's.
`VersionInv` and `GoneInv`: versions are created in order, the cached content of a current version is its
own, and a listing which may answer an EXPUNGE neither shows the removed draft nor has it to fetch. The
last needs an index that does not lag, as `RemovedIsGone` says.

**Label holds.** `WrittenIsHeld`: what counts as written is upstream's label, and it is held; or it was let
go when the index had it and no listing, of either view, still had to read an older page. `ReadIsWritten`: a
listing whose page of the message was answered after the write, and which is past the message, has read it
as written or not at all. The second is what
`OwnWritesHold` compares at the landing; the first is what keeps the second when a page is read.

**COPY and MOVE.** `SyncInv`: the flight of each view and every joined listing run, and a caller's generation
is no later than the view's. `GivenLasts`: a Trash UID that was told is live, and the message pinned or in
the index of every Trash listing. `ToldIsOut`: what was copied is trashed and held, or the index has it and
no listing of INBOX has an older page to read. `CurrentIsClean`, `JoinedIsClean` and `StaleIsClean`: no
listing that can still answer a caller (the flight, the joined one, the one that a stale caller will join)
has what that caller must not see. `LeavesTheSource` is about copies out of INBOX.
`CopyUidIsRead` has two halves. `UidSetIsRead` is about `_uid_set` alone: for a list that ascends, sorting
changes nothing and the runs, read number by number, are the list again. `BatchInv` says that both columns
of a COPYUID ascend: the batch takes its messages in UID order, each once (`InOrder`), and every Trash UID so
far is below `next_uid` and below the one that a listing may have given the message whose PATCH is under way
(`InTurn`). A message that had a Trash UID before its turn is where this fails, which `own` records.

**Content.** `AllRight`: every key of the shared cache holds what is right for it: a message's bytes under a
version upstream has had, its size likewise, a rendering under its content key, and under a stamp a
rendering no older than the stamp. This is closed under `put`, eviction and the change of upstream, so a
reader is right whoever filled the cache. `KnewInv` follows the size that was known through the requests of
`raw_bytes`; `ListerInv` dates the listing's GET. The count (`CountInv`) covers what is cached and equals it
unless a changed message crosses the budget; `NotRendered` is needed for that, since a rendering over the
budget must not be put over a smaller one. `ContentProofs` begins with the algebra of the LRU list:
what `put` and the eviction loop do to the total.

**Session view.** `Numbers`: the client's list is the session's, in ascending order, of issued UIDs, and what
the snapshot has beyond it is newer than all of it. Then EXISTS may append what `sort()` merges (`JoinedLists`),
and reading EXPUNGE numbers one after the other, highest first, removes just the messages they stood for
(`DropAll`); lowest first it would not. Only the refused CLOSE breaks it. `Addressed`, `Answered` and
`Heard`: while no lapse has happened, the client has heard of a message nothing or what is recorded, except
for the flags that wait for a size; so comparing with the record, as `flush_pending` does, announces every
change.

**Connection.** `SessionInv` says at each await of a session what it may hold: credentials without a login
only while LOGIN is handled, none before greeting and after closing, except after a cancellation inside
`close()`; no deadline without a command in progress. The counts of the redactor are the cardinalities of the
holders (`CountsFollow`), whichever of the tasks moves a key.

**API client.** `AskedOnChain`, `Running` and `ReadAll`: the pages asked for are on the chain, all but the
present one are read, and each leads to one that was asked for; a set with that property and without a way
out is the whole chain (`AskedIsWhole`). `TimeInv`: an attempt begins and a sleep ends within the budget.
`LateInv`: nothing is late before the call is given up, and a thread at work has executed nothing yet.

**Parser.** `EventsStep` removes an octet or the wait for a literal (`Measure`), so the repetitions of `Drain`
are enough to reach a state in which nothing changes any more (`Stuck`, `DrainStuck`). The core is
`DrainOfFed`: draining, then feeding more octets and draining again, ends where draining all of them at once
does. A turn of the loop that is not stuck does the same when more octets follow in the buffer (`StepOfFed`),
except the refusal of a line that is too long, which is the cut that `CutBeforeLf` names (`FatalOfFed`). The
lemmas take the least buffer for which a claim could fail (`EventsInduction`). `ParserInv` is then inductive:
the parser is where all octets at once would have brought it, it is stuck, and the pieces and the literal
awaited are within the counters, and these within the limits (`Within`): what is announced is counted
before it is asked for. A literal that is completed leaves the buffer empty and the parser waiting for a line,
which is `LiteralsAreOpaque`.

**LIST patterns.** `Reached` is what the matcher has found out. Before the first wildcard there is a match if
what is left of the pattern has one from where the name is (`RestMatches`). After a wildcard: there is a
match if what follows the last wildcard has one from where its run ends or later; wherever that matches,
the characters compared since take as many of the name; and if what is left matches here, so does what
follows the wildcard from the present end of its run. This is why the earlier wildcards can be forgotten:
when the next wildcard comes (`ReachedAll`), a match found further on is also one from here, since that
wildcard takes what is between. `ReachedBack` needs that what cannot go on does not match (`NoRest`). That
collapsing keeps the meaning is `SameAs`, kept character by character (`SameAppended`, `SameWild`). That it
ends is `MatchingAdvances`, a number that every turn of the loops makes smaller: going back costs a walk
over the pattern, but the run of the last wildcard then ends one place further (`Remaining`).

What definitions by recursion compute is proved where a theorem needs it (the client's loop over EXPUNGE
numbers, the eviction loop and the total of the cache, the runs of a UID set and their reader, the loop of
the parser): the function is shown to satisfy its equation, and the least argument at which a claim could
fail is excluded (`LeastOf`, from the well-foundedness of the naturals).

Only model-checked: liveness (`EveryCallerReturns`, `Converges`, `EverySessionEnds`, `StopReturns` and
`EveryCallEnds` need fairness and ENABLED, which the prover does not handle), and the algorithms of
`Operators` (`SetsAreRead`, `FetchIsFaithful`, `SearchIsSound`): search keys are parsed and evaluated by
RECURSIVE operators, which the prover does not take, and `Operators` reaches them for all three. Of
`SetsAreRead` the part that other properties need, that a UID set is read back as written, is proved as
`UidSetIsRead` for `CopyUidIsRead`.

## 5. Not modelled

- `drafts.py`: MIME parsing and rendering and HTML to text, functions of their input built on the email
  and html libraries. What the rest needs of them, that the content key is a function of the content, is
  a version in `MailboxSync` and a content in `Content`.
- `responses.py`: formatting without state. Wording, logging and the scrubbing of log records.
- Settings (`config.py`) are inputs: their values are constants of the models.
- CAPABILITY, NAMESPACE, ID, SUBSCRIBE, CHECK answer a constant. STATUS counts
  what an unforced `sync` returns and changes nothing else.
- In FETCH the spelling of attributes and macros, in SEARCH dates, header decoding and case folding. What
  is refused is refused: bad syntax and what is unsupported (FETCH), bad syntax and a bad charset (SEARCH)
  are told apart by the response only.
- Batches of EXPUNGE, STORE and FETCH name one message in the models; those of COPY and MOVE several.
- Sent and Spam, which differ from INBOX and Trash only in their label.
- `scripts/` and `tests/`.

## 6. Plan

1. Done: the store with its ledger and proofs, and every component with state as a module.
2. Done: the safety and action properties of every component with state, of the parser and of the LIST
   matcher, proved.
3. Composition of `SessionView` with `MailboxSync`, in place of `ListingLands`.
4. `Search` with recursive functions in place of RECURSIVE operators, as a first step to proving
   `SearchIsSound` by the depth of a key.
