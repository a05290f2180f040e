---------------------------- MODULE UidStore -----------------------------
(***************************************************************************)
(* The durable UID store of the gateway (imapgw/uidstore.py): the SQLite   *)
(* tables mailbox, uid_map and deleted_mark, the UIDVALIDITY watermark in  *)
(* the sidecar file <db>.validity, the allocation transaction step by      *)
(* step, and what happens to them across crashes, corruption, loss of the  *)
(* file and clock rollbacks.                                               *)
(*                                                                         *)
(* The process has one connection and calls the store synchronously, so    *)
(* one transaction is open at a time.  The steps of a transaction matter   *)
(* because the process can die, or an exception can roll back, between     *)
(* them, and because the watermark is written outside the transaction.     *)
(***************************************************************************)
EXTENDS Integers

CONSTANTS
  Mailboxes,    \* (inbox_id, name) pairs, the primary key of table mailbox
  Keys,         \* remote keys: message ids, or draft ids with a content hash
  MaxValidity,  \* 2^32 - 1 in the code
  MaxUid,       \* bound: UIDs handed out per mailbox and store
  MaxClock,     \* bound: what the wall clock can read, in seconds
  Faults        \* faults of the medium: some of "watermark", "unreadable", "power"

ASSUME BoundsAssumption ==
  /\ MaxValidity \in Nat \ {0}
  /\ MaxUid \in Nat \ {0}
  /\ MaxClock \in Nat

\* A write of the sidecar fails; a read of it fails, or finds it empty or gone;
\* the power fails.
ASSUME FaultsAssumption == Faults \subseteq {"watermark", "unreadable", "power"}

VARIABLES
  mailbox,        \* table mailbox: UIDVALIDITY (0: no row) and next_uid
  uid_map,        \* table uid_map: a row is live until vanished_at is set
  deleted_mark,   \* table deleted_mark
  synced,         \* the tables as of the last WAL sync: what power loss keeps
  validity_file,  \* the watermark in <db>.validity (0: none)
  flushed,        \* the watermark as last written back: the sidecar is never synced
  tx,             \* the open allocation transaction, if any
  file,           \* what the next open will find: ok, absent, corrupt
  proc,           \* the gateway process: up, down, or refused to start
  intact,         \* history: the medium has kept and returned what it was given
  named           \* history: every (mailbox, UIDVALIDITY, UID) -> key issued,
                  \* forgotten once the medium is not intact

tables == <<mailbox, uid_map, deleted_mark>>
sidecar == <<validity_file, flushed>>
medium == <<synced, sidecar, file>>
history == <<named, intact>>
vars == <<tables, medium, tx, proc, history>>

--------------------------------------------------------------------------
(* Types *)

Uids == 1..MaxUid
MailboxRows == [uidvalidity : 0..MaxValidity, next_uid : 1..MaxUid + 1]
UidRows == [name : Mailboxes, uid : Uids, key : Keys, live : BOOLEAN]
Marks == [name : Mailboxes, uid : Uids]
Names == [name : Mailboxes, uidvalidity : 1..MaxValidity, uid : Uids, key : Keys]

NoRow == [uidvalidity |-> 0, next_uid |-> 1]
NoTx == [op |-> "idle"]

\* An allocation transaction: the mailbox row as it will be committed and the
\* uid_map rows inserted so far.
Transactions ==
  [op : {"ensure"}, name : Mailboxes, uidvalidity : 1..MaxValidity,
   next_uid : 1..MaxUid + 1, rows : SUBSET UidRows]

TypeOK ==
  /\ mailbox \in [Mailboxes -> MailboxRows]
  /\ uid_map \subseteq UidRows
  /\ deleted_mark \subseteq Marks
  /\ synced.mailbox \in [Mailboxes -> MailboxRows]
  /\ synced.uid_map \subseteq UidRows
  /\ synced.deleted_mark \subseteq Marks
  /\ validity_file \in 0..MaxValidity /\ flushed \in 0..MaxValidity
  /\ tx \in Transactions \cup {NoTx}
  /\ file \in {"ok", "absent", "corrupt"}
  /\ proc \in {"up", "down", "refused"}
  /\ named \subseteq Names
  /\ intact \in BOOLEAN

--------------------------------------------------------------------------
(* UIDVALIDITY *)

Larger(a, b) == IF a >= b THEN a ELSE b
Smaller(a, b) == IF a <= b THEN a ELSE b

\* Mutant: the value comes from the clock alone, as before the watermark.
ClockOnlyUidvalidity(now, watermark) == Smaller(Larger(1, now), MaxValidity)

\* Mutant: nothing stops at the largest UIDVALIDITY.
UncappedUidvalidity(now, watermark) == Larger(1, Larger(now, watermark + 1))

\* _next_uidvalidity: the clock, unless the watermark is ahead of it.  The clock
\* may read anything: it can be set back, and two calls can share a second.
NextUidvalidity(now, watermark) ==
  Smaller(Larger(1, Larger(now, watermark + 1)), MaxValidity)

\* _read_watermark: a sidecar that is missing, empty, malformed or cannot be read
\* this time counts as 0.
ReadWatermark == {validity_file} \cup {w \in {0} : "unreadable" \in Faults}

\* History: the promise goes on, unless the medium has now lost something.
Remember(kept) ==
  /\ intact' = (intact /\ kept)
  /\ named' = IF intact' THEN named ELSE {}

\* _write_watermark: best effort, an OSError is only logged, and nothing syncs the
\* file.  A value read too low is a loss if the clock does not make up for it: the
\* value issued is then lower than it should be, and so is the new watermark.
WriteWatermark(value, due) ==
  /\ UNCHANGED flushed
  /\ \/ validity_file' = value /\ Remember(value = due)
     \/ "watermark" \in Faults /\ UNCHANGED validity_file /\ Remember(FALSE)

--------------------------------------------------------------------------
(* Allocation: ensure_uids and mailbox_info *)

Rows(m) == {r \in uid_map : r.name = m}
Live(m) == {r \in Rows(m) : r.live}
LiveKeys(m) == {r.key : r \in Live(m)}

Idle == proc = "up" /\ tx = NoTx

\* The transaction that BEGIN IMMEDIATE opens.
Opened(m, next_uid, uidvalidity) ==
  [op |-> "ensure", name |-> m, rows |-> {},
   next_uid |-> next_uid, uidvalidity |-> uidvalidity]

\* Mutant: next_uid is one above the live UIDs instead of the stored counter.
BeginAboveLive(m, now) ==
  /\ Idle
  /\ \E top \in 0..MaxUid :
       /\ top = 0 \/ top \in {r.uid : r \in Live(m)}
       /\ \A r \in Live(m) : r.uid <= top
       /\ LET created == mailbox[m].uidvalidity = 0
              fresh == NextUidvalidity(now, validity_file)
          IN /\ tx' = Opened(m, top + 1,
                             IF created THEN fresh ELSE mailbox[m].uidvalidity)
             /\ IF created THEN WriteWatermark(fresh, fresh) ELSE UNCHANGED <<sidecar, history>>
  /\ UNCHANGED <<tables, synced, file, proc>>

\* ensure_uids, and mailbox_info, which is the same with no entry to visit: BEGIN
\* IMMEDIATE and _ensure_mailbox on a mailbox that has its row.
BeginFound(m) ==
  /\ mailbox[m].uidvalidity # 0
  /\ tx' = Opened(m, mailbox[m].next_uid, mailbox[m].uidvalidity)
  /\ UNCHANGED <<sidecar, history>>

\* And on one that has none: the row gets a new UIDVALIDITY, whose watermark is
\* written before the row can commit.
BeginCreated(m, now) ==
  /\ mailbox[m].uidvalidity = 0
  /\ \E watermark \in ReadWatermark :
       LET value == NextUidvalidity(now, watermark) IN
       /\ tx' = Opened(m, mailbox[m].next_uid, value)
       /\ WriteWatermark(value, NextUidvalidity(now, validity_file))

Begin(m, now) ==
  /\ Idle
  /\ BeginFound(m) \/ BeginCreated(m, now)
  /\ UNCHANGED <<tables, synced, file, proc>>

\* Mutant: the loop does not remember the keys it has just inserted.
NoInsertedKeys == {}

\* The entries the loop has added to its copy of the live map.
InsertedKeys == {r.key : r \in tx.rows}

\* One turn of the loop of ensure_uids.  Listings are arbitrary, so the next entry
\* is any key; one that is live already is skipped.
VisitKey(key) ==
  LET row == [name |-> tx.name, uid |-> tx.next_uid, key |-> key, live |-> TRUE] IN
  /\ tx.op = "ensure"
  /\ key \notin LiveKeys(tx.name) \cup InsertedKeys
  /\ tx.next_uid <= MaxUid
  /\ tx' = [tx EXCEPT !.rows = @ \cup {row}, !.next_uid = @ + 1]
  /\ UNCHANGED <<tables, medium, proc, history>>

\* UPDATE mailbox and COMMIT, when the entries are visited: all of it or nothing
\* reaches the tables.
Commit ==
  /\ tx.op = "ensure"
  /\ mailbox' = [mailbox EXCEPT ![tx.name] =
       [uidvalidity |-> tx.uidvalidity, next_uid |-> tx.next_uid]]
  /\ uid_map' = uid_map \cup tx.rows
  /\ named' = named \cup
       {[name |-> r.name, uidvalidity |-> tx.uidvalidity, uid |-> r.uid, key |-> r.key] :
           r \in {q \in tx.rows : intact}}
  /\ tx' = NoTx
  /\ UNCHANGED <<deleted_mark, medium, proc, intact>>

\* Mutant: no transaction around the inserts, so an exception keeps them.
RollbackKeepsRows ==
  /\ tx.op = "ensure"
  /\ uid_map' = uid_map \cup tx.rows
  /\ tx' = NoTx
  /\ UNCHANGED <<mailbox, deleted_mark, medium, proc, history>>

\* Any exception inside the transaction: ROLLBACK, re-raise.
Rollback ==
  /\ tx.op = "ensure"
  /\ tx' = NoTx
  /\ UNCHANGED <<tables, medium, proc, history>>

--------------------------------------------------------------------------
(* Tombstones and \Deleted marks: one transaction each, with no effect that *)
(* outlives a rollback, so each is a single step.                           *)

TombstoneMissing(m, present) ==
  LET gone == {r \in Live(m) : r.key \notin present} IN
  /\ Idle
  /\ gone # {}
  /\ uid_map' = (uid_map \ gone) \cup {[r EXCEPT !.live = FALSE] : r \in gone}
  /\ deleted_mark' = deleted_mark \ {[name |-> m, uid |-> r.uid] : r \in gone}
  /\ UNCHANGED <<mailbox, medium, tx, proc, history>>

\* Sessions pass UIDs of their view: UIDs this store issued, live or not.
SetDeleted(m, uids, value) ==
  LET marks == {[name |-> m, uid |-> u] : u \in uids} IN
  /\ Idle
  /\ uids # {}
  /\ deleted_mark' = IF value THEN deleted_mark \cup marks
                              ELSE deleted_mark \ marks
  /\ UNCHANGED <<mailbox, uid_map, medium, tx, proc, history>>

--------------------------------------------------------------------------
(* The process and the file *)

\* Mutant: the marks outlive the store whose UIDs they name.
EmptyTablesKeepingMarks ==
  /\ mailbox' = [m \in Mailboxes |-> NoRow]
  /\ uid_map' = {}
  /\ UNCHANGED deleted_mark
  /\ synced' = [mailbox |-> mailbox', uid_map |-> {}, deleted_mark |-> {}]

\* A new file: no rows, and nothing of the old one for power loss to bring back.
EmptyTables ==
  /\ mailbox' = [m \in Mailboxes |-> NoRow]
  /\ uid_map' = {}
  /\ deleted_mark' = {}
  /\ synced' = [mailbox |-> mailbox', uid_map |-> {}, deleted_mark |-> {}]

\* _open on a usable file, or on none: the tables are what they were.
Open ==
  /\ proc # "up"
  /\ file \in {"ok", "absent"}
  /\ file' = "ok"
  /\ proc' = "up"
  /\ UNCHANGED <<tables, synced, sidecar, tx, history>>

\* _recover: a corrupt file is renamed away and a fresh store created.
Recover ==
  /\ proc # "up"
  /\ file = "corrupt"
  /\ EmptyTables
  /\ file' = "ok"
  /\ proc' = "up"
  /\ UNCHANGED <<sidecar, tx, history>>

\* StoreUnavailable: a file that is locked or read-only for now, or a corrupt one
\* that cannot be renamed, stops the start and stays where it is.
Refuse ==
  /\ proc # "up"
  /\ file \in {"ok", "corrupt"}
  /\ proc' = "refused"
  /\ UNCHANGED <<tables, medium, tx, history>>

\* The rename succeeded and the fresh store could not be created.
RecoverFails ==
  /\ proc # "up"
  /\ file = "corrupt"
  /\ EmptyTables
  /\ file' = "absent"
  /\ proc' = "refused"
  /\ UNCHANGED <<sidecar, tx, history>>

\* The process dies: an open transaction is gone, the watermark is not.
Crash ==
  /\ proc = "up"
  /\ proc' = "down"
  /\ tx' = NoTx
  /\ UNCHANGED <<tables, medium, history>>

\* SQLite syncs the WAL at a checkpoint, not at COMMIT (synchronous = NORMAL).
SyncWal ==
  /\ proc = "up"
  /\ "power" \in Faults
  /\ synced' = [mailbox |-> mailbox, uid_map |-> uid_map, deleted_mark |-> deleted_mark]
  /\ UNCHANGED <<tables, sidecar, file, tx, proc, history>>

\* The operating system writes the sidecar back when it likes.
FlushSidecar ==
  /\ "power" \in Faults
  /\ flushed # validity_file
  /\ flushed' = validity_file
  /\ UNCHANGED <<tables, synced, validity_file, file, tx, proc, history>>

\* What a power loss can leave of a sidecar: if it was renamed into place and not
\* yet written back, the old one, the new one, or the new name without its content.
\* The process may have died before.
SidecarRemains ==
  IF flushed = validity_file THEN {flushed} ELSE {flushed, validity_file, 0}

PowerLoss ==
  /\ "power" \in Faults
  /\ mailbox' = synced.mailbox
  /\ uid_map' = synced.uid_map
  /\ deleted_mark' = synced.deleted_mark
  /\ validity_file' \in SidecarRemains
  /\ flushed' = validity_file'
  /\ proc' = "down"
  /\ tx' = NoTx
  /\ Remember(tables' = tables /\ validity_file' = validity_file)
  /\ UNCHANGED <<synced, file>>

\* Between two runs the file may become corrupt or be deleted (the sidecar stays).
FileChanges ==
  /\ proc # "up"
  /\ \/ file = "ok" /\ file' = "corrupt" /\ UNCHANGED <<tables, synced>>
     \/ file \in {"ok", "corrupt"} /\ file' = "absent" /\ EmptyTables
  /\ UNCHANGED <<sidecar, tx, proc, history>>

--------------------------------------------------------------------------
Init ==
  /\ mailbox = [m \in Mailboxes |-> NoRow]
  /\ uid_map = {}
  /\ deleted_mark = {}
  /\ synced = [mailbox |-> mailbox, uid_map |-> {}, deleted_mark |-> {}]
  /\ validity_file = 0 /\ flushed = 0
  /\ tx = NoTx
  /\ file = "absent"
  /\ proc = "down"
  /\ named = {}
  /\ intact = TRUE

Next ==
  \/ \E m \in Mailboxes :
       \/ \E now \in 0..MaxClock : Begin(m, now)
       \/ \E present \in SUBSET Keys : TombstoneMissing(m, present)
       \/ \E uids \in SUBSET {r.uid : r \in Rows(m)}, value \in BOOLEAN :
            SetDeleted(m, uids, value)
  \/ \E key \in Keys : VisitKey(key)
  \/ Commit \/ Rollback
  \/ Open \/ Recover \/ Refuse \/ RecoverFails
  \/ Crash \/ SyncWal \/ FlushSidecar \/ PowerLoss \/ FileChanges

Spec == Init /\ [][Next]_vars

--------------------------------------------------------------------------
(* Properties *)

\* (mailbox, UIDVALIDITY, UID) names one item forever: no later transaction,
\* crash, recovery, loss of the database or clock rollback gives the same
\* triple to another key.  UIDVALIDITY 2^32 - 1, where _next_uidvalidity
\* saturates, is the exception the code accepts.  The medium must keep and return
\* what it was given.  The promise ends with a watermark that could not be written,
\* with one that was read as 0 although the clock did not reach it, and with a power
\* loss that takes back commits or the sidecar: none of the three is excluded by the
\* code, which logs the first, ignores the second and syncs neither file.
NeverRedefined ==
  intact =>
  \A a, b \in named :
    /\ a.name = b.name
    /\ a.uidvalidity = b.uidvalidity
    /\ a.uidvalidity < MaxValidity
    /\ a.uid = b.uid
    => a.key = b.key

\* ensure_uids is atomic: whatever was interrupted, the rows of a mailbox are
\* exactly the UIDs below next_uid, one row each.
AllocationAtomic ==
  \A m \in Mailboxes :
    /\ \A r \in Rows(m) : r.uid < mailbox[m].next_uid
    /\ \A u \in 1..mailbox[m].next_uid - 1 : \E r \in Rows(m) : r.uid = u
    /\ \A r, s \in Rows(m) : r.uid = s.uid => r = s

\* The partial unique index uid_map_live_key never refuses an INSERT: no key is
\* live twice in a mailbox, the rows of the open transaction included.
LiveKeyUnique ==
  LET pending == IF tx.op = "ensure" THEN tx.rows ELSE {} IN
  \A r, s \in uid_map \cup pending :
    r.live /\ s.live /\ r.name = s.name /\ r.key = s.key => r.uid = s.uid

\* A \Deleted mark names a UID this store has issued, so that no item is ever
\* born with the mark of another (and expunged for it).
MarksNameIssuedUids ==
  \A d \in deleted_mark :
    d.uid < mailbox[d.name].next_uid /\ mailbox[d.name].uidvalidity # 0

\* The names that denote an item of the store as it stands.
AliveNames ==
  {[name |-> r.name, uidvalidity |-> mailbox[r.name].uidvalidity,
    uid |-> r.uid, key |-> r.key] : r \in {q \in uid_map : q.live}}

Ledger == INSTANCE UidLedger WITH names <- named, alive <- AliveNames, trusted <- intact

\* The store implements the ledger of names: batches appear atomically, above
\* every UID and UIDVALIDITY told before, and vanished names never return, for
\* as long as the medium keeps and returns what it was given.
ImplementsLedger == Ledger!Spec
==========================================================================
