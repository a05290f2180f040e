------------------------- MODULE UidStoreProofs --------------------------
(***************************************************************************)
(* Proofs about UidStore, for any set of mailboxes and keys and any bounds.*)
(***************************************************************************)
EXTENDS UidStore, TLAPS

\* A transaction record and nothing else has op = "ensure".
LEMMA OpenTx ==
  ASSUME TypeOK, tx.op = "ensure"
  PROVE  tx \in Transactions
BY DEF TypeOK, NoTx

\* _next_uidvalidity stays within 1..2^32-1 and passes the watermark it has read,
\* unless it saturates.
LEMMA NextUidvalidityFacts ==
  ASSUME NEW watermark \in 0..MaxValidity, NEW now \in 0..MaxClock
  PROVE  /\ NextUidvalidity(now, watermark) \in 1..MaxValidity
         /\ \/ watermark < NextUidvalidity(now, watermark)
            \/ NextUidvalidity(now, watermark) = MaxValidity
         /\ watermark <= NextUidvalidity(now, watermark)
BY BoundsAssumption DEF NextUidvalidity, Larger, Smaller

\* What Begin does to the row and the sidecar: nothing if the row is there, and
\* otherwise the new UIDVALIDITY is written, which is the one due, or a loss.
LEMMA BeginSteps ==
  ASSUME TypeOK, NEW m \in Mailboxes, NEW now \in 0..MaxClock, Begin(m, now)
  PROVE  /\ Idle /\ UNCHANGED <<tables, synced, flushed, file, proc>>
         /\ \/ mailbox[m].uidvalidity # 0 /\ BeginFound(m)
            \/ /\ mailbox[m].uidvalidity = 0
               /\ \E value \in 1..MaxValidity :
                    /\ tx' = Opened(m, mailbox[m].next_uid, value)
                    /\ WriteWatermark(value, NextUidvalidity(now, validity_file))
<1>1. Idle /\ UNCHANGED <<tables, synced, file, proc>> /\ (BeginFound(m) \/ BeginCreated(m, now))
  BY DEF Begin
<1>2. CASE BeginFound(m)
  BY <1>1, <1>2 DEF BeginFound, sidecar
<1>3. CASE BeginCreated(m, now)
  <2>1. ReadWatermark \subseteq 0..MaxValidity
    BY BoundsAssumption DEF ReadWatermark, TypeOK
  <2>2. PICK watermark \in ReadWatermark :
          /\ tx' = Opened(m, mailbox[m].next_uid, NextUidvalidity(now, watermark))
          /\ WriteWatermark(NextUidvalidity(now, watermark), NextUidvalidity(now, validity_file))
    BY <1>3 DEF BeginCreated
  <2>3. NextUidvalidity(now, watermark) \in 1..MaxValidity
    BY <2>1, <2>2, NextUidvalidityFacts
  <2>4. UNCHANGED flushed /\ mailbox[m].uidvalidity = 0
    BY <1>3, <2>2 DEF BeginCreated, WriteWatermark
  <2> QED BY <1>1, <2>2, <2>3, <2>4
<1> QED BY <1>1, <1>2, <1>3

\* What the history becomes is of its type, and is kept if the medium is intact.
LEMMA RememberFacts ==
  ASSUME TypeOK, NEW kept \in BOOLEAN, Remember(kept)
  PROVE  /\ named' \subseteq Names /\ intact' \in BOOLEAN
         /\ intact' => intact /\ kept /\ named' = named
BY DEF TypeOK, Remember

--------------------------------------------------------------------------
(* Type correctness *)

\* The empty store, before the first open, is well typed.
LEMMA InitType == Init => TypeOK
BY BoundsAssumption DEF Init, TypeOK, NoRow, MailboxRows

\* Opening the transaction of ensure_uids or mailbox_info, with the watermark
\* written or not, keeps the types.
LEMMA BeginType ==
  ASSUME TypeOK, NEW m \in Mailboxes, NEW now \in 0..MaxClock, Begin(m, now)
  PROVE  TypeOK'
<1>1. UNCHANGED <<tables, synced, flushed, file, proc>>
  BY BeginSteps
<1>2. mailbox[m] \in MailboxRows
  BY DEF TypeOK
<1>3. mailbox[m].next_uid \in 1..MaxUid + 1 /\ mailbox[m].uidvalidity \in 0..MaxValidity
  BY <1>2 DEF MailboxRows
<1>4. ASSUME NEW value \in 1..MaxValidity PROVE Opened(m, mailbox[m].next_uid, value) \in Transactions
  BY <1>3 DEF Opened, Transactions
<1>5. CASE mailbox[m].uidvalidity # 0 /\ BeginFound(m)
  <2>1. mailbox[m].uidvalidity \in 1..MaxValidity
    BY <1>3, <1>5, BoundsAssumption
  <2>2. tx' \in Transactions /\ UNCHANGED <<validity_file, named, intact>>
    BY <1>4, <1>5, <2>1 DEF BeginFound, sidecar, history
  <2> QED BY <1>1, <2>2 DEF TypeOK, tables
<1>6. ASSUME NEW value \in 1..MaxValidity,
             tx' = Opened(m, mailbox[m].next_uid, value),
             WriteWatermark(value, NextUidvalidity(now, validity_file))
      PROVE  TypeOK'
  <2>1. tx' \in Transactions
    BY <1>4, <1>6
  <2>2. validity_file' \in 0..MaxValidity
    <3>1. validity_file' = value \/ validity_file' = validity_file
      BY <1>6 DEF WriteWatermark
    <3> QED BY <3>1, BoundsAssumption DEF TypeOK
  <2>3. named' \subseteq Names /\ intact' \in BOOLEAN
    BY <1>6, RememberFacts DEF WriteWatermark
  <2> QED BY <1>1, <2>1, <2>2, <2>3 DEF TypeOK, tables
<1> QED BY <1>5, <1>6, BeginSteps

\* One turn of the loop of ensure_uids keeps the UID within its range.
LEMMA VisitKeyType ==
  ASSUME TypeOK, NEW key \in Keys, VisitKey(key)
  PROVE  TypeOK'
<1>1. tx \in Transactions
  BY OpenTx DEF VisitKey
<1> DEFINE row == [name |-> tx.name, uid |-> tx.next_uid, key |-> key, live |-> TRUE]
<1>2. row \in UidRows
  BY <1>1, BoundsAssumption DEF VisitKey, Transactions, UidRows, Uids
<1>3. tx.next_uid + 1 \in 1..MaxUid + 1
  BY <1>1, BoundsAssumption DEF VisitKey, Transactions
<1>4. tx' = [tx EXCEPT !.rows = @ \cup {row}, !.next_uid = @ + 1]
  BY DEF VisitKey
<1> HIDE DEF row
<1>5. tx.rows \cup {row} \in SUBSET UidRows
  BY <1>1, <1>2 DEF Transactions
<1>6. tx' \in Transactions
  BY <1>1, <1>3, <1>4, <1>5 DEF Transactions
<1> QED BY <1>6 DEF TypeOK, VisitKey, tables, medium, sidecar, history

\* COMMIT turns the rows of the transaction into names of the right type.
LEMMA CommitType == TypeOK /\ Commit => TypeOK'
<1> SUFFICES ASSUME TypeOK, Commit PROVE TypeOK'
  OBVIOUS
<1>1. tx \in Transactions
  BY OpenTx DEF Commit
<1>2. mailbox' \in [Mailboxes -> MailboxRows]
  BY <1>1, BoundsAssumption DEF Commit, TypeOK, Transactions, MailboxRows
<1>3. uid_map' \subseteq UidRows
  BY <1>1 DEF Commit, TypeOK, Transactions
<1>4. named' \subseteq Names
  BY <1>1 DEF Commit, TypeOK, Transactions, Names, UidRows
<1>5. tx' = NoTx /\ UNCHANGED <<deleted_mark, medium, proc, intact>>
  BY DEF Commit
<1> QED BY <1>2, <1>3, <1>4, <1>5 DEF TypeOK, medium, sidecar

\* A fresh store file is well typed.
LEMMA EmptyTablesType ==
  EmptyTables => /\ mailbox' \in [Mailboxes -> MailboxRows]
                 /\ uid_map' \subseteq UidRows
                 /\ deleted_mark' \subseteq Marks
                 /\ synced'.mailbox \in [Mailboxes -> MailboxRows]
                 /\ synced'.uid_map \subseteq UidRows
                 /\ synced'.deleted_mark \subseteq Marks
BY BoundsAssumption DEF EmptyTables, NoRow, MailboxRows

\* Every step of the store, its process and its file keeps the types.
LEMMA NextType == TypeOK /\ [Next]_vars => TypeOK'
<1> SUFFICES ASSUME TypeOK, [Next]_vars PROVE TypeOK'
  OBVIOUS
<1>3. ASSUME NEW m \in Mailboxes, NEW present \in SUBSET Keys, TombstoneMissing(m, present)
      PROVE  TypeOK'
  <2>1. uid_map' \subseteq UidRows
    <3> DEFINE gone == {r \in Live(m) : r.key \notin present}
    <3>1. gone \subseteq UidRows
      BY DEF TypeOK, Live, Rows
    <3>2. {[r EXCEPT !.live = FALSE] : r \in gone} \subseteq UidRows
      BY <3>1 DEF UidRows
    <3>3. uid_map' = (uid_map \ gone) \cup {[r EXCEPT !.live = FALSE] : r \in gone}
      BY <1>3 DEF TombstoneMissing
    <3> QED BY <3>2, <3>3 DEF TypeOK
  <2>2. deleted_mark' \subseteq Marks /\ UNCHANGED <<mailbox, medium, tx, proc, history>>
    BY <1>3 DEF TypeOK, TombstoneMissing
  <2> QED BY <2>1, <2>2 DEF TypeOK, medium, sidecar, history
<1>4. ASSUME NEW m \in Mailboxes, NEW uids \in SUBSET {r.uid : r \in Rows(m)},
             NEW value \in BOOLEAN, SetDeleted(m, uids, value)
      PROVE  TypeOK'
  <2>1. \A u \in uids : [name |-> m, uid |-> u] \in Marks
    BY DEF TypeOK, Rows, UidRows, Marks
  <2>2. deleted_mark' \subseteq Marks /\ UNCHANGED <<mailbox, uid_map, medium, tx, proc, history>>
    BY <1>4, <2>1 DEF TypeOK, SetDeleted
  <2> QED BY <2>2 DEF TypeOK, medium, sidecar, history
<1>5. CASE Rollback
  BY <1>5 DEF TypeOK, Rollback, tables, medium, sidecar, history
<1>6. CASE Open
  BY <1>6 DEF TypeOK, Open, tables, history, sidecar
<1>7. CASE Recover
  BY <1>7, EmptyTablesType DEF TypeOK, Recover, history, sidecar
<1>8. CASE Refuse
  BY <1>8 DEF TypeOK, Refuse, tables, medium, sidecar, history
<1>9. CASE RecoverFails
  BY <1>9, EmptyTablesType DEF TypeOK, RecoverFails, history, sidecar
<1>10. CASE Crash
  BY <1>10 DEF TypeOK, Crash, tables, medium, sidecar, history
<1>11. CASE SyncWal
  BY <1>11 DEF TypeOK, SyncWal, tables, sidecar, history
<1>12. CASE PowerLoss
  <2>1. validity_file' \in 0..MaxValidity
    BY <1>12, BoundsAssumption DEF TypeOK, PowerLoss, SidecarRemains
  <2>2. named' \subseteq Names /\ intact' \in BOOLEAN
    BY <1>12, RememberFacts DEF PowerLoss
  <2> QED BY <1>12, <2>1, <2>2 DEF TypeOK, PowerLoss
<1>15. CASE FlushSidecar
  BY <1>15 DEF TypeOK, FlushSidecar, tables, history
<1>13. CASE FileChanges
  BY <1>13, EmptyTablesType DEF TypeOK, FileChanges, tables, history, sidecar
<1>14. CASE UNCHANGED vars
  BY <1>14 DEF TypeOK, vars, tables, medium, sidecar, history
<1> QED
  BY <1>3, <1>4, <1>5, <1>6, <1>7, <1>8, <1>9, <1>10, <1>11, <1>12, <1>13, <1>14, <1>15,
     BeginType, VisitKeyType, CommitType DEF Next

\* Every state the store, its file and its process can reach is well typed;
\* in particular the mailbox rows and the open transaction are within bounds.
THEOREM TypeCorrect == Spec => []TypeOK
BY InitType, NextType, PTL DEF Spec
--------------------------------------------------------------------------
(* Consistency of the tables, under every fault                            *)
(*                                                                         *)
(* Consistent says it of one copy of the tables: the committed one and the *)
(* one power loss falls back to both satisfy it.  TxInv says that the open *)
(* transaction continues the committed rows of its mailbox without a gap.  *)

Consistent(mb, rows, marks) ==
  /\ \A r \in rows : r.uid < mb[r.name].next_uid /\ mb[r.name].uidvalidity # 0
  /\ \A m \in Mailboxes : \A u \in 1..mb[m].next_uid - 1 :
       \E r \in rows : r.name = m /\ r.uid = u
  /\ \A r, s \in rows : r.name = s.name /\ r.uid = s.uid => r = s
  /\ \A r, s \in rows : r.live /\ s.live /\ r.name = s.name /\ r.key = s.key => r = s
  /\ \A d \in marks : d.uid < mb[d.name].next_uid /\ mb[d.name].uidvalidity # 0

TxInv ==
  tx.op = "ensure" =>
    /\ proc = "up"
    /\ mailbox[tx.name].uidvalidity # 0 => tx.uidvalidity = mailbox[tx.name].uidvalidity
    /\ mailbox[tx.name].next_uid <= tx.next_uid
    /\ \A r \in tx.rows : /\ r.name = tx.name
                          /\ r.live
                          /\ mailbox[tx.name].next_uid <= r.uid
                          /\ r.uid < tx.next_uid
                          /\ r.key \notin LiveKeys(tx.name)
    /\ \A u \in mailbox[tx.name].next_uid..tx.next_uid - 1 : \E r \in tx.rows : r.uid = u
    /\ \A r, s \in tx.rows : r.uid = s.uid \/ r.key = s.key => r = s

ConsistentNow == Consistent(mailbox, uid_map, deleted_mark)
ConsistentSynced == Consistent(synced.mailbox, synced.uid_map, synced.deleted_mark)
CInv == TypeOK /\ ConsistentNow /\ ConsistentSynced /\ TxInv

\* The empty store satisfies the invariant of the crash-safety argument.
LEMMA InitCInv == Init => CInv
<1> SUFFICES ASSUME Init PROVE CInv
  OBVIOUS
<1>1. TypeOK
  BY InitType
<1>2. ConsistentNow
  BY DEF Init, ConsistentNow, Consistent, NoRow
<1>3. ConsistentSynced
  BY DEF Init, ConsistentSynced, Consistent, NoRow
<1>4. TxInv
  BY DEF Init, TxInv, NoTx
<1> QED BY <1>1, <1>2, <1>3, <1>4 DEF CInv

\* A fresh file is consistent, and so is what power loss would leave of it.
LEMMA EmptyTablesCInv == EmptyTables => ConsistentNow' /\ ConsistentSynced'
BY DEF EmptyTables, ConsistentNow, ConsistentSynced, Consistent, NoRow

\* With no transaction open there is nothing for TxInv to say.
LEMMA NoTxInv == tx = NoTx => TxInv
BY DEF TxInv, NoTx

\* The transaction that Begin opens starts at the committed next_uid.
LEMMA BeginCInv ==
  ASSUME CInv, NEW m \in Mailboxes, NEW now \in 0..MaxClock, Begin(m, now)
  PROVE  CInv'
<1>1. TypeOK' /\ TypeOK
  BY BeginType DEF CInv
<1>2. UNCHANGED <<mailbox, uid_map, deleted_mark, synced, proc>> /\ Idle
  BY <1>1, BeginSteps DEF tables
<1>3. ConsistentNow' /\ ConsistentSynced'
  BY <1>2 DEF CInv, ConsistentNow, ConsistentSynced
<1>4. /\ tx'.name = m /\ tx'.rows = {} /\ tx'.next_uid = mailbox[m].next_uid
      /\ mailbox[m].uidvalidity # 0 => tx'.uidvalidity = mailbox[m].uidvalidity
  BY <1>1, BeginSteps DEF BeginFound, Opened
<1>5. mailbox[m].next_uid \in Int
  BY <1>1 DEF TypeOK, MailboxRows
<1>6. TxInv'
  BY <1>2, <1>4, <1>5 DEF TxInv, Idle
<1> QED BY <1>1, <1>3, <1>6 DEF CInv

\* A turn of the loop of ensure_uids adds a row at next_uid for a key that is
\* not live, and nothing else.
LEMMA VisitKeyCInv ==
  ASSUME CInv, NEW key \in Keys, VisitKey(key)
  PROVE  CInv'
<1>1. TypeOK' /\ TypeOK /\ tx \in Transactions
  BY VisitKeyType, OpenTx DEF CInv, VisitKey
<1>2. UNCHANGED <<mailbox, uid_map, deleted_mark, synced, proc>>
  BY DEF VisitKey, tables, medium
<1>3. ConsistentNow' /\ ConsistentSynced'
  BY <1>2 DEF CInv, ConsistentNow, ConsistentSynced
<1> DEFINE row == [name |-> tx.name, uid |-> tx.next_uid, key |-> key, live |-> TRUE]
<1>4. TxInv /\ tx.op = "ensure" /\ key \notin LiveKeys(tx.name) \cup InsertedKeys
  BY DEF CInv, VisitKey
<1>5. /\ tx'.op = tx.op /\ tx'.name = tx.name /\ tx'.rows = tx.rows \cup {row}
      /\ tx'.next_uid = tx.next_uid + 1 /\ tx'.uidvalidity = tx.uidvalidity
  BY <1>1 DEF VisitKey, Transactions
<1>6. /\ mailbox[tx.name].next_uid \in Nat /\ tx.next_uid \in Nat
      /\ \A r \in tx.rows : r.uid \in Nat
  BY <1>1, BoundsAssumption DEF TypeOK, Transactions, MailboxRows, UidRows, Uids
<1>7. row.name = tx.name /\ row.uid = tx.next_uid /\ row.key = key /\ row.live
  OBVIOUS
<1>8. \A r \in tx.rows : r.key # row.key /\ r.uid # row.uid
  BY <1>4, <1>6, <1>7 DEF InsertedKeys, TxInv
<1>9. row.key \notin LiveKeys(tx.name)
  BY <1>4, <1>7
<1> HIDE DEF row
<1>10. \A r \in tx'.rows : /\ r.name = tx.name /\ r.live
                           /\ mailbox[tx.name].next_uid <= r.uid
                           /\ r.uid < tx'.next_uid
                           /\ r.key \notin LiveKeys(tx.name)
  BY <1>4, <1>5, <1>6, <1>7, <1>9 DEF TxInv
<1>11. \A u \in mailbox[tx.name].next_uid..tx'.next_uid - 1 : \E r \in tx'.rows : r.uid = u
  BY <1>4, <1>5, <1>6, <1>7 DEF TxInv
<1>12. \A r, s \in tx'.rows : r.uid = s.uid \/ r.key = s.key => r = s
  BY <1>4, <1>5, <1>8 DEF TxInv
<1>13. LiveKeys(tx.name)' = LiveKeys(tx.name)
  BY <1>2, <1>5 DEF LiveKeys, Live, Rows
<1>14. TxInv'
  BY <1>2, <1>4, <1>5, <1>6, <1>10, <1>11, <1>12, <1>13 DEF TxInv
<1> QED BY <1>1, <1>3, <1>14 DEF CInv

\* COMMIT makes the rows of the transaction the UIDs up to the new next_uid.
LEMMA CommitCInv == CInv /\ Commit => CInv'
<1> SUFFICES ASSUME CInv, Commit PROVE CInv'
  OBVIOUS
<1>1. TypeOK' /\ tx \in Transactions /\ TypeOK
  BY CommitType, OpenTx DEF CInv, Commit
<1>2. UNCHANGED <<deleted_mark, synced, proc>> /\ tx' = NoTx
  BY DEF Commit, medium, sidecar
<1>3. ConsistentSynced' /\ TxInv'
  BY <1>2, NoTxInv DEF CInv, ConsistentSynced, TxInv, NoTx
<1>4. TxInv /\ tx.op = "ensure" /\ ConsistentNow
  BY DEF CInv, Commit
<1>5. /\ mailbox' = [mailbox EXCEPT ![tx.name] =
                      [uidvalidity |-> tx.uidvalidity, next_uid |-> tx.next_uid]]
      /\ uid_map' = uid_map \cup tx.rows
  BY DEF Commit
<1>6. /\ \A m \in Mailboxes : mailbox[m].next_uid \in Nat /\ mailbox'[m].next_uid \in Nat
      /\ tx.next_uid \in Nat /\ tx.uidvalidity \in Nat \ {0} /\ tx.name \in Mailboxes
      /\ \A r \in uid_map \cup tx.rows : r.uid \in Nat \ {0} /\ r.name \in Mailboxes
      /\ \A d \in deleted_mark : d.uid \in Nat /\ d.name \in Mailboxes
  <2>1. \A m \in Mailboxes : mailbox[m].next_uid \in Nat /\ mailbox'[m].next_uid \in Nat
    BY <1>1, BoundsAssumption DEF TypeOK, MailboxRows
  <2>2. tx.next_uid \in Nat /\ tx.uidvalidity \in Nat \ {0} /\ tx.name \in Mailboxes
    BY <1>1, BoundsAssumption DEF Transactions
  <2>3. uid_map \cup tx.rows \subseteq UidRows /\ deleted_mark \subseteq Marks
    BY <1>1 DEF TypeOK, Transactions
  <2>4. \A r \in UidRows : r.uid \in Nat \ {0} /\ r.name \in Mailboxes
    BY BoundsAssumption DEF UidRows, Uids
  <2>5. \A d \in Marks : d.uid \in Nat /\ d.name \in Mailboxes
    BY BoundsAssumption DEF Marks, Uids
  <2> QED BY <2>1, <2>2, <2>3, <2>4, <2>5
<1>7. /\ mailbox'[tx.name].next_uid = tx.next_uid
      /\ mailbox'[tx.name].uidvalidity = tx.uidvalidity
      /\ \A m \in Mailboxes : m # tx.name => mailbox'[m] = mailbox[m]
  BY <1>1, <1>5 DEF TypeOK, Transactions
<1>8. \A m \in Mailboxes : mailbox[m].next_uid <= mailbox'[m].next_uid
  BY <1>4, <1>6, <1>7 DEF TxInv
<1>9. \A m \in Mailboxes : mailbox[m].uidvalidity # 0 => mailbox'[m].uidvalidity # 0
  BY <1>6, <1>7
<1>10. \A r \in uid_map' : r.uid < mailbox'[r.name].next_uid /\ mailbox'[r.name].uidvalidity # 0
  BY <1>4, <1>5, <1>6, <1>7, <1>8, <1>9 DEF TxInv, ConsistentNow, Consistent
<1>11. ASSUME NEW m \in Mailboxes, NEW u \in 1..mailbox'[m].next_uid - 1
       PROVE  \E r \in uid_map' : r.name = m /\ r.uid = u
  <2>1. CASE u < mailbox[m].next_uid
    <3>1. u \in 1..mailbox[m].next_uid - 1
      BY <1>6, <2>1
    <3> QED BY <1>4, <1>5, <3>1 DEF ConsistentNow, Consistent
  <2>2. CASE ~(u < mailbox[m].next_uid)
    <3>1. m = tx.name
      BY <1>6, <1>7, <2>2
    <3>2. u \in mailbox[tx.name].next_uid..tx.next_uid - 1
      BY <1>6, <1>7, <2>2, <3>1
    <3> QED BY <1>4, <1>5, <3>1, <3>2 DEF TxInv
  <2> QED BY <2>1, <2>2
<1>12. \A r, s \in uid_map' : r.name = s.name /\ r.uid = s.uid => r = s
  <2>1. \A r \in uid_map, s \in tx.rows : r.name = s.name => r.uid < s.uid
    BY <1>4, <1>6 DEF TxInv, ConsistentNow, Consistent
  <2> QED BY <1>4, <1>5, <1>6, <2>1 DEF TxInv, ConsistentNow, Consistent
<1>13. \A r, s \in uid_map' : r.live /\ s.live /\ r.name = s.name /\ r.key = s.key => r = s
  <2>1. \A r \in uid_map, s \in tx.rows : r.live /\ r.name = s.name => r.key # s.key
    BY <1>4 DEF TxInv, LiveKeys, Live, Rows
  <2> QED BY <1>4, <1>5, <2>1 DEF TxInv, ConsistentNow, Consistent
<1>14. \A d \in deleted_mark' :
         d.uid < mailbox'[d.name].next_uid /\ mailbox'[d.name].uidvalidity # 0
  BY <1>2, <1>4, <1>6, <1>8, <1>9 DEF ConsistentNow, Consistent
<1>15. ConsistentNow'
  BY <1>10, <1>11, <1>12, <1>13, <1>14 DEF ConsistentNow, Consistent
<1> QED BY <1>1, <1>3, <1>15 DEF CInv

\* Tombstoning keeps the row, and with it the UID: only vanished_at changes.
LEMMA TombstoneCInv ==
  ASSUME CInv, NEW m \in Mailboxes, NEW present \in SUBSET Keys,
         TombstoneMissing(m, present)
  PROVE  CInv'
<1> DEFINE gone == {r \in Live(m) : r.key \notin present}
           dead == {[r EXCEPT !.live = FALSE] : r \in gone}
<1>1. /\ uid_map' = (uid_map \ gone) \cup dead
      /\ deleted_mark' \subseteq deleted_mark
      /\ UNCHANGED <<mailbox, synced, tx, proc>>
      /\ tx = NoTx
  BY DEF TombstoneMissing, medium, sidecar, Idle
<1>2. TypeOK'
  BY NextType DEF CInv, Next
<1>3. gone \subseteq uid_map /\ uid_map \subseteq UidRows
  BY DEF Live, Rows, CInv, TypeOK
<1>4. \A r \in gone : LET d == [r EXCEPT !.live = FALSE] IN
        d.name = r.name /\ d.uid = r.uid /\ d.key = r.key /\ d.live = FALSE
  BY <1>3 DEF UidRows
<1>5. ConsistentNow
  BY DEF CInv
<1> HIDE DEF gone
<1>6. \A r \in uid_map' : \E q \in uid_map :
        /\ r.name = q.name /\ r.uid = q.uid /\ r.key = q.key
        /\ (r.live => r = q) /\ (q \notin gone => r = q)
        /\ (q \in gone => r = [q EXCEPT !.live = FALSE])
  <2> SUFFICES ASSUME NEW r \in uid_map'
               PROVE  \E q \in uid_map :
                        /\ r.name = q.name /\ r.uid = q.uid /\ r.key = q.key
                        /\ (r.live => r = q) /\ (q \notin gone => r = q)
                        /\ (q \in gone => r = [q EXCEPT !.live = FALSE])
    OBVIOUS
  <2>1. CASE r \in uid_map \ gone
    BY <2>1
  <2>2. CASE r \in dead
    <3>1. PICK q \in gone : r = [q EXCEPT !.live = FALSE]
      BY <2>2
    <3>2. r.name = q.name /\ r.uid = q.uid /\ r.key = q.key /\ r.live = FALSE
      BY <1>4, <3>1
    <3> QED BY <1>3, <3>1, <3>2
  <2> QED BY <1>1, <2>1, <2>2
<1>7. \A q \in uid_map : \E r \in uid_map' : r.name = q.name /\ r.uid = q.uid
  BY <1>1, <1>4
<1>8. \A r \in uid_map' : r.uid < mailbox'[r.name].next_uid /\ mailbox'[r.name].uidvalidity # 0
  BY <1>1, <1>5, <1>6 DEF ConsistentNow, Consistent
<1>9. \A b \in Mailboxes : \A u \in 1..mailbox'[b].next_uid - 1 :
        \E r \in uid_map' : r.name = b /\ r.uid = u
  BY <1>1, <1>5, <1>7 DEF ConsistentNow, Consistent
<1>10. \A r, s \in uid_map' : r.name = s.name /\ r.uid = s.uid => r = s
  <2> SUFFICES ASSUME NEW r \in uid_map', NEW s \in uid_map', r.name = s.name, r.uid = s.uid
               PROVE  r = s
    OBVIOUS
  <2>1. PICK q \in uid_map : /\ r.name = q.name /\ r.uid = q.uid
                            /\ (q \notin gone => r = q)
                            /\ (q \in gone => r = [q EXCEPT !.live = FALSE])
    BY <1>6
  <2>2. PICK p \in uid_map : /\ s.name = p.name /\ s.uid = p.uid
                            /\ (p \notin gone => s = p)
                            /\ (p \in gone => s = [p EXCEPT !.live = FALSE])
    BY <1>6
  <2>3. p = q
    <3>1. p.name = q.name /\ p.uid = q.uid
      BY <2>1, <2>2
    <3>2. \A a, b \in uid_map : a.name = b.name /\ a.uid = b.uid => a = b
      BY <1>5 DEF ConsistentNow, Consistent
    <3> QED BY <3>1, <3>2
  <2> QED BY <2>1, <2>2, <2>3
<1>11. \A r, s \in uid_map' : r.live /\ s.live /\ r.name = s.name /\ r.key = s.key => r = s
  BY <1>5, <1>6 DEF ConsistentNow, Consistent
<1>12. \A d \in deleted_mark' :
         d.uid < mailbox'[d.name].next_uid /\ mailbox'[d.name].uidvalidity # 0
  BY <1>1, <1>5 DEF ConsistentNow, Consistent
<1>13. ConsistentNow'
  BY <1>8, <1>9, <1>10, <1>11, <1>12 DEF ConsistentNow, Consistent
<1>14. ConsistentSynced' /\ TxInv'
  BY <1>1 DEF CInv, ConsistentSynced, TxInv, NoTx
<1> QED BY <1>2, <1>13, <1>14 DEF CInv

\* set_deleted marks UIDs that have rows, so UIDs below next_uid.
LEMMA SetDeletedCInv ==
  ASSUME CInv, NEW m \in Mailboxes, NEW uids \in SUBSET {r.uid : r \in Rows(m)},
         NEW value \in BOOLEAN, SetDeleted(m, uids, value)
  PROVE  CInv'
<1>1. TypeOK'
  BY NextType DEF CInv, Next
<1>2. UNCHANGED <<mailbox, uid_map, synced, tx, proc>> /\ tx = NoTx
  BY DEF SetDeleted, medium, sidecar, Idle
<1>3. \A d \in deleted_mark' : d \in deleted_mark \/ \E u \in uids : d = [name |-> m, uid |-> u]
  BY DEF SetDeleted
<1>4. \A u \in uids : u < mailbox[m].next_uid /\ mailbox[m].uidvalidity # 0
  BY DEF Rows, CInv, ConsistentNow, Consistent
<1>5. ConsistentNow'
  BY <1>2, <1>3, <1>4 DEF CInv, ConsistentNow, Consistent
<1>6. ConsistentSynced' /\ TxInv'
  BY <1>2 DEF CInv, ConsistentSynced, TxInv, NoTx
<1> QED BY <1>1, <1>5, <1>6 DEF CInv

\* Every step, faults of the medium included, preserves the invariant.
LEMMA NextCInv == CInv /\ [Next]_vars => CInv'
<1> SUFFICES ASSUME CInv, [Next]_vars PROVE CInv'
  OBVIOUS
<1>0. TypeOK /\ TypeOK' /\ ConsistentNow /\ ConsistentSynced /\ TxInv
  BY NextType DEF CInv
<1>3. ASSUME UNCHANGED <<mailbox, uid_map, deleted_mark, synced, proc>>, tx' \in {tx, NoTx}
      PROVE  CInv'
  <2>1. ConsistentNow' /\ ConsistentSynced'
    BY <1>0, <1>3 DEF ConsistentNow, ConsistentSynced
  <2>2. TxInv'
    BY <1>0, <1>3 DEF TxInv, NoTx, LiveKeys, Live, Rows
  <2> QED BY <1>0, <2>1, <2>2 DEF CInv
<1>4. CASE Rollback
  BY <1>3, <1>4 DEF Rollback, tables, medium, sidecar
<1>5. ASSUME proc # "up" \/ tx' = NoTx, UNCHANGED tx \/ tx' = NoTx
      PROVE  TxInv'
  BY <1>0, <1>5 DEF TxInv, NoTx
<1>6. CASE Open
  <2>1. ConsistentNow' /\ ConsistentSynced'
    BY <1>0, <1>6 DEF Open, tables, ConsistentNow, ConsistentSynced
  <2> QED BY <1>0, <1>5, <1>6, <2>1 DEF CInv, Open, sidecar
<1>7. CASE Recover
  BY <1>0, <1>5, <1>7, EmptyTablesCInv DEF CInv, Recover, sidecar
<1>8. CASE Refuse
  <2>1. ConsistentNow' /\ ConsistentSynced'
    BY <1>0, <1>8 DEF Refuse, tables, medium, sidecar, ConsistentNow, ConsistentSynced
  <2> QED BY <1>0, <1>5, <1>8, <2>1 DEF CInv, Refuse
<1>9. CASE RecoverFails
  BY <1>0, <1>5, <1>9, EmptyTablesCInv DEF CInv, RecoverFails, sidecar
<1>10. CASE Crash
  <2>1. ConsistentNow' /\ ConsistentSynced'
    BY <1>0, <1>10 DEF Crash, tables, medium, sidecar, ConsistentNow, ConsistentSynced
  <2> QED BY <1>0, <1>5, <1>10, <2>1 DEF CInv, Crash
<1>11. CASE SyncWal
  <2>1. ConsistentNow' /\ ConsistentSynced'
    BY <1>0, <1>11 DEF SyncWal, tables, ConsistentNow, ConsistentSynced
  <2>2. TxInv'
    BY <1>0, <1>11 DEF SyncWal, tables, TxInv, LiveKeys, Live, Rows, sidecar
  <2> QED BY <1>0, <2>1, <2>2 DEF CInv
<1>12. CASE PowerLoss
  <2>1. ConsistentNow' /\ ConsistentSynced'
    BY <1>0, <1>12 DEF PowerLoss, medium, sidecar, ConsistentNow, ConsistentSynced
  <2> QED BY <1>0, <1>5, <1>12, <2>1 DEF CInv, PowerLoss
<1>13. CASE FileChanges
  <2>1. ConsistentNow' /\ ConsistentSynced'
    BY <1>0, <1>13, EmptyTablesCInv DEF FileChanges, tables, ConsistentNow, ConsistentSynced
  <2> QED BY <1>0, <1>5, <1>13, <2>1 DEF CInv, FileChanges, sidecar
<1>14. CASE UNCHANGED vars
  BY <1>3, <1>14 DEF vars, tables, medium, sidecar
<1>15. CASE FlushSidecar
  BY <1>3, <1>15 DEF FlushSidecar, tables
<1> QED
  BY <1>4, <1>6, <1>7, <1>8, <1>9, <1>10, <1>11, <1>12, <1>13, <1>14, <1>15,
     BeginCInv, VisitKeyCInv, CommitCInv, TombstoneCInv, SetDeletedCInv DEF Next

\* The invariant implies the three safety properties of the tables.
LEMMA CInvSafe == CInv => AllocationAtomic /\ LiveKeyUnique /\ MarksNameIssuedUids
<1> SUFFICES ASSUME CInv PROVE AllocationAtomic /\ LiveKeyUnique /\ MarksNameIssuedUids
  OBVIOUS
<1>0. ConsistentNow
  BY DEF CInv
<1>1. AllocationAtomic
  <2> SUFFICES ASSUME NEW m \in Mailboxes
               PROVE  /\ \A r \in Rows(m) : r.uid < mailbox[m].next_uid
                      /\ \A u \in 1..mailbox[m].next_uid - 1 : \E r \in Rows(m) : r.uid = u
                      /\ \A r, s \in Rows(m) : r.uid = s.uid => r = s
    BY DEF AllocationAtomic
  <2>1. \A r : r \in Rows(m) <=> r \in uid_map /\ r.name = m
    BY DEF Rows
  <2>2. \A r \in Rows(m) : r.uid < mailbox[m].next_uid
    BY <1>0, <2>1 DEF ConsistentNow, Consistent
  <2>3. \A u \in 1..mailbox[m].next_uid - 1 : \E r \in Rows(m) : r.uid = u
    BY <1>0, <2>1 DEF ConsistentNow, Consistent
  <2>4. \A r, s \in Rows(m) : r.uid = s.uid => r = s
    BY <1>0, <2>1 DEF ConsistentNow, Consistent
  <2> QED BY <2>2, <2>3, <2>4
<1>2. MarksNameIssuedUids
  BY <1>0 DEF ConsistentNow, Consistent, MarksNameIssuedUids
<1>3. LiveKeyUnique
  <2>1. CASE tx.op = "ensure"
    BY <2>1 DEF CInv, ConsistentNow, Consistent, TxInv, LiveKeyUnique, LiveKeys, Live, Rows
  <2>2. CASE tx.op # "ensure"
    BY <2>2 DEF CInv, ConsistentNow, Consistent, LiveKeyUnique
  <2> QED BY <2>1, <2>2
<1> QED BY <1>1, <1>2, <1>3

\* The invariant of the crash-safety argument holds in every reachable state.
LEMMA CInvHolds == Spec => []CInv
BY InitCInv, NextCInv, PTL DEF Spec

\* ensure_uids is atomic whatever fails: crash, exception, corruption, lost
\* watermark or power loss leave exactly the UIDs below next_uid allocated.
THEOREM AllocationIsAtomic == Spec => []AllocationAtomic
BY CInvHolds, CInvSafe, PTL

\* The unique index on live keys never refuses an INSERT of ensure_uids.
THEOREM LiveKeysAreUnique == Spec => []LiveKeyUnique
BY CInvHolds, CInvSafe, PTL

\* No item is ever created under a UID that already carries a \Deleted mark.
THEOREM MarksAreIssued == Spec => []MarksNameIssuedUids
BY CInvHolds, CInvSafe, PTL

--------------------------------------------------------------------------
(* Names are for ever, on a medium without faults                          *)
(*                                                                         *)
(* NeverRedefined is not inductive: it must be known that the watermark    *)
(* covers every UIDVALIDITY in use, that a new one is therefore above all  *)
(* those of its mailbox, and that next_uid is above every UID told under   *)
(* the current one.                                                        *)

WatermarkCovers ==
  /\ \A n \in named : n.uidvalidity <= validity_file
  /\ \A m \in Mailboxes : mailbox[m].uidvalidity <= validity_file
  /\ tx.op = "ensure" => tx.uidvalidity <= validity_file

NewEraIsNewest ==
  tx.op = "ensure" /\ mailbox[tx.name].uidvalidity = 0 /\ tx.uidvalidity < MaxValidity
    => \A n \in named : n.name = tx.name => n.uidvalidity < tx.uidvalidity

EraAhead ==
  \A n \in named :
    mailbox[n.name].uidvalidity # 0 /\ mailbox[n.name].uidvalidity < MaxValidity
      => /\ n.uidvalidity <= mailbox[n.name].uidvalidity
         /\ n.uidvalidity = mailbox[n.name].uidvalidity => n.uid < mailbox[n.name].next_uid

NInv == CInv /\ WatermarkCovers /\ NewEraIsNewest /\ EraAhead /\ NeverRedefined

\* What is inductive when the medium may fail.
IntactInv == CInv /\ (intact => NInv)

\* Before the first open no name has been issued.
LEMMA InitNInv == Init => NInv
<1> SUFFICES ASSUME Init PROVE NInv
  OBVIOUS
<1>1. CInv
  BY InitCInv
<1>2. WatermarkCovers
  BY DEF Init, WatermarkCovers, NoTx, NoRow
<1>3. NewEraIsNewest /\ EraAhead /\ NeverRedefined
  BY DEF Init, NewEraIsNewest, EraAhead, NeverRedefined, NoTx
<1> QED BY <1>1, <1>2, <1>3 DEF NInv

\* A mailbox row is created under a UIDVALIDITY above every one issued, which
\* the watermark on disk covers before the row can commit.
LEMMA BeginNInv ==
  ASSUME NInv, intact, intact', CInv', NEW m \in Mailboxes, NEW now \in 0..MaxClock,
         Begin(m, now)
  PROVE  NInv'
<1>1. TypeOK
  BY DEF NInv, CInv
<1>2. UNCHANGED mailbox
  BY <1>1, BeginSteps DEF tables
<1>3. CASE mailbox[m].uidvalidity # 0 /\ BeginFound(m)
  <2>1. /\ tx'.name = m /\ tx'.uidvalidity = mailbox[m].uidvalidity
        /\ UNCHANGED <<validity_file, named>>
    BY <1>3 DEF BeginFound, Opened, sidecar, history
  <2>2. WatermarkCovers'
    BY <1>2, <2>1 DEF NInv, WatermarkCovers
  <2>3. NewEraIsNewest'
    BY <1>2, <1>3, <2>1 DEF NewEraIsNewest
  <2> QED BY <1>2, <2>1, <2>2, <2>3 DEF NInv, EraAhead, NeverRedefined
<1>4. ASSUME NEW value \in 1..MaxValidity, mailbox[m].uidvalidity = 0,
             tx' = Opened(m, mailbox[m].next_uid, value),
             WriteWatermark(value, NextUidvalidity(now, validity_file))
      PROVE  NInv'
  <2>1. /\ value = NextUidvalidity(now, validity_file)
        /\ validity_file' = value /\ UNCHANGED named
    BY <1>1, <1>4, RememberFacts DEF WriteWatermark
  <2>2. /\ validity_file < value \/ value = MaxValidity
        /\ validity_file <= value
    BY <1>1, <2>1, NextUidvalidityFacts DEF TypeOK
  <2>3. tx'.name = m /\ tx'.uidvalidity = value
    BY <1>4 DEF Opened
  <2>4. /\ \A n \in named : n.uidvalidity \in Int
        /\ \A b \in Mailboxes : mailbox[b].uidvalidity \in Int
        /\ validity_file \in Int /\ value \in Int /\ MaxValidity \in Int
    BY <1>1, BoundsAssumption DEF TypeOK, Names, MailboxRows
  <2>5. WatermarkCovers'
    BY <1>2, <2>1, <2>2, <2>3, <2>4 DEF NInv, WatermarkCovers
  <2>6. NewEraIsNewest'
    BY <1>2, <2>1, <2>2, <2>3, <2>4 DEF NInv, WatermarkCovers, NewEraIsNewest
  <2> QED BY <1>2, <2>1, <2>5, <2>6 DEF NInv, EraAhead, NeverRedefined
<1> QED BY <1>1, <1>3, <1>4, BeginSteps

\* What Commit adds to the names: the rows of the transaction, each above
\* every UID told before under the same UIDVALIDITY of the mailbox.
NewNames ==
  {[name |-> r.name, uidvalidity |-> tx.uidvalidity, uid |-> r.uid, key |-> r.key] :
      r \in tx.rows}

\* The names a COMMIT issues are of the transaction's mailbox and UIDVALIDITY,
\* at or above the committed next_uid, one key for each UID.
LEMMA NewNamesFacts ==
  ASSUME NInv, Commit
  PROVE  /\ \A n \in NewNames : /\ n.name = tx.name /\ n.uidvalidity = tx.uidvalidity
                                /\ mailbox[tx.name].next_uid <= n.uid
                                /\ n.uid < tx.next_uid
                                /\ n.key \notin LiveKeys(tx.name)
         /\ \A a, b \in NewNames : a.uid = b.uid \/ a.key = b.key => a = b
         /\ tx.uidvalidity < MaxValidity =>
              \A n \in NewNames, o \in named : o.name = tx.name =>
                /\ o.uidvalidity <= n.uidvalidity
                /\ o.uidvalidity = n.uidvalidity => o.uid < n.uid
<1>1. tx.op = "ensure" /\ TxInv /\ TypeOK
  BY DEF Commit, NInv, CInv
<1>2. tx \in Transactions
  BY <1>1, OpenTx
<1>3. \A n \in NewNames : \E r \in tx.rows :
        n.name = r.name /\ n.uidvalidity = tx.uidvalidity /\ n.uid = r.uid /\ n.key = r.key
  BY DEF NewNames
<1>4. \A n \in NewNames : /\ n.name = tx.name /\ n.uidvalidity = tx.uidvalidity
                          /\ mailbox[tx.name].next_uid <= n.uid
                          /\ n.uid < tx.next_uid
                          /\ n.key \notin LiveKeys(tx.name)
  BY <1>1, <1>3 DEF TxInv
<1>5. ASSUME NEW a \in NewNames, NEW b \in NewNames, a.uid = b.uid \/ a.key = b.key
      PROVE  a = b
  <2>1. PICK r \in tx.rows : a = [name |-> r.name, uidvalidity |-> tx.uidvalidity,
                                  uid |-> r.uid, key |-> r.key]
    BY DEF NewNames
  <2>2. PICK s \in tx.rows : b = [name |-> s.name, uidvalidity |-> tx.uidvalidity,
                                  uid |-> s.uid, key |-> s.key]
    BY DEF NewNames
  <2>3. r = s
    BY <1>1, <1>5, <2>1, <2>2 DEF TxInv
  <2> QED BY <2>1, <2>2, <2>3
<1>6. ASSUME tx.uidvalidity < MaxValidity, NEW n \in NewNames, NEW o \in named,
             o.name = tx.name
      PROVE  /\ o.uidvalidity <= n.uidvalidity
             /\ o.uidvalidity = n.uidvalidity => o.uid < n.uid
  <2>1. n.uidvalidity = tx.uidvalidity /\ mailbox[tx.name].next_uid <= n.uid
    BY <1>4
  <2>2. /\ o.uidvalidity \in Int /\ o.uid \in Int /\ tx.uidvalidity \in Int
        /\ mailbox[tx.name].next_uid \in Int /\ n.uid \in Int
    <3>1. o.uidvalidity \in Int /\ o.uid \in Int
      BY <1>1 DEF TypeOK, Names, Uids
    <3>2. tx.uidvalidity \in Int /\ mailbox[tx.name].next_uid \in Int
      BY <1>1, <1>2 DEF TypeOK, Transactions, MailboxRows
    <3>3. \A r \in tx.rows : r.uid \in Int
      BY <1>2 DEF Transactions, UidRows, Uids
    <3> QED BY <1>3, <3>1, <3>2, <3>3
  <2>3. CASE mailbox[tx.name].uidvalidity = 0
    BY <1>1, <1>6, <2>1, <2>2, <2>3 DEF NInv, NewEraIsNewest
  <2>4. CASE mailbox[tx.name].uidvalidity # 0
    <3>1. tx.uidvalidity = mailbox[tx.name].uidvalidity
      BY <1>1, <2>4 DEF TxInv
    <3> QED BY <1>6, <2>1, <2>2, <2>4, <3>1 DEF NInv, EraAhead
  <2> QED BY <2>3, <2>4
<1> QED BY <1>4, <1>5, <1>6

\* The names a COMMIT issues meet none issued before.
LEMMA CommitNInv ==
  ASSUME NInv, intact, CInv', Commit
  PROVE  NInv'
<1>1. tx.op = "ensure" /\ TxInv /\ TypeOK
  BY DEF Commit, NInv, CInv
<1>2. tx \in Transactions
  BY <1>1, OpenTx
<1>3. /\ named' = named \cup NewNames /\ tx' = NoTx /\ validity_file' = validity_file
      /\ mailbox' = [mailbox EXCEPT ![tx.name] =
                      [uidvalidity |-> tx.uidvalidity, next_uid |-> tx.next_uid]]
  BY DEF Commit, NewNames, medium, sidecar
<1>4. /\ tx.name \in Mailboxes
      /\ mailbox'[tx.name].uidvalidity = tx.uidvalidity
      /\ mailbox'[tx.name].next_uid = tx.next_uid
      /\ \A m \in Mailboxes : m # tx.name => mailbox'[m] = mailbox[m]
  BY <1>1, <1>2, <1>3 DEF TypeOK, Transactions
<1>5. /\ \A n \in named : n.uidvalidity \in Int /\ n.uid \in Int /\ n.name \in Mailboxes
      /\ tx.uidvalidity \in Nat \ {0} /\ tx.next_uid \in Int /\ mailbox[tx.name].next_uid \in Int
      /\ mailbox[tx.name].next_uid <= tx.next_uid
  BY <1>1, <1>2, <1>4 DEF TypeOK, Names, Uids, Transactions, MailboxRows, TxInv
<1>6. WatermarkCovers'
  BY <1>1, <1>3, <1>4, NewNamesFacts DEF NInv, WatermarkCovers, NoTx
<1>7. NewEraIsNewest'
  BY <1>3 DEF NewEraIsNewest, NoTx
<1>8. EraAhead'
  <2> SUFFICES ASSUME NEW n \in named', mailbox'[n.name].uidvalidity # 0,
                      mailbox'[n.name].uidvalidity < MaxValidity
               PROVE  /\ n.uidvalidity <= mailbox'[n.name].uidvalidity
                      /\ n.uidvalidity = mailbox'[n.name].uidvalidity
                           => n.uid < mailbox'[n.name].next_uid
    BY DEF EraAhead
  <2>1. CASE n \in NewNames
    BY <1>4, <1>5, <2>1, NewNamesFacts
  <2>2. CASE n \in named /\ n.name # tx.name
    BY <1>4, <1>5, <2>2 DEF NInv, EraAhead
  <2>3. CASE n \in named /\ n.name = tx.name
    <3>1. CASE mailbox[tx.name].uidvalidity = 0
      BY <1>1, <1>4, <1>5, <2>3, <3>1 DEF NInv, NewEraIsNewest
    <3>2. CASE mailbox[tx.name].uidvalidity # 0
      <4>1. tx.uidvalidity = mailbox[tx.name].uidvalidity
        BY <1>1, <3>2 DEF TxInv
      <4>2. /\ n.uidvalidity <= mailbox[tx.name].uidvalidity
            /\ n.uidvalidity = mailbox[tx.name].uidvalidity => n.uid < mailbox[tx.name].next_uid
        BY <1>4, <2>3, <3>2, <4>1 DEF NInv, EraAhead
      <4> QED BY <1>4, <1>5, <2>3, <4>1, <4>2
    <3> QED BY <3>1, <3>2
  <2> QED BY <1>3, <2>1, <2>2, <2>3
<1>9. NeverRedefined'
  <2> SUFFICES ASSUME NEW a \in named', NEW b \in named', a.name = b.name,
                      a.uidvalidity = b.uidvalidity, a.uidvalidity < MaxValidity, a.uid = b.uid
               PROVE  a.key = b.key
    BY DEF NeverRedefined
  <2>1. CASE a \in named /\ b \in named
    BY <2>1 DEF NInv, NeverRedefined
  <2>2. CASE a \in NewNames /\ b \in NewNames
    <3>1. a = b
      BY <2>2, NewNamesFacts
    <3> QED BY <3>1
  <2>3. \A n \in NewNames : n.name = tx.name /\ n.uidvalidity = tx.uidvalidity
    BY NewNamesFacts
  <2>4. ~(a \in NewNames /\ b \in named)
    <3> SUFFICES ASSUME a \in NewNames, b \in named PROVE FALSE
      OBVIOUS
    <3>1. b.uid < a.uid
      BY <2>3, NewNamesFacts
    <3> QED BY <1>5, <3>1
  <2>5. ~(b \in NewNames /\ a \in named)
    <3> SUFFICES ASSUME b \in NewNames, a \in named PROVE FALSE
      OBVIOUS
    <3>1. a.uid < b.uid
      BY <2>3, NewNamesFacts
    <3> QED BY <1>5, <3>1
  <2> QED BY <1>3, <2>1, <2>2, <2>4, <2>5
<1> QED BY <1>6, <1>7, <1>8, <1>9 DEF NInv

\* A store emptied by recovery or loss forgets its rows, not the watermark.
LEMMA EmptiedNInv ==
  ASSUME NInv, intact, CInv', EmptyTables, UNCHANGED <<validity_file, named>>, tx' = NoTx
  PROVE  NInv'
<1>1. \A m \in Mailboxes : mailbox'[m].uidvalidity = 0
  BY DEF EmptyTables, NoRow
<1>2. validity_file \in Nat /\ named \subseteq Names
  BY BoundsAssumption DEF NInv, CInv, TypeOK
<1>3. WatermarkCovers'
  BY <1>1, <1>2 DEF NInv, WatermarkCovers, NoTx
<1>4. EraAhead'
  BY <1>1, <1>2 DEF EraAhead, Names
<1> QED BY <1>3, <1>4 DEF NInv, NewEraIsNewest, NeverRedefined, NoTx

\* The medium does not heal: a step that leaves it intact found it so.
LEMMA IntactBefore == TypeOK /\ [Next]_vars /\ intact' => intact
<1> SUFFICES ASSUME TypeOK, [Next]_vars, intact', ~intact PROVE FALSE
  OBVIOUS
<1>1. ASSUME NEW kept \in BOOLEAN, Remember(kept) PROVE FALSE
  BY <1>1 DEF Remember
<1>2. ASSUME NEW m \in Mailboxes, NEW now \in 0..MaxClock, Begin(m, now) PROVE FALSE
  BY <1>1, <1>2, BeginSteps DEF BeginFound, WriteWatermark, history
<1>3. ~PowerLoss
  BY <1>1 DEF PowerLoss
<1>4. UNCHANGED intact
  BY <1>2, <1>3 DEF Next, TombstoneMissing, SetDeleted, VisitKey, Commit, Rollback, Open,
         Recover, Refuse, RecoverFails, Crash, SyncWal, FlushSidecar, FileChanges, vars, history
<1> QED BY <1>4

\* A step that leaves the medium intact preserves the naming invariant.
LEMMA NextNInv == ASSUME NInv, [Next]_vars, intact, intact' PROVE NInv'
<1>0. CInv /\ CInv'
  BY NextCInv DEF NInv
<1>3. ASSUME UNCHANGED <<mailbox, validity_file, named>>, tx' \in {tx, NoTx}
      PROVE  NInv'
  BY <1>0, <1>3 DEF NInv, WatermarkCovers, NewEraIsNewest, EraAhead, NeverRedefined, NoTx
<1>4. ASSUME NEW key \in Keys, VisitKey(key) PROVE NInv'
  <2>1. tx \in Transactions
    BY <1>0, <1>4, OpenTx DEF CInv, VisitKey
  <2>2. tx'.op = tx.op /\ tx'.name = tx.name /\ tx'.uidvalidity = tx.uidvalidity
    BY <1>4, <2>1 DEF VisitKey, Transactions
  <2>3. UNCHANGED <<mailbox, validity_file, named>>
    BY <1>4 DEF VisitKey, tables, medium, sidecar, history
  <2> QED BY <1>0, <2>2, <2>3 DEF NInv, WatermarkCovers, NewEraIsNewest, EraAhead, NeverRedefined
<1>5. ASSUME NEW m \in Mailboxes, NEW present \in SUBSET Keys, TombstoneMissing(m, present)
      PROVE  NInv'
  BY <1>3, <1>5 DEF TombstoneMissing, medium, sidecar, history
<1>6. ASSUME NEW m \in Mailboxes, NEW uids \in SUBSET {r.uid : r \in Rows(m)},
             NEW value \in BOOLEAN, SetDeleted(m, uids, value)
      PROVE  NInv'
  BY <1>3, <1>6 DEF SetDeleted, medium, sidecar, history
<1>7. CASE Rollback \/ Open \/ Refuse \/ Crash
  BY <1>3, <1>7 DEF Rollback, Open, Refuse, Crash, tables, medium, sidecar, history
<1>8. proc # "up" => tx = NoTx
  BY <1>0 DEF CInv, TypeOK, TxInv, Transactions
<1>9. CASE Recover \/ RecoverFails
  <2>1. EmptyTables /\ UNCHANGED <<validity_file, named>> /\ tx' = NoTx
    BY <1>8, <1>9 DEF Recover, RecoverFails, history, sidecar
  <2> QED BY <1>0, <2>1, EmptiedNInv
<1>10. CASE FileChanges
  <2>1. UNCHANGED <<validity_file, named, tx>> /\ tx' = NoTx /\ (EmptyTables \/ UNCHANGED mailbox)
    BY <1>8, <1>10 DEF FileChanges, tables, history, sidecar
  <2> QED BY <1>0, <1>3, <2>1, EmptiedNInv
<1>11. CASE UNCHANGED vars
  BY <1>3, <1>11 DEF vars, tables, medium, sidecar, history
<1>12. CASE SyncWal
  BY <1>3, <1>12 DEF SyncWal, tables, history, sidecar
<1>13. CASE PowerLoss
  <2>1. Remember(tables' = tables /\ validity_file' = validity_file) /\ tx' = NoTx
    BY <1>13 DEF PowerLoss
  <2>2. tables' = tables /\ UNCHANGED <<named, validity_file>>
    BY <2>1 DEF Remember
  <2> QED BY <1>3, <2>1, <2>2 DEF tables
<1>14. CASE FlushSidecar
  BY <1>3, <1>14 DEF FlushSidecar, tables, history
<1> QED
  BY <1>0, <1>4, <1>5, <1>6, <1>7, <1>9, <1>10, <1>11, <1>12, <1>13, <1>14, BeginNInv, CommitNInv
  DEF Next

\* The naming invariant holds in every reachable state whose medium is intact.
LEMMA IntactInvHolds == Spec => []IntactInv
<1>1. Init => IntactInv
  BY InitNInv DEF NInv, IntactInv
<1>2. IntactInv /\ [Next]_vars => IntactInv'
  BY NextCInv, IntactBefore, NextNInv DEF IntactInv, CInv
<1> QED BY <1>1, <1>2, PTL DEF Spec

\* No crash, rollback, corruption, loss of the database or clock rollback gives a
\* (mailbox, UIDVALIDITY, UID) below the saturation value to a second item, as long
\* as no write of the sidecar has failed, no read of it has failed that the clock did
\* not make up for, and no power loss has taken back a COMMIT or the sidecar.
THEOREM NamesAreForever == Spec => []NeverRedefined
<1>1. IntactInv => NeverRedefined
  BY DEF IntactInv, NInv, NeverRedefined
<1> QED BY <1>1, IntactInvHolds, PTL

--------------------------------------------------------------------------
(* The store implements the ledger of names *)

\* The empty store maps to the empty ledger.
LEMMA InitLedger == Init => Ledger!Init
BY DEF Init, Ledger!Init, AliveNames

\* A committed batch is one Allocate of the ledger, or nothing if it is empty.
LEMMA CommitLedger ==
  ASSUME NInv, intact, CInv', Commit
  PROVE  [Ledger!Next]_(Ledger!ledgerVars)
<1>1. tx.op = "ensure" /\ TxInv /\ TypeOK /\ ConsistentNow
  BY DEF Commit, NInv, CInv
<1>2. tx \in Transactions /\ tx.name \in Mailboxes
  BY <1>1, OpenTx DEF Transactions
<1>3. /\ named' = named \cup NewNames /\ intact' = intact
      /\ uid_map' = uid_map \cup tx.rows
      /\ mailbox'[tx.name].uidvalidity = tx.uidvalidity
      /\ \A m \in Mailboxes : m # tx.name => mailbox'[m] = mailbox[m]
  BY <1>1, <1>2 DEF Commit, NewNames, TypeOK
<1>4. \A r \in uid_map : mailbox'[r.name].uidvalidity = mailbox[r.name].uidvalidity
  <2> TAKE r \in uid_map
  <2>1. r.name \in Mailboxes /\ mailbox[r.name].uidvalidity # 0
    BY <1>1 DEF TypeOK, UidRows, ConsistentNow, Consistent
  <2> QED BY <1>1, <1>3, <2>1 DEF TxInv
<1>5. \A r \in tx.rows : r.live /\ r.name = tx.name
  BY <1>1 DEF TxInv
<1>6. AliveNames' = AliveNames \cup NewNames
  <2>1. ASSUME NEW n \in AliveNames' PROVE n \in AliveNames \cup NewNames
    <3>1. PICK r \in uid_map' : r.live /\ n = [name |-> r.name,
                                     uidvalidity |-> mailbox'[r.name].uidvalidity,
                                     uid |-> r.uid, key |-> r.key]
      BY DEF AliveNames
    <3>2. CASE r \in uid_map
      BY <1>4, <3>1, <3>2 DEF AliveNames
    <3>3. CASE r \in tx.rows
      BY <1>3, <1>5, <3>1, <3>3 DEF NewNames
    <3> QED BY <1>3, <3>2, <3>3
  <2>2. ASSUME NEW n \in AliveNames PROVE n \in AliveNames'
    <3>1. PICK r \in uid_map : r.live /\ n = [name |-> r.name,
                                     uidvalidity |-> mailbox[r.name].uidvalidity,
                                     uid |-> r.uid, key |-> r.key]
      BY DEF AliveNames
    <3> QED BY <1>3, <1>4, <3>1 DEF AliveNames
  <2>3. ASSUME NEW n \in NewNames PROVE n \in AliveNames'
    <3>1. PICK r \in tx.rows : n = [name |-> r.name, uidvalidity |-> tx.uidvalidity,
                                    uid |-> r.uid, key |-> r.key]
      BY DEF NewNames
    <3> QED BY <1>3, <1>5, <3>1 DEF AliveNames
  <2> QED BY <2>1, <2>2, <2>3
<1>7. \A o \in AliveNames, n \in NewNames : o.name = tx.name => o.key # n.key
  <2>1. \A o \in AliveNames : o.name = tx.name => o.key \in LiveKeys(tx.name)
    BY DEF AliveNames, LiveKeys, Live, Rows
  <2> QED BY <2>1, NewNamesFacts
<1>8. AliveNames' \ AliveNames = NewNames
  BY <1>6, <1>7, NewNamesFacts
<1>9. CASE NewNames = {}
  BY <1>3, <1>6, <1>9 DEF Ledger!ledgerVars
<1>10. CASE NewNames # {}
  <2>1. \A n \in NewNames : n.name = tx.name /\ Ledger!Fresh(n, named)
    BY NewNamesFacts DEF Ledger!Fresh
  <2>2. \A a, b \in NewNames : a.uid = b.uid \/ a.key = b.key => a = b
    BY NewNamesFacts
  <2>3. Ledger!Allocate(tx.name)
    BY <1>3, <1>6, <1>7, <1>8, <1>10, <2>1, <2>2 DEF Ledger!Allocate
  <2>4. intact /\ intact'
    BY <1>3
  <2> QED BY <1>2, <2>3, <2>4 DEF Ledger!Next
<1> QED BY <1>9, <1>10

\* Whatever removes live rows is a Vanish of the ledger.
LEMMA ShrinkLedger ==
  ASSUME AliveNames' \subseteq AliveNames, UNCHANGED named, intact, intact'
  PROVE  [Ledger!Next]_(Ledger!ledgerVars)
<1>1. intact = intact'
  OBVIOUS
<1> QED BY <1>1 DEF Ledger!Next, Ledger!Vanish, Ledger!ledgerVars

\* Every step of the store is a step of the ledger or leaves it alone.
LEMMA NextLedger ==
  IntactInv /\ IntactInv' /\ [Next]_vars => [Ledger!Next]_(Ledger!ledgerVars)
<1> SUFFICES ASSUME IntactInv, IntactInv', [Next]_vars, intact'
             PROVE  [Ledger!Next]_(Ledger!ledgerVars)
  <2>1. IntactInv' => intact' \in BOOLEAN
    BY DEF IntactInv, CInv, TypeOK
  <2> QED BY <2>1 DEF Ledger!Next, Ledger!Broken
<1>0. intact /\ NInv /\ NInv'
  BY IntactBefore DEF IntactInv, CInv
<1>1. ASSUME UNCHANGED <<mailbox, uid_map, named>>
      PROVE  [Ledger!Next]_(Ledger!ledgerVars)
  BY <1>0, <1>1, ShrinkLedger DEF AliveNames
<1>2. ASSUME NEW m \in Mailboxes, NEW now \in 0..MaxClock, Begin(m, now)
      PROVE  [Ledger!Next]_(Ledger!ledgerVars)
  <2>1. TypeOK
    BY <1>0 DEF NInv, CInv
  <2>2. UNCHANGED <<mailbox, uid_map>>
    BY <1>2, <2>1, BeginSteps DEF tables
  <2>3. UNCHANGED named
    BY <1>2, <2>1, BeginSteps, RememberFacts DEF BeginFound, WriteWatermark, history
  <2> QED BY <1>1, <2>2, <2>3
<1>3. ASSUME NEW m \in Mailboxes, NEW present \in SUBSET Keys, TombstoneMissing(m, present)
      PROVE  [Ledger!Next]_(Ledger!ledgerVars)
  <2> DEFINE gone == {r \in Live(m) : r.key \notin present}
  <2>1. uid_map' = (uid_map \ gone) \cup {[r EXCEPT !.live = FALSE] : r \in gone}
    BY <1>3 DEF TombstoneMissing
  <2>2. gone \subseteq UidRows
    BY <1>0 DEF Live, Rows, NInv, CInv, TypeOK
  <2>3. \A r \in gone : [r EXCEPT !.live = FALSE].live = FALSE
    BY <2>2 DEF UidRows
  <2>4. \A r \in uid_map' : r.live => r \in uid_map
    BY <2>1, <2>3
  <2>5. UNCHANGED <<mailbox, named>>
    BY <1>3 DEF TombstoneMissing, history
  <2> QED BY <1>0, <2>4, <2>5, ShrinkLedger DEF AliveNames
<1>4. ASSUME NEW m \in Mailboxes, NEW uids \in SUBSET {r.uid : r \in Rows(m)},
             NEW value \in BOOLEAN, SetDeleted(m, uids, value)
      PROVE  [Ledger!Next]_(Ledger!ledgerVars)
  BY <1>1, <1>4 DEF SetDeleted, history
<1>5. CASE (\E key \in Keys : VisitKey(key)) \/ Rollback \/ Open \/ Refuse \/ Crash
  BY <1>1, <1>5 DEF VisitKey, Rollback, Open, Refuse, Crash, tables, history, sidecar
<1>6. EmptyTables /\ UNCHANGED named => [Ledger!Next]_(Ledger!ledgerVars)
  BY <1>0, ShrinkLedger DEF EmptyTables, AliveNames
<1>7. CASE Recover \/ RecoverFails \/ FileChanges
  BY <1>1, <1>6, <1>7 DEF Recover, RecoverFails, FileChanges, tables, history, sidecar
<1>8. CASE Commit
  BY <1>0, <1>8, CommitLedger DEF NInv
<1>9. CASE UNCHANGED vars
  BY <1>1, <1>9 DEF vars, tables, history
<1>10. CASE SyncWal
  BY <1>1, <1>10 DEF SyncWal, tables, history, sidecar
<1>11. CASE PowerLoss
  <2>1. tables' = tables /\ UNCHANGED named
    BY <1>11 DEF PowerLoss, Remember
  <2> QED BY <1>1, <2>1 DEF tables
<1>12. CASE FlushSidecar
  BY <1>1, <1>12 DEF FlushSidecar, tables, history
<1> QED
  BY <1>2, <1>3, <1>4, <1>5, <1>7, <1>8, <1>9, <1>10, <1>11, <1>12 DEF Next

\* For as long as the medium keeps what it was given the store implements the
\* ledger: batches of ensure_uids appear atomically and above everything told
\* before, and a name that tombstone_missing or a recovery took away never
\* denotes an item again.
THEOREM StoreImplementsLedger == Spec => ImplementsLedger
<1>1. Spec => []IntactInv
  BY IntactInvHolds
<1>2. Init => Ledger!Init
  BY InitLedger
<1>3. IntactInv /\ IntactInv' /\ [Next]_vars => [Ledger!Next]_(Ledger!ledgerVars)
  BY NextLedger
<1> QED BY <1>1, <1>2, <1>3, PTL DEF Spec, ImplementsLedger, Ledger!Spec
==========================================================================
