----------------------------- MODULE Content -----------------------------
(***************************************************************************)
(* Message and draft bytes in imapgw/mailbox.py: raw_bytes and size_of, as *)
(* two FETCH commands call them at the same time, the rendering of drafts  *)
(* that listings do, and the byte cache that all of them share and that    *)
(* may evict anything between two steps.                                   *)
(*                                                                         *)
(* Two inboxes have a message with the same id.  Drafts are those of one   *)
(* inbox, one draft that is edited: a stamp stands for updated_at, and a   *)
(* rendering is named by its content, as content_key does.                 *)
(***************************************************************************)
EXTENDS ByteCache

CONSTANTS
  Readers,
  Inboxes,
  Contents,  \* what a draft may say
  MaxStamp,  \* bound: versions of the draft
  Changing,  \* the inboxes whose message changes, against the promise of the API
  MessageLength, \* the lengths of the versions 1 and 2 of each inbox's message
  DraftLength,   \* the length of each content, rendered
  MessageId, None, Gone \* model values: an id, no value, a draft that is gone

ASSUME ContentAssumption ==
  /\ MaxStamp \in Nat \ {0} /\ Changing \subseteq Inboxes
  /\ MessageLength \in [Inboxes -> [1..2 -> Nat \ {0}]]
  /\ DraftLength \in [Contents -> Nat \ {0}]

Stamps == 1..MaxStamp
DraftInbox == CHOOSE i \in Inboxes : TRUE

\* An item as a FETCH finds it in the snapshot: inbox, kind and remote_key.
MessageItem(i) == [inbox |-> i, kind |-> "message", key |-> MessageId]
DraftItem(k) == [inbox |-> DraftInbox, kind |-> "draft", key |-> k]
Items == {MessageItem(i) : i \in Inboxes} \cup {DraftItem(k) : k \in Contents}

\* Bytes: whose, which version or content, how many.
Bytes(i, v, n) == [inbox |-> i, ver |-> v, len |-> n]
MessageBytes(i, v) == Bytes(i, v, MessageLength[i][v])
Rendering(k) == Bytes(DraftInbox, k, DraftLength[k])

\* _ckey, and the keys in use.
Ckey(i, kind, ident) == <<i, kind, ident>>
BodyKey(item) == Ckey(item.inbox, "body", item.key)
SizeKey(item) == Ckey(item.inbox, "size", item.key)
DraftvWithoutStamp(s) == Ckey(DraftInbox, "draftv", 1)
DraftvKey(s) == Ckey(DraftInbox, "draftv", s)

ContentKeys ==
  {Ckey(i, kind, MessageId) : i \in Inboxes, kind \in {"body", "size"}}
  \cup {Ckey(DraftInbox, "body", k) : k \in Contents} \cup {DraftvKey(s) : s \in Stamps}

\* The ident of a draft's body is its content_key, which is no message id.
ASSUME KeyAssumption == ContentKeys \subseteq Keys /\ MessageId \notin Contents

\* The text of a size, one character here.
SizeText(n) == [size |-> n, len |-> 1]

VARIABLES
  version,  \* upstream: the version of each inbox's message
  stamp,    \* upstream: how often the draft was written, 0 before it is
  says,     \* upstream: what each version of the draft says
  deleted,  \* upstream: is the draft gone?
  cache,    \* the byte cache
  reader,   \* the raw_bytes or size_of that each reader runs
  lister,   \* _collect_drafts
  listed,   \* the contents that were given a UID
  answer,   \* history: what the step just made gave a reader, or a listing its key
  knew      \* history: the size the cache knew when the reader began, while it does

upstream == <<version, stamp, says, deleted>>
vars == <<upstream, cache, reader, lister, listed, answer, knew>>

\* pc: the request that is awaited.  since: the version upstream had when it was
\* sent; for a download, the version that get_raw_meta described.
IdleReader == [pc |-> "idle", op |-> None, item |-> MessageItem(DraftInbox), since |-> 0]
IdleLister == [pc |-> "idle", stamp |-> 0, since |-> 0]

Init ==
  /\ version = [i \in Inboxes |-> 1]
  /\ stamp = 0 /\ says \in [Stamps -> Contents] /\ deleted = FALSE
  /\ cache = EmptyCache
  /\ reader = [r \in Readers |-> IdleReader]
  /\ lister = IdleLister
  /\ listed = {}
  /\ answer = None
  /\ knew = [r \in Readers |-> 0]

--------------------------------------------------------------------------
(* History *)

\* The size of an item that the cache remembers, 0 if it does not.
Known(c, item) == IF Cached(c, SizeKey(item)) THEN c.data[SizeKey(item)].size ELSE 0

Remember ==
  knew' = [r \in Readers |->
             IF reader'[r].pc = "idle" \/ reader'[r].item.kind = "draft" THEN 0
             ELSE IF reader[r].pc = "idle" \/ Known(cache', reader'[r].item) = knew[r]
                  THEN Known(cache', reader'[r].item) ELSE 0]

--------------------------------------------------------------------------
(* Upstream *)

\* The API promises that messages do not change; the code guards against one
\* that does.
MessageChanges(i) ==
  /\ version[i] = 1
  /\ version' = [version EXCEPT ![i] = 2]
  /\ UNCHANGED <<stamp, says, deleted, cache, reader, lister, listed, knew>>
  /\ answer' = None

\* The draft is created or edited outside the gateway.
DraftWritten ==
  /\ stamp < MaxStamp /\ ~deleted
  /\ stamp' = stamp + 1
  /\ UNCHANGED <<version, says, deleted, cache, reader, lister, listed, knew>>
  /\ answer' = None

DraftDeleted ==
  /\ stamp > 0 /\ ~deleted
  /\ deleted' = TRUE
  /\ UNCHANGED <<version, stamp, says, cache, reader, lister, listed, knew>>
  /\ answer' = None

\* A request is answered with what upstream had at some moment between the
\* request and the step that reads the answer.
DraftSince == IF deleted THEN MaxStamp + 1 ELSE stamp
Renderings(since) == {Rendering(says[s]) : s \in since..stamp} \cup (IF deleted THEN {Gone} ELSE {})

\* What a download may give: the bytes the URL names, the message as it is now,
\* or a connection that ended early.
Downloads(i, v) ==
  {MessageBytes(i, v), MessageBytes(i, version[i]), Bytes(i, v, MessageLength[i][v] - 1)}

--------------------------------------------------------------------------
(* raw_bytes and size_of *)

Await(r, op, item, pc) ==
  /\ reader' = [reader EXCEPT ![r] = [pc |-> pc, op |-> op, item |-> item,
                 since |-> IF item.kind = "draft" THEN DraftSince ELSE version[item.inbox]]]
  /\ answer' = None

\* The command is answered with bytes, or with a size.
Give(r, op, item, value) ==
  /\ reader' = [reader EXCEPT ![r] = IdleReader]
  /\ answer' = [op |-> op, item |-> item, value |-> value]

\* NotFoundError or UnavailableError.
Refuse(r) ==
  /\ reader' = [reader EXCEPT ![r] = IdleReader]
  /\ answer' = None

Fetchable == {MessageItem(i) : i \in Inboxes} \cup {DraftItem(k) : k \in listed}

\* A FETCH asks for the bytes or the size of an item of its snapshot.  A hit is
\* answered at once, otherwise the first request goes out.
Begin(r, op, item) ==
  LET body == BodyKey(item)
      sized == CacheGet(cache, SizeKey(item)) IN
  /\ reader[r].pc = "idle"
  /\ item \in Fetchable
  /\ \/ /\ Cached(cache, body)
        /\ cache' = CacheGet(cache, body)
        /\ Give(r, op, item, cache.data[body])
     \/ /\ ~Cached(cache, body) /\ item.kind = "draft"
        /\ Await(r, op, item, "draft")
        /\ UNCHANGED cache
     \/ /\ ~Cached(cache, body) /\ item.kind = "message" /\ op = "bytes"
        /\ Await(r, op, item, "meta")
        /\ UNCHANGED cache
     \/ /\ ~Cached(cache, body) /\ item.kind = "message" /\ op = "size"
        /\ cache' = sized
        /\ IF Cached(cache, SizeKey(item))
           THEN Give(r, op, item, [len |-> cache.data[SizeKey(item)].size])
           ELSE Await(r, op, item, "meta")
  /\ UNCHANGED <<upstream, lister, listed>>
  /\ Remember

\* raw_bytes of a draft: only the version that the UID names is served.
DraftArrives(r) ==
  LET item == reader[r].item IN
  /\ reader[r].pc = "draft"
  /\ \E rendered \in Renderings(reader[r].since) :
       IF rendered = Rendering(item.key)
       THEN /\ cache' = CachePut(cache, BodyKey(item), rendered)
            /\ Give(r, reader[r].op, item, rendered)
       ELSE Refuse(r) /\ UNCHANGED cache
  /\ UNCHANGED <<upstream, lister, listed>>
  /\ Remember

SizeArrives(r) ==
  LET item == reader[r].item IN
  /\ reader[r].pc = "meta" /\ reader[r].op = "size"
  /\ \E v \in reader[r].since..version[item.inbox] :
       LET n == MessageLength[item.inbox][v] IN
       /\ cache' = CachePut(cache, SizeKey(item), SizeText(n))
       /\ Give(r, "size", item, [len |-> n])
  /\ UNCHANGED <<upstream, lister, listed>>
  /\ Remember

\* raw_bytes: a size already reported is authoritative.
AnySize(item, n) == TRUE
SizeAgrees(item, n) ==
  Cached(cache, SizeKey(item)) => cache.data[SizeKey(item)].size = n

MetaArrives(r) ==
  LET item == reader[r].item IN
  /\ reader[r].pc = "meta" /\ reader[r].op = "bytes"
  /\ cache' = CacheGet(cache, SizeKey(item))
  /\ \E v \in reader[r].since..version[item.inbox] :
       IF SizeAgrees(item, MessageLength[item.inbox][v])
       THEN /\ reader' = [reader EXCEPT ![r] = [@ EXCEPT !.pc = "download", !.since = v]]
            /\ answer' = None
       ELSE Refuse(r)
  /\ UNCHANGED <<upstream, lister, listed>>
  /\ Remember

\* A download of another length than the metadata says is refused.
AnyLength(data, meta) == TRUE
IsComplete(data, meta) == data.len = meta

BytesArrive(r) ==
  LET item == reader[r].item
      WithBody(data) == CachePut(cache, BodyKey(item), data) IN
  /\ reader[r].pc = "download"
  /\ \E data \in Downloads(item.inbox, reader[r].since) :
       IF IsComplete(data, MessageLength[item.inbox][reader[r].since])
       THEN /\ cache' = CachePut(WithBody(data), SizeKey(item), SizeText(data.len))
            /\ Give(r, "bytes", item, data)
       ELSE Refuse(r) /\ UNCHANGED cache
  /\ UNCHANGED <<upstream, lister, listed>>
  /\ Remember

\* A request fails, or the command times out.
ReadFails(r) ==
  /\ reader[r].pc # "idle"
  /\ Refuse(r)
  /\ UNCHANGED <<upstream, cache, lister, listed>>
  /\ Remember

--------------------------------------------------------------------------
(* _collect_drafts *)

\* The listing has its key: the rendering goes into the cache under it.
Collected(s, rendered) ==
  /\ listed' = listed \cup {rendered.ver}
  /\ answer' = [op |-> "list", item |-> DraftItem(rendered.ver), value |-> s]

\* A listing shows the draft with some stamp it has had: the list endpoint lags.
\* _render_draft finds that version in the cache, or asks for the draft.
CollectDraft(s) ==
  LET key == DraftvKey(s)
      rendered == cache.data[key]
      hit == CacheGet(cache, key) IN
  /\ lister.pc = "idle"
  /\ IF Cached(cache, key)
     THEN /\ cache' = CachePut(hit, BodyKey(DraftItem(rendered.ver)), rendered)
          /\ Collected(s, rendered)
          /\ UNCHANGED lister
     ELSE /\ lister' = [pc |-> "get", stamp |-> s, since |-> DraftSince]
          /\ answer' = None
          /\ UNCHANGED <<cache, listed>>
  /\ UNCHANGED <<upstream, reader>>
  /\ Remember

\* The two puts of a rendering: under its stamp, then under its content.
PutRendering(s, rendered) ==
  /\ cache' = CachePut(CachePut(cache, DraftvKey(s), rendered),
                       BodyKey(DraftItem(rendered.ver)), rendered)

\* A draft that vanished between list and get is left out.
DraftRendered ==
  /\ lister.pc = "get"
  /\ lister' = IdleLister
  /\ \E rendered \in Renderings(lister.since) :
       IF rendered = Gone
       THEN answer' = None /\ UNCHANGED <<cache, listed>>
       ELSE PutRendering(lister.stamp, rendered) /\ Collected(lister.stamp, rendered)
  /\ UNCHANGED <<upstream, reader>>
  /\ Remember

ReaderStep(r) ==
  \/ \E op \in {"bytes", "size"}, item \in Items : Begin(r, op, item)
  \/ DraftArrives(r) \/ SizeArrives(r) \/ MetaArrives(r) \/ BytesArrive(r)

Next ==
  \/ \E i \in Changing : MessageChanges(i)
  \/ DraftWritten \/ DraftDeleted
  \/ \E r \in Readers : ReaderStep(r) \/ ReadFails(r)
  \/ \E s \in 1..stamp : CollectDraft(s)
  \/ DraftRendered

Spec == Init /\ [][Next]_vars

--------------------------------------------------------------------------
(* Properties *)

\* What a reader is answered is the content of the item it asked about, whoever
\* filled the cache and whatever was evicted since: for a draft the very version
\* the UID names, though the draft is edited meanwhile; for a message of its own
\* inbox some version in full, never a truncated or mixed one, and the first
\* version as long as upstream keeps its promise.
AnswersAreTheContent ==
  answer # None /\ answer.op # "list" =>
    LET item == answer.item
        possible == IF item.kind = "draft" THEN {Rendering(item.key)}
                    ELSE {MessageBytes(item.inbox, v) : v \in 1..version[item.inbox]}
    IN IF answer.op = "bytes" THEN answer.value \in possible
       ELSE answer.value.len \in {b.len : b \in possible}

\* A listing gives a draft the key of content that is not older than the version
\* it was shown, although renderings are cached: the UID never goes to a
\* superseded content.
ListedContentIsCurrent ==
  answer # None /\ answer.op = "list" =>
    \E s \in answer.value..stamp : says[s] = answer.item.key

\* The size reported for a message is kept: bytes of another length are refused to
\* a reader that began after the size was reported, as long as the cache keeps it.
ReportedSizeIsKept ==
  [][ \A r \in Readers :
        /\ knew[r] # 0 /\ reader[r].pc # "idle" /\ reader'[r].pc = "idle" /\ answer' # None
        => answer'.value.len = knew[r] ]_vars

\* A message changed, and one of its versions fits into the cache while the other
\* does not: putting that one over the cached bytes of the first drops them and
\* leaves them in the count (bytecache.py:35).
CrossesBudget ==
  \E i \in Inboxes : /\ version[i] = 2
                     /\ \E v, w \in 1..2 : /\ MessageLength[i][v] <= MaxBytes
                                           /\ MessageLength[i][w] > MaxBytes

\* The count kept beside the cached items is within the budget and never less than
\* their total, over any sequence of puts, replacements and evictions; it is that
\* total as long as no message crosses the budget.
CountIsExact ==
  LET total == Total(cache.items, cache.data) IN
  /\ total <= cache.size /\ cache.size <= MaxBytes
  /\ ~CrossesBudget => cache.size = total
==========================================================================
