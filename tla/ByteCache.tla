---------------------------- MODULE ByteCache ----------------------------
(***************************************************************************)
(* The byte-budgeted LRU cache of imapgw/bytecache.py as operators on its  *)
(* state: items, the keys with the least recently used first; data, what   *)
(* each key holds, as a record with its length; and the size that the code *)
(* counts beside them and evicts by.                                       *)
(***************************************************************************)
EXTENDS Integers, FiniteSets, Sequences, SequencesExt

CONSTANTS
  Keys,
  MaxBytes \* max_bytes

ASSUME CacheAssumption == MaxBytes \in Nat

NoData == [len |-> 0]
EmptyCache == [items |-> <<>>, data |-> [k \in Keys |-> NoData], size |-> 0]

Cached(c, k) == k \in Range(c.items)
\* A key is in items once at most.
Without(s, k) == IF k \in Range(s) THEN RemoveAt(s, CHOOSE i \in 1..Len(s) : s[i] = k) ELSE s
ToEnd(s, k) == Append(Without(s, k), k)
Total(s, data) ==
  LET sum[n \in 0..Len(s)] == IF n = 0 THEN 0 ELSE sum[n - 1] + data[s[n]].len
  IN sum[Len(s)]

\* What keys outside items held is forgotten.
Holding(items, data, size) ==
  [items |-> items, size |-> size,
   data |-> [k \in Keys |-> IF k \in Range(items) THEN data[k] ELSE NoData]]

\* get: a hit becomes the most recently used.
CacheGet(c, k) == IF Cached(c, k) THEN [c EXCEPT !.items = ToEnd(@, k)] ELSE c

\* The eviction loop: how many go, oldest first, until the count is within budget.
Evicted(s, data, count) ==
  LET enough == {n \in 0..Len(s) : n = Len(s) \/ count - Total(SubSeq(s, 1, n), data) <= MaxBytes}
  IN CHOOSE n \in enough : \A m \in enough : n <= m

ForgetOld(c, k) == 0
SizeOfOld(c, k) == IF Cached(c, k) THEN c.data[k].len ELSE 0

\* put: contents over the budget only drop what the key had, without touching the
\* count; others replace it, then evict.
CachePut(c, k, v) ==
  LET s == ToEnd(c.items, k)
      data == [c.data EXCEPT ![k] = v]
      count == c.size - SizeOfOld(c, k) + v.len
      out == Evicted(s, data, count)
  IN IF v.len > MaxBytes
     THEN Holding(Without(c.items, k), c.data, c.size)
     ELSE Holding(SubSeq(s, out + 1, Len(s)), data, count - Total(SubSeq(s, 1, out), data))
==========================================================================
