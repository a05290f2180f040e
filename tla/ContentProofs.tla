--------------------------- MODULE ContentProofs --------------------------
(***************************************************************************)
(* Proofs about Content and the cache it uses, for any readers, inboxes,   *)
(* contents, lengths and budget: what is served and listed is right, and a *)
(* reported size is kept.                                                  *)
(***************************************************************************)
EXTENDS Content, SequenceTheorems, WellFoundedInduction, TLAPS

--------------------------------------------------------------------------
(* The cache *)

\* What the operations need of a cache: three fields, and contents for all keys.
IsCache(c) ==
  /\ c = [items |-> c.items, data |-> c.data, size |-> c.size]
  /\ c.items \in Seq(Keys) /\ c.data = [k \in Keys |-> c.data[k]]

\* The elements of a sequence are in the set that it is a sequence over.
LEMMA RangeWithin ==
  ASSUME NEW T, NEW q \in Seq(T)
  PROVE  Range(q) \subseteq T
BY RangeEquality

\* Without keeps the other entries and adds none.
LEMMA WithoutWithin ==
  ASSUME NEW S, NEW s \in Seq(S), NEW k
  PROVE  Without(s, k) \in Seq(S) /\ Range(Without(s, k)) \subseteq Range(s)
<1>1. CASE k \notin Range(s)
  BY <1>1 DEF Without
<1>2. CASE k \in Range(s)
  <2> DEFINE i == CHOOSE j \in 1..Len(s) : s[j] = k
  <2>1. i \in 1..Len(s)
    BY <1>2, RangeEquality
  <2> HIDE DEF i
  <2>2. \A j \in 1..Len(s) : s[j] \in Range(s) /\ s[j] \in S
    BY RangeEquality
  <2>3. Range(s) \subseteq S
    BY RangeWithin
  <2>4. Len(s) \in Nat /\ i - 1 \in Int /\ i + 1 \in Int
    BY <2>1
  <2>5. \A j \in 1..(i - 1) : s[j] \in Range(s)
    BY <2>1, <2>2
  <2>6. \A j \in (i + 1)..Len(s) : s[j] \in Range(s)
    BY <2>1, <2>2
  <2>7. SubSeq(s, 1, i - 1) \in Seq(Range(s))
    BY <2>4, <2>5, SubSeqProperties
  <2>8. SubSeq(s, i + 1, Len(s)) \in Seq(Range(s))
    BY <2>4, <2>6, SubSeqProperties
  <2>9. RemoveAt(s, i) \in Seq(Range(s))
    BY <2>7, <2>8, ConcatProperties DEF RemoveAt
  <2>10. Without(s, k) = RemoveAt(s, i)
    BY <1>2 DEF Without, i
  <2>11. Without(s, k) \in Seq(Range(s))
    BY <2>9, <2>10
  <2>12. Range(Without(s, k)) \subseteq Range(s)
    BY <2>11, RangeWithin
  <2>13. Without(s, k) \in Seq(S)
    BY <2>11, <2>3
  <2> QED
    BY <2>12, <2>13
<1> QED
  BY <1>1, <1>2

\* Moving a key to the end adds no other.
LEMMA ToEndWithin ==
  ASSUME NEW S, NEW s \in Seq(S), NEW k \in S
  PROVE  ToEnd(s, k) \in Seq(S) /\ Range(ToEnd(s, k)) \subseteq Range(s) \cup {k}
<1> DEFINE w == Without(s, k)
<1>1. w \in Seq(S) /\ Range(w) \subseteq Range(s)
  BY WithoutWithin
<1>2. \A j \in 1..Len(w) : w[j] \in Range(w)
  BY <1>1, RangeEquality
<1> HIDE DEF w
<1>3. w \in Seq(Range(s) \cup {k})
  BY <1>1, <1>2
<1>4. Append(w, k) \in Seq(Range(s) \cup {k}) /\ Append(w, k) \in Seq(S)
  BY <1>1, <1>3, AppendProperties
<1>5. ToEnd(s, k) = Append(w, k)
  BY DEF ToEnd, w
<1> QED
  BY <1>4, <1>5, RangeWithin

\* A nonempty set of natural numbers has a least element.
LEMMA LeastOf ==
  ASSUME NEW T, T \subseteq Nat, T # {}
  PROVE  \E n \in T : \A m \in T : n <= m
<1>1. PICK n \in T : \A m \in T : ~ (<<m, n>> \in OpToRel(<, Nat))
  BY NatLessThanWellFounded, WFMin
<1>2. \A m \in T : ~(m < n)
  BY <1>1 DEF OpToRel
<1> QED
  BY <1>2

\* The eviction loop stops, at the latest when nothing is left.
LEMMA EvictedInRange ==
  ASSUME NEW s \in Seq(Keys), NEW data, NEW count
  PROVE  Evicted(s, data, count) \in 0..Len(s)
<1> DEFINE Enough(n) == n = Len(s) \/ count - Total(SubSeq(s, 1, n), data) <= MaxBytes
           enough == {n \in 0..Len(s) : Enough(n)}
<1>1. Len(s) \in enough
  OBVIOUS
<1>2. Evicted(s, data, count) = CHOOSE n \in enough : \A m \in enough : n <= m
  BY DEF Evicted
<1>3. enough \subseteq Nat /\ enough \subseteq 0..Len(s)
  OBVIOUS
<1> HIDE DEF enough
<1>4. \E n \in enough : \A m \in enough : n <= m
  BY <1>1, <1>3, LeastOf
<1>5. Evicted(s, data, count) \in enough
  BY <1>2, <1>4
<1> QED
  BY <1>3, <1>5

\* get reorders and keeps what the keys have.
LEMMA GetWithin ==
  ASSUME NEW c, IsCache(c), NEW k \in Keys
  PROVE  /\ IsCache(CacheGet(c, k)) /\ CacheGet(c, k).data = c.data
         /\ Range(CacheGet(c, k).items) \subseteq Range(c.items)
<1>1. CASE Cached(c, k)
  <2>1. CacheGet(c, k) = [c EXCEPT !.items = ToEnd(c.items, k)]
    BY <1>1 DEF CacheGet
  <2>2. CacheGet(c, k) = [items |-> ToEnd(c.items, k), data |-> c.data, size |-> c.size]
    BY <2>1 DEF IsCache
  <2>3. ToEnd(c.items, k) \in Seq(Keys) /\ Range(ToEnd(c.items, k)) \subseteq Range(c.items) \cup {k}
    BY ToEndWithin DEF IsCache
  <2>4. k \in Range(c.items)
    BY <1>1 DEF Cached
  <2> QED
    BY <2>2, <2>3, <2>4 DEF IsCache
<1>2. CASE ~Cached(c, k)
  BY <1>2 DEF CacheGet
<1> QED
  BY <1>1, <1>2

\* What put leaves is the new contents of its key, or what was there before.
LEMMA PutWithin ==
  ASSUME NEW c, IsCache(c), NEW k \in Keys, NEW v
  PROVE  /\ IsCache(CachePut(c, k, v))
         /\ \A j \in Range(CachePut(c, k, v).items) :
              \/ j = k /\ CachePut(c, k, v).data[j] = v
              \/ j \in Range(c.items) /\ CachePut(c, k, v).data[j] = c.data[j]
<1> DEFINE s == ToEnd(c.items, k)
           data == [c.data EXCEPT ![k] = v]
           count == c.size - SizeOfOld(c, k) + v.len
           out == Evicted(s, data, count)
           kept == SubSeq(s, out + 1, Len(s))
           left == count - Total(SubSeq(s, 1, out), data)
           w == Without(c.items, k)
<1>1. CachePut(c, k, v) = IF v.len > MaxBytes THEN Holding(w, c.data, c.size) ELSE Holding(kept, data, left)
  BY DEF CachePut
<1>2. s \in Seq(Keys) /\ Range(s) \subseteq Range(c.items) \cup {k}
  BY ToEndWithin DEF IsCache
<1>3. w \in Seq(Keys) /\ Range(w) \subseteq Range(c.items)
  BY WithoutWithin DEF IsCache
<1>4. out \in 0..Len(s)
  BY <1>2, EvictedInRange
<1>5. \A j \in Keys : data[j] = IF j = k THEN v ELSE c.data[j]
  BY DEF IsCache
<1> HIDE DEF s, data, out, left, w
<1>6. kept \in Seq(Keys) /\ Range(kept) \subseteq Range(s)
  <2>1. \A j \in 1..Len(s) : s[j] \in Range(s)
    BY <1>2, RangeEquality
  <2>2. Len(s) \in Nat /\ out + 1 \in Int
    BY <1>2, <1>4
  <2>3. \A j \in (out + 1)..Len(s) : s[j] \in Range(s)
    BY <2>1, <2>2, <1>4
  <2>4. kept \in Seq(Range(s))
    BY <2>2, <2>3, SubSeqProperties
  <2>5. Range(s) \subseteq Keys
    BY <1>2, RangeWithin
  <2> HIDE DEF kept
  <2>6. Range(kept) \subseteq Range(s)
    BY <2>4, RangeWithin
  <2>7. kept \in Seq(Keys)
    BY <2>4, <2>5
  <2> QED
    BY <2>6, <2>7
<1> HIDE DEF kept
<1>7. ASSUME NEW q \in Seq(Keys), NEW d, NEW n
      PROVE  /\ IsCache(Holding(q, d, n)) /\ Holding(q, d, n).items = q
             /\ \A j \in Range(q) : j \in Keys /\ Holding(q, d, n).data[j] = d[j]
  <2>1. Range(q) \subseteq Keys
    BY RangeWithin
  <2>2. Holding(q, d, n) = [items |-> q, size |-> n,
           data |-> [j \in Keys |-> IF j \in Range(q) THEN d[j] ELSE NoData]]
    BY DEF Holding
  <2> QED
    BY <2>1, <2>2 DEF IsCache
<1>8. CASE v.len > MaxBytes
  BY <1>1, <1>3, <1>7, <1>8
<1>9. CASE ~(v.len > MaxBytes)
  <2>1. CachePut(c, k, v) = Holding(kept, data, left)
    BY <1>1, <1>9
  <2>2. /\ IsCache(Holding(kept, data, left)) /\ Holding(kept, data, left).items = kept
        /\ \A j \in Range(kept) : j \in Keys /\ Holding(kept, data, left).data[j] = data[j]
    BY <1>6, <1>7
  <2> QED
    BY <2>1, <2>2, <1>2, <1>5, <1>6
<1> QED
  BY <1>8, <1>9

--------------------------------------------------------------------------
(* Totals.  What a recursive function computes is proved by looking at the *)
(* least number for which it would fail.                                   *)

\* f has the partial sums of a, up to N.
Chain(f, a, N) == f[0] = 0 /\ \A n \in 1..N : f[n] = f[n - 1] + a[n]
SumOf(a, N) == (CHOOSE f \in [0..N -> Nat] : Chain(f, a, N))[N]

LEMMA ChainExists ==
  ASSUME NEW N \in Nat, NEW a, \A n \in 1..N : a[n] \in Nat
  PROVE  \E f \in [0..N -> Nat] : Chain(f, a, N)
<1> DEFINE Has(m) == \E f \in [0..m -> Nat] : Chain(f, a, m)
           bad == {m \in 0..N : ~Has(m)}
<1>1. SUFFICES bad = {}
  OBVIOUS
<1>2. SUFFICES ASSUME bad # {} PROVE FALSE
  OBVIOUS
<1>3. PICK m \in bad : \A k \in bad : m <= k
  <2>1. bad \subseteq Nat
    OBVIOUS
  <2> HIDE DEF bad
  <2> QED
    BY <1>2, <2>1, LeastOf
<1>4. m \in 0..N /\ ~Has(m)
  OBVIOUS
<1>5. CASE m = 0
  <2> DEFINE g == [n \in 0..0 |-> 0]
  <2>1. g \in [0..0 -> Nat] /\ Chain(g, a, 0)
    BY DEF Chain
  <2> QED
    BY <1>4, <1>5, <2>1
<1>6. CASE m # 0
  <2>1. m - 1 \in 0..N /\ m - 1 \notin bad
    <3>1. m - 1 \in 0..N /\ ~(m <= m - 1)
      BY <1>4, <1>6
    <3> HIDE DEF bad
    <3> QED
      BY <1>3, <3>1
  <2>2. PICK f \in [0..m - 1 -> Nat] : Chain(f, a, m - 1)
    BY <2>1
  <2> DEFINE g == [n \in 0..m |-> IF n = m THEN f[m - 1] + a[m] ELSE f[n]]
  <2>3. a[m] \in Nat
    BY <1>4, <1>6
  <2>4. g \in [0..m -> Nat]
    BY <1>4, <1>6, <2>3
  <2>5. g[0] = 0
    BY <1>4, <1>6, <2>2 DEF Chain
  <2>6. ASSUME NEW n \in 1..m PROVE g[n] = g[n - 1] + a[n]
    <3>1. CASE n = m
      BY <1>4, <1>6, <3>1
    <3>2. CASE n # m
      <4>1. n \in 1..m - 1 /\ n \in 0..m /\ n - 1 \in 0..m /\ n - 1 # m
        BY <1>4, <3>2
      <4>2. f[n] = f[n - 1] + a[n]
        BY <2>2, <4>1 DEF Chain
      <4> QED
        BY <3>2, <4>1, <4>2
    <3> QED
      BY <3>1, <3>2
  <2> HIDE DEF g
  <2>7. Chain(g, a, m)
    BY <2>5, <2>6 DEF Chain
  <2> QED
    BY <1>4, <2>4, <2>7
<1> QED
  BY <1>5, <1>6

\* The partial sums of the same numbers are the same.
LEMMA ChainUnique ==
  ASSUME NEW N \in Nat, NEW f, NEW g, NEW a, NEW b,
         Chain(f, a, N), Chain(g, b, N), \A n \in 1..N : a[n] = b[n]
  PROVE  \A n \in 0..N : f[n] = g[n]
<1> DEFINE bad == {n \in 0..N : f[n] # g[n]}
<1>1. SUFFICES ASSUME bad # {} PROVE FALSE
  OBVIOUS
<1>2. PICK m \in bad : \A k \in bad : m <= k
  <2>1. bad \subseteq Nat
    OBVIOUS
  <2> HIDE DEF bad
  <2> QED
    BY <1>1, <2>1, LeastOf
<1>3. m \in 1..N
  BY DEF Chain
<1>4. m - 1 \in 0..N /\ m - 1 \notin bad
  BY <1>2, <1>3
<1>5. f[m - 1] = g[m - 1]
  BY <1>4
<1>6. f[m] = g[m]
  BY <1>3, <1>5 DEF Chain
<1> QED
  BY <1>2, <1>6

\* SumOf is the last partial sum, whatever function has them.
LEMMA SumIsLast ==
  ASSUME NEW N \in Nat, NEW a, \A n \in 1..N : a[n] \in Nat
  PROVE  /\ SumOf(a, N) \in Nat
         /\ \A f : Chain(f, a, N) => f[N] = SumOf(a, N)
<1> DEFINE g == CHOOSE f \in [0..N -> Nat] : Chain(f, a, N)
<1>1. g \in [0..N -> Nat] /\ Chain(g, a, N)
  BY ChainExists
<1>2. SumOf(a, N) = g[N]
  BY DEF SumOf
<1> HIDE DEF g
<1>3. ASSUME NEW f, Chain(f, a, N) PROVE f[N] = g[N]
  <2>1. \A n \in 0..N : f[n] = g[n]
    BY <1>1, <1>3, ChainUnique
  <2> QED
    BY <2>1
<1> QED
  BY <1>1, <1>2, <1>3

LEMMA SumAgrees ==
  ASSUME NEW N \in Nat, NEW a, NEW b, \A n \in 1..N : a[n] \in Nat /\ a[n] = b[n]
  PROVE  SumOf(a, N) = SumOf(b, N)
<1>1. PICK f \in [0..N -> Nat] : Chain(f, a, N)
  BY ChainExists
<1>2. Chain(f, b, N)
  BY <1>1 DEF Chain
<1>3. f[N] = SumOf(a, N)
  BY <1>1, SumIsLast
<1>4. f[N] = SumOf(b, N)
  BY <1>2, SumIsLast
<1> QED
  BY <1>3, <1>4

\* c has the M numbers of a and then the N numbers of b.
Joins(c, K, a, M, b, N) ==
  /\ M \in Nat /\ N \in Nat /\ K \in Nat /\ K = M + N
  /\ \A n \in 1..M : a[n] \in Nat /\ c[n] = a[n]
  /\ \A n \in 1..N : b[n] \in Nat /\ c[M + n] = b[n]
  /\ \A n \in 1..K : c[n] \in Nat

\* The sum of two parts, one after the other.
LEMMA SumConcat ==
  ASSUME NEW a, NEW b, NEW c, NEW M, NEW N, NEW K, Joins(c, K, a, M, b, N)
  PROVE  SumOf(c, K) = SumOf(a, M) + SumOf(b, N)
<1> USE DEF Joins
<1>1. PICK f : f \in [0..M -> Nat] /\ Chain(f, a, M)
  BY ChainExists
<1>2. PICK g : g \in [0..N -> Nat] /\ Chain(g, b, N)
  BY ChainExists
<1>3. PICK h : h \in [0..K -> Nat] /\ Chain(h, c, K)
  BY ChainExists
<1>4. f[M] = SumOf(a, M)
  BY <1>1, SumIsLast
<1>5. g[N] = SumOf(b, N)
  BY <1>2, SumIsLast
<1>6. h[K] = SumOf(c, K)
  BY <1>3, SumIsLast
<1>7. h[M] = f[M]
  <2>1. \A n \in 1..M : n \in 1..K
    OBVIOUS
  <2>2. Chain(h, c, M)
    BY <1>3, <2>1 DEF Chain
  <2>4. \A n \in 1..M : c[n] = a[n]
    OBVIOUS
  <2>5. Chain(f, a, M)
    BY <1>1
  <2>3. \A n \in 0..M : h[n] = f[n]
    BY ONLY Joins(c, K, a, M, b, N), <2>5, <2>2, <2>4, ChainUnique
  <2> QED
    BY <2>3
<1>8. h[K] = f[M] + g[N]
  <2> DEFINE bad == {n \in 0..N : h[M + n] # f[M] + g[n]}
  <2>1. SUFFICES ASSUME bad # {} PROVE FALSE
    <3>1. N \in 0..N
      OBVIOUS
    <3> QED
      BY <3>1
  <2>2. PICK m \in bad : \A k \in bad : m <= k
    <3>1. bad \subseteq Nat
      OBVIOUS
    <3> HIDE DEF bad
    <3> QED
      BY <2>1, <3>1, LeastOf
  <2>3. g[0] = 0 /\ M + 0 = M /\ f[M] \in Nat
    BY <1>1, <1>2 DEF Chain
  <2>4. m \in 1..N
    <3>1. h[M + 0] = f[M] + g[0]
      BY <1>7, <2>3
    <3>2. m # 0
      BY <3>1
    <3> QED
      BY <3>2
  <2>5. m - 1 \in 0..N /\ m - 1 \notin bad
    BY <2>2, <2>4
  <2>6. h[M + (m - 1)] = f[M] + g[m - 1]
    BY <2>5
  <2>7. g[m] = g[m - 1] + b[m]
    BY <1>2, <2>4 DEF Chain
  <2> DEFINE p == M + m
  <2>8. p \in 1..K /\ p - 1 = M + (m - 1)
    BY <2>4
  <2>9. c[p] = b[m] /\ b[m] \in Nat /\ g[m - 1] \in Nat
    BY <1>2, <2>4, <2>5
  <2> HIDE DEF p
  <2>10. h[p] = h[p - 1] + c[p]
    BY <1>3, <2>8 DEF Chain
  <2>11. h[p] = (f[M] + g[m - 1]) + b[m]
    BY <2>6, <2>8, <2>9, <2>10
  <2>12. h[p] = f[M] + g[m]
    <3> DEFINE x == f[M]
               y == g[m - 1]
               z == b[m]
    <3>1. x \in Nat /\ y \in Nat /\ z \in Nat /\ h[p] = (x + y) + z /\ g[m] = y + z
      BY <2>3, <2>7, <2>9, <2>11
    <3> HIDE DEF x, y, z
    <3>2. (x + y) + z = x + (y + z)
      BY <3>1
    <3>3. h[p] = x + g[m]
      BY <3>1, <3>2
    <3> QED
      BY <3>3 DEF x
  <2>13. h[M + m] = f[M] + g[m]
    BY <2>12 DEF p
  <2> QED
    BY <2>2, <2>13
<1> QED
  BY <1>4, <1>5, <1>6, <1>8

\* Total adds up the lengths.
LengthsOf(s, d) == [n \in 1..Len(s) |-> d[s[n]].len]
Measured(s, d) == \A n \in 1..Len(s) : d[s[n]].len \in Nat

LEMMA TotalIsSum ==
  ASSUME NEW s, Len(s) \in Nat, NEW d, Measured(s, d)
  PROVE  Total(s, d) = SumOf(LengthsOf(s, d), Len(s)) /\ Total(s, d) \in Nat
<1> DEFINE N == Len(s)
           a == LengthsOf(s, d)
           Sum(f) == [n \in 0..N |-> IF n = 0 THEN 0 ELSE f[n - 1] + d[s[n]].len]
           g == CHOOSE f : f = Sum(f)
<1>1. Total(s, d) = g[N]
  BY DEF Total
<1>2. \A n \in 1..N : a[n] = d[s[n]].len /\ a[n] \in Nat
  BY DEF LengthsOf, Measured
<1>3. N \in Nat
  OBVIOUS
<1> HIDE DEF a, N, Sum
<1>4. PICK f \in [0..N -> Nat] : Chain(f, a, N)
  BY <1>2, <1>3, ChainExists
<1>5. f = Sum(f)
  BY <1>2, <1>3, <1>4 DEF Chain, Sum
<1>6. g = Sum(g)
  BY <1>5
<1> HIDE DEF g
<1>7. Chain(g, a, N)
  BY <1>2, <1>3, <1>6 DEF Chain, Sum
<1>8. g[N] = SumOf(a, N) /\ SumOf(a, N) \in Nat
  BY <1>2, <1>3, <1>7, SumIsLast
<1> QED
  BY <1>1, <1>8 DEF a, N

\* The same lengths have the same total.
LEMMA TotalAgrees ==
  ASSUME NEW s, Len(s) \in Nat, NEW d, NEW e, Measured(s, d),
         \A n \in 1..Len(s) : d[s[n]].len = e[s[n]].len
  PROVE  Total(s, d) = Total(s, e)
<1>1. Measured(s, e)
  BY DEF Measured
<1>2. LengthsOf(s, d) = LengthsOf(s, e)
  BY DEF LengthsOf
<1> QED
  BY <1>1, <1>2, TotalIsSum

\* The total of two parts, of one entry and of none.
LEMMA TotalConcat ==
  ASSUME NEW S, NEW s \in Seq(S), NEW t \in Seq(S), NEW d, Measured(s, d), Measured(t, d)
  PROVE  Measured(s \o t, d) /\ Total(s \o t, d) = Total(s, d) + Total(t, d)
<1> DEFINE u == s \o t
           M == Len(s)
           N == Len(t)
           K == M + N
           a == LengthsOf(s, d)
           b == LengthsOf(t, d)
           c == LengthsOf(u, d)
<1>1. M \in Nat /\ N \in Nat /\ K \in Nat /\ K = M + N
  OBVIOUS
<1>2. Len(u) = K
  BY ConcatProperties
<1>3. \A n \in 1..M : u[n] = s[n]
  BY ConcatProperties
<1>4. \A n \in 1..N : u[M + n] = t[n]
  BY ConcatProperties
<1> HIDE DEF u
<1>5. \A n \in 1..M : a[n] = d[s[n]].len /\ a[n] \in Nat
  BY DEF LengthsOf, Measured
<1>6. \A n \in 1..N : b[n] = d[t[n]].len /\ b[n] \in Nat
  BY DEF LengthsOf, Measured
<1>7. \A n \in 1..K : c[n] = d[u[n]].len
  BY <1>2 DEF LengthsOf
<1>8. Total(s, d) = SumOf(a, M) /\ Total(t, d) = SumOf(b, N)
  BY <1>1, TotalIsSum
<1> HIDE DEF M, N, K, a, b, c
<1>9. \A n \in 1..M : c[n] = a[n]
  <2>1. \A n \in 1..M : n \in 1..K
    BY <1>1
  <2> QED
    BY <1>3, <1>5, <1>7, <2>1
<1>10. \A n \in 1..N : c[M + n] = b[n]
  <2>1. \A n \in 1..N : M + n \in 1..K
    BY <1>1
  <2> QED
    BY <1>4, <1>6, <1>7, <2>1
<1>11. ASSUME NEW n \in 1..K PROVE c[n] \in Nat
  <2>1. CASE n <= M
    BY <1>1, <1>5, <1>9, <2>1
  <2>2. CASE n > M
    <3>1. n - M \in 1..N /\ n = M + (n - M)
      BY <1>1, <2>2
    <3> QED
      BY <1>6, <1>10, <3>1
  <2> QED
    BY <1>1, <2>1, <2>2
<1>12. Measured(u, d)
  BY <1>2, <1>7, <1>11 DEF Measured
<1>13. Total(u, d) = SumOf(c, K)
  BY <1>1, <1>2, <1>12, TotalIsSum DEF c
<1>14. SumOf(c, K) = SumOf(a, M) + SumOf(b, N)
  <2>1. \A n \in 1..M : a[n] \in Nat /\ c[n] = a[n]
    BY <1>5, <1>9
  <2>2. \A n \in 1..N : b[n] \in Nat /\ c[M + n] = b[n]
    BY <1>6, <1>10
  <2>3. \A n \in 1..K : c[n] \in Nat
    BY <1>11
  <2>4. Joins(c, K, a, M, b, N)
    BY <1>1, <2>1, <2>2, <2>3 DEF Joins
  <2> QED
    BY <2>4, SumConcat
<1> QED
  BY <1>8, <1>12, <1>13, <1>14 DEF u

LEMMA TotalOne ==
  ASSUME NEW k, NEW d, d[k].len \in Nat
  PROVE  Measured(<<k>>, d) /\ Total(<<k>>, d) = d[k].len
<1> DEFINE s == <<k>>
           N == 1
           a == LengthsOf(s, d)
<1>1. N \in Nat /\ Len(s) = N /\ s[1] = k
  OBVIOUS
<1>2. Measured(s, d) /\ a[1] = d[k].len
  BY <1>1 DEF Measured, LengthsOf
<1>3. Total(s, d) = SumOf(a, N)
  BY <1>1, <1>2, TotalIsSum
<1> DEFINE f == [n \in 0..N |-> IF n = 0 THEN 0 ELSE d[k].len]
<1>4. f[N] = d[k].len /\ Chain(f, a, N)
  BY <1>2 DEF Chain
<1>5. \A n \in 1..N : a[n] \in Nat
  BY <1>2
<1> HIDE DEF a, N, f
<1>6. f[N] = SumOf(a, N)
  BY <1>1, <1>4, <1>5, SumIsLast
<1> QED
  BY <1>2, <1>3, <1>4, <1>6

LEMMA TotalNone ==
  ASSUME NEW d
  PROVE  Measured(<<>>, d) /\ Total(<<>>, d) = 0
<1> DEFINE s == <<>>
           N == 0
           a == LengthsOf(s, d)
           f == [n \in 0..N |-> 0]
<1>1. N \in Nat /\ Len(s) = N
  OBVIOUS
<1>2. Measured(s, d)
  BY <1>1 DEF Measured
<1>3. Total(s, d) = SumOf(a, N)
  BY <1>1, <1>2, TotalIsSum
<1>4. f[N] = 0 /\ Chain(f, a, N)
  BY DEF Chain
<1>5. \A n \in 1..N : a[n] \in Nat
  OBVIOUS
<1> HIDE DEF a, N, f
<1>6. f[N] = SumOf(a, N)
  BY <1>1, <1>4, <1>5, SumIsLast
<1> QED
  BY <1>2, <1>3, <1>4, <1>6

\* A key is in the sequence once at most.
Distinct(s) == \A i, j \in 1..Len(s) : s[i] = s[j] => i = j

LEMMA MeasuredRange ==
  ASSUME NEW S, NEW s \in Seq(S), NEW d
  PROVE  Measured(s, d) <=> \A k \in Range(s) : d[k].len \in Nat
<1>1. Range(s) = {s[n] : n \in 1..Len(s)}
  BY RangeEquality
<1> QED
  BY <1>1 DEF Measured

\* The total of a sequence that is cut in two.
LEMMA SplitCounts ==
  ASSUME NEW S, NEW s \in Seq(S), NEW d, Distinct(s), Measured(s, d), NEW n \in 0..Len(s)
  PROVE  /\ Measured(SubSeq(s, 1, n), d) /\ Measured(SubSeq(s, n + 1, Len(s)), d)
         /\ Distinct(SubSeq(s, n + 1, Len(s)))
         /\ Total(s, d) = Total(SubSeq(s, 1, n), d) + Total(SubSeq(s, n + 1, Len(s)), d)
<1> DEFINE L == Len(s)
           a == SubSeq(s, 1, n)
           b == SubSeq(s, n + 1, L)
<1>1. L \in Nat /\ n \in Nat /\ n <= L
  OBVIOUS
<1>2. \A i \in 1..L : s[i] \in S
  OBVIOUS
<1>3. \A i \in 1..n : s[i] \in S
  BY <1>1, <1>2
<1>4. \A i \in (n + 1)..L : s[i] \in S
  BY <1>1, <1>2
<1>5. a \in Seq(S) /\ Len(a) = n /\ \A i \in 1..n : a[i] = s[i]
  <2>1. /\ SubSeq(s, 1, n) \in Seq(S)
        /\ Len(SubSeq(s, 1, n)) = IF 1 <= n THEN n - 1 + 1 ELSE 0
        /\ \A i \in 1..n - 1 + 1 : SubSeq(s, 1, n)[i] = s[1 + i - 1]
    BY <1>1, <1>3, SubSeqProperties
  <2>2. (IF 1 <= n THEN n - 1 + 1 ELSE 0) = n /\ n - 1 + 1 = n /\ \A i \in 1..n : 1 + i - 1 = i
    BY <1>1
  <2> QED
    BY <2>1, <2>2
<1>6. b \in Seq(S) /\ Len(b) = L - n /\ \A i \in 1..L - n : b[i] = s[n + i]
  <2>1. /\ SubSeq(s, n + 1, L) \in Seq(S)
        /\ Len(SubSeq(s, n + 1, L)) = IF n + 1 <= L THEN L - (n + 1) + 1 ELSE 0
        /\ \A i \in 1..L - (n + 1) + 1 : SubSeq(s, n + 1, L)[i] = s[n + 1 + i - 1]
    BY <1>1, <1>4, SubSeqProperties
  <2>2. /\ (IF n + 1 <= L THEN L - (n + 1) + 1 ELSE 0) = L - n /\ L - (n + 1) + 1 = L - n
        /\ \A i \in 1..L - n : n + 1 + i - 1 = n + i
    BY <1>1
  <2> QED
    BY <2>1, <2>2
<1>7. s = a \o b
  <2>1. SubSeq(s, 1, n) \o SubSeq(s, n + 1, L) = SubSeq(s, 1, L)
    <3>1. 1 \in 1..Len(s) + 1 /\ n \in 1 - 1..Len(s) /\ L \in n..Len(s)
      BY <1>1
    <3> QED
      BY <3>1, ConcatAdjacentSubSeq
  <2> QED
    BY <2>1, SubSeqFull
<1> HIDE DEF L, a, b
<1>8. Measured(a, d)
  <2>1. \A i \in 1..n : d[a[i]].len \in Nat
    BY <1>1, <1>5 DEF Measured, L
  <2> QED
    BY <1>5, <2>1 DEF Measured
<1>9. Measured(b, d)
  <2>1. ASSUME NEW i \in 1..L - n PROVE d[b[i]].len \in Nat
    <3>1. n + i \in 1..L
      BY <1>1
    <3> QED
      BY <1>6, <3>1 DEF Measured, L
  <2> QED
    BY <1>6, <2>1 DEF Measured
<1>10. Distinct(b)
  <2>1. ASSUME NEW i \in 1..L - n, NEW j \in 1..L - n, b[i] = b[j] PROVE i = j
    <3>1. n + i \in 1..L /\ n + j \in 1..L
      BY <1>1
    <3>2. s[n + i] = s[n + j]
      BY <1>6, <2>1
    <3>3. n + i = n + j
      BY <3>1, <3>2 DEF Distinct, L
    <3> QED
      BY <1>1, <3>3
  <2> QED
    BY <1>6, <2>1 DEF Distinct
<1>11. Total(a \o b, d) = Total(a, d) + Total(b, d)
  BY <1>5, <1>6, <1>8, <1>9, TotalConcat
<1> QED
  BY <1>7, <1>8, <1>9, <1>10, <1>11 DEF a, b, L

\* Taking a key out takes its length off the total.
LEMMA WithoutCounts ==
  ASSUME NEW S, NEW s \in Seq(S), NEW d, Distinct(s), Measured(s, d), NEW k
  PROVE  /\ Distinct(Without(s, k)) /\ k \notin Range(Without(s, k))
         /\ Measured(Without(s, k), d)
         /\ Total(s, d) = Total(Without(s, k), d) + IF k \in Range(s) THEN d[k].len ELSE 0
<1>1. CASE k \notin Range(s)
  <2>1. Without(s, k) = s
    BY <1>1 DEF Without
  <2>2. Total(s, d) \in Nat
    BY TotalIsSum
  <2> QED
    BY <1>1, <2>1, <2>2
<1>2. CASE k \in Range(s)
  <2> DEFINE L == Len(s)
             i == CHOOSE j \in 1..L : s[j] = k
  <2>1. i \in 1..L /\ s[i] = k
    BY <1>2, RangeEquality
  <2> HIDE DEF i
  <2> DEFINE a == SubSeq(s, 1, i - 1)
             b == SubSeq(s, i + 1, L)
             w == a \o b
             r == <<k>> \o b
  <2>2. Without(s, k) = w
    BY <1>2 DEF Without, RemoveAt, i
  <2>3. L \in Nat /\ i \in Nat /\ 1 <= i /\ i <= L
    BY <2>1
  <2>4. a \in Seq(S) /\ Len(a) = i - 1 /\ \A n \in 1..i - 1 : a[n] = s[n]
    <3>1. \A n \in 1..i - 1 : s[n] \in S
      BY <2>3
    <3>2. /\ SubSeq(s, 1, i - 1) \in Seq(S)
          /\ Len(SubSeq(s, 1, i - 1)) = IF 1 <= i - 1 THEN i - 1 - 1 + 1 ELSE 0
          /\ \A n \in 1..i - 1 - 1 + 1 : SubSeq(s, 1, i - 1)[n] = s[1 + n - 1]
      BY <2>3, <3>1, SubSeqProperties
    <3>3. /\ (IF 1 <= i - 1 THEN i - 1 - 1 + 1 ELSE 0) = i - 1 /\ i - 1 - 1 + 1 = i - 1
          /\ \A n \in 1..i - 1 : 1 + n - 1 = n
      BY <2>3
    <3> QED
      BY <3>2, <3>3
  <2>5. b \in Seq(S) /\ Len(b) = L - i /\ \A n \in 1..L - i : b[n] = s[i + n]
    <3>1. \A n \in (i + 1)..L : s[n] \in S
      BY <2>3
    <3>2. /\ SubSeq(s, i + 1, L) \in Seq(S)
          /\ Len(SubSeq(s, i + 1, L)) = IF i + 1 <= L THEN L - (i + 1) + 1 ELSE 0
          /\ \A n \in 1..L - (i + 1) + 1 : SubSeq(s, i + 1, L)[n] = s[i + 1 + n - 1]
      BY <2>3, <3>1, SubSeqProperties
    <3>3. /\ (IF i + 1 <= L THEN L - (i + 1) + 1 ELSE 0) = L - i /\ L - (i + 1) + 1 = L - i
          /\ \A n \in 1..L - i : i + 1 + n - 1 = i + n
      BY <2>3
    <3> QED
      BY <3>2, <3>3
  <2>6. s = a \o r
    <3>1. SubSeq(s, i, L) = <<s[i]>> \o SubSeq(s, i + 1, L)
      BY <2>1, <2>3, SubSeqRecursiveFirst
    <3>2. SubSeq(s, 1, i - 1) \o SubSeq(s, i - 1 + 1, L) = SubSeq(s, 1, L)
      <4> DEFINE j == i - 1
      <4>1. 1 \in 1..Len(s) + 1 /\ j \in 1 - 1..Len(s) /\ L \in j..Len(s)
        BY <2>3
      <4> HIDE DEF j
      <4>2. SubSeq(s, 1, j) \o SubSeq(s, j + 1, L) = SubSeq(s, 1, L)
        BY <4>1, ConcatAdjacentSubSeq
      <4> QED
        BY <4>2 DEF j
    <3>3. i - 1 + 1 = i
      BY <2>3
    <3>4. SubSeq(s, 1, L) = s
      BY SubSeqFull
    <3> QED
      BY <2>1, <3>1, <3>2, <3>3, <3>4
  <2>7. k \in S
    BY <2>1
  <2>8. <<k>> \in Seq(S) /\ r \in Seq(S)
    BY <2>5, <2>7, ConcatProperties
  <2> HIDE DEF a, b
  <2>9. /\ w \in Seq(S) /\ Len(w) = L - 1
        /\ \A n \in 1..i - 1 : w[n] = s[n]
        /\ \A n \in i..L - 1 : w[n] = s[n + 1]
    <3>1. /\ w \in Seq(S) /\ Len(w) = (i - 1) + (L - i)
          /\ \A n \in 1..(i - 1) + (L - i) : w[n] = IF n <= i - 1 THEN a[n] ELSE b[n - (i - 1)]
      <4>1. /\ w \in Seq(S) /\ Len(w) = Len(a) + Len(b)
            /\ \A n \in 1..Len(a) + Len(b) : w[n] = IF n <= Len(a) THEN a[n] ELSE b[n - Len(a)]
        BY <2>4, <2>5, ConcatProperties
      <4>2. Len(a) = i - 1 /\ Len(b) = L - i
        BY <2>4, <2>5
      <4> HIDE DEF w
      <4> QED
        BY <4>1, <4>2
    <3>2. (i - 1) + (L - i) = L - 1
      BY <2>3
    <3>3. ASSUME NEW n \in 1..i - 1 PROVE w[n] = s[n]
      <4>1. n \in 1..L - 1 /\ n <= i - 1
        BY <2>3
      <4> QED
        BY <2>4, <3>1, <3>2, <4>1
    <3>4. ASSUME NEW n \in i..L - 1 PROVE w[n] = s[n + 1]
      <4>1. /\ n \in 1..L - 1 /\ ~(n <= i - 1) /\ n - (i - 1) \in 1..L - i
            /\ i + (n - (i - 1)) = n + 1
        BY <2>3
      <4> HIDE DEF w
      <4>2. w[n] = b[n - (i - 1)]
        BY <3>1, <3>2, <4>1
      <4>3. b[n - (i - 1)] = s[i + (n - (i - 1))]
        BY <2>5, <4>1
      <4> QED
        BY <4>1, <4>2, <4>3
    <3> HIDE DEF w
    <3> QED
      BY <3>1, <3>2, <3>3, <3>4
  <2>10. Measured(a, d) /\ Measured(b, d) /\ d[k].len \in Nat
    <3>1. d[k].len \in Nat
      BY <2>1 DEF Measured
    <3>2. \A n \in 1..i - 1 : d[a[n]].len \in Nat
      BY <2>3, <2>4 DEF Measured
    <3>3. ASSUME NEW n \in 1..L - i PROVE d[b[n]].len \in Nat
      <4>1. i + n \in 1..L
        BY <2>3
      <4> QED
        BY <2>5, <4>1 DEF Measured
    <3> QED
      BY <2>4, <2>5, <3>1, <3>2, <3>3 DEF Measured
  <2>11. Measured(w, d) /\ Total(w, d) = Total(a, d) + Total(b, d)
    BY <2>4, <2>5, <2>10, TotalConcat
  <2>12. Measured(r, d) /\ Total(r, d) = d[k].len + Total(b, d)
    <3> DEFINE o == <<k>>
    <3>1. o \in Seq(S) /\ Measured(o, d) /\ Total(o, d) = d[k].len /\ r = o \o b
      BY <2>8, <2>10, TotalOne
    <3> HIDE DEF o, r
    <3> QED
      BY <2>5, <2>10, <3>1, TotalConcat
  <2>13. Total(s, d) = Total(a, d) + Total(r, d)
    BY <2>4, <2>6, <2>8, <2>10, <2>12, TotalConcat
  <2>14. Total(a, d) \in Nat /\ Total(b, d) \in Nat
    BY <2>4, <2>5, <2>10, TotalIsSum
  <2>15. Total(s, d) = Total(w, d) + d[k].len
    <3> DEFINE x == Total(a, d)
               y == Total(b, d)
               z == d[k].len
    <3>1. x \in Nat /\ y \in Nat /\ z \in Nat
      BY <2>10, <2>14
    <3>2. Total(s, d) = x + (z + y) /\ Total(w, d) = x + y
      BY <2>11, <2>12, <2>13
    <3> HIDE DEF x, y, z
    <3>3. Total(s, d) = Total(w, d) + z
      BY <3>1, <3>2
    <3> QED
      BY <3>3 DEF z
  <2> HIDE DEF w, r, L
  <2>16. ASSUME NEW n \in 1..L - 1
         PROVE  \E m \in 1..L : w[n] = s[m] /\ m # i /\ m = IF n < i THEN n ELSE n + 1
    <3>1. CASE n < i
      <4>1. n \in 1..i - 1 /\ n \in 1..L /\ n # i
        BY <2>3, <3>1
      <4> QED
        BY <2>9, <3>1, <4>1
    <3>2. CASE ~(n < i)
      <4>1. n \in i..L - 1 /\ n + 1 \in 1..L /\ n + 1 # i
        BY <2>3, <3>2
      <4> QED
        BY <2>9, <3>2, <4>1
    <3> QED
      BY <3>1, <3>2
  <2>17. Distinct(w)
    <3>1. ASSUME NEW n \in 1..L - 1, NEW m \in 1..L - 1, w[n] = w[m] PROVE n = m
      <4>1. PICK p \in 1..L : w[n] = s[p] /\ p = IF n < i THEN n ELSE n + 1
        BY <2>16
      <4>2. PICK q \in 1..L : w[m] = s[q] /\ q = IF m < i THEN m ELSE m + 1
        BY <2>16
      <4>3. p = q
        BY <3>1, <4>1, <4>2 DEF Distinct, L
      <4> QED
        BY <2>3, <4>1, <4>2, <4>3
    <3> QED
      BY <2>9, <3>1 DEF Distinct
  <2>18. k \notin Range(w)
    <3>1. ASSUME NEW n \in 1..L - 1 PROVE w[n] # k
      <4>1. PICK p \in 1..L : w[n] = s[p] /\ p # i
        BY <2>16
      <4> QED
        BY <2>1, <4>1 DEF Distinct, L
    <3>2. Range(w) = {w[n] : n \in 1..L - 1}
      BY <2>9, RangeEquality
    <3> QED
      BY <3>1, <3>2
  <2> QED
    BY <1>2, <2>2, <2>11, <2>15, <2>17, <2>18
<1> QED
  BY <1>1, <1>2

\* The contents e are those of d but for the key k.
Replaces(s, d, e, k) ==
  e[k].len \in Nat /\ \A j \in Range(s) : j # k => e[j] = d[j]

\* Moving a key to the end, with new contents, replaces its length in the total.
LEMMA ToEndCounts ==
  ASSUME NEW S, NEW s \in Seq(S), NEW d, NEW e, Distinct(s), Measured(s, d), NEW k \in S,
         Replaces(s, d, e, k)
  PROVE  /\ Distinct(ToEnd(s, k)) /\ Measured(ToEnd(s, k), e)
         /\ Total(ToEnd(s, k), e)
              = Total(s, d) - (IF k \in Range(s) THEN d[k].len ELSE 0) + e[k].len
<1> DEFINE w == Without(s, k)
           o == <<k>>
           old == IF k \in Range(s) THEN d[k].len ELSE 0
<1>1. w \in Seq(S) /\ Range(w) \subseteq Range(s)
  BY WithoutWithin
<1>2. /\ Distinct(w) /\ k \notin Range(w) /\ Measured(w, d)
      /\ Total(s, d) = Total(w, d) + old
  BY WithoutCounts
<1>3. ToEnd(s, k) = Append(w, k)
  BY DEF ToEnd
<1>4. o \in Seq(S) /\ Measured(o, e) /\ Total(o, e) = e[k].len /\ e[k].len \in Nat
  BY TotalOne DEF Replaces
<1>5. old \in Nat
  BY MeasuredRange
<1> HIDE DEF w, old
<1>6. \A n \in 1..Len(w) : w[n] \in Range(w)
  BY <1>1, RangeEquality
<1>7. \A n \in 1..Len(w) : e[w[n]] = d[w[n]] /\ e[w[n]].len = d[w[n]].len
  BY <1>1, <1>2, <1>6 DEF Replaces
<1>8. Measured(w, e)
  BY <1>2, <1>7 DEF Measured
<1>9. Total(w, d) = Total(w, e) /\ Total(w, d) \in Nat
  <2>1. Len(w) \in Nat /\ \A n \in 1..Len(w) : d[w[n]].len = e[w[n]].len
    BY <1>1, <1>7
  <2> QED
    BY <1>2, <2>1, TotalAgrees, TotalIsSum
<1>10. Append(w, k) = w \o o
  BY <1>1, AppendIsConcat
<1> HIDE DEF o
<1>11. Measured(w \o o, e) /\ Total(w \o o, e) = Total(w, e) + Total(o, e)
  BY <1>1, <1>4, <1>8, TotalConcat
<1>12. Distinct(Append(w, k))
  <2> DEFINE L == Len(w)
             q == Append(w, k)
  <2>1. L \in Nat /\ Len(q) = L + 1 /\ (\A n \in 1..L : q[n] = w[n]) /\ q[L + 1] = k
    BY <1>1, AppendProperties
  <2>2. \A n \in 1..L : w[n] # k
    BY <1>2, <1>6
  <2> HIDE DEF q
  <2>3. ASSUME NEW i \in 1..L + 1, NEW j \in 1..L + 1, q[i] = q[j] PROVE i = j
    <3>1. (i \in 1..L \/ i = L + 1) /\ (j \in 1..L \/ j = L + 1)
      BY <2>1
    <3>2. CASE i \in 1..L /\ j \in 1..L
      BY <1>2, <2>1, <2>3, <3>2 DEF Distinct
    <3> QED
      BY <2>1, <2>2, <2>3, <3>1, <3>2
  <2>4. Distinct(q)
    BY <2>1, <2>3 DEF Distinct
  <2> QED
    BY <2>4 DEF q
<1>13. Total(ToEnd(s, k), e) = Total(w, d) + e[k].len
  BY <1>3, <1>4, <1>9, <1>10, <1>11
<1>14. Total(s, d) - old = Total(w, d)
  BY <1>2, <1>5, <1>9
<1> QED
  BY <1>3, <1>10, <1>11, <1>12, <1>13, <1>14 DEF old

\* The count covers the items and keeps to the budget; every item fits.
Counted(c) ==
  /\ Distinct(c.items) /\ c.size \in Nat /\ c.size <= MaxBytes
  /\ \A k \in Range(c.items) : c.data[k].len \in Nat /\ c.data[k].len <= MaxBytes
  /\ Total(c.items, c.data) <= c.size
Exact(c) == Total(c.items, c.data) = c.size

LEMMA CountedTotal ==
  ASSUME NEW c, IsCache(c), Counted(c)
  PROVE  Measured(c.items, c.data) /\ Total(c.items, c.data) \in Nat
<1>1. c.items \in Seq(Keys) /\ Len(c.items) \in Nat
  BY DEF IsCache
<1>2. Measured(c.items, c.data)
  BY <1>1, MeasuredRange DEF Counted
<1> QED
  BY <1>1, <1>2, TotalIsSum

LEMMA GetCounts ==
  ASSUME NEW c, IsCache(c), Counted(c), NEW k \in Keys
  PROVE  Counted(CacheGet(c, k)) /\ (Exact(c) => Exact(CacheGet(c, k)))
<1>1. CASE ~Cached(c, k)
  BY <1>1 DEF CacheGet
<1>2. CASE Cached(c, k)
  <2> DEFINE g == CacheGet(c, k)
             s == c.items
             d == c.data
             q == ToEnd(s, k)
  <2>1. g = [items |-> q, data |-> d, size |-> c.size]
    BY <1>2 DEF CacheGet, IsCache
  <2>2. g.items = q /\ g.data = d /\ g.size = c.size
    BY <2>1
  <2>3. s \in Seq(Keys) /\ k \in Range(s)
    BY <1>2 DEF IsCache, Cached
  <2>4. q \in Seq(Keys) /\ Range(q) \subseteq Range(s) \cup {k}
    BY <2>3, ToEndWithin
  <2>5. d[k].len \in Nat /\ Distinct(s)
    BY <2>3 DEF Counted
  <2>6. Measured(s, d) /\ Total(s, d) \in Nat
    BY CountedTotal
  <2>7. Distinct(q) /\ Total(q, d) = Total(s, d) - (IF k \in Range(s) THEN d[k].len ELSE 0) + d[k].len
    <3>1. Replaces(s, d, d, k)
      BY <2>5 DEF Replaces
    <3> QED
      BY <2>3, <2>5, <2>6, <3>1, ToEndCounts
  <2> HIDE DEF g, s, d, q
  <2>8. Total(q, d) = Total(s, d)
    BY <2>3, <2>5, <2>6, <2>7
  <2>9. Range(q) \subseteq Range(s)
    BY <2>3, <2>4
  <2> QED
    BY <2>2, <2>7, <2>8, <2>9 DEF Counted, Exact, g, s, d
<1> QED
  BY <1>1, <1>2

\* put keeps the count, and keeps it exact unless it drops older contents of its
\* key because the new ones are over the budget.
LEMMA PutCounts ==
  ASSUME NEW c, IsCache(c), Counted(c), NEW k \in Keys, NEW v, v.len \in Nat
  PROVE  /\ Counted(CachePut(c, k, v))
         /\ Exact(c) /\ ~(v.len > MaxBytes /\ Cached(c, k)) => Exact(CachePut(c, k, v))
<1> DEFINE z == c.items
           d == c.data
           s == ToEnd(z, k)
           e == [d EXCEPT ![k] = v]
           old == IF k \in Range(z) THEN d[k].len ELSE 0
           count == c.size - old + v.len
           out == Evicted(s, e, count)
           gone == SubSeq(s, 1, out)
           kept == SubSeq(s, out + 1, Len(s))
           left == count - Total(gone, e)
           w == Without(z, k)
<1>1. CachePut(c, k, v) = IF v.len > MaxBytes THEN Holding(w, d, c.size) ELSE Holding(kept, e, left)
  BY DEF CachePut, SizeOfOld, Cached
<1>2. z \in Seq(Keys) /\ Distinct(z) /\ Measured(z, d) /\ Total(z, d) \in Nat
  BY CountedTotal DEF IsCache, Counted
<1>3. /\ \A j \in Range(z) : d[j].len \in Nat /\ d[j].len <= MaxBytes
      /\ c.size \in Nat /\ c.size <= MaxBytes /\ Total(z, d) <= c.size
  BY DEF Counted
<1>4. (Exact(c) <=> Total(z, d) = c.size) /\ (Cached(c, k) <=> k \in Range(z))
  BY DEF Exact, Cached
<1>5. \A j \in Keys : e[j] = IF j = k THEN v ELSE d[j]
  BY DEF IsCache
<1>6. old \in Nat
  BY <1>3
<1>7. ASSUME NEW q \in Seq(Keys), NEW f, NEW n, Distinct(q), n \in Nat, n <= MaxBytes,
             \A j \in Range(q) : f[j].len \in Nat /\ f[j].len <= MaxBytes,
             Total(q, f) <= n
      PROVE  Counted(Holding(q, f, n)) /\ (Total(q, f) = n => Exact(Holding(q, f, n)))
  <2> DEFINE h == Holding(q, f, n)
  <2>1. /\ h.items = q /\ h.size = n
        /\ h.data = [j \in Keys |-> IF j \in Range(q) THEN f[j] ELSE NoData]
    BY DEF Holding
  <2>2. Range(q) \subseteq Keys /\ \A i \in 1..Len(q) : q[i] \in Range(q)
    BY RangeWithin, RangeEquality
  <2> HIDE DEF h
  <2>3. \A j \in Range(q) : h.data[j] = f[j]
    BY <2>1, <2>2
  <2>4. Measured(q, f) /\ Len(q) \in Nat
    BY <1>7, MeasuredRange
  <2>5. \A i \in 1..Len(q) : f[q[i]].len = h.data[q[i]].len
    BY <2>2, <2>3
  <2>6. Total(q, f) = Total(q, h.data)
    BY <2>4, <2>5, TotalAgrees
  <2> QED
    BY <1>7, <2>1, <2>3, <2>6 DEF Counted, Exact, h
<1> HIDE DEF z, d, e, old
<1>8. CASE v.len > MaxBytes
  <2>1. w \in Seq(Keys) /\ Range(w) \subseteq Range(z)
    BY <1>2, WithoutWithin
  <2>2. Distinct(w) /\ Measured(w, d) /\ Total(z, d) = Total(w, d) + old
    BY <1>2, WithoutCounts DEF old
  <2>3. Total(w, d) \in Nat
    BY <2>1, <2>2, TotalIsSum
  <2> HIDE DEF w
  <2>4. Total(w, d) <= c.size
    BY <1>2, <1>3, <1>6, <2>2, <2>3
  <2>5. Counted(Holding(w, d, c.size)) /\ (Total(w, d) = c.size => Exact(Holding(w, d, c.size)))
    BY <1>3, <1>7, <2>1, <2>2, <2>4
  <2>6. k \notin Range(z) => Total(w, d) = Total(z, d)
    BY <2>2, <2>3 DEF old
  <2> QED
    BY <1>1, <1>4, <1>8, <2>5, <2>6
<1>9. CASE ~(v.len > MaxBytes)
  <2>1. s \in Seq(Keys) /\ Range(s) \subseteq Range(z) \cup {k}
    BY <1>2, ToEndWithin
  <2>2. Range(z) \subseteq Keys /\ Range(s) \subseteq Keys
    BY <1>2, <2>1, RangeWithin
  <2>3. e[k].len \in Nat /\ \A j \in Range(z) : j # k => e[j] = d[j]
    BY <1>5, <2>2
  <2>4. Distinct(s) /\ Measured(s, e) /\ Total(s, e) = Total(z, d) - old + e[k].len
    <3>1. /\ Distinct(s) /\ Measured(s, e)
          /\ Total(s, e) = Total(z, d) - (IF k \in Range(z) THEN d[k].len ELSE 0) + e[k].len
      <4>1. Replaces(z, d, e, k)
        BY <2>3 DEF Replaces
      <4> QED
        BY <1>2, <4>1, ToEndCounts
    <3> QED
      BY <3>1 DEF old
  <2>5. e[k].len = v.len /\ MaxBytes \in Nat
    BY <1>5, CacheAssumption
  <2>6. \A j \in Range(s) : e[j].len \in Nat /\ e[j].len <= MaxBytes
    BY <1>3, <1>5, <1>9, <2>1, <2>2, <2>5
  <2> HIDE DEF s
  <2>7. out \in 0..Len(s) /\ Len(s) \in Nat
    BY <2>1, EvictedInRange
  <2>8. out = Len(s) \/ count - Total(gone, e) <= MaxBytes
    <3> DEFINE enough == {n \in 0..Len(s) : n = Len(s) \/ count - Total(SubSeq(s, 1, n), e) <= MaxBytes}
    <3>1. out = CHOOSE n \in enough : \A m \in enough : n <= m
      BY DEF Evicted
    <3>2. Len(s) \in enough /\ enough \subseteq Nat
      BY <2>7
    <3> HIDE DEF enough, out
    <3>3. \E n \in enough : \A m \in enough : n <= m
      BY <3>2, LeastOf
    <3>4. out \in enough
      BY <3>1, <3>3
    <3> QED
      BY <3>4 DEF enough
  <2> HIDE DEF out
  <2>9. /\ Measured(gone, e) /\ Measured(kept, e) /\ Distinct(kept)
        /\ Total(s, e) = Total(gone, e) + Total(kept, e)
    BY <2>1, <2>4, <2>7, SplitCounts
  <2>10. gone \in Seq(Keys) /\ kept \in Seq(Keys) /\ Range(kept) \subseteq Range(s)
    <3>1. \A j \in 1..Len(s) : s[j] \in Range(s)
      BY <2>1, RangeEquality
    <3>2. \A j \in 1..out : s[j] \in Range(s)
      BY <2>7, <3>1
    <3>3. \A j \in (out + 1)..Len(s) : s[j] \in Range(s)
      BY <2>7, <3>1
    <3>4. gone \in Seq(Range(s)) /\ kept \in Seq(Range(s))
      BY <2>7, <3>2, <3>3, SubSeqProperties
    <3> HIDE DEF gone, kept
    <3>5. Range(kept) \subseteq Range(s)
      BY <3>4, RangeWithin
    <3> QED
      BY <2>2, <3>4, <3>5
  <2>11. out = Len(s) => kept = <<>>
    BY <2>7, SubSeqEmpty
  <2> HIDE DEF gone, kept
  <2>12. Total(gone, e) \in Nat /\ Total(kept, e) \in Nat
    BY <2>9, <2>10, TotalIsSum
  <2>13. out = Len(s) => Total(kept, e) = 0
    BY <2>11, TotalNone
  <2>14. /\ left \in Int /\ Total(kept, e) <= left
         /\ left - Total(kept, e) = c.size - Total(z, d)
    <3> DEFINE ct == Total(z, d)
               cg == Total(gone, e)
               ck == Total(kept, e)
               size == c.size
               new == v.len
    <3>1. /\ ct \in Nat /\ cg \in Nat /\ ck \in Nat /\ size \in Nat /\ new \in Nat /\ old \in Nat
          /\ ct <= size /\ ct - old + new = cg + ck
      BY <1>2, <1>3, <1>6, <2>4, <2>5, <2>9, <2>12
    <3> HIDE DEF ct, cg, ck, size, new
    <3>2. count = size - old + new
      BY DEF size, new
    <3>3. left = count - cg
      BY DEF cg
    <3> HIDE DEF left, count
    <3>4. left \in Int /\ ck <= left /\ left - ck = size - ct
      BY <3>1, <3>2, <3>3
    <3> QED
      BY <3>4 DEF ct, ck, size
  <2>15. left \in Nat /\ left <= MaxBytes
    <3>1. left \in Nat
      BY <2>12, <2>14
    <3>2. CASE out = Len(s)
      BY <1>2, <1>3, <2>5, <2>13, <2>14, <3>2
    <3>3. CASE out # Len(s)
      <4>1. left = count - Total(gone, e)
        OBVIOUS
      <4> HIDE DEF left, count
      <4> QED
        BY <2>8, <3>1, <3>3, <4>1
    <3> QED
      BY <3>1, <3>2, <3>3
  <2>16. Total(z, d) = c.size => Total(kept, e) = left
    BY <1>2, <1>3, <2>12, <2>14
  <2> HIDE DEF left
  <2>17. Counted(Holding(kept, e, left)) /\ (Total(kept, e) = left => Exact(Holding(kept, e, left)))
    BY <1>7, <2>6, <2>9, <2>10, <2>14, <2>15
  <2> QED
    BY <1>1, <1>4, <1>9, <2>16, <2>17
<1> QED
  BY <1>8, <1>9

--------------------------------------------------------------------------
(* The inductive invariant *)

\* What a key may hold, given what upstream has had: bytes or a size of its own
\* inbox's message, the rendering its content key names, or under a stamp a
\* rendering that is not older than the stamp.
Right(k, d, ver, last, say) ==
  /\ \A i \in Inboxes : k = Ckey(i, "body", MessageId) =>
       \E v \in 1..ver[i] : d = MessageBytes(i, v)
  /\ \A i \in Inboxes : k = Ckey(i, "size", MessageId) =>
       \E v \in 1..ver[i] : d = SizeText(MessageLength[i][v])
  /\ \A x \in Contents : k = Ckey(DraftInbox, "body", x) => d = Rendering(x)
  /\ \A s \in Stamps : k = DraftvKey(s) => \E t \in s..last : d = Rendering(say[t])

AllRight(c, ver, last, say) ==
  \A k \in Range(c.items) : Right(k, c.data[k], ver, last, say)

UpstreamTypes ==
  /\ version \in [Inboxes -> 1..2]
  /\ stamp \in 0..MaxStamp /\ says \in [Stamps -> Contents]
  /\ listed \subseteq Contents

CacheInv == IsCache(cache) /\ AllRight(cache, version, stamp, says)

\* A reader stands at a request for an item of the kind that the request is for.
ReaderFits(x, ver) ==
  /\ x.pc \in {"idle", "draft", "meta", "download"}
  /\ x.pc # "idle" => x.op \in {"bytes", "size"}
  /\ x.pc = "draft" => \E k \in Contents : x.item = DraftItem(k)
  /\ x.pc \in {"meta", "download"} =>
       \E i \in Inboxes : x.item = MessageItem(i) /\ x.since \in 1..ver[i]

ReaderRecord(x) == x = [pc |-> x.pc, op |-> x.op, item |-> x.item, since |-> x.since]

ReaderInv ==
  /\ reader = [r \in Readers |-> reader[r]]
  /\ \A r \in Readers : ReaderRecord(reader[r]) /\ ReaderFits(reader[r], version)

\* The size that the cache knows is the one that a download will have.
KnewFits(x, n) ==
  n # 0 => /\ x.pc # "idle" /\ x.item.kind # "draft"
           /\ ~(x.pc = "meta" /\ x.op = "size")
           /\ x.pc = "download" => MessageLength[x.item.inbox][x.since] = n

KnewInv == \A r \in Readers : KnewFits(reader[r], knew[r])

\* The listing asked for the draft after it was shown the stamp.
ListerInv ==
  lister.pc = "get" => lister.stamp \in Stamps /\ lister.since \in Nat /\ lister.stamp <= lister.since

IInv ==
  /\ UpstreamTypes /\ CacheInv /\ ReaderInv /\ KnewInv /\ ListerInv
  /\ AnswersAreTheContent /\ ListedContentIsCurrent

--------------------------------------------------------------------------
(* The cache holds what is right *)

\* The keys of the items and stamps are keys of the cache.
LEMMA KeysInUse ==
  /\ \A i \in Inboxes : BodyKey(MessageItem(i)) \in Keys /\ SizeKey(MessageItem(i)) \in Keys
  /\ \A k \in Contents : BodyKey(DraftItem(k)) \in Keys
  /\ \A s \in Stamps : DraftvKey(s) \in Keys
<1>1. \A i \in Inboxes : Ckey(i, "body", MessageId) \in Keys /\ Ckey(i, "size", MessageId) \in Keys
  BY KeyAssumption DEF ContentKeys
<1>2. \A k \in Contents : Ckey(DraftInbox, "body", k) \in Keys
  BY KeyAssumption DEF ContentKeys
<1>3. \A s \in Stamps : DraftvKey(s) \in Keys
  BY KeyAssumption DEF ContentKeys
<1> QED
  BY <1>1, <1>2, <1>3 DEF BodyKey, SizeKey, MessageItem, DraftItem

\* Keys of different kinds differ, and message ids are no content keys, so each
\* kind of contents is right under its own key.
LEMMA RightMessage ==
  ASSUME NEW ver, NEW last, NEW say, NEW i \in Inboxes, NEW v \in 1..ver[i]
  PROVE  /\ Right(BodyKey(MessageItem(i)), MessageBytes(i, v), ver, last, say)
         /\ Right(SizeKey(MessageItem(i)), SizeText(MessageLength[i][v]), ver, last, say)
BY KeyAssumption DEF Right, BodyKey, SizeKey, MessageItem, Ckey, DraftvKey

LEMMA RightDraft ==
  ASSUME NEW ver, NEW last, NEW say, NEW k \in Contents
  PROVE  Right(BodyKey(DraftItem(k)), Rendering(k), ver, last, say)
BY KeyAssumption DEF Right, BodyKey, DraftItem, Ckey, DraftvKey

LEMMA RightStamp ==
  ASSUME NEW ver, NEW last, NEW say, NEW s \in Stamps, NEW t \in s..last
  PROVE  Right(DraftvKey(s), Rendering(say[t]), ver, last, say)
BY KeyAssumption DEF Right, Ckey, DraftvKey

LEMMA GetKeepsRight ==
  ASSUME NEW c, IsCache(c), NEW k \in Keys, NEW ver, NEW last, NEW say,
         AllRight(c, ver, last, say)
  PROVE  IsCache(CacheGet(c, k)) /\ AllRight(CacheGet(c, k), ver, last, say)
BY GetWithin DEF AllRight

LEMMA PutKeepsRight ==
  ASSUME NEW c, IsCache(c), NEW k \in Keys, NEW d, NEW ver, NEW last, NEW say,
         AllRight(c, ver, last, say), Right(k, d, ver, last, say)
  PROVE  IsCache(CachePut(c, k, d)) /\ AllRight(CachePut(c, k, d), ver, last, say)
BY PutWithin DEF AllRight

\* What was right stays right when upstream goes on.
LEMMA RightLasts ==
  ASSUME NEW c, NEW ver \in [Inboxes -> Nat], NEW ver2 \in [Inboxes -> Nat],
         \A i \in Inboxes : ver[i] <= ver2[i],
         NEW last \in Nat, NEW last2 \in Nat, last <= last2, NEW say,
         AllRight(c, ver, last, say)
  PROVE  AllRight(c, ver2, last2, say)
<1>1. ASSUME NEW k, NEW d, Right(k, d, ver, last, say)
      PROVE  Right(k, d, ver2, last2, say)
  <2>1. \A i \in Inboxes : \A v \in 1..ver[i] : v \in 1..ver2[i]
    OBVIOUS
  <2>2. \A s \in Stamps : \A t \in s..last : t \in s..last2
    BY DEF Stamps
  <2> QED
    BY <1>1, <2>1, <2>2 DEF Right
<1> QED
  BY <1>1 DEF AllRight

\* What a hit finds.
LEMMA FoundMessage ==
  ASSUME CacheInv, NEW i \in Inboxes
  PROVE  /\ Cached(cache, BodyKey(MessageItem(i))) =>
              \E v \in 1..version[i] : cache.data[BodyKey(MessageItem(i))] = MessageBytes(i, v)
         /\ Cached(cache, SizeKey(MessageItem(i))) =>
              \E v \in 1..version[i] :
                cache.data[SizeKey(MessageItem(i))] = SizeText(MessageLength[i][v])
BY DEF CacheInv, AllRight, Right, Cached, BodyKey, SizeKey, MessageItem

LEMMA FoundDraft ==
  ASSUME CacheInv, NEW k \in Contents, Cached(cache, BodyKey(DraftItem(k)))
  PROVE  cache.data[BodyKey(DraftItem(k))] = Rendering(k)
BY DEF CacheInv, AllRight, Right, Cached, BodyKey, DraftItem

LEMMA FoundStamp ==
  ASSUME CacheInv, NEW s \in Stamps, Cached(cache, DraftvKey(s))
  PROVE  \E t \in s..stamp : cache.data[DraftvKey(s)] = Rendering(says[t])
BY DEF CacheInv, AllRight, Right, Cached

--------------------------------------------------------------------------
(* What a step does to the readers, and what it answers *)

\* A step that moves one reader keeps what is true of the others.
LEMMA ReaderMoves ==
  ASSUME ReaderInv, KnewInv, Remember, version' = version,
         NEW r \in Readers, NEW x, ReaderRecord(x), ReaderFits(x, version),
         reader' = [reader EXCEPT ![r] = x], KnewFits(x, knew'[r])
  PROVE  ReaderInv' /\ KnewInv'
<1>1. \A q \in Readers : reader'[q] = IF q = r THEN x ELSE reader[q]
  BY DEF ReaderInv
<1>2. ReaderInv'
  <2>1. reader' = [q \in Readers |-> reader'[q]]
    BY DEF ReaderInv
  <2> QED
    BY <1>1, <2>1 DEF ReaderInv
<1>3. ASSUME NEW q \in Readers PROVE KnewFits(reader'[q], knew'[q])
  <2>1. CASE q = r
    BY <1>1, <2>1
  <2>2. CASE q # r
    <3>1. reader'[q] = reader[q] /\ KnewFits(reader[q], knew[q])
      BY <1>1, <2>2 DEF KnewInv
    <3>2. knew'[q] = 0 \/ knew'[q] = knew[q]
      BY <3>1 DEF Remember
    <3> QED
      BY <3>1, <3>2 DEF KnewFits
  <2> QED
    BY <2>1, <2>2
<1> QED
  BY <1>2, <1>3 DEF KnewInv

LEMMA ReaderEnds ==
  ASSUME ReaderInv, KnewInv, Remember, version' = version,
         NEW r \in Readers, reader' = [reader EXCEPT ![r] = IdleReader]
  PROVE  ReaderInv' /\ KnewInv'
<1>1. reader'[r] = IdleReader
  BY DEF ReaderInv
<1>2. knew'[r] = 0
  BY <1>1 DEF Remember, IdleReader
<1>3. ReaderRecord(IdleReader) /\ ReaderFits(IdleReader, version) /\ KnewFits(IdleReader, knew'[r])
  BY <1>2 DEF ReaderRecord, ReaderFits, KnewFits, IdleReader
<1> QED
  BY <1>3, ReaderMoves

LEMMA ReadersStay ==
  ASSUME ReaderInv, KnewInv, Remember, version' = version, reader' = reader
  PROVE  ReaderInv' /\ KnewInv'
<1>1. ReaderInv'
  BY DEF ReaderInv
<1>2. ASSUME NEW q \in Readers PROVE KnewFits(reader'[q], knew'[q])
  <2>1. KnewFits(reader[q], knew[q])
    BY DEF KnewInv
  <2>2. knew'[q] = 0 \/ knew'[q] = knew[q]
    BY <2>1 DEF Remember
  <2> QED
    BY <2>1, <2>2 DEF KnewFits
<1> QED
  BY <1>1, <1>2 DEF KnewInv

LEMMA NoAnswer ==
  ASSUME answer' = None
  PROVE  AnswersAreTheContent' /\ ListedContentIsCurrent'
BY DEF AnswersAreTheContent, ListedContentIsCurrent

\* The bytes of a version, or its length.
LEMMA MessageAnswer ==
  ASSUME version' = version, NEW i \in Inboxes, NEW v \in 1..version[i],
         NEW op \in {"bytes", "size"}, NEW value, value.len = MessageLength[i][v],
         op = "bytes" => value = MessageBytes(i, v),
         answer' = [op |-> op, item |-> MessageItem(i), value |-> value]
  PROVE  AnswersAreTheContent' /\ ListedContentIsCurrent'
<1>1. /\ answer'.op = op /\ answer'.item = MessageItem(i) /\ answer'.value = value
      /\ answer'.item.kind = "message" /\ answer'.item.inbox = i
  BY DEF MessageItem
<1>2. MessageBytes(i, v) \in {MessageBytes(i, u) : u \in 1..version[i]}
  OBVIOUS
<1>3. value.len = MessageBytes(i, v).len
  BY DEF MessageBytes, Bytes
<1>4. ListedContentIsCurrent'
  BY <1>1 DEF ListedContentIsCurrent
<1>5. AnswersAreTheContent'
  <2>1. CASE op = "bytes"
    BY <1>1, <1>2, <2>1 DEF AnswersAreTheContent
  <2>2. CASE op = "size"
    BY <1>1, <1>2, <1>3, <2>2 DEF AnswersAreTheContent
  <2> QED
    BY <2>1, <2>2
<1> QED
  BY <1>4, <1>5

LEMMA DraftAnswer ==
  ASSUME NEW k \in Contents, NEW op \in {"bytes", "size"},
         answer' = [op |-> op, item |-> DraftItem(k), value |-> Rendering(k)]
  PROVE  AnswersAreTheContent' /\ ListedContentIsCurrent'
<1>1. /\ answer'.op = op /\ answer'.item = DraftItem(k) /\ answer'.value = Rendering(k)
      /\ answer'.item.kind = "draft" /\ answer'.item.key = k
  BY DEF DraftItem
<1>2. ListedContentIsCurrent'
  BY <1>1 DEF ListedContentIsCurrent
<1>3. AnswersAreTheContent'
  BY <1>1 DEF AnswersAreTheContent
<1> QED
  BY <1>2, <1>3

LEMMA ListAnswer ==
  ASSUME stamp' = stamp, says' = says, NEW s, NEW t \in s..stamp,
         answer' = [op |-> "list", item |-> DraftItem(says[t]), value |-> s]
  PROVE  AnswersAreTheContent' /\ ListedContentIsCurrent'
<1>1. answer'.op = "list" /\ answer'.value = s /\ answer'.item.key = says[t]
  BY DEF DraftItem
<1> QED
  BY <1>1 DEF AnswersAreTheContent, ListedContentIsCurrent

--------------------------------------------------------------------------
(* The steps *)

\* A step that leaves upstream, the lister and the listed contents alone.
Apart == UNCHANGED <<upstream, lister, listed>>

LEMMA ApartKeeps ==
  ASSUME IInv, Apart
  PROVE  UpstreamTypes' /\ ListerInv' /\ version' = version /\ stamp' = stamp /\ says' = says
BY DEF IInv, Apart, upstream, UpstreamTypes, ListerInv

\* A message keeps its length or is replaced; the draft is edited or removed.
LEMMA UpstreamStep ==
  ASSUME IInv, (\E i \in Changing : MessageChanges(i)) \/ DraftWritten \/ DraftDeleted
  PROVE  IInv'
<1>1. /\ UNCHANGED <<says, cache, reader, lister, listed, knew>> /\ answer' = None
  BY DEF MessageChanges, DraftWritten, DraftDeleted
<1>2. /\ version' \in [Inboxes -> 1..2] /\ \A i \in Inboxes : version[i] <= version'[i]
  BY ContentAssumption DEF IInv, UpstreamTypes, MessageChanges, DraftWritten, DraftDeleted
<1>3. stamp' \in 0..MaxStamp /\ stamp <= stamp'
  BY ContentAssumption DEF IInv, UpstreamTypes, MessageChanges, DraftWritten, DraftDeleted
<1>4. UpstreamTypes'
  BY <1>1, <1>2, <1>3 DEF IInv, UpstreamTypes
<1>5. CacheInv'
  <2>1. version \in [Inboxes -> Nat] /\ version' \in [Inboxes -> Nat] /\ stamp \in Nat /\ stamp' \in Nat
    BY <1>2, <1>3, ContentAssumption DEF IInv, UpstreamTypes
  <2>2. AllRight(cache, version', stamp', says)
    BY <1>2, <1>3, <2>1, RightLasts DEF IInv, CacheInv
  <2> QED
    BY <1>1, <2>2 DEF IInv, CacheInv
<1>6. ReaderInv'
  <2>1. ASSUME NEW r \in Readers PROVE ReaderFits(reader[r], version')
    <3>1. ReaderFits(reader[r], version)
      BY DEF IInv, ReaderInv
    <3>2. \A i \in Inboxes : \A v \in 1..version[i] : v \in 1..version'[i]
      BY <1>2 DEF IInv, UpstreamTypes
    <3> QED
      BY <3>1, <3>2 DEF ReaderFits
  <2> QED
    BY <1>1, <2>1 DEF IInv, ReaderInv
<1>7. KnewInv' /\ ListerInv'
  BY <1>1 DEF IInv, KnewInv, ListerInv
<1> QED
  BY <1>1, <1>4, <1>5, <1>6, <1>7, NoAnswer DEF IInv

\* A FETCH begins: a hit is answered, a miss awaits a request for the item.
LEMMA BeginStep ==
  ASSUME IInv, NEW r \in Readers, NEW op \in {"bytes", "size"}, NEW item \in Items,
         Begin(r, op, item)
  PROVE  IInv'
<1> DEFINE body == BodyKey(item)
           Sent(pc) == [pc |-> pc, op |-> op, item |-> item,
             since |-> IF item.kind = "draft" THEN DraftSince ELSE version[item.inbox]]
<1>1. Apart /\ Remember
  BY DEF Begin, Apart
<1>2. UpstreamTypes' /\ ListerInv' /\ version' = version /\ stamp' = stamp /\ says' = says
  BY <1>1, ApartKeeps
<1>3. \/ \E i \in Inboxes : item = MessageItem(i)
      \/ \E k \in Contents : item = DraftItem(k)
  BY DEF Items
<1>4. body \in Keys /\ (item.kind = "message" => SizeKey(item) \in Keys)
  <2>1. CASE \E i \in Inboxes : item = MessageItem(i)
    BY <2>1, KeysInUse
  <2>2. CASE \E k \in Contents : item = DraftItem(k)
    BY <2>2, KeysInUse DEF DraftItem
  <2> QED
    BY <1>3, <2>1, <2>2
<1>5. IsCache(cache) /\ AllRight(cache, version, stamp, says)
  BY DEF IInv, CacheInv
<1>6. ASSUME NEW pc \in {"draft", "meta"}, reader' = [reader EXCEPT ![r] = Sent(pc)],
             pc = "draft" => item.kind = "draft",
             pc = "meta" => item.kind = "message",
             pc = "meta" /\ op = "size" => knew'[r] = 0
      PROVE  ReaderInv' /\ KnewInv'
  <2>1. ReaderRecord(Sent(pc))
    BY DEF ReaderRecord
  <2>2. ReaderFits(Sent(pc), version)
    <3>1. CASE pc = "draft"
      <4>1. \E k \in Contents : item = DraftItem(k)
        BY <1>3, <1>6, <3>1 DEF MessageItem
      <4> QED
        BY <3>1, <4>1 DEF ReaderFits
    <3>2. CASE pc = "meta"
      <4>1. PICK i \in Inboxes : item = MessageItem(i)
        BY <1>3, <1>6, <3>2 DEF DraftItem
      <4>2. item.kind = "message" /\ item.inbox = i
        BY <4>1 DEF MessageItem
      <4>3. version[i] \in 1..version[i]
        BY DEF IInv, UpstreamTypes
      <4>4. Sent(pc).since = version[i] /\ Sent(pc).pc = "meta" /\ Sent(pc).op = op /\ Sent(pc).item = item
        BY <4>2, <3>2
      <4> HIDE DEF Sent
      <4> QED
        BY <4>1, <4>3, <4>4 DEF ReaderFits
    <3> QED
      BY <3>1, <3>2
  <2>3. reader'[r] = Sent(pc)
    BY <1>6 DEF IInv, ReaderInv
  <2>4. pc = "draft" => knew'[r] = 0
    BY <1>1, <1>6, <2>3 DEF Remember
  <2>5. KnewFits(Sent(pc), knew'[r])
    BY <1>6, <2>4 DEF KnewFits
  <2> HIDE DEF Sent
  <2> QED
    BY <1>1, <1>2, <1>6, <2>1, <2>2, <2>5, ReaderMoves DEF IInv
<1>7. CASE /\ Cached(cache, body) /\ cache' = CacheGet(cache, body)
           /\ Give(r, op, item, cache.data[body])
  <2>1. CacheInv'
    BY <1>2, <1>4, <1>5, <1>7, GetKeepsRight DEF CacheInv
  <2>2. ReaderInv' /\ KnewInv'
    BY <1>1, <1>2, <1>7, ReaderEnds DEF IInv, Give
  <2>3. AnswersAreTheContent' /\ ListedContentIsCurrent'
    <3>1. CASE \E i \in Inboxes : item = MessageItem(i)
      <4>1. PICK i \in Inboxes : item = MessageItem(i)
        BY <3>1
      <4>2. PICK v \in 1..version[i] : cache.data[body] = MessageBytes(i, v)
        BY <1>7, <4>1, FoundMessage DEF IInv
      <4>3. cache.data[body].len = MessageLength[i][v]
        BY <4>2 DEF MessageBytes, Bytes
      <4> QED
        BY <1>2, <1>7, <4>1, <4>2, <4>3, MessageAnswer DEF Give
    <3>2. CASE \E k \in Contents : item = DraftItem(k)
      BY <1>7, <3>2, FoundDraft, DraftAnswer DEF IInv, Give
    <3> QED
      BY <1>3, <3>1, <3>2
  <2> QED
    BY <1>2, <2>1, <2>2, <2>3 DEF IInv
<1>8. CASE item.kind = "draft" /\ Await(r, op, item, "draft") /\ UNCHANGED cache
  <2>1. CacheInv'
    BY <1>2, <1>5, <1>8 DEF CacheInv
  <2>2. ReaderInv' /\ KnewInv'
    BY <1>6, <1>8 DEF Await
  <2>3. AnswersAreTheContent' /\ ListedContentIsCurrent'
    BY <1>8, NoAnswer DEF Await
  <2> QED
    BY <1>2, <2>1, <2>2, <2>3 DEF IInv
<1>9. CASE item.kind = "message" /\ op = "bytes" /\ Await(r, op, item, "meta") /\ UNCHANGED cache
  <2>1. CacheInv'
    BY <1>2, <1>5, <1>9 DEF CacheInv
  <2>2. ReaderInv' /\ KnewInv'
    BY <1>6, <1>9 DEF Await
  <2>3. AnswersAreTheContent' /\ ListedContentIsCurrent'
    BY <1>9, NoAnswer DEF Await
  <2> QED
    BY <1>2, <2>1, <2>2, <2>3 DEF IInv
<1>10. CASE /\ item.kind = "message" /\ op = "size" /\ cache' = CacheGet(cache, SizeKey(item))
            /\ Cached(cache, SizeKey(item))
            /\ Give(r, op, item, [len |-> cache.data[SizeKey(item)].size])
  <2>1. CacheInv'
    BY <1>2, <1>4, <1>5, <1>10, GetKeepsRight DEF CacheInv
  <2>2. ReaderInv' /\ KnewInv'
    BY <1>1, <1>2, <1>10, ReaderEnds DEF IInv, Give
  <2>3. PICK i \in Inboxes : item = MessageItem(i)
    BY <1>3, <1>10 DEF DraftItem
  <2>4. PICK v \in 1..version[i] : cache.data[SizeKey(item)] = SizeText(MessageLength[i][v])
    BY <1>10, <2>3, FoundMessage DEF IInv
  <2>5. cache.data[SizeKey(item)].size = MessageLength[i][v]
    BY <2>4 DEF SizeText
  <2>6. AnswersAreTheContent' /\ ListedContentIsCurrent'
    BY <1>2, <1>10, <2>3, <2>5, MessageAnswer DEF Give
  <2> QED
    BY <1>2, <2>1, <2>2, <2>6 DEF IInv
<1>11. CASE /\ item.kind = "message" /\ op = "size" /\ cache' = CacheGet(cache, SizeKey(item))
            /\ ~Cached(cache, SizeKey(item))
            /\ Await(r, op, item, "meta")
  <2>1. cache' = cache
    BY <1>11 DEF CacheGet
  <2>2. CacheInv'
    BY <1>2, <1>5, <2>1 DEF CacheInv
  <2>3. reader'[r].item = item /\ Known(cache', item) = 0
    BY <1>11, <2>1 DEF IInv, ReaderInv, Await, Known
  <2>4. knew'[r] = 0
    BY <1>1, <2>3 DEF Remember
  <2>5. ReaderInv' /\ KnewInv'
    BY <1>6, <1>11, <2>4 DEF Await
  <2>6. AnswersAreTheContent' /\ ListedContentIsCurrent'
    BY <1>11, NoAnswer DEF Await
  <2> QED
    BY <1>2, <2>2, <2>5, <2>6 DEF IInv
<1> QED
  BY <1>7, <1>8, <1>9, <1>10, <1>11 DEF Begin

LEMMA DraftArrivesStep ==
  ASSUME IInv, NEW r \in Readers, DraftArrives(r)
  PROVE  IInv'
<1>1. Apart /\ Remember /\ reader[r].pc = "draft"
  BY DEF DraftArrives, Apart
<1>2. UpstreamTypes' /\ ListerInv' /\ version' = version /\ stamp' = stamp /\ says' = says
  BY <1>1, ApartKeeps
<1>3. ReaderFits(reader[r], version)
  BY DEF IInv, ReaderInv
<1>4. PICK k \in Contents : reader[r].item = DraftItem(k)
  BY <1>1, <1>3 DEF ReaderFits
<1>5. reader[r].op \in {"bytes", "size"}
  BY <1>1, <1>3 DEF ReaderFits
<1>6. DraftItem(k).key = k
  BY DEF DraftItem
<1>7. CASE /\ cache' = CachePut(cache, BodyKey(DraftItem(k)), Rendering(k))
           /\ Give(r, reader[r].op, DraftItem(k), Rendering(k))
  <2>1. CacheInv'
    BY <1>2, <1>7, KeysInUse, RightDraft, PutKeepsRight DEF IInv, CacheInv
  <2>2. ReaderInv' /\ KnewInv'
    BY <1>1, <1>2, <1>7, ReaderEnds DEF IInv, Give
  <2>3. AnswersAreTheContent' /\ ListedContentIsCurrent'
    BY <1>5, <1>7, DraftAnswer DEF Give
  <2> QED
    BY <1>2, <2>1, <2>2, <2>3 DEF IInv
<1>8. CASE Refuse(r) /\ UNCHANGED cache
  <2>1. CacheInv'
    BY <1>2, <1>8 DEF IInv, CacheInv
  <2>2. ReaderInv' /\ KnewInv'
    BY <1>1, <1>2, <1>8, ReaderEnds DEF IInv, Refuse
  <2>3. AnswersAreTheContent' /\ ListedContentIsCurrent'
    BY <1>8, NoAnswer DEF Refuse
  <2> QED
    BY <1>2, <2>1, <2>2, <2>3 DEF IInv
<1> QED
  BY <1>4, <1>6, <1>7, <1>8 DEF DraftArrives

\* A reader that awaits a message's metadata or bytes.
LEMMA OfMessage ==
  ASSUME IInv, NEW r \in Readers, reader[r].pc \in {"meta", "download"}
  PROVE  \E i \in Inboxes :
           /\ reader[r].item = MessageItem(i) /\ MessageItem(i).inbox = i
           /\ reader[r].since \in 1..version[i] /\ version[i] \in 1..2
           /\ \A v \in reader[r].since..version[i] : v \in 1..version[i]
<1>1. ReaderFits(reader[r], version)
  BY DEF IInv, ReaderInv
<1>2. PICK i \in Inboxes : reader[r].item = MessageItem(i) /\ reader[r].since \in 1..version[i]
  BY <1>1 DEF ReaderFits
<1>3. version[i] \in 1..2
  BY DEF IInv, UpstreamTypes
<1>4. \A v \in reader[r].since..version[i] : v \in 1..version[i]
  BY <1>2, <1>3
<1> QED
  BY <1>2, <1>3, <1>4 DEF MessageItem

LEMMA SizeArrivesStep ==
  ASSUME IInv, NEW r \in Readers, SizeArrives(r)
  PROVE  IInv'
<1>1. Apart /\ Remember /\ reader[r].pc = "meta"
  BY DEF SizeArrives, Apart
<1>2. UpstreamTypes' /\ ListerInv' /\ version' = version /\ stamp' = stamp /\ says' = says
  BY <1>1, ApartKeeps
<1>3. PICK i \in Inboxes :
        /\ reader[r].item = MessageItem(i) /\ MessageItem(i).inbox = i
        /\ \A v \in reader[r].since..version[i] : v \in 1..version[i]
  BY <1>1, OfMessage
<1>4. PICK v \in 1..version[i] :
        /\ cache' = CachePut(cache, SizeKey(MessageItem(i)), SizeText(MessageLength[i][v]))
        /\ Give(r, "size", MessageItem(i), [len |-> MessageLength[i][v]])
  BY <1>3 DEF SizeArrives
<1>5. CacheInv'
  BY <1>2, <1>4, KeysInUse, RightMessage, PutKeepsRight DEF IInv, CacheInv
<1>6. ReaderInv' /\ KnewInv'
  BY <1>1, <1>2, <1>4, ReaderEnds DEF IInv, Give
<1>7. AnswersAreTheContent' /\ ListedContentIsCurrent'
  <2>1. answer' = [op |-> "size", item |-> MessageItem(i), value |-> [len |-> MessageLength[i][v]]]
    BY <1>4 DEF Give
  <2> QED
    BY <1>2, <2>1, MessageAnswer
<1> QED
  BY <1>2, <1>5, <1>6, <1>7 DEF IInv

LEMMA MetaArrivesStep ==
  ASSUME IInv, NEW r \in Readers, MetaArrives(r)
  PROVE  IInv'
<1>1. Apart /\ Remember /\ reader[r].pc = "meta" /\ reader[r].op = "bytes"
  BY DEF MetaArrives, Apart
<1>2. UpstreamTypes' /\ ListerInv' /\ version' = version /\ stamp' = stamp /\ says' = says
  BY <1>1, ApartKeeps
<1>3. PICK i \in Inboxes :
        /\ reader[r].item = MessageItem(i) /\ MessageItem(i).inbox = i
        /\ \A v \in reader[r].since..version[i] : v \in 1..version[i]
  BY <1>1, OfMessage
<1>4. PICK v \in 1..version[i] :
        IF SizeAgrees(MessageItem(i), MessageLength[i][v])
        THEN /\ reader' = [reader EXCEPT ![r] = [@ EXCEPT !.pc = "download", !.since = v]]
             /\ answer' = None
        ELSE Refuse(r)
  BY <1>3 DEF MetaArrives
<1>5. cache' = CacheGet(cache, SizeKey(MessageItem(i)))
  BY <1>3 DEF MetaArrives
<1>6. SizeKey(MessageItem(i)) \in Keys
  BY KeysInUse
<1>7. CacheInv'
  BY <1>2, <1>5, <1>6, GetKeepsRight DEF IInv, CacheInv
<1>8. AnswersAreTheContent' /\ ListedContentIsCurrent'
  BY <1>4, NoAnswer DEF Refuse
<1>9. CASE /\ SizeAgrees(MessageItem(i), MessageLength[i][v])
           /\ reader' = [reader EXCEPT ![r] = [@ EXCEPT !.pc = "download", !.since = v]]
  <2> DEFINE x == [pc |-> "download", op |-> "bytes", item |-> MessageItem(i), since |-> v]
  <2>1. reader' = [reader EXCEPT ![r] = x] /\ reader'[r] = x
    <3> DEFINE old == reader[r]
               pc == old.pc
               since == old.since
    <3>1. old = [pc |-> pc, op |-> "bytes", item |-> MessageItem(i), since |-> since]
      BY <1>1, <1>3 DEF IInv, ReaderInv, ReaderRecord
    <3>2. reader' = [reader EXCEPT ![r] = [old EXCEPT !.pc = "download", !.since = v]]
      BY <1>9
    <3> HIDE DEF pc, since, old
    <3> DEFINE item == MessageItem(i)
               new == [old EXCEPT !.pc = "download", !.since = v]
    <3>3. old \in [pc : {pc}, op : {"bytes"}, item : {item}, since : {since}]
      BY <3>1
    <3> HIDE DEF item
    <3>4. new \in [pc : {"download"}, op : {"bytes"}, item : {item}, since : {v}]
      BY <3>3
    <3> HIDE DEF new
    <3>5. new = [pc |-> "download", op |-> "bytes", item |-> item, since |-> v]
      BY <3>4
    <3>6. new = x
      BY <3>5 DEF item
    <3> HIDE DEF x
    <3>7. reader' = [reader EXCEPT ![r] = x]
      BY <3>2, <3>6 DEF new
    <3>8. r \in DOMAIN reader
      BY DEF IInv, ReaderInv
    <3> QED
      BY <3>7, <3>8
  <2>2. ReaderRecord(x) /\ ReaderFits(x, version)
    BY DEF ReaderRecord, ReaderFits
  <2>3. KnewFits(x, knew'[r])
    <3>1. knew'[r] # 0 => knew'[r] = Known(cache', MessageItem(i))
      BY <1>1, <2>1 DEF Remember
    <3>2. /\ cache'.data = cache.data
          /\ Range(cache'.items) \subseteq Range(cache.items)
      BY <1>5, <1>6, GetWithin DEF IInv, CacheInv
    <3>3. Known(cache', MessageItem(i)) # 0 => Known(cache', MessageItem(i)) = MessageLength[i][v]
      BY <1>9, <3>2 DEF Known, Cached, SizeAgrees
    <3>4. knew'[r] # 0 => knew'[r] = MessageLength[i][v]
      BY <3>1, <3>3
    <3>5. x.item.kind = "message" /\ x.item.inbox = i
      BY DEF MessageItem
    <3> QED
      BY <3>4, <3>5 DEF KnewFits
  <2> HIDE DEF x
  <2>4. ReaderInv' /\ KnewInv'
    BY <1>1, <1>2, <2>1, <2>2, <2>3, ReaderMoves DEF IInv
  <2> QED
    BY <1>2, <1>7, <1>8, <2>4 DEF IInv
<1>10. CASE Refuse(r)
  <2>1. ReaderInv' /\ KnewInv'
    BY <1>1, <1>2, <1>10, ReaderEnds DEF IInv, Refuse
  <2> QED
    BY <1>2, <1>7, <1>8, <2>1 DEF IInv
<1> QED
  BY <1>4, <1>9, <1>10

\* A download that is complete is one of the versions, whole.
LEMMA CompleteDownload ==
  ASSUME UpstreamTypes, NEW i \in Inboxes, NEW v \in 1..version[i],
         NEW data \in Downloads(i, v), IsComplete(data, MessageLength[i][v])
  PROVE  \E u \in 1..version[i] : data = MessageBytes(i, u) /\ data.len = MessageLength[i][u]
<1>1. version[i] \in 1..2 /\ v \in 1..2
  BY DEF UpstreamTypes
<1>2. MessageLength[i][v] \in Nat
  BY <1>1, ContentAssumption
<1>3. data.len = MessageLength[i][v]
  BY DEF IsComplete
<1>4. Bytes(i, v, MessageLength[i][v] - 1).len = MessageLength[i][v] - 1
  BY DEF Bytes
<1>5. data # Bytes(i, v, MessageLength[i][v] - 1)
  BY <1>2, <1>3, <1>4
<1>6. data = MessageBytes(i, v) \/ data = MessageBytes(i, version[i])
  BY <1>5 DEF Downloads
<1>7. \A u \in 1..version[i] : MessageBytes(i, u).len = MessageLength[i][u]
  BY DEF MessageBytes, Bytes
<1>8. version[i] \in 1..version[i]
  BY <1>1
<1> QED
  BY <1>6, <1>7, <1>8

LEMMA BytesArriveStep ==
  ASSUME IInv, NEW r \in Readers, BytesArrive(r)
  PROVE  IInv'
<1>1. Apart /\ Remember /\ reader[r].pc = "download"
  BY DEF BytesArrive, Apart
<1>2. UpstreamTypes' /\ ListerInv' /\ version' = version /\ stamp' = stamp /\ says' = says
  BY <1>1, ApartKeeps
<1>3. PICK i \in Inboxes :
        /\ reader[r].item = MessageItem(i) /\ MessageItem(i).inbox = i
        /\ reader[r].since \in 1..version[i]
  BY <1>1, OfMessage
<1>4. PICK data \in Downloads(i, reader[r].since) :
        IF IsComplete(data, MessageLength[i][reader[r].since])
        THEN /\ cache' = CachePut(CachePut(cache, BodyKey(MessageItem(i)), data),
                                  SizeKey(MessageItem(i)), SizeText(data.len))
             /\ Give(r, "bytes", MessageItem(i), data)
        ELSE Refuse(r) /\ UNCHANGED cache
  BY <1>3 DEF BytesArrive
<1>5. CASE IsComplete(data, MessageLength[i][reader[r].since])
  <2>1. PICK u \in 1..version[i] : data = MessageBytes(i, u) /\ data.len = MessageLength[i][u]
    BY <1>3, <1>5, CompleteDownload DEF IInv
  <2> DEFINE c1 == CachePut(cache, BodyKey(MessageItem(i)), data)
  <2>2. IsCache(c1) /\ AllRight(c1, version, stamp, says)
    BY <2>1, KeysInUse, RightMessage, PutKeepsRight DEF IInv, CacheInv
  <2>3. cache' = CachePut(c1, SizeKey(MessageItem(i)), SizeText(MessageLength[i][u]))
    BY <1>4, <1>5, <2>1
  <2> HIDE DEF c1
  <2>4. CacheInv'
    BY <1>2, <2>2, <2>3, KeysInUse, RightMessage, PutKeepsRight DEF CacheInv
  <2>5. ReaderInv' /\ KnewInv'
    BY <1>1, <1>2, <1>4, <1>5, ReaderEnds DEF IInv, Give
  <2>6. AnswersAreTheContent' /\ ListedContentIsCurrent'
    <3>1. answer' = [op |-> "bytes", item |-> MessageItem(i), value |-> data]
      BY <1>4, <1>5 DEF Give
    <3> QED
      BY <1>2, <2>1, <3>1, MessageAnswer
  <2> QED
    BY <1>2, <2>4, <2>5, <2>6 DEF IInv
<1>6. CASE Refuse(r) /\ UNCHANGED cache
  <2>1. CacheInv'
    BY <1>2, <1>6 DEF IInv, CacheInv
  <2>2. ReaderInv' /\ KnewInv'
    BY <1>1, <1>2, <1>6, ReaderEnds DEF IInv, Refuse
  <2>3. AnswersAreTheContent' /\ ListedContentIsCurrent'
    BY <1>6, NoAnswer DEF Refuse
  <2> QED
    BY <1>2, <2>1, <2>2, <2>3 DEF IInv
<1> QED
  BY <1>4, <1>5, <1>6

LEMMA ReadFailsStep ==
  ASSUME IInv, NEW r \in Readers, ReadFails(r)
  PROVE  IInv'
<1>1. Apart /\ Remember /\ Refuse(r) /\ cache' = cache
  BY DEF ReadFails, Apart
<1>2. UpstreamTypes' /\ ListerInv' /\ version' = version /\ stamp' = stamp /\ says' = says
  BY <1>1, ApartKeeps
<1>3. CacheInv'
  BY <1>1, <1>2 DEF IInv, CacheInv
<1>4. ReaderInv' /\ KnewInv'
  BY <1>1, <1>2, ReaderEnds DEF IInv, Refuse
<1>5. AnswersAreTheContent' /\ ListedContentIsCurrent'
  BY <1>1, NoAnswer DEF Refuse
<1> QED
  BY <1>2, <1>3, <1>4, <1>5 DEF IInv

\* What the listing was given is the draft as it was at some stamp, and goes into
\* the cache under a key that names it.
LEMMA CollectedKeeps ==
  ASSUME IInv, UNCHANGED <<upstream, reader>>, Remember, ListerInv',
         NEW s \in Stamps, NEW t \in s..stamp, NEW c,
         IsCache(c), AllRight(c, version, stamp, says),
         cache' = CachePut(c, BodyKey(DraftItem(says[t])), Rendering(says[t])),
         Collected(s, Rendering(says[t]))
  PROVE  IInv'
<1>1. version' = version /\ stamp' = stamp /\ says' = says /\ reader' = reader
  BY DEF upstream
<1>2. says[t] \in Contents
  BY ContentAssumption DEF IInv, UpstreamTypes, Stamps
<1>3. Rendering(says[t]).ver = says[t]
  BY DEF Rendering, Bytes
<1>4. UpstreamTypes'
  BY <1>1, <1>2, <1>3 DEF IInv, UpstreamTypes, Collected
<1>5. CacheInv'
  BY <1>1, <1>2, KeysInUse, RightDraft, PutKeepsRight DEF CacheInv
<1>6. ReaderInv' /\ KnewInv'
  BY <1>1, ReadersStay DEF IInv
<1>7. AnswersAreTheContent' /\ ListedContentIsCurrent'
  <2>1. answer' = [op |-> "list", item |-> DraftItem(says[t]), value |-> s]
    BY <1>3 DEF Collected
  <2> QED
    BY <1>1, <2>1, ListAnswer
<1> QED
  BY <1>4, <1>5, <1>6, <1>7 DEF IInv

LEMMA CollectDraftStep ==
  ASSUME IInv, NEW s \in 1..stamp, CollectDraft(s)
  PROVE  IInv'
<1>1. UNCHANGED <<upstream, reader>> /\ Remember
  BY DEF CollectDraft
<1>2. s \in Stamps /\ stamp \in 0..MaxStamp
  BY ContentAssumption DEF IInv, UpstreamTypes, Stamps
<1>3. CASE Cached(cache, DraftvKey(s))
  <2>1. PICK t \in s..stamp : cache.data[DraftvKey(s)] = Rendering(says[t])
    BY <1>2, <1>3, FoundStamp DEF IInv
  <2>2. Rendering(says[t]).ver = says[t]
    BY DEF Rendering, Bytes
  <2> DEFINE hit == CacheGet(cache, DraftvKey(s))
  <2>3. /\ cache' = CachePut(hit, BodyKey(DraftItem(says[t])), Rendering(says[t]))
        /\ Collected(s, Rendering(says[t])) /\ lister' = lister
    BY <1>3, <2>1, <2>2 DEF CollectDraft
  <2>4. IsCache(hit) /\ AllRight(hit, version, stamp, says)
    BY <1>2, KeysInUse, GetKeepsRight DEF IInv, CacheInv
  <2>5. ListerInv'
    BY <2>3 DEF IInv, ListerInv
  <2> HIDE DEF hit
  <2> QED
    BY <1>1, <1>2, <2>3, <2>4, <2>5, CollectedKeeps
<1>4. CASE ~Cached(cache, DraftvKey(s))
  <2>1. /\ lister' = [pc |-> "get", stamp |-> s, since |-> DraftSince]
        /\ answer' = None /\ UNCHANGED <<cache, listed>>
    BY <1>4 DEF CollectDraft
  <2>2. DraftSince \in Nat /\ s <= DraftSince
    BY <1>2, ContentAssumption DEF DraftSince
  <2>3. ListerInv'
    BY <1>2, <2>1, <2>2 DEF ListerInv
  <2>4. version' = version /\ stamp' = stamp /\ says' = says /\ reader' = reader
    BY <1>1 DEF upstream
  <2>5. UpstreamTypes' /\ CacheInv'
    BY <2>1, <2>4 DEF IInv, UpstreamTypes, CacheInv
  <2>6. ReaderInv' /\ KnewInv'
    BY <1>1, <2>4, ReadersStay DEF IInv
  <2> QED
    BY <2>1, <2>3, <2>5, <2>6, NoAnswer DEF IInv
<1> QED
  BY <1>3, <1>4

LEMMA DraftRenderedStep ==
  ASSUME IInv, DraftRendered
  PROVE  IInv'
<1>1. UNCHANGED <<upstream, reader>> /\ Remember /\ lister' = IdleLister /\ lister.pc = "get"
  BY DEF DraftRendered
<1>2. ListerInv'
  BY <1>1 DEF ListerInv, IdleLister
<1>3. /\ lister.stamp \in Stamps /\ lister.since \in Nat /\ lister.stamp <= lister.since
      /\ stamp \in Nat
  BY <1>1, ContentAssumption DEF IInv, ListerInv, UpstreamTypes
<1>4. PICK rendered \in Renderings(lister.since) :
        IF rendered = Gone
        THEN answer' = None /\ UNCHANGED <<cache, listed>>
        ELSE PutRendering(lister.stamp, rendered) /\ Collected(lister.stamp, rendered)
  BY DEF DraftRendered
<1>5. CASE rendered = Gone
  <2>1. version' = version /\ stamp' = stamp /\ says' = says /\ reader' = reader
    BY <1>1 DEF upstream
  <2>2. answer' = None /\ UNCHANGED <<cache, listed>>
    BY <1>4, <1>5
  <2>3. UpstreamTypes' /\ CacheInv'
    BY <2>1, <2>2 DEF IInv, UpstreamTypes, CacheInv
  <2>4. ReaderInv' /\ KnewInv'
    BY <1>1, <2>1, ReadersStay DEF IInv
  <2> QED
    BY <1>2, <2>2, <2>3, <2>4, NoAnswer DEF IInv
<1>6. CASE rendered # Gone
  <2>1. PICK t \in lister.since..stamp : rendered = Rendering(says[t])
    BY <1>6 DEF Renderings
  <2>2. t \in lister.stamp..stamp
    BY <1>3, <2>1 DEF Stamps
  <2>3. Rendering(says[t]).ver = says[t]
    BY DEF Rendering, Bytes
  <2> DEFINE c1 == CachePut(cache, DraftvKey(lister.stamp), Rendering(says[t]))
  <2>4. IsCache(c1) /\ AllRight(c1, version, stamp, says)
    BY <1>3, <2>2, KeysInUse, RightStamp, PutKeepsRight DEF IInv, CacheInv
  <2>5. /\ cache' = CachePut(c1, BodyKey(DraftItem(says[t])), Rendering(says[t]))
        /\ Collected(lister.stamp, Rendering(says[t]))
    BY <1>4, <1>6, <2>1, <2>3 DEF PutRendering
  <2> HIDE DEF c1
  <2> QED
    BY <1>1, <1>2, <1>3, <2>2, <2>4, <2>5, CollectedKeeps
<1> QED
  BY <1>5, <1>6

--------------------------------------------------------------------------
(* The count of the cache *)

\* The count of a cache covers its contents, exactly while no message crosses the
\* budget.
Tally(c) ==
  /\ IsCache(c) /\ AllRight(c, version, stamp, says)
  /\ Counted(c) /\ (~CrossesBudget => Exact(c))

\* No rendering is cached under a stamp that is being rendered: one that is over
\* the budget is put over nothing.
NotRendered == lister.pc = "get" => ~Cached(cache, DraftvKey(lister.stamp))

CountInv == Counted(cache) /\ (~CrossesBudget => Exact(cache)) /\ NotRendered

\* No rendering appears under a stamp.
Spares(c, d) == \A s \in Stamps : Cached(d, DraftvKey(s)) => Cached(c, DraftvKey(s))

LEMMA GetTallies ==
  ASSUME NEW c, Tally(c), NEW k \in Keys
  PROVE  Tally(CacheGet(c, k)) /\ Spares(c, CacheGet(c, k))
<1>1. Range(CacheGet(c, k).items) \subseteq Range(c.items)
  BY GetWithin DEF Tally
<1>2. Spares(c, CacheGet(c, k))
  BY <1>1 DEF Spares, Cached
<1>3. IsCache(CacheGet(c, k)) /\ AllRight(CacheGet(c, k), version, stamp, says)
  BY GetKeepsRight DEF Tally
<1>4. Counted(CacheGet(c, k)) /\ (Exact(c) => Exact(CacheGet(c, k)))
  BY GetCounts DEF Tally
<1> QED
  BY <1>2, <1>3, <1>4 DEF Tally

\* A put keeps the tally when contents over the budget meet older contents of
\* their key only after a message crossed the budget.
LEMMA PutTallies ==
  ASSUME NEW c, Tally(c), NEW k \in Keys, NEW d, Right(k, d, version, stamp, says),
         d.len \in Nat, d.len > MaxBytes /\ Cached(c, k) => CrossesBudget
  PROVE  /\ Tally(CachePut(c, k, d))
         /\ \A j : Cached(CachePut(c, k, d), j) => j = k \/ Cached(c, j)
<1>1. IsCache(CachePut(c, k, d)) /\ AllRight(CachePut(c, k, d), version, stamp, says)
  BY PutKeepsRight DEF Tally
<1>2. /\ Counted(CachePut(c, k, d))
      /\ Exact(c) /\ ~(d.len > MaxBytes /\ Cached(c, k)) => Exact(CachePut(c, k, d))
  BY PutCounts DEF Tally
<1>3. \A j : Cached(CachePut(c, k, d), j) => j = k \/ Cached(c, j)
  BY PutWithin DEF Tally, Cached
<1> QED
  BY <1>1, <1>2, <1>3 DEF Tally

\* What the tally says of the contents of one key.
LEMMA TallyFinds ==
  ASSUME NEW c, Tally(c), NEW k, Cached(c, k)
  PROVE  /\ Right(k, c.data[k], version, stamp, says)
         /\ c.data[k].len \in Nat /\ c.data[k].len <= MaxBytes
BY DEF Tally, AllRight, Counted, Cached

\* The keys of bodies and sizes are not those of stamps.
LEMMA StampKeys ==
  \A s \in Stamps :
    /\ \A i \in Inboxes :
         DraftvKey(s) # BodyKey(MessageItem(i)) /\ DraftvKey(s) # SizeKey(MessageItem(i))
    /\ \A x \in Contents : DraftvKey(s) # BodyKey(DraftItem(x))
BY DEF DraftvKey, BodyKey, SizeKey, Ckey

\* The put of a message's bytes.
LEMMA BodyTallies ==
  ASSUME NEW c, Tally(c), UpstreamTypes, NEW i \in Inboxes, NEW v \in 1..version[i]
  PROVE  /\ Tally(CachePut(c, BodyKey(MessageItem(i)), MessageBytes(i, v)))
         /\ Spares(c, CachePut(c, BodyKey(MessageItem(i)), MessageBytes(i, v)))
<1> DEFINE k == BodyKey(MessageItem(i))
           d == MessageBytes(i, v)
<1>1. version[i] \in 1..2 /\ v \in 1..2
  BY DEF UpstreamTypes
<1>2. \A u \in 1..2 : MessageBytes(i, u).len = MessageLength[i][u] /\ MessageLength[i][u] \in Nat
  BY ContentAssumption DEF MessageBytes, Bytes
<1>3. d.len > MaxBytes /\ Cached(c, k) => CrossesBudget
  <2> SUFFICES ASSUME MessageLength[i][v] > MaxBytes, Cached(c, k)
               PROVE  CrossesBudget
    BY <1>1, <1>2
  <2>1. Right(k, c.data[k], version, stamp, says) /\ c.data[k].len <= MaxBytes
    BY TallyFinds
  <2>2. PICK u \in 1..version[i] : c.data[k] = MessageBytes(i, u)
    BY <2>1 DEF Right, BodyKey, MessageItem
  <2>3. u \in 1..2 /\ MessageLength[i][u] <= MaxBytes
    BY <1>1, <1>2, <2>1, <2>2
  <2>4. u # v
    BY <1>1, <1>2, <2>3, CacheAssumption
  <2>5. version[i] = 2
    BY <1>1, <2>2, <2>4
  <2> QED
    BY <1>1, <2>3, <2>5 DEF CrossesBudget
<1>4. k \in Keys /\ Right(k, d, version, stamp, says) /\ d.len \in Nat
  BY <1>1, <1>2, KeysInUse, RightMessage
<1> HIDE DEF k, d
<1>5. /\ Tally(CachePut(c, k, d))
      /\ \A j : Cached(CachePut(c, k, d), j) => j = k \/ Cached(c, j)
  BY <1>3, <1>4, PutTallies
<1>6. Spares(c, CachePut(c, k, d))
  BY <1>5, StampKeys DEF Spares, k
<1> QED
  BY <1>5, <1>6 DEF k, d

\* The put of a size: every size has the same length.
LEMMA SizeTallies ==
  ASSUME NEW c, Tally(c), UpstreamTypes, NEW i \in Inboxes, NEW v \in 1..version[i]
  PROVE  /\ Tally(CachePut(c, SizeKey(MessageItem(i)), SizeText(MessageLength[i][v])))
         /\ Spares(c, CachePut(c, SizeKey(MessageItem(i)), SizeText(MessageLength[i][v])))
<1> DEFINE k == SizeKey(MessageItem(i))
           d == SizeText(MessageLength[i][v])
<1>1. \A n : SizeText(n).len = 1
  BY DEF SizeText
<1>2. d.len > MaxBytes /\ Cached(c, k) => CrossesBudget
  <2> SUFFICES ASSUME Cached(c, k)
               PROVE  ~(d.len > MaxBytes)
    OBVIOUS
  <2>1. Right(k, c.data[k], version, stamp, says) /\ c.data[k].len <= MaxBytes
    BY TallyFinds
  <2>2. PICK u \in 1..version[i] : c.data[k] = SizeText(MessageLength[i][u])
    BY <2>1 DEF Right, SizeKey, MessageItem
  <2>3. c.data[k].len = 1 /\ d.len = 1
    BY <1>1, <2>2
  <2> HIDE DEF d
  <2> QED
    BY <2>1, <2>3, CacheAssumption
<1>3. k \in Keys /\ Right(k, d, version, stamp, says) /\ d.len \in Nat
  BY <1>1, KeysInUse, RightMessage
<1> HIDE DEF k, d
<1>4. /\ Tally(CachePut(c, k, d))
      /\ \A j : Cached(CachePut(c, k, d), j) => j = k \/ Cached(c, j)
  BY <1>2, <1>3, PutTallies
<1>5. Spares(c, CachePut(c, k, d))
  BY <1>4, StampKeys DEF Spares, k
<1> QED
  BY <1>4, <1>5 DEF k, d

\* The put of a rendering under its content, which always has the same bytes.
LEMMA DraftTallies ==
  ASSUME NEW c, Tally(c), NEW x \in Contents
  PROVE  /\ Tally(CachePut(c, BodyKey(DraftItem(x)), Rendering(x)))
         /\ Spares(c, CachePut(c, BodyKey(DraftItem(x)), Rendering(x)))
<1> DEFINE k == BodyKey(DraftItem(x))
           d == Rendering(x)
<1>1. d.len = DraftLength[x] /\ DraftLength[x] \in Nat
  BY ContentAssumption DEF Rendering, Bytes
<1>2. d.len > MaxBytes /\ Cached(c, k) => CrossesBudget
  <2> SUFFICES ASSUME Cached(c, k)
               PROVE  ~(d.len > MaxBytes)
    OBVIOUS
  <2>1. Right(k, c.data[k], version, stamp, says) /\ c.data[k].len <= MaxBytes
    BY TallyFinds
  <2>2. c.data[k] = d
    BY <2>1 DEF Right, BodyKey, DraftItem
  <2> HIDE DEF d
  <2> QED
    BY <1>1, <2>1, <2>2, CacheAssumption
<1>3. k \in Keys /\ Right(k, d, version, stamp, says) /\ d.len \in Nat
  BY <1>1, KeysInUse, RightDraft
<1> HIDE DEF k, d
<1>4. /\ Tally(CachePut(c, k, d))
      /\ \A j : Cached(CachePut(c, k, d), j) => j = k \/ Cached(c, j)
  BY <1>2, <1>3, PutTallies
<1>5. Spares(c, CachePut(c, k, d))
  BY <1>4, StampKeys DEF Spares, k
<1> QED
  BY <1>4, <1>5 DEF k, d

\* Steps that leave upstream and the listing alone, or end the listing.
LEMMA TallyKeeps ==
  ASSUME UNCHANGED <<version, stamp, says>>, Tally(cache'),
         \/ lister' = lister /\ ListerInv /\ NotRendered /\ Spares(cache, cache')
         \/ lister'.pc # "get"
  PROVE  CountInv'
<1>1. CrossesBudget' <=> CrossesBudget
  BY DEF CrossesBudget
<1>2. Counted(cache') /\ (~CrossesBudget' => Exact(cache'))
  BY <1>1 DEF Tally
<1>3. NotRendered'
  BY DEF NotRendered, ListerInv, Spares
<1> QED
  BY <1>2, <1>3 DEF CountInv

LEMMA CountReader ==
  ASSUME IInv, CountInv, NEW r \in Readers, ReaderStep(r) \/ ReadFails(r)
  PROVE  CountInv'
<1>1. UNCHANGED <<version, stamp, says>> /\ lister' = lister
  BY DEF ReaderStep, ReadFails, Begin, DraftArrives, SizeArrives, MetaArrives, BytesArrive, upstream
<1>2. Tally(cache) /\ NotRendered /\ ListerInv /\ UpstreamTypes
  BY DEF IInv, CacheInv, CountInv, Tally
<1>3. Spares(cache, cache)
  BY DEF Spares
<1>4. ASSUME NEW k \in Keys
      PROVE  Tally(CacheGet(cache, k)) /\ Spares(cache, CacheGet(cache, k))
  BY <1>2, GetTallies
<1>5. Tally(cache') /\ Spares(cache, cache')
  <2>1. CASE ReadFails(r)
    <3>1. cache' = cache
      BY <2>1 DEF ReadFails
    <3> QED
      BY <1>2, <1>3, <3>1
  <2>2. ASSUME NEW op \in {"bytes", "size"}, NEW item \in Items, Begin(r, op, item)
        PROVE  Tally(cache') /\ Spares(cache, cache')
    <3>1. BodyKey(item) \in Keys /\ (item.kind = "message" => SizeKey(item) \in Keys)
      BY KeysInUse DEF Items, MessageItem, DraftItem
    <3>2. \/ cache' = cache
          \/ cache' = CacheGet(cache, BodyKey(item))
          \/ item.kind = "message" /\ cache' = CacheGet(cache, SizeKey(item))
      BY <2>2 DEF Begin
    <3> QED
      BY <1>2, <1>3, <1>4, <3>1, <3>2
  <2>3. CASE DraftArrives(r)
    <3>1. PICK x \in Contents : reader[r].item = DraftItem(x)
      BY <2>3 DEF IInv, ReaderInv, ReaderFits, DraftArrives
    <3>2. DraftItem(x).key = x
      BY DEF DraftItem
    <3>3. cache' = cache \/ cache' = CachePut(cache, BodyKey(DraftItem(x)), Rendering(x))
      BY <2>3, <3>1, <3>2 DEF DraftArrives
    <3> QED
      BY <1>2, <1>3, <3>3, DraftTallies
  <2>4. CASE SizeArrives(r)
    <3>1. PICK i \in Inboxes :
            /\ reader[r].item = MessageItem(i) /\ MessageItem(i).inbox = i
            /\ \A v \in reader[r].since..version[i] : v \in 1..version[i]
      BY <2>4, OfMessage DEF SizeArrives
    <3>2. PICK v \in 1..version[i] :
            cache' = CachePut(cache, SizeKey(MessageItem(i)), SizeText(MessageLength[i][v]))
      BY <2>4, <3>1 DEF SizeArrives
    <3> QED
      BY <1>2, <3>2, SizeTallies
  <2>5. CASE MetaArrives(r)
    <3>1. PICK i \in Inboxes : reader[r].item = MessageItem(i)
      BY <2>5, OfMessage DEF MetaArrives
    <3>2. cache' = CacheGet(cache, SizeKey(MessageItem(i))) /\ SizeKey(MessageItem(i)) \in Keys
      BY <2>5, <3>1, KeysInUse DEF MetaArrives
    <3> QED
      BY <1>4, <3>2
  <2>6. CASE BytesArrive(r)
    <3>1. PICK i \in Inboxes :
            /\ reader[r].item = MessageItem(i) /\ MessageItem(i).inbox = i
            /\ reader[r].since \in 1..version[i]
      BY <2>6, OfMessage DEF BytesArrive
    <3>2. PICK data \in Downloads(i, reader[r].since) :
            IF IsComplete(data, MessageLength[i][reader[r].since])
            THEN cache' = CachePut(CachePut(cache, BodyKey(MessageItem(i)), data),
                                   SizeKey(MessageItem(i)), SizeText(data.len))
            ELSE UNCHANGED cache
      BY <2>6, <3>1 DEF BytesArrive
    <3>3. CASE IsComplete(data, MessageLength[i][reader[r].since])
      <4>1. PICK u \in 1..version[i] : data = MessageBytes(i, u) /\ data.len = MessageLength[i][u]
        BY <1>2, <3>1, <3>3, CompleteDownload
      <4> DEFINE c1 == CachePut(cache, BodyKey(MessageItem(i)), MessageBytes(i, u))
      <4>2. cache' = CachePut(c1, SizeKey(MessageItem(i)), SizeText(MessageLength[i][u]))
        BY <3>2, <3>3, <4>1
      <4>3. Tally(c1) /\ Spares(cache, c1)
        BY <1>2, BodyTallies
      <4> HIDE DEF c1
      <4>4. Tally(cache') /\ Spares(c1, cache')
        BY <1>2, <4>2, <4>3, SizeTallies
      <4> QED
        BY <4>3, <4>4 DEF Spares
    <3>4. CASE cache' = cache
      BY <1>2, <1>3, <3>4
    <3> QED
      BY <3>2, <3>3, <3>4
  <2> QED
    BY <2>1, <2>2, <2>3, <2>4, <2>5, <2>6 DEF ReaderStep
<1> QED
  BY <1>1, <1>2, <1>5, TallyKeeps

LEMMA CountCollect ==
  ASSUME IInv, CountInv, NEW s \in 1..stamp, CollectDraft(s)
  PROVE  CountInv'
<1>1. UNCHANGED <<version, stamp, says>> /\ lister.pc = "idle"
  BY DEF CollectDraft, upstream
<1>2. Tally(cache) /\ NotRendered
  BY DEF IInv, CacheInv, CountInv, Tally
<1>3. s \in Stamps /\ stamp \in 0..MaxStamp /\ says \in [Stamps -> Contents]
  BY ContentAssumption DEF IInv, UpstreamTypes, Stamps
<1>4. CASE Cached(cache, DraftvKey(s))
  <2>1. PICK t \in s..stamp : cache.data[DraftvKey(s)] = Rendering(says[t])
    BY <1>3, <1>4, FoundStamp DEF IInv
  <2>2. Rendering(says[t]).ver = says[t]
    BY DEF Rendering, Bytes
  <2> DEFINE hit == CacheGet(cache, DraftvKey(s))
  <2>3. /\ cache' = CachePut(hit, BodyKey(DraftItem(says[t])), Rendering(says[t]))
        /\ lister' = lister
    BY <1>4, <2>1, <2>2 DEF CollectDraft
  <2>4. says[t] \in Contents
    BY <1>3, ContentAssumption DEF Stamps
  <2>5. Tally(hit)
    BY <1>2, <1>3, KeysInUse, GetTallies
  <2> HIDE DEF hit
  <2>6. Tally(cache')
    BY <2>3, <2>4, <2>5, DraftTallies
  <2> QED
    BY <1>1, <2>3, <2>6, TallyKeeps
<1>5. CASE ~Cached(cache, DraftvKey(s))
  <2>1. lister' = [pc |-> "get", stamp |-> s, since |-> DraftSince] /\ cache' = cache
    BY <1>5 DEF CollectDraft
  <2>2. NotRendered'
    BY <1>5, <2>1 DEF NotRendered
  <2>3. CrossesBudget' <=> CrossesBudget
    BY <1>1 DEF CrossesBudget
  <2> QED
    BY <2>1, <2>2, <2>3 DEF CountInv
<1> QED
  BY <1>4, <1>5

LEMMA CountRendered ==
  ASSUME IInv, CountInv, DraftRendered
  PROVE  CountInv'
<1>1. UNCHANGED <<version, stamp, says>> /\ lister.pc = "get" /\ lister'.pc # "get"
  BY DEF DraftRendered, upstream, IdleLister
<1>2. Tally(cache) /\ ~Cached(cache, DraftvKey(lister.stamp))
  BY <1>1 DEF IInv, CacheInv, CountInv, Tally, NotRendered
<1>3. /\ lister.stamp \in Stamps /\ lister.since \in Nat /\ lister.stamp <= lister.since
      /\ stamp \in 0..MaxStamp /\ says \in [Stamps -> Contents]
  BY <1>1 DEF IInv, ListerInv, UpstreamTypes
<1>4. PICK rendered \in Renderings(lister.since) :
        IF rendered = Gone THEN UNCHANGED cache ELSE PutRendering(lister.stamp, rendered)
  BY DEF DraftRendered
<1>5. CASE rendered = Gone
  BY <1>1, <1>2, <1>4, <1>5, TallyKeeps
<1>6. CASE rendered # Gone
  <2>1. PICK t \in lister.since..stamp : rendered = Rendering(says[t])
    BY <1>6 DEF Renderings
  <2>2. t \in lister.stamp..stamp /\ says[t] \in Contents
    BY <1>3, <2>1, ContentAssumption DEF Stamps
  <2>3. Rendering(says[t]).ver = says[t] /\ Rendering(says[t]).len \in Nat
    BY <2>2, ContentAssumption DEF Rendering, Bytes
  <2> DEFINE k == DraftvKey(lister.stamp)
             d == Rendering(says[t])
             c1 == CachePut(cache, k, d)
  <2>4. cache' = CachePut(c1, BodyKey(DraftItem(says[t])), Rendering(says[t]))
    BY <1>4, <1>6, <2>1, <2>3 DEF PutRendering
  <2>5. k \in Keys /\ Right(k, d, version, stamp, says)
    BY <1>3, <2>2, KeysInUse, RightStamp
  <2>6. Tally(c1)
    <3> HIDE DEF k, d
    <3>1. ~Cached(cache, k) /\ d.len \in Nat
      BY <1>2, <2>3 DEF k, d
    <3> QED
      BY <1>2, <2>5, <3>1, PutTallies
  <2> HIDE DEF c1
  <2>7. Tally(cache')
    BY <2>2, <2>4, <2>6, DraftTallies
  <2> QED
    BY <1>1, <2>7, TallyKeeps
<1> QED
  BY <1>5, <1>6

LEMMA CountUpstream ==
  ASSUME IInv, CountInv, DraftWritten \/ DraftDeleted \/ \E i \in Changing : MessageChanges(i)
  PROVE  CountInv'
<1>1. cache' = cache /\ lister' = lister
  BY DEF DraftWritten, DraftDeleted, MessageChanges
<1>2. version' = version \/ \E i \in Changing : version' = [version EXCEPT ![i] = 2]
  BY DEF DraftWritten, DraftDeleted, MessageChanges
<1>3. version \in [Inboxes -> 1..2]
  BY DEF IInv, UpstreamTypes
<1>4. \A i \in Inboxes : version[i] = 2 => version'[i] = 2
  BY <1>2, <1>3
<1>5. CrossesBudget => CrossesBudget'
  BY <1>4 DEF CrossesBudget
<1> QED
  BY <1>1, <1>5 DEF CountInv, NotRendered

--------------------------------------------------------------------------
(* The theorems *)

\* At the start nothing is cached, awaited or answered.
LEMMA InvInit ==
  ASSUME Init
  PROVE  IInv
<1>1. UpstreamTypes
  BY ContentAssumption DEF Init, UpstreamTypes
<1>2. cache.items = <<>> /\ cache.items \in Seq(Keys) /\ IsCache(cache)
  <2> DEFINE empty == [k \in Keys |-> NoData]
  <2>1. cache = [items |-> <<>>, data |-> empty, size |-> 0]
    BY DEF Init, EmptyCache
  <2>2. empty = [k \in Keys |-> empty[k]]
    OBVIOUS
  <2>3. <<>> \in Seq(Keys)
    OBVIOUS
  <2> HIDE DEF empty
  <2> QED
    BY <2>1, <2>2, <2>3 DEF IsCache
<1>3. Range(cache.items) = {}
  BY <1>2 DEF Range
<1>4. CacheInv
  BY <1>2, <1>3 DEF CacheInv, AllRight
<1>5. ReaderInv
  BY DEF Init, ReaderInv, ReaderRecord, ReaderFits, IdleReader
<1>6. KnewInv
  BY DEF Init, KnewInv, KnewFits
<1>7. ListerInv
  BY DEF Init, ListerInv, IdleLister
<1>8. AnswersAreTheContent /\ ListedContentIsCurrent
  BY DEF Init, AnswersAreTheContent, ListedContentIsCurrent
<1> QED
  BY <1>1, <1>4, <1>5, <1>6, <1>7, <1>8 DEF IInv

\* Every step keeps the invariant.
LEMMA InvStep ==
  ASSUME IInv, [Next]_vars
  PROVE  IInv'
<1>1. CASE UNCHANGED vars
  <2>1. UNCHANGED <<version, stamp, says, deleted, cache, reader, lister, listed, answer, knew>>
    BY <1>1 DEF vars, upstream
  <2>2. UpstreamTypes' /\ CacheInv' /\ ReaderInv' /\ KnewInv' /\ ListerInv'
    BY <2>1 DEF IInv, UpstreamTypes, CacheInv, ReaderInv, KnewInv, ListerInv
  <2>3. AnswersAreTheContent' /\ ListedContentIsCurrent'
    BY <2>1 DEF IInv, AnswersAreTheContent, ListedContentIsCurrent
  <2> QED
    BY <2>2, <2>3 DEF IInv
<1>2. CASE Next
  BY <1>2, UpstreamStep, BeginStep, DraftArrivesStep, SizeArrivesStep, MetaArrivesStep,
     BytesArriveStep, ReadFailsStep, CollectDraftStep, DraftRenderedStep
  DEF Next, ReaderStep
<1> QED
  BY <1>1, <1>2

\* The invariant holds in every reachable state of the readers, the listing and
\* the cache.
THEOREM Invariance == Spec => []IInv
<1>1. Init => IInv
  BY InvInit
<1>2. IInv /\ [Next]_vars => IInv'
  BY InvStep
<1> QED
  BY <1>1, <1>2, PTL DEF Spec

\* raw_bytes and size_of answer with the content of the item asked about, whoever
\* filled the cache, whatever was evicted and however the draft or the message
\* changed meanwhile.
THEOREM ContentIsServed == Spec => []AnswersAreTheContent
<1>1. IInv => AnswersAreTheContent
  BY DEF IInv
<1> QED
  BY <1>1, Invariance, PTL

\* _collect_drafts gives UIDs to content that is not older than the listing it
\* was shown.
THEOREM ListedIsCurrent == Spec => []ListedContentIsCurrent
<1>1. IInv => ListedContentIsCurrent
  BY DEF IInv
<1> QED
  BY <1>1, Invariance, PTL

\* raw_bytes refuses bytes of another length than the size that was reported
\* before, as long as the cache keeps it.
THEOREM SizesAreKept == Spec => ReportedSizeIsKept
<1> DEFINE Kept(r) ==
      /\ knew[r] # 0 /\ reader[r].pc # "idle" /\ reader'[r].pc = "idle" /\ answer' # None
      => answer'.value.len = knew[r]
<1>1. ASSUME IInv, Next, NEW r \in Readers,
             knew[r] # 0, reader[r].pc # "idle", reader'[r].pc = "idle", answer' # None
      PROVE  answer'.value.len = knew[r]
  <2>1. reader'[r] # reader[r]
    BY <1>1
  <2>2. PICK q \in Readers :
          \/ \E op \in {"bytes", "size"}, item \in Items : Begin(q, op, item)
          \/ DraftArrives(q) \/ SizeArrives(q) \/ BytesArrive(q)
    <3>1. ~(\E i \in Changing : MessageChanges(i)) /\ ~DraftWritten /\ ~DraftDeleted
      BY <2>1 DEF MessageChanges, DraftWritten, DraftDeleted
    <3>2. ~DraftRendered /\ \A s \in 1..stamp : ~CollectDraft(s)
      BY <2>1 DEF DraftRendered, CollectDraft
    <3>3. \A q \in Readers : ~MetaArrives(q) /\ ~ReadFails(q)
      BY <1>1 DEF MetaArrives, ReadFails, Refuse
    <3> QED
      BY <1>1, <3>1, <3>2, <3>3 DEF Next, ReaderStep
  <2>3. KnewFits(reader[r], knew[r]) /\ ReaderFits(reader[r], version)
    BY <1>1 DEF IInv, KnewInv, ReaderInv
  <2>4. q = r
    BY <1>1, <2>1, <2>2
    DEF IInv, ReaderInv, Begin, DraftArrives, SizeArrives, BytesArrive, Give, Refuse, Await
  <2>5. ~DraftArrives(r)
    <3>1. reader[r].item.kind # "draft"
      BY <1>1, <2>3 DEF KnewFits
    <3>2. \A k \in Contents : DraftItem(k).kind = "draft"
      BY DEF DraftItem
    <3>3. reader[r].pc # "draft"
      BY <2>3, <3>1, <3>2 DEF ReaderFits
    <3> QED
      BY <3>3 DEF DraftArrives
  <2>6. ~SizeArrives(r)
    BY <1>1, <2>3 DEF KnewFits, SizeArrives
  <2>7. \A op \in {"bytes", "size"}, item \in Items : ~Begin(r, op, item)
    BY <1>1 DEF Begin
  <2>8. BytesArrive(r)
    BY <2>2, <2>4, <2>5, <2>6, <2>7
  <2>9. answer'.value.len = MessageLength[reader[r].item.inbox][reader[r].since]
    BY <1>1, <2>8 DEF BytesArrive, Give, Refuse, IsComplete
  <2>10. reader[r].pc = "download"
    BY <2>8 DEF BytesArrive
  <2> QED
    BY <1>1, <2>3, <2>9, <2>10 DEF KnewFits
<1>2. IInv /\ [Next]_vars => [\A r \in Readers : Kept(r)]_vars
  BY <1>1
<1> HIDE DEF Kept
<1>3. Spec => [][\A r \in Readers : Kept(r)]_vars
  BY <1>2, Invariance, PTL DEF Spec
<1> QED
  BY <1>3 DEF Kept, ReportedSizeIsKept

\* ByteCache.put and get keep their count within the budget and never below what
\* is cached, and exact while no changed message crosses the budget.
THEOREM CountIsKept == Spec => []CountIsExact
<1>1. Init => CountInv
  <2> SUFFICES ASSUME Init
               PROVE  CountInv
    OBVIOUS
  <2>1. cache.items = <<>> /\ cache.size = 0
    BY DEF Init, EmptyCache
  <2>2. Range(cache.items) = {} /\ Distinct(cache.items)
    BY <2>1 DEF Range, Distinct
  <2>3. Total(cache.items, cache.data) = 0
    BY <2>1, TotalNone
  <2>4. Counted(cache) /\ Exact(cache)
    BY <2>1, <2>2, <2>3, CacheAssumption DEF Counted, Exact
  <2>5. NotRendered
    BY DEF Init, IdleLister, NotRendered
  <2> QED
    BY <2>4, <2>5 DEF CountInv
<1>2. IInv /\ CountInv /\ [Next]_vars => CountInv'
  <2>1. ASSUME CountInv, UNCHANGED vars PROVE CountInv'
    BY <2>1 DEF CountInv, CrossesBudget, NotRendered, vars, upstream
  <2>2. ASSUME IInv, CountInv, Next PROVE CountInv'
    BY <2>2, CountUpstream, CountReader, CountCollect, CountRendered DEF Next
  <2> QED
    BY <2>1, <2>2
<1>3. CountInv => CountIsExact
  BY DEF CountInv, Counted, Exact, CountIsExact
<1> QED
  BY <1>1, <1>2, <1>3, Invariance, PTL DEF Spec

===========================================================================
