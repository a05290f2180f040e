------------------------ MODULE SessionViewProofs ------------------------
(***************************************************************************)
(* Proofs about what commands.py works on.  SessionView, for any number of *)
(* UIDs and any permanent flags: the client and the session mean the same  *)
(* message by a number, and a flush tells the client of every change.      *)
(* ListPatterns, for every pattern and every name: the matcher of LIST     *)
(* finds a match exactly when there is one, and ends.                      *)
(***************************************************************************)
EXTENDS SessionView, ListPatterns, FiniteSetTheorems, SequenceTheorems, FunctionTheorems, TLAPS

--------------------------------------------------------------------------
(* The inductive invariant *)

Words == {"seen", "deleted", "none"}
FlagSets == SUBSET Words
Ops == {"none", "select", "examine", "noop", "expunge", "move", "append", "close", "size", "body",
        "store"}
IsCommand(c) ==
  c \in [op : Ops, seq : 0..MaxUid, uid : 0..MaxUid, flags : FlagSets, marking : BOOLEAN,
         answer : {c.answer}]

Types ==
  /\ latest \in [live : SUBSET Uids, seen : SUBSET Uids, uidnext : 1..MaxUid + 1]
  /\ flags_seen \in [Uids -> FlagSets]
  /\ lapses = {} => told \in [Uids -> FlagSets]
  /\ IsCommand(cmd)

\* The store has not yet handed out what is to come.
LiveIsIssued == \A u \in latest.live : u < latest.uidnext

\* The session's list is in order, of UIDs that were handed out, and what the
\* snapshot has beyond it is newer than all of it.
InOrder ==
  /\ uids = Ascending(Range(uids))
  /\ Range(uids) \subseteq Uids
  /\ \A u \in Range(uids) : u < latest.uidnext
  /\ \A u \in latest.live \ Range(uids), w \in Range(uids) : w < u
Numbers == "removal_fails" \notin lapses => mirror = uids /\ InOrder

\* A FETCH or STORE under way keeps its message number and UID.
Underway == cmd.op \in {"size", "body", "store"}
Addressed == lapses = {} /\ Underway => cmd.seq \in 1..Len(uids) /\ uids[cmd.seq] = cmd.uid

\* What the answer will leave with the client is what is recorded.
Answered ==
  lapses = {} =>
    /\ cmd.op = "size" => flags_seen[cmd.uid] = cmd.flags
    /\ cmd.op = "store" => cmd.answer \in {NotHeard, cmd.flags}

\* The client has heard nothing of a message, or what is recorded of it; but for
\* the flags that wait for the size.
Heard ==
  lapses = {} =>
    \A u \in Uids :
      /\ u \notin Range(uids) => told[u] = NotHeard
      /\ told[u] \in {NotHeard, flags_seen[u]} \/ (cmd.op = "size" /\ cmd.uid = u)

IInv == Types /\ LiveIsIssued /\ Numbers /\ Addressed /\ Answered /\ Heard

--------------------------------------------------------------------------
(* Sequences in order *)

\* s lists the numbers of S in order, and is n long.
Lists(s, n, S) ==
  /\ n \in Nat /\ s \in [1..n -> S]
  /\ \A i, j \in 1..n : i < j => s[i] < s[j]
  /\ \A u \in S : \E i \in 1..n : s[i] = u

\* A set of numbers with an element has a least one.
LEMMA LeastOf ==
  ASSUME NEW S, S \subseteq Nat, NEW x \in S
  PROVE  \E n \in S : \A m \in S : n <= m
<1>1. IsWellFoundedOn(OpToRel(<, Nat), Nat)
  BY NatLessThanWellFounded
<1>2. PICK n \in S : \A m \in S : ~(<<m, n>> \in OpToRel(<, Nat))
  BY <1>1, WFMin
<1>3. \A m \in S : ~(m < n)
  BY <1>2 DEF OpToRel
<1> QED
  BY <1>3

\* What the lists are in the sense of sequences.
LEMMA ListsSeq ==
  ASSUME NEW s, NEW n, NEW S, Lists(s, n, S)
  PROVE  s \in Seq(S) /\ Len(s) = n /\ Range(s) = S /\ n \in Nat
<1>1. n \in Nat /\ s \in [1..n -> S] /\ \A u \in S : \E i \in 1..n : s[i] = u
  BY DEF Lists
<1>2. s \in Seq(S) /\ Len(s) = n
  BY <1>1
<1>3. DOMAIN s = 1..n /\ \A i \in 1..n : s[i] \in S
  BY <1>1
<1>4. Range(s) = S
  BY <1>1, <1>3 DEF Range
<1> QED
  BY <1>1, <1>2, <1>4

\* Two lists of the same numbers agree before i.
AgreeBefore(S, i, s, m, t, n) ==
  /\ S \subseteq Nat /\ Lists(s, m, S) /\ Lists(t, n, S) /\ i \in 1..m
  /\ \A k \in 1..i - 1 : k \in 1..n /\ s[k] = t[k]

\* They cannot part there.
LEMMA NoParting ==
  ASSUME NEW S, NEW s, NEW m, NEW t, NEW n, NEW i, AgreeBefore(S, i, s, m, t, n)
  PROVE  i \in 1..n /\ s[i] = t[i]
<1>1. /\ m \in Nat /\ n \in Nat
      /\ (\A k \in 1..m : s[k] \in Nat /\ s[k] \in S) /\ (\A k \in 1..n : t[k] \in Nat /\ t[k] \in S)
      /\ (\A j, k \in 1..m : j < k => s[j] < s[k]) /\ (\A j, k \in 1..n : j < k => t[j] < t[k])
      /\ (\A u \in S : \E k \in 1..m : s[k] = u) /\ (\A u \in S : \E k \in 1..n : t[k] = u)
      /\ i \in 1..m
  BY DEF AgreeBefore, Lists
<1>2. PICK j \in 1..n : t[j] = s[i]
  BY <1>1
<1>3. ~(j < i)
  <2> SUFFICES ASSUME j < i PROVE FALSE
    OBVIOUS
  <2>1. j \in 1..i - 1 /\ j \in 1..m
    BY <1>1
  <2>2. s[j] = t[j] /\ s[j] < s[i]
    BY <1>1, <2>1 DEF AgreeBefore
  <2>3. s[i] \in Nat
    BY <1>1
  <2> QED
    BY <1>2, <2>2, <2>3
<1>4. i \in 1..n
  BY <1>1, <1>3
<1>5. ~(i < j)
  <2> SUFFICES ASSUME i < j PROVE FALSE
    OBVIOUS
  <2>1. t[i] < s[i] /\ t[i] \in S
    BY <1>1, <1>2, <1>4
  <2>2. PICK k \in 1..m : s[k] = t[i]
    BY <1>1, <2>1
  <2>3. ~(k < i)
    <3> SUFFICES ASSUME k < i PROVE FALSE
      OBVIOUS
    <3>1. k \in 1..i - 1
      BY <1>1
    <3>2. k \in 1..n /\ s[k] = t[k]
      BY <3>1 DEF AgreeBefore
    <3>3. t[k] < t[i] /\ t[i] \in Nat
      BY <1>1, <1>4, <3>2
    <3> QED
      BY <2>2, <3>2, <3>3
  <2>4. k = i \/ s[i] < s[k]
    BY <1>1, <2>3
  <2>5. s[i] \in Nat /\ t[i] \in Nat
    BY <1>1, <1>4
  <2> QED
    BY <2>1, <2>2, <2>4, <2>5
<1>6. j = i
  BY <1>1, <1>3, <1>5
<1> QED
  BY <1>2, <1>4, <1>6

\* A set has one list.
LEMMA ListsUnique ==
  ASSUME NEW S, S \subseteq Nat, NEW s, NEW m, NEW t, NEW n, Lists(s, m, S), Lists(t, n, S)
  PROVE  m = n /\ s = t
<1>1. m \in Nat /\ n \in Nat /\ s \in [1..m -> S] /\ t \in [1..n -> S]
  BY DEF Lists
<1> DEFINE Parts(i) == \/ i \in 1..m /\ ~(i \in 1..n /\ s[i] = t[i])
                       \/ i \in 1..n /\ ~(i \in 1..m /\ s[i] = t[i])
           bad == {i \in Nat : Parts(i)}
<1>2. \A i \in Nat : ~Parts(i)
  <2> SUFFICES ASSUME NEW x \in Nat, Parts(x) PROVE FALSE
    OBVIOUS
  <2>1. x \in bad /\ bad \subseteq Nat
    OBVIOUS
  <2> HIDE DEF bad
  <2>2. PICK i \in bad : \A j \in bad : i <= j
    BY <2>1, LeastOf
  <2>3. i \in Nat /\ Parts(i)
    BY <2>2 DEF bad
  <2>4. ASSUME NEW k \in 1..i - 1
        PROVE  ~Parts(k)
    <3>1. k \in Nat /\ k < i
      BY <2>3
    <3>2. k \notin bad
      BY <2>2, <2>3, <3>1
    <3> QED
      BY <3>1, <3>2 DEF bad
  <2>5. CASE i \in 1..m /\ ~(i \in 1..n /\ s[i] = t[i])
    <3>1. \A k \in 1..i - 1 : k \in 1..m
      BY <1>1, <2>5
    <3>2. AgreeBefore(S, i, s, m, t, n)
      BY <2>4, <2>5, <3>1 DEF AgreeBefore
    <3>3. i \in 1..n /\ s[i] = t[i]
      BY <3>2, NoParting
    <3> QED
      BY <2>5, <3>3
  <2>6. CASE i \in 1..n /\ ~(i \in 1..m /\ s[i] = t[i])
    <3>1. \A k \in 1..i - 1 : k \in 1..n
      BY <1>1, <2>6
    <3>2. AgreeBefore(S, i, t, n, s, m)
      BY <2>4, <2>6, <3>1 DEF AgreeBefore
    <3>3. i \in 1..m /\ t[i] = s[i]
      BY <3>2, NoParting
    <3> QED
      BY <2>6, <3>3
  <2> QED
    BY <2>3, <2>5, <2>6
<1>3. \A i \in Nat : (i \in 1..m <=> i \in 1..n) /\ (i \in 1..m => s[i] = t[i])
  BY <1>2
<1>4. m = n
  <2>1. m # 0 => m \in 1..n
    BY <1>1, <1>3
  <2>2. n # 0 => n \in 1..m
    BY <1>1, <1>3
  <2> QED
    BY <1>1, <2>1, <2>2
<1> QED
  BY <1>1, <1>3, <1>4

\* One list after another.
Joined(s, m, t, n) == [i \in 1..m + n |-> IF i <= m THEN s[i] ELSE t[i - m]]
Follows(S, T) == \A u \in S, w \in T : u < w

LEMMA JoinedLists ==
  ASSUME NEW S, NEW T, S \subseteq Nat, T \subseteq Nat, NEW s, NEW m, NEW t, NEW n,
         Lists(s, m, S), Lists(t, n, T), Follows(S, T)
  PROVE  Lists(Joined(s, m, t, n), m + n, S \cup T)
<1> DEFINE q == Joined(s, m, t, n)
<1>1. /\ m \in Nat /\ n \in Nat
      /\ (\A k \in 1..m : s[k] \in S) /\ (\A k \in 1..n : t[k] \in T)
      /\ (\A j, k \in 1..m : j < k => s[j] < s[k]) /\ (\A j, k \in 1..n : j < k => t[j] < t[k])
      /\ (\A u \in S : \E k \in 1..m : s[k] = u) /\ (\A u \in T : \E k \in 1..n : t[k] = u)
  BY DEF Lists
<1>2. q = [i \in 1..m + n |-> q[i]] /\ \A i \in 1..m + n : q[i] = IF i <= m THEN s[i] ELSE t[i - m]
  BY DEF Joined
<1> HIDE DEF q
<1>3. ASSUME NEW i \in 1..m + n
      PROVE  \/ i \in 1..m /\ q[i] = s[i] /\ q[i] \in S
             \/ i - m \in 1..n /\ i > m /\ q[i] = t[i - m] /\ q[i] \in T
  <2>1. CASE i <= m
    BY <1>1, <1>2, <2>1
  <2>2. CASE ~(i <= m)
    <3>1. i - m \in 1..n /\ i > m
      BY <1>1, <2>2
    <3> QED
      BY <1>1, <1>2, <2>2, <3>1
  <2> QED
    BY <2>1, <2>2
<1>4. q \in [1..m + n -> S \cup T]
  BY <1>2, <1>3
<1>5. ASSUME NEW i \in 1..m + n, NEW j \in 1..m + n, i < j
      PROVE  q[i] < q[j]
  <2>1. CASE j \in 1..m /\ q[j] = s[j]
    <3>1. i \in 1..m /\ q[i] = s[i]
      BY <1>1, <1>3, <1>5, <2>1
    <3> QED
      BY <1>1, <1>5, <2>1, <3>1
  <2>2. CASE j - m \in 1..n /\ j > m /\ q[j] = t[j - m] /\ q[j] \in T
    <3>1. CASE i \in 1..m /\ q[i] \in S
      BY <2>2, <3>1 DEF Follows
    <3>2. CASE i - m \in 1..n /\ q[i] = t[i - m]
      <4>1. i - m < j - m
        BY <1>1, <1>5
      <4> QED
        BY <1>1, <2>2, <3>2, <4>1
    <3> QED
      BY <1>3, <3>1, <3>2
  <2> QED
    BY <1>3, <2>1, <2>2
<1>6. ASSUME NEW u \in S \cup T
      PROVE  \E i \in 1..m + n : q[i] = u
  <2>1. CASE u \in S
    <3>1. PICK k \in 1..m : s[k] = u
      BY <1>1, <2>1
    <3>2. k \in 1..m + n /\ k <= m
      BY <1>1
    <3> QED
      BY <1>2, <3>1, <3>2
  <2>2. CASE u \in T
    <3>1. PICK k \in 1..n : t[k] = u
      BY <1>1, <2>2
    <3>2. m + k \in 1..m + n /\ ~(m + k <= m) /\ (m + k) - m = k
      BY <1>1
    <3>3. q[m + k] = t[k]
      BY <1>2, <3>2
    <3> QED
      BY <3>1, <3>2, <3>3
  <2> QED
    BY <2>1, <2>2
<1>7. m + n \in Nat
  BY <1>1
<1> QED
  BY <1>4, <1>5, <1>6, <1>7 DEF Lists, q

\* Every finite set of numbers has a list.
LEMMA ListExists ==
  ASSUME NEW N \in Nat, NEW S, S \subseteq 1..N
  PROVE  \E s : Lists(s, Cardinality(S), S)
<1> DEFINE Has(T) == \E s : Lists(s, Cardinality(T), T)
           bad == {n \in Nat : \E T \in SUBSET (1..n) : ~Has(T)}
<1> SUFFICES ASSUME ~Has(S) PROVE FALSE
  OBVIOUS
<1>1. N \in bad /\ bad \subseteq Nat
  OBVIOUS
<1> HIDE DEF bad
<1>2. PICK n \in bad : \A m \in bad : n <= m
  BY <1>1, LeastOf
<1>3. n \in Nat /\ \E T \in SUBSET (1..n) : ~Has(T)
  BY <1>2 DEF bad
<1>4. PICK T \in SUBSET (1..n) : ~Has(T)
  BY <1>3
<1>5. IsFiniteSet(T) /\ Cardinality(T) \in Nat
  <2>1. IsFiniteSet(1..n)
    BY <1>3, FS_Interval
  <2> QED
    BY <2>1, FS_Subset, FS_CardinalityType
<1>6. CASE n \notin T
  <2>1. CASE n = 0
    <3>1. T = {}
      BY <2>1
    <3>2. Cardinality(T) = 0
      BY <3>1, FS_EmptySet
    <3>3. Lists(<<>>, 0, T)
      <4>1. <<>> \in [1..0 -> T]
        BY <3>1
      <4> QED
        BY <3>1, <4>1 DEF Lists
    <3> QED
      BY <1>4, <3>2, <3>3
  <2>2. CASE n # 0
    <3>1. n - 1 \in Nat /\ T \in SUBSET (1..n - 1) /\ n - 1 < n
      BY <1>3, <1>6, <2>2
    <3>2. n - 1 \in bad
      BY <1>4, <3>1 DEF bad
    <3> QED
      BY <1>2, <1>3, <3>1, <3>2
  <2> QED
    BY <2>1, <2>2
<1>7. CASE n \in T
  <2> DEFINE R == T \ {n}
  <2>1. n - 1 \in Nat /\ R \in SUBSET (1..n - 1) /\ n - 1 < n
    BY <1>3, <1>7
  <2>2. Has(R)
    <3> SUFFICES ASSUME ~Has(R) PROVE FALSE
      OBVIOUS
    <3>1. n - 1 \in bad
      BY <2>1 DEF bad
    <3> QED
      BY <1>2, <1>3, <2>1, <3>1
  <2>3. PICK s : Lists(s, Cardinality(R), R)
    BY <2>2
  <2>4. Cardinality(R) = Cardinality(T) - 1 /\ Cardinality(R) \in Nat
    BY <1>5, <1>7, FS_RemoveElement, FS_CardinalityType
  <2> DEFINE o == [i \in 1..1 |-> n]
  <2>5. Lists(o, 1, {n})
    BY <1>3 DEF Lists
  <2>6. Follows(R, {n}) /\ R \subseteq Nat /\ {n} \subseteq Nat
    BY <1>3 DEF Follows
  <2> HIDE DEF o
  <2>7. Lists(Joined(s, Cardinality(R), o, 1), Cardinality(R) + 1, R \cup {n})
    BY <2>3, <2>5, <2>6, JoinedLists
  <2>8. R \cup {n} = T /\ Cardinality(R) + 1 = Cardinality(T)
    BY <1>5, <1>7, <2>4
  <2> QED
    BY <1>4, <2>7, <2>8
<1> QED
  BY <1>6, <1>7

\* So the numbers of a set in order are its list, and the only one.
LEMMA AscendingLists ==
  ASSUME NEW S, S \subseteq Uids
  PROVE  Lists(Ascending(S), Cardinality(S), S)
<1>1. MaxUid \in Nat /\ S \subseteq 1..MaxUid
  BY ViewAssumption DEF Uids
<1>2. PICK t : Lists(t, Cardinality(S), S)
  BY <1>1, ListExists
<1> DEFINE n == Cardinality(S)
           Good(s) == Range(s) = S /\ \A i, j \in 1..n : i < j => s[i] < s[j]
<1>3. t \in [1..n -> S] /\ Good(t)
  BY <1>2, ListsSeq DEF Lists
<1>4. Ascending(S) = CHOOSE s \in [1..n -> S] : Good(s)
  BY DEF Ascending
<1> HIDE DEF Good
<1>5. Ascending(S) \in [1..n -> S] /\ Good(Ascending(S))
  BY <1>3, <1>4
<1> DEFINE q == Ascending(S)
<1>6. q \in [1..n -> S] /\ Range(q) = S /\ \A i, j \in 1..n : i < j => q[i] < q[j]
  BY <1>5 DEF Good
<1> HIDE DEF q
<1>7. n \in Nat
  BY <1>2 DEF Lists
<1>8. \A u \in S : \E i \in 1..n : q[i] = u
  BY <1>6 DEF Range
<1> QED
  BY <1>6, <1>7, <1>8 DEF Lists, q

LEMMA ListsIs ==
  ASSUME NEW S, S \subseteq Uids, NEW s, NEW n, Lists(s, n, S)
  PROVE  s = Ascending(S) /\ n = Cardinality(S)
<1>1. S \subseteq Nat
  BY ViewAssumption DEF Uids
<1> QED
  BY <1>1, AscendingLists, ListsUnique

\* A list without its ith number.
LEMMA RemovedLists ==
  ASSUME NEW S, S \subseteq Nat, NEW s, NEW m, Lists(s, m, S), NEW i \in 1..m
  PROVE  Lists(RemoveAt(s, i), m - 1, S \ {s[i]})
<1>1. /\ m \in Nat /\ (\A k \in 1..m : s[k] \in S /\ s[k] \in Nat)
      /\ (\A j, k \in 1..m : j < k => s[j] < s[k])
      /\ (\A u \in S : \E k \in 1..m : s[k] = u)
  BY DEF Lists
<1>2. s \in Seq(S) /\ Len(s) = m
  BY ListsSeq
<1> DEFINE a == SubSeq(s, 1, i - 1)
           b == SubSeq(s, i + 1, m)
           q == a \o b
<1>3. RemoveAt(s, i) = q
  BY <1>2 DEF RemoveAt
<1>4. a \in Seq(S) /\ Len(a) = i - 1 /\ \A k \in 1..i - 1 : a[k] = s[k]
  <2>1. \A k \in 1..i - 1 : s[k] \in S
    BY <1>1
  <2>2. a = [k \in 1..i - 1 |-> s[k]]
    BY <1>1, <1>2
  <2> QED
    BY <1>1, <2>1, <2>2
<1>5. b \in Seq(S) /\ Len(b) = m - i /\ \A k \in 1..m - i : b[k] = s[i + k]
  <2>1. \A k \in 1..m - i : i + k \in 1..m
    BY <1>1
  <2>2. b = [k \in 1..m - i |-> s[i + k]]
    BY <1>1, <1>2
  <2>3. m - i \in Nat
    BY <1>1
  <2> QED
    BY <1>1, <2>1, <2>2, <2>3
<1> HIDE DEF a, b
<1>6. q \in Seq(S) /\ Len(q) = m - 1
  <2>1. q \in Seq(S) /\ Len(q) = Len(a) + Len(b)
    BY <1>4, <1>5, ConcatProperties
  <2> QED
    BY <1>1, <1>4, <1>5, <2>1
<1>7. \A k \in 1..m - 1 : q[k] = IF k < i THEN s[k] ELSE s[k + 1]
  <2> TAKE k \in 1..m - 1
  <2>1. CASE k < i
    <3>1. k \in 1..Len(a)
      BY <1>1, <1>4, <2>1
    <3>2. q[k] = a[k]
      BY <1>4, <1>5, <3>1, ConcatProperties
    <3> QED
      BY <1>4, <2>1, <3>1, <3>2
  <2>2. CASE ~(k < i)
    <3>1. k - (i - 1) \in 1..m - i /\ k \in Len(a) + 1..Len(a) + Len(b)
      BY <1>1, <1>4, <1>5, <2>2
    <3>2. q[k] = b[k - Len(a)]
      BY <1>4, <1>5, <3>1, ConcatProperties
    <3>3. i + (k - (i - 1)) = k + 1
      BY <1>1
    <3> QED
      BY <1>4, <1>5, <2>2, <3>1, <3>2, <3>3
  <2> QED
    BY <2>1, <2>2
<1> HIDE DEF q
<1>8. \A k \in 1..m - 1 : q[k] \in S \ {s[i]}
  <2> TAKE k \in 1..m - 1
  <2>1. CASE k < i
    <3>1. k \in 1..m /\ s[k] < s[i]
      BY <1>1, <2>1
    <3> QED
      BY <1>1, <1>7, <2>1, <3>1
  <2>2. CASE ~(k < i)
    <3>1. k + 1 \in 1..m /\ s[i] < s[k + 1]
      BY <1>1, <2>2
    <3> QED
      BY <1>1, <1>7, <2>2, <3>1
  <2> QED
    BY <2>1, <2>2
<1>9. q \in [1..m - 1 -> S \ {s[i]}] /\ m - 1 \in Nat
  BY <1>1, <1>6, <1>8
<1>10. ASSUME NEW j \in 1..m - 1, NEW k \in 1..m - 1, j < k
       PROVE  q[j] < q[k]
  <2>1. j \in 1..m /\ j + 1 \in 1..m /\ k \in 1..m /\ k + 1 \in 1..m
    BY <1>1
  <2>2. j < k + 1 /\ j + 1 < k + 1
    BY <1>10
  <2> QED
    BY <1>1, <1>7, <1>10, <2>1, <2>2
<1>11. ASSUME NEW u \in S \ {s[i]}
       PROVE  \E k \in 1..m - 1 : q[k] = u
  <2>1. PICK j \in 1..m : s[j] = u
    BY <1>1
  <2>2. CASE j < i
    <3>1. j \in 1..m - 1
      BY <1>1, <2>2
    <3> QED
      BY <1>7, <2>1, <2>2, <3>1
  <2>3. CASE ~(j < i)
    <3>1. j - 1 \in 1..m - 1 /\ ~(j - 1 < i) /\ (j - 1) + 1 = j
      BY <1>1, <2>1, <2>3
    <3>2. q[j - 1] = s[j]
      BY <1>7, <3>1
    <3> QED
      BY <2>1, <3>1, <3>2
  <2> QED
    BY <2>2, <2>3
<1> QED
  BY <1>3, <1>9, <1>10, <1>11 DEF Lists

\* Lists of sets that are the same up to a number have it at the same place.
Below(S, x) == {u \in S : u <= x}

LEMMA PrefixLists ==
  ASSUME NEW S, S \subseteq Nat, NEW s, NEW m, Lists(s, m, S), NEW i \in 1..m
  PROVE  Lists([k \in 1..i |-> s[k]], i, Below(S, s[i]))
<1> DEFINE q == [k \in 1..i |-> s[k]]
           B == Below(S, s[i])
<1>1. /\ m \in Nat /\ (\A k \in 1..m : s[k] \in S /\ s[k] \in Nat)
      /\ (\A j, k \in 1..m : j < k => s[j] < s[k])
      /\ (\A u \in S : \E k \in 1..m : s[k] = u)
  BY DEF Lists
<1>2. \A k \in 1..i : k \in 1..m /\ q[k] = s[k] /\ (k < i \/ k = i)
  BY <1>1
<1>3. \A k \in 1..i : s[k] \in B
  BY <1>1, <1>2 DEF Below
<1>4. q \in [1..i -> B] /\ i \in Nat
  BY <1>1, <1>2, <1>3
<1>5. \A j, k \in 1..i : j < k => q[j] < q[k]
  BY <1>1, <1>2
<1>6. ASSUME NEW u \in B
      PROVE  \E k \in 1..i : q[k] = u
  <2>1. u \in S /\ u <= s[i]
    BY DEF Below
  <2>2. PICK k \in 1..m : s[k] = u
    BY <1>1, <2>1
  <2>3. ~(i < k)
    BY <1>1, <2>1, <2>2
  <2>4. k \in 1..i
    BY <1>1, <2>3
  <2> QED
    BY <1>2, <2>2, <2>4
<1> HIDE DEF q, B
<1>7. Lists(q, i, B)
  BY <1>4, <1>5, <1>6 DEF Lists
<1> QED
  BY <1>7 DEF q, B

SameBelow(S, s, m, T, t, n, i) ==
  /\ S \subseteq Nat /\ T \subseteq Nat /\ Lists(s, m, S) /\ Lists(t, n, T) /\ i \in 1..m
  /\ s[i] \in T /\ Below(S, s[i]) = Below(T, s[i])

LEMMA SamePlace ==
  ASSUME NEW S, NEW s, NEW m, NEW T, NEW t, NEW n, NEW i, SameBelow(S, s, m, T, t, n, i)
  PROVE  i \in 1..n /\ t[i] = s[i]
<1>1. /\ S \subseteq Nat /\ T \subseteq Nat /\ Lists(s, m, S) /\ Lists(t, n, T) /\ i \in 1..m
      /\ s[i] \in T /\ Below(S, s[i]) = Below(T, s[i])
  BY DEF SameBelow
<1>2. PICK j \in 1..n : t[j] = s[i]
  BY <1>1 DEF Lists
<1> DEFINE front == [k \in 1..i |-> s[k]]
           q == [k \in 1..j |-> t[k]]
           B == Below(S, s[i])
<1>3. Lists(front, i, B)
  BY <1>1, PrefixLists
<1>4. Lists(q, j, Below(T, t[j]))
  BY <1>1, <1>2, PrefixLists
<1>5. Below(T, t[j]) = B /\ B \subseteq Nat
  BY <1>1, <1>2 DEF Below
<1> HIDE DEF front, q, B
<1>6. i = j
  BY <1>3, <1>4, <1>5, ListsUnique
<1> QED
  BY <1>2, <1>6

--------------------------------------------------------------------------
(* flush_pending and the client *)

\* What is left of S when the first n numbers of d have been read.
Rest(S, s, d, n) == S \ {s[d[k]] : k \in 1..n}

\* d names places of the list s, the highest first.
HighestFirst(d, N, s, m) ==
  /\ N \in Nat /\ \A n \in 1..N : d[n] \in 1..m
  /\ \A j, n \in 1..N : j < n => d[n] < d[j]

\* Reading one more number removes the message it stood for at the start, because
\* only higher numbers were read before.
LEMMA DropOne ==
  ASSUME NEW S, S \subseteq Uids, NEW s, NEW m, Lists(s, m, S), NEW d, NEW N,
         HighestFirst(d, N, s, m), NEW n \in 1..N
  PROVE  RemoveAt(Ascending(Rest(S, s, d, n - 1)), d[n]) = Ascending(Rest(S, s, d, n))
<1> DEFINE T == Rest(S, s, d, n - 1)
           t == Ascending(T)
           i == d[n]
           x == s[i]
<1>1. S \subseteq Nat /\ m \in Nat /\ N \in Nat /\ i \in 1..m
  BY ViewAssumption DEF Uids, Lists, HighestFirst
<1>2. x \in S /\ x \in Nat
  BY <1>1 DEF Lists
<1>3. ASSUME NEW k \in 1..n - 1
      PROVE  s[d[k]] \in Nat /\ x < s[d[k]]
  <2>1. k \in 1..N /\ k < n
    BY <1>1
  <2>2. d[k] \in 1..m /\ i < d[k]
    BY <2>1 DEF HighestFirst
  <2>3. s[d[k]] \in S /\ x < s[d[k]]
    BY <1>1, <2>2 DEF Lists
  <2> QED
    BY <1>1, <2>3
<1>4. x \in T
  BY <1>2, <1>3 DEF Rest
<1>5. T \subseteq S /\ T \subseteq Uids /\ T \subseteq Nat
  BY <1>1 DEF Rest
<1>6. Below(S, x) = Below(T, x)
  <2>1. \A u \in S : u <= x => u \in T
    BY <1>1, <1>2, <1>3 DEF Rest
  <2> QED
    BY <1>5, <2>1 DEF Below
<1>7. Lists(t, Cardinality(T), T)
  BY <1>5, AscendingLists
<1>8. SameBelow(S, s, m, T, t, Cardinality(T), i)
  BY <1>1, <1>4, <1>5, <1>6, <1>7 DEF SameBelow
<1> HIDE DEF T, t
<1>9. i \in 1..Cardinality(T) /\ t[i] = x
  BY <1>8, SamePlace
<1>10. Lists(RemoveAt(t, i), Cardinality(T) - 1, T \ {x})
  <2>1. Lists(RemoveAt(t, i), Cardinality(T) - 1, T \ {t[i]})
    BY <1>5, <1>7, <1>9, RemovedLists
  <2> QED
    BY <1>9, <2>1
<1>11. T \ {x} = Rest(S, s, d, n)
  <2>1. \A k \in 1..n : k \in 1..n - 1 \/ k = n
    BY <1>1
  <2>2. \A k \in 1..n - 1 : k \in 1..n
    BY <1>1
  <2>3. n \in 1..n
    BY <1>1
  <2> QED
    BY <2>1, <2>2, <2>3 DEF Rest, T
<1>12. RemoveAt(t, i) = Ascending(T \ {x})
  BY <1>5, <1>10, ListsIs
<1> QED
  BY <1>11, <1>12 DEF T, t

\* The client that reads the numbers one after the other, the highest first, is
\* left with the messages that no number stood for at the start.
LEMMA DropAll ==
  ASSUME NEW S, S \subseteq Uids, NEW s, NEW m, Lists(s, m, S), NEW d, Len(d) \in Nat,
         HighestFirst(d, Len(d), s, m)
  PROVE  Dropped(s, d) = Ascending(Rest(S, s, d, Len(d)))
<1> DEFINE N == Len(d)
           Step(f) == [n \in 0..N |-> IF n = 0 THEN s ELSE RemoveAt(f[n - 1], d[n])]
           g == CHOOSE f : f = Step(f)
           A(n) == Ascending(Rest(S, s, d, n))
           h == [n \in 0..N |-> A(n)]
<1>1. Dropped(s, d) = g[N]
  BY DEF Dropped
<1>2. A(0) = s
  <2>1. Rest(S, s, d, 0) = S
    BY DEF Rest
  <2> QED
    BY <2>1, ListsIs
<1>3. \A n \in 1..N : RemoveAt(A(n - 1), d[n]) = A(n)
  BY DropOne
<1>4. N \in Nat
  OBVIOUS
<1> HIDE DEF A, N
<1>5. h = Step(h)
  <2>1. ASSUME NEW n \in 0..N
        PROVE  h[n] = IF n = 0 THEN s ELSE RemoveAt(h[n - 1], d[n])
    <3>1. CASE n = 0
      BY <1>2, <2>1, <3>1
    <3>2. CASE n # 0
      <4>1. n \in 1..N /\ n - 1 \in 0..N
        BY <1>4, <3>2
      <4> QED
        BY <1>3, <2>1, <3>2, <4>1
    <3> QED
      BY <3>1, <3>2
  <2> QED
    BY <2>1
<1> HIDE DEF Step, h
<1>6. g = Step(g)
  BY <1>5
<1> HIDE DEF g
<1>7. g[0] = s /\ \A n \in 1..N : g[n] = RemoveAt(g[n - 1], d[n])
  BY <1>4, <1>6 DEF Step
<1> DEFINE bad == {n \in Nat : n <= N /\ g[n] # A(n)}
<1>8. bad = {}
  <2> SUFFICES ASSUME NEW x \in bad PROVE FALSE
    OBVIOUS
  <2>1. bad \subseteq Nat
    OBVIOUS
  <2> HIDE DEF bad
  <2>2. PICK n \in bad : \A j \in bad : n <= j
    BY <2>1, LeastOf
  <2>3. n \in Nat /\ n <= N /\ g[n] # A(n)
    BY <2>2 DEF bad
  <2>4. n # 0
    BY <1>2, <1>7, <2>3
  <2>5. n \in 1..N /\ n - 1 \in Nat /\ n - 1 < n /\ n - 1 <= N
    BY <1>4, <2>3, <2>4
  <2>6. n - 1 \notin bad
    BY <2>2, <2>3, <2>5
  <2>7. g[n - 1] = A(n - 1)
    BY <2>5, <2>6 DEF bad
  <2> QED
    BY <1>3, <1>7, <2>3, <2>5, <2>7
<1>9. g[N] = A(N)
  BY <1>4, <1>8
<1> QED
  BY <1>1, <1>9 DEF A, N

\* The EXPUNGE numbers of flush_pending leave the client with what is live.
LEMMA ExpungesDrop ==
  ASSUME NEW S, S \subseteq Uids, uids = Ascending(S), NEW live
  PROVE  Dropped(uids, ExpungeNumbers(live)) = Ascending(S \cap live)
<1> DEFINE m == Cardinality(S)
           P == {i \in 1..Len(uids) : uids[i] \notin live}
           a == Ascending(P)
           N == Cardinality(P)
           d == ExpungeNumbers(live)
<1>1. Lists(uids, m, S)
  BY AscendingLists
<1>2. uids \in Seq(S) /\ Len(uids) = m /\ m \in Nat
  BY <1>1, ListsSeq
<1>3. m <= MaxUid /\ MaxUid \in Nat
  <2>1. IsFiniteSet(Uids) /\ Cardinality(Uids) = MaxUid /\ MaxUid \in Nat
    BY FS_Interval, ViewAssumption DEF Uids
  <2> QED
    BY <2>1, FS_Subset
<1>4. P \subseteq Uids /\ P \subseteq 1..m
  BY <1>2, <1>3 DEF Uids
<1> HIDE DEF m
<1>5. Lists(a, N, P)
  BY <1>4, AscendingLists
<1>6. a \in Seq(P) /\ Len(a) = N /\ N \in Nat
  BY <1>5, ListsSeq
<1>7. d = Reverse(a)
  BY DEF ExpungeNumbers, Descending
<1> HIDE DEF P, a, N, d
<1>8. d = [n \in 1..N |-> a[(N - n) + 1]]
  BY <1>6, <1>7 DEF Reverse
<1>9. Len(d) = N /\ \A n \in 1..N : d[n] = a[(N - n) + 1]
  BY <1>6, <1>8
<1>10. \A n \in 1..N : (N - n) + 1 \in 1..N
  BY <1>6
<1>11. \A n \in 1..N : a[n] \in P /\ a[n] \in 1..m
  BY <1>4, <1>5 DEF Lists
<1>12. HighestFirst(d, N, uids, m)
  <2>1. \A n \in 1..N : d[n] \in 1..m
    BY <1>9, <1>10, <1>11
  <2>2. ASSUME NEW j \in 1..N, NEW n \in 1..N, j < n
        PROVE  d[n] < d[j]
    <3>1. (N - n) + 1 < (N - j) + 1
      BY <1>6, <2>2
    <3>2. a[(N - n) + 1] < a[(N - j) + 1]
      BY <1>5, <1>10, <3>1 DEF Lists
    <3> QED
      BY <1>9, <3>2
  <2> QED
    BY <1>6, <2>1, <2>2 DEF HighestFirst
<1>13. Dropped(uids, d) = Ascending(Rest(S, uids, d, N))
  BY <1>1, <1>6, <1>9, <1>12, DropAll
<1>14. Rest(S, uids, d, N) = S \cap live
  <2>1. ASSUME NEW u \in S, u \in live, NEW k \in 1..N
        PROVE  uids[d[k]] # u
    <3>1. d[k] \in P
      BY <1>9, <1>10, <1>11
    <3> QED
      BY <2>1, <3>1 DEF P
  <2>2. ASSUME NEW u \in S, u \notin live
        PROVE  \E k \in 1..N : uids[d[k]] = u
    <3>1. PICK i \in 1..m : uids[i] = u
      BY <1>1 DEF Lists
    <3>2. i \in P
      BY <1>2, <2>2, <3>1 DEF P
    <3>3. PICK n \in 1..N : a[n] = i
      BY <1>5, <3>2 DEF Lists
    <3>4. (N - n) + 1 \in 1..N /\ (N - ((N - n) + 1)) + 1 = n
      BY <1>6
    <3>5. d[(N - n) + 1] = i
      BY <1>9, <3>3, <3>4
    <3> QED
      BY <3>1, <3>4, <3>5
  <2> QED
    BY <2>1, <2>2 DEF Rest
<1> QED
  BY <1>13, <1>14 DEF d

\* The client's list extended by the arrivals is the session's, which is what the
\* snapshot has.
LEMMA FlushAgrees ==
  ASSUME Types, InOrder, mirror = uids
  PROVE  ViewAfter(latest.live) = Ascending(latest.live) /\ MirrorAfter(latest.live) = Ascending(latest.live)
<1> DEFINE S == Range(uids)
           L == latest.live
           K == S \cap L
           k == Ascending(K)
           c == Cardinality(K)
           a == Ascending(L \ K)
           e == Cardinality(L \ K)
           new == Ascending(L)
<1>1. L \subseteq Uids /\ S \subseteq Uids /\ uids = Ascending(S) /\ Uids \subseteq Nat
  BY ViewAssumption DEF Types, InOrder, Uids
<1>2. ViewAfter(L) = new
  <2>1. K \cup (L \ K) = L
    OBVIOUS
  <2> QED
    BY <2>1 DEF ViewAfter
<1>3. Dropped(mirror, ExpungeNumbers(L)) = k
  BY <1>1, ExpungesDrop
<1>4. Lists(k, c, K) /\ Lists(a, e, L \ K) /\ Lists(new, Cardinality(L), L)
  BY <1>1, AscendingLists
<1>5. Follows(K, L \ K)
  BY DEF InOrder, Follows
<1>6. MirrorAfter(L) = IF Len(new) > Len(k) THEN k \o SubSeq(new, Len(k) + 1, Len(new)) ELSE k
  BY <1>2, <1>3 DEF MirrorAfter
<1>7. Lists(Joined(k, c, a, e), c + e, K \cup (L \ K)) /\ K \cup (L \ K) = L
  BY <1>1, <1>4, <1>5, JoinedLists
<1>8. k \in Seq(K) /\ Len(k) = c /\ c \in Nat /\ a \in Seq(L \ K) /\ Len(a) = e /\ e \in Nat
  BY <1>4, ListsSeq
<1>9. new \in Seq(L) /\ Len(new) = Cardinality(L)
  BY <1>4, ListsSeq
<1> HIDE DEF k, c, a, e, K, new
<1>10. new = Joined(k, c, a, e) /\ Len(new) = c + e
  BY <1>1, <1>4, <1>7, <1>9, ListsIs DEF new
<1>11. \A i \in 1..c : new[i] = k[i]
  BY <1>8, <1>10 DEF Joined
<1>12. MirrorAfter(L) = new
  <2>1. CASE e = 0
    <3>1. MirrorAfter(L) = k /\ Len(new) = Len(k)
      BY <1>6, <1>8, <1>10, <2>1
    <3>2. k \in Seq(L)
      BY <1>8 DEF K
    <3> QED
      BY <1>8, <1>9, <1>11, <3>1, <3>2, SeqEqual
  <2>2. CASE e # 0
    <3> DEFINE b == SubSeq(new, c + 1, c + e)
    <3>1. MirrorAfter(L) = k \o b
      BY <1>6, <1>8, <1>10, <2>2
    <3>2. \A i \in c + 1..c + e : new[i] \in L
      BY <1>8, <1>9, <1>10
    <3>3. /\ b \in Seq(L) /\ Len(b) = e
          /\ \A i \in 1..e : b[i] = new[c + i]
      <4> DEFINE lo == c + 1
                 hi == c + e
      <4>1. lo \in Int /\ hi \in Int /\ lo <= hi /\ hi - lo + 1 = e /\ b = SubSeq(new, lo, hi)
        BY <1>8, <2>2
      <4> HIDE DEF L, b
      <4>2. \A i \in lo..hi : new[i] \in L
        BY <3>2
      <4>3. \A i \in 1..e : lo + i - 1 = c + i
        BY <1>8
      <4> HIDE DEF lo, hi
      <4>4. /\ SubSeq(new, lo, hi) \in Seq(L)
            /\ Len(SubSeq(new, lo, hi)) = IF lo <= hi THEN hi - lo + 1 ELSE 0
            /\ \A i \in 1..hi - lo + 1 : SubSeq(new, lo, hi)[i] = new[lo + i - 1]
        BY <4>1, <4>2, SubSeqProperties
      <4> QED
        BY <4>1, <4>3, <4>4
    <3>4. k \in Seq(L)
      BY <1>8 DEF K
    <3> HIDE DEF b
    <3>5. /\ k \o b \in Seq(L) /\ Len(k \o b) = c + e
          /\ \A i \in 1..c + e : (k \o b)[i] = IF i <= c THEN k[i] ELSE b[i - c]
      <4>1. /\ k \o b \in Seq(L) /\ Len(k \o b) = Len(k) + Len(b)
            /\ \A i \in 1..Len(k) + Len(b) : (k \o b)[i] = IF i <= Len(k) THEN k[i] ELSE b[i - Len(k)]
        BY <3>3, <3>4, ConcatProperties
      <4> QED
        BY <1>8, <3>3, <4>1
    <3>6. \A i \in 1..c + e : ~(i <= c) => i - c \in 1..e /\ c + (i - c) = i
      BY <1>8
    <3>7. \A i \in 1..c + e : (k \o b)[i] = new[i]
      BY <1>8, <1>11, <3>3, <3>5, <3>6
    <3> QED
      BY <1>9, <1>10, <3>1, <3>5, <3>7, SeqEqual
  <2> QED
    BY <2>1, <2>2
<1> QED
  BY <1>2, <1>12 DEF new

--------------------------------------------------------------------------
(* Facts for the steps *)

LEMMA FlagFacts ==
  /\ \A u : FlagsOf(u) \in FlagSets /\ FlagsOf(u) # NotHeard
  /\ NotHeard \in FlagSets /\ Nothing \in [Uids -> FlagSets]
BY ViewAssumption DEF FlagsOf, NotHeard, Nothing, FlagSets, Words

LEMMA CommandFacts ==
  /\ IsCommand(NoCommand) /\ NoCommand.op = "none"
  /\ \A op \in Ops : IsCommand(Doing(op)) /\ Doing(op).op = op
<1>1. IsCommand(NoCommand)
  BY ViewAssumption, FlagFacts DEF NoCommand, IsCommand, Ops, FlagSets
<1>2. \A op \in Ops : IsCommand(Doing(op)) /\ Doing(op).op = op
  BY <1>1 DEF Doing, IsCommand
<1> QED
  BY <1>1, <1>2 DEF NoCommand

\* Nothing is in order.
LEMMA EmptyInOrder ==
  ASSUME NEW x, x = <<>>
  PROVE  x = Ascending(Range(x)) /\ Range(x) = {}
<1>1. Range(x) = {}
  BY DEF Range
<1>2. Lists(<<>>, 0, {})
  <2>1. <<>> \in [1..0 -> {}]
    OBVIOUS
  <2> QED
    BY <2>1 DEF Lists
<1>3. <<>> = Ascending({})
  BY <1>2, ListsIs
<1> QED
  BY <1>1, <1>3

\* A step that leaves the list, the live items and UIDNEXT alone keeps the numbers.
LEMMA NumbersStay ==
  ASSUME LiveIsIssued, Numbers, uids' = uids, mirror' = mirror, latest'.live = latest.live,
         latest'.uidnext = latest.uidnext, lapses \subseteq lapses'
  PROVE  LiveIsIssued' /\ Numbers'
BY DEF LiveIsIssued, Numbers, InOrder

\* A command begins or ends without a word.
LEMMA QuietStep ==
  ASSUME IInv, UNCHANGED <<uids, flags_seen, mirror, told, lapses>>,
         latest' \in [live : SUBSET Uids, seen : SUBSET Uids, uidnext : 1..MaxUid + 1],
         latest'.live = latest.live, latest'.uidnext = latest.uidnext,
         cmd' = cmd \/ (cmd.op # "size" /\ IsCommand(cmd') /\ cmd'.op \notin {"size", "body", "store"})
  PROVE  IInv'
<1>1. LiveIsIssued' /\ Numbers'
  BY NumbersStay DEF IInv
<1>2. Types'
  BY DEF IInv, Types
<1>3. Addressed' /\ Answered'
  BY DEF IInv, Addressed, Answered, Underway
<1>4. Heard'
  BY DEF IInv, Heard
<1> QED
  BY <1>1, <1>2, <1>3, <1>4 DEF IInv

\* What is recorded of a message and what its client takes from the answer.
LEMMA TellingStep ==
  ASSUME IInv, NEW i \in 1..MaxUid, NEW u \in 0..MaxUid, NEW f \in FlagSets, NEW g,
         Record(u, f), Tell(i, g), UNCHANGED <<uids, mirror>>,
         lapses \subseteq lapses',
         lapses' = {} => /\ i \in 1..Len(uids) /\ uids[i] = u /\ g \in {NotHeard, f}
                         /\ cmd.op = "size" => cmd.uid = u,
         latest' \in [live : SUBSET Uids, seen : SUBSET Uids, uidnext : 1..MaxUid + 1],
         latest'.live = latest.live, latest'.uidnext = latest.uidnext,
         IsCommand(cmd') /\ cmd'.op \notin {"size", "body", "store"}
  PROVE  IInv'
<1>1. LiveIsIssued' /\ Numbers'
  BY NumbersStay DEF IInv
<1>2. flags_seen' \in [Uids -> FlagSets]
  BY DEF IInv, Types, Record
<1>a. lapses' = {} => told' \in [Uids -> FlagSets]
  BY FlagFacts DEF IInv, Types, Tell
<1>3. Types'
  BY <1>2, <1>a DEF Types
<1>4. Addressed' /\ Answered'
  BY DEF Addressed, Answered, Underway
<1>5. Heard'
  <2> SUFFICES ASSUME lapses' = {}, NEW w \in Uids
               PROVE  /\ w \notin Range(uids) => told'[w] = NotHeard
                      /\ told'[w] \in {NotHeard, flags_seen'[w]}
    BY DEF Heard
  <2>1. lapses = {} /\ i \in 1..Len(uids) /\ uids[i] = u /\ g \in {NotHeard, f}
    OBVIOUS
  <2>2. mirror = uids /\ uids = Ascending(Range(uids)) /\ Range(uids) \subseteq Uids
    BY <2>1 DEF IInv, Numbers, InOrder
  <2>3. uids \in Seq(Range(uids))
    BY <2>2, AscendingLists, ListsSeq
  <2>4. u \in Range(uids)
    <3>1. DOMAIN uids = 1..Len(uids)
      BY <2>3
    <3> QED
      BY <2>1, <3>1 DEF Range
  <2>5. flags_seen' = [flags_seen EXCEPT ![u] = f] /\ told' = [told EXCEPT ![u] = g]
    <3>1. i <= Len(mirror) /\ mirror[i] = u
      BY <2>1, <2>2, <2>3
    <3> QED
      BY <3>1 DEF Record, Tell
  <2>6. flags_seen \in [Uids -> FlagSets] /\ told \in [Uids -> FlagSets]
    BY <2>1 DEF IInv, Types
  <2>7. CASE w = u
    <3>1. flags_seen'[w] = f /\ told'[w] = g
      BY <2>5, <2>6, <2>7
    <3> QED
      BY <2>1, <2>4, <2>7, <3>1
  <2>8. CASE w # u
    <3>1. flags_seen'[w] = flags_seen[w] /\ told'[w] = told[w]
      BY <2>5, <2>6, <2>8
    <3>2. /\ w \notin Range(uids) => told[w] = NotHeard
          /\ told[w] \in {NotHeard, flags_seen[w]} \/ (cmd.op = "size" /\ cmd.uid = w)
      BY <2>1 DEF IInv, Heard
    <3>3. ~(cmd.op = "size" /\ cmd.uid = w)
      BY <2>8
    <3> QED
      BY <3>1, <3>2, <3>3
  <2> QED
    BY <2>7, <2>8
<1> QED
  BY <1>1, <1>3, <1>4, <1>5 DEF IInv

--------------------------------------------------------------------------
(* The steps *)

LEMMA ListingStep ==
  ASSUME IInv, ListingLands
  PROVE  IInv'
<1>1. PICK kept \in SUBSET latest.live, next \in latest.uidnext..MaxUid + 1 :
        \E seen \in IF "seen" \in Flags THEN SUBSET (kept \cup latest.uidnext..next - 1) ELSE {{}} :
          latest' = [live |-> kept \cup latest.uidnext..next - 1, seen |-> seen, uidnext |-> next]
  BY DEF ListingLands
<1>2. PICK seen \in SUBSET (kept \cup latest.uidnext..next - 1) :
        latest' = [live |-> kept \cup latest.uidnext..next - 1, seen |-> seen, uidnext |-> next]
  BY <1>1
<1>3. UNCHANGED <<uids, flags_seen, cmd, mirror, told, lapses>>
  BY DEF ListingLands, view, client
<1>4. latest.live \subseteq Uids /\ latest.uidnext \in 1..MaxUid + 1 /\ MaxUid \in Nat
  BY ViewAssumption DEF IInv, Types
<1>5. latest'.live = kept \cup latest.uidnext..next - 1 /\ latest'.uidnext = next
  BY <1>2
<1>6. next \in 1..MaxUid + 1 /\ latest'.live \subseteq Uids
  BY <1>4, <1>5 DEF Uids
<1>7. Types'
  BY <1>2, <1>3, <1>5, <1>6 DEF IInv, Types
<1>8. \A u \in latest'.live : u \in latest.live \/ (u \in Nat /\ u >= latest.uidnext /\ u < next)
  BY <1>4, <1>5
<1>9. LiveIsIssued'
  BY <1>4, <1>5, <1>8 DEF IInv, LiveIsIssued, Uids
<1>10. Numbers'
  <2> SUFFICES ASSUME "removal_fails" \notin lapses
               PROVE  mirror' = uids' /\ InOrder'
    BY <1>3 DEF Numbers
  <2>1. mirror = uids /\ InOrder
    BY DEF IInv, Numbers
  <2>2. \A u \in Range(uids) : u \in Nat /\ u < latest.uidnext
    BY <1>4, <2>1 DEF InOrder, Uids
  <2>3. \A u \in Range(uids) : u < next
    BY <1>4, <2>2
  <2>4. \A u \in latest'.live \ Range(uids), w \in Range(uids) : w < u
    BY <1>4, <1>8, <2>1, <2>2 DEF InOrder
  <2> QED
    BY <1>3, <1>5, <2>1, <2>3, <2>4 DEF InOrder
<1>11. Addressed' /\ Answered' /\ Heard'
  BY <1>3 DEF IInv, Addressed, Underway, Answered, Heard
<1> QED
  BY <1>7, <1>9, <1>10, <1>11 DEF IInv

LEMMA OthersStep ==
  ASSUME IInv, NEW u \in Uids, OtherSetsSeen(u) \/ OtherSetsDeleted(u)
  PROVE  IInv'
<1>1. UNCHANGED <<uids, flags_seen, cmd, mirror, told, lapses>>
  BY DEF OtherSetsSeen, OtherSetsDeleted, view, client
<1>2. /\ latest' \in [live : SUBSET Uids, seen : SUBSET Uids, uidnext : 1..MaxUid + 1]
      /\ latest'.live = latest.live /\ latest'.uidnext = latest.uidnext
  BY DEF IInv, Types, OtherSetsSeen, OtherSetsDeleted
<1> QED
  BY <1>1, <1>2, QuietStep

\* The mailbox is deselected.
LEMMA DeselectStep ==
  ASSUME IInv, Deselect, UNCHANGED shared, IsCommand(cmd'),
         cmd'.op \notin {"size", "body", "store"}
  PROVE  IInv'
<1>1. /\ uids' = <<>> /\ flags_seen' = Nothing /\ mirror' = <<>> /\ told' = Nothing
      /\ latest' = latest
  BY DEF Deselect, shared
<1>2. uids' = Ascending(Range(uids')) /\ Range(uids') = {}
  BY <1>1, EmptyInOrder
<1>3. Types'
  BY <1>1, FlagFacts DEF IInv, Types
<1>4. LiveIsIssued' /\ Numbers'
  BY <1>1, <1>2 DEF IInv, LiveIsIssued, Numbers, InOrder
<1>5. Addressed' /\ Answered'
  BY DEF Addressed, Underway, Answered
<1>6. Heard'
  BY <1>1 DEF Heard, Nothing
<1> QED
  BY <1>3, <1>4, <1>5, <1>6 DEF IInv

LEMMA SelectDoneStep ==
  ASSUME IInv, SelectDone
  PROVE  IInv'
<1>1. /\ uids' = Ascending(latest.live) /\ mirror' = uids' /\ told' = Nothing /\ cmd' = NoCommand
      /\ flags_seen' = [u \in Uids |-> IF u \in latest.live THEN FlagsOf(u) ELSE NotHeard]
      /\ latest' = latest
  BY DEF SelectDone, shared
<1>2. latest.live \subseteq Uids /\ \A u \in latest.live : u < latest.uidnext
  BY DEF IInv, Types, LiveIsIssued
<1>3. Range(uids') = latest.live
  BY <1>1, <1>2, AscendingLists, ListsSeq
<1>4. Types'
  BY <1>1, FlagFacts, CommandFacts DEF IInv, Types
<1>5. LiveIsIssued' /\ Numbers'
  BY <1>1, <1>2, <1>3 DEF LiveIsIssued, Numbers, InOrder
<1>6. Addressed' /\ Answered'
  BY <1>1, CommandFacts DEF Addressed, Underway, Answered
<1>7. Heard'
  BY <1>1 DEF Heard, Nothing
<1> QED
  BY <1>4, <1>5, <1>6, <1>7 DEF IInv

\* What a flush leaves the client with: the messages of the snapshot, and of each
\* nothing or its present flags.
LEMMA FlushTells ==
  ASSUME IInv, FlushPending, UNCHANGED shared, lapses = {}, cmd.op # "size"
  PROVE  \A u \in Uids :
           /\ u \notin Range(uids') => told'[u] = NotHeard
           /\ u \in latest.live => told'[u] \in {NotHeard, FlagsOf(u)}
<1>1. mirror = uids /\ InOrder /\ Types
  BY DEF IInv, Numbers
<1>2. uids' = Ascending(latest.live) /\ mirror' = uids'
  BY <1>1, FlushAgrees DEF FlushPending
<1>3. latest.live \subseteq Uids
  BY <1>1 DEF Types
<1>4. Range(uids') = latest.live /\ uids' \in Seq(latest.live)
  BY <1>2, <1>3, AscendingLists, ListsSeq
<1> SUFFICES ASSUME NEW u \in Uids
             PROVE  /\ u \notin Range(uids') => told'[u] = NotHeard
                    /\ u \in latest.live => told'[u] \in {NotHeard, FlagsOf(u)}
  OBVIOUS
<1> DEFINE said == {i \in 1..Len(uids') : uids'[i] = u /\ Announced(uids'[i])}
<1>5. told'[u] = IF u \notin Range(uids') THEN NotHeard
                 ELSE IF said = {} THEN told[u] ELSE FlagsOf(uids'[CHOOSE i \in said : TRUE])
  BY <1>2 DEF FlushPending
<1>6. CASE u \in latest.live
  <2>1. CASE said = {}
    <3>1. PICK i \in 1..Len(uids') : uids'[i] = u
      <4>1. DOMAIN uids' = 1..Len(uids')
        BY <1>4
      <4> QED
        BY <1>4, <1>6, <4>1 DEF Range
    <3>2. ~Announced(u)
      BY <2>1, <3>1
    <3>3. flags_seen[u] = NotHeard \/ flags_seen[u] = FlagsOf(u)
      BY <3>2 DEF Announced
    <3>4. told[u] \in {NotHeard, flags_seen[u]}
      BY DEF IInv, Heard
    <3> QED
      BY <1>4, <1>5, <1>6, <2>1, <3>3, <3>4
  <2>2. CASE said # {}
    <3> DEFINE j == CHOOSE i \in said : TRUE
    <3>1. j \in said
      BY <2>2
    <3>2. uids'[j] = u
      BY <3>1
    <3>3. told'[u] = FlagsOf(u)
      BY <1>4, <1>5, <1>6, <2>2, <3>2
    <3> QED
      BY <1>4, <1>6, <3>3
  <2> QED
    BY <2>1, <2>2
<1>7. CASE u \notin latest.live
  BY <1>4, <1>5, <1>7
<1> QED
  BY <1>6, <1>7

LEMMA FlushStep ==
  ASSUME IInv, FlushCommand
  PROVE  IInv'
<1>1. /\ cmd.op \in {"noop", "expunge", "move", "append"} /\ cmd' = NoCommand
      /\ latest' = latest /\ marks' = marks /\ lapses' = lapses
  BY DEF FlushCommand, shared
<1>2. CASE state = "selected"
  <2>1. FlushPending
    BY <1>2 DEF FlushCommand
  <2>2. latest.live \subseteq Uids /\ latest \in [live : SUBSET Uids, seen : SUBSET Uids, uidnext : 1..MaxUid + 1]
    BY DEF IInv, Types
  <2>3. /\ uids' = ViewAfter(latest.live) /\ mirror' = MirrorAfter(latest.live)
        /\ flags_seen' = [u \in Uids |-> IF u \in Range(uids') THEN FlagsOf(u) ELSE NotHeard]
    BY <2>1 DEF FlushPending
  <2>4. "removal_fails" \notin lapses => uids' = Ascending(latest.live) /\ mirror' = uids'
    BY <2>3, FlushAgrees DEF IInv, Numbers
  <2>5. Ascending(latest.live) = Ascending(Range(Ascending(latest.live)))
        /\ Range(Ascending(latest.live)) = latest.live
    BY <2>2, AscendingLists, ListsSeq
  <2>6. lapses = {} => told' \in [Uids -> FlagSets]
    <3> SUFFICES ASSUME lapses = {} PROVE told' \in [Uids -> FlagSets]
      OBVIOUS
    <3> DEFINE Said(u) == {i \in 1..Len(uids') : mirror'[i] = u /\ Announced(uids'[i])}
               New(u) == IF u \notin Range(mirror') THEN NotHeard
                         ELSE IF Said(u) = {} THEN told[u]
                              ELSE FlagsOf(uids'[CHOOSE i \in Said(u) : TRUE])
    <3>1. told' = [u \in Uids |-> New(u)]
      BY <2>1 DEF FlushPending
    <3>2. \A u \in Uids : New(u) \in FlagSets
      BY FlagFacts DEF IInv, Types
    <3> HIDE DEF New
    <3> QED
      BY <3>1, <3>2
  <2>7. flags_seen' \in [Uids -> FlagSets]
    BY <2>3, FlagFacts
  <2>8. Types'
    BY <1>1, <2>2, <2>6, <2>7, CommandFacts DEF Types
  <2>9. LiveIsIssued' /\ Numbers'
    BY <1>1, <2>2, <2>4, <2>5 DEF IInv, LiveIsIssued, Numbers, InOrder
  <2>10. Addressed' /\ Answered'
    BY <1>1, CommandFacts DEF Addressed, Underway, Answered
  <2>11. Heard'
    <3> SUFFICES ASSUME lapses = {}, NEW u \in Uids
                 PROVE  /\ u \notin Range(uids') => told'[u] = NotHeard
                        /\ told'[u] \in {NotHeard, flags_seen'[u]}
      BY <1>1 DEF Heard
    <3>1. /\ u \notin Range(uids') => told'[u] = NotHeard
          /\ u \in latest.live => told'[u] \in {NotHeard, FlagsOf(u)}
      <4>1. UNCHANGED shared /\ cmd.op # "size"
        BY <1>1 DEF shared
      <4> QED
        BY <2>1, <4>1, FlushTells
    <3>2. Range(uids') = latest.live
      BY <2>4, <2>5
    <3>3. flags_seen'[u] = IF u \in Range(uids') THEN FlagsOf(u) ELSE NotHeard
      BY <2>3
    <3> QED
      BY <3>1, <3>2, <3>3
  <2> QED
    BY <2>8, <2>9, <2>10, <2>11 DEF IInv
<1>3. CASE state # "selected"
  <2>1. UNCHANGED <<uids, flags_seen, mirror, told, lapses>>
    BY <1>1, <1>3 DEF FlushCommand, view, client
  <2> QED
    BY <1>1, <2>1, CommandFacts, QuietStep DEF IInv, Types
<1> QED
  BY <1>2, <1>3

\* A command begins, or fails.
LEMMA BeginStep ==
  ASSUME IInv, Noop \/ Expunge \/ Move \/ AppendDraft \/ Close
  PROVE  IInv'
<1>1. PICK op \in {"noop", "expunge", "move", "append", "close"} : Begin(op) /\ cmd = NoCommand
  BY DEF Noop, Expunge, Move, AppendDraft, Close, Selected, Idle
<1>2. UNCHANGED <<latest, uids, flags_seen, mirror, told, lapses>> /\ cmd' = Doing(op)
  BY <1>1 DEF Begin, shared, view, client
<1>3. IsCommand(cmd') /\ cmd'.op = op /\ cmd.op = "none"
  BY <1>1, <1>2, CommandFacts DEF Ops
<1> QED
  BY <1>2, <1>3, QuietStep DEF IInv, Types

LEMMA CommandFailsStep ==
  ASSUME IInv, CommandFails
  PROVE  IInv'
<1>1. UNCHANGED <<latest, uids, flags_seen, mirror, told, lapses>> /\ cmd' = NoCommand /\ cmd.op # "size"
  BY DEF CommandFails, shared, view, client
<1> QED
  BY <1>1, CommandFacts, QuietStep DEF IInv, Types

LEMMA SelectStep ==
  ASSUME IInv, Select("select") \/ Select("examine") \/ CloseAtOnce \/ CloseDone
  PROVE  IInv'
<1>1. Deselect /\ UNCHANGED shared
  BY DEF Select, CloseAtOnce, CloseDone
<1>2. cmd' \in {Doing("select"), Doing("examine"), NoCommand}
  BY DEF Select, CloseAtOnce, CloseDone, Selected, Idle
<1>3. IsCommand(cmd') /\ cmd'.op \notin {"size", "body", "store"}
  BY <1>2, CommandFacts DEF Ops
<1> QED
  BY <1>1, <1>3, DeselectStep

\* A refused CLOSE keeps the numbers, or is a lapse.
LEMMA CloseRefusedStep ==
  ASSUME IInv, CloseRefused
  PROVE  IInv'
<1>1. /\ UNCHANGED <<latest, flags_seen, mirror, told>> /\ cmd' = NoCommand /\ cmd.op = "close"
      /\ Lapse("removal_fails", uids' # uids)
  BY DEF CloseRefused, shared, client
<1>2. CASE uids' = uids
  <2>1. lapses' = lapses
    BY <1>1, <1>2 DEF Lapse
  <2> QED
    BY <1>1, <1>2, <2>1, CommandFacts, QuietStep DEF IInv, Types
<1>3. CASE uids' # uids
  <2>1. "removal_fails" \in lapses'
    BY <1>1, <1>3 DEF Lapse
  <2>2. Types' /\ LiveIsIssued'
    BY <1>1, <2>1, CommandFacts DEF IInv, Types, LiveIsIssued
  <2> QED
    BY <2>1, <2>2 DEF IInv, Numbers, Addressed, Answered, Heard
<1> QED
  BY <1>2, <1>3

\* The item that a number names.
LEMMA TargetFacts ==
  ASSUME IInv, NEW i \in 1..MaxUid, Target(i)
  PROVE  /\ uids[i] \in Uids /\ uids[i] \in 0..MaxUid /\ cmd.op = "none"
         /\ i \in 1..Len(uids) /\ i \in 0..MaxUid
<1>1. i \in 1..Len(uids) /\ uids[i] \in latest.live /\ cmd = NoCommand
  BY DEF Target, Selected, Idle
<1>2. uids[i] \in Uids
  BY <1>1 DEF IInv, Types
<1> QED
  BY <1>1, <1>2, CommandFacts, ViewAssumption DEF Uids

LEMMA FetchFlagsStep ==
  ASSUME IInv, NEW i \in 1..MaxUid, FetchFlags(i)
  PROVE  IInv'
<1>1. /\ Record(uids[i], FlagsOf(uids[i])) /\ Tell(i, FlagsOf(uids[i])) /\ Target(i)
      /\ UNCHANGED <<latest, uids, cmd, mirror, lapses>>
  BY DEF FetchFlags, shared
<1>2. uids[i] \in 0..MaxUid /\ i \in 1..Len(uids) /\ cmd.op = "none"
  BY <1>1, TargetFacts
<1> DEFINE u == uids[i]
           f == FlagsOf(u)
<1>3. f \in FlagSets /\ Record(u, f) /\ Tell(i, f) /\ u \in 0..MaxUid /\ uids[i] = u
  BY <1>1, <1>2, FlagFacts
<1>4. latest' \in [live : SUBSET Uids, seen : SUBSET Uids, uidnext : 1..MaxUid + 1] /\ IsCommand(cmd')
  BY <1>1 DEF IInv, Types
<1> HIDE DEF u, f
<1> QED
  BY <1>1, <1>2, <1>3, <1>4, TellingStep

\* A FETCH of flags and size records the flags; one of a body, or a STORE that has to
\* go upstream, only keeps in mind what it will answer.
LEMMA AwaitStep ==
  ASSUME IInv, NEW i \in 1..MaxUid, Target(i), UNCHANGED <<latest, uids, mirror, told>>,
         lapses \subseteq lapses', IsCommand(cmd'), cmd'.seq = i, cmd'.uid = uids[i],
         \/ cmd'.op = "size" /\ Record(uids[i], cmd'.flags)
         \/ cmd'.op = "body" /\ UNCHANGED flags_seen
         \/ /\ cmd'.op = "store" /\ UNCHANGED flags_seen
            /\ lapses' = {} => cmd'.answer \in {NotHeard, cmd'.flags}
  PROVE  IInv'
<1>1. uids[i] \in Uids /\ i \in 1..Len(uids) /\ cmd.op = "none"
  BY TargetFacts
<1>2. LiveIsIssued' /\ Numbers'
  BY NumbersStay DEF IInv
<1>3. flags_seen \in [Uids -> FlagSets] /\ cmd'.flags \in FlagSets
  BY DEF IInv, Types, IsCommand
<1>4. flags_seen' \in [Uids -> FlagSets] /\ \A w \in Uids : w # uids[i] => flags_seen'[w] = flags_seen[w]
  BY <1>3 DEF Record
<1>5. Types'
  BY <1>4 DEF IInv, Types
<1>6. Addressed'
  BY <1>1 DEF Addressed
<1>7. Answered'
  BY <1>1, <1>3 DEF Answered, Record
<1>8. Heard'
  <2> SUFFICES ASSUME lapses' = {}, NEW w \in Uids
               PROVE  /\ w \notin Range(uids) => told[w] = NotHeard
                      /\ told[w] \in {NotHeard, flags_seen'[w]} \/ (cmd'.op = "size" /\ cmd'.uid = w)
    BY DEF Heard
  <2>1. /\ w \notin Range(uids) => told[w] = NotHeard
        /\ told[w] \in {NotHeard, flags_seen[w]}
    BY <1>1 DEF IInv, Heard
  <2>2. CASE cmd'.op = "size" /\ w = uids[i]
    BY <2>1, <2>2
  <2>3. CASE ~(cmd'.op = "size" /\ w = uids[i])
    <3>1. flags_seen'[w] = flags_seen[w]
      BY <1>4, <2>3
    <3> QED
      BY <2>1, <3>1
  <2> QED
    BY <2>2, <2>3
<1> QED
  BY <1>2, <1>5, <1>6, <1>7, <1>8 DEF IInv

LEMMA FetchAwaits ==
  ASSUME IInv, NEW i \in 1..MaxUid, FetchSize(i) \/ FetchBody(i)
  PROVE  IInv'
<1>1. Target(i) /\ UNCHANGED <<latest, uids, mirror, told, lapses>>
  BY DEF FetchSize, FetchBody, shared, view, client
<1>2. uids[i] \in 0..MaxUid /\ i \in 0..MaxUid
  BY <1>1, TargetFacts, ViewAssumption
<1> DEFINE f == IF FetchSize(i) THEN FlagsOf(uids[i]) ELSE FlagsOf(uids[i]) \cup {"seen"}
<1>3. f \in FlagSets
  BY FlagFacts DEF FlagSets, Words
<1>4. \/ /\ cmd' = [Doing("size") EXCEPT !.seq = i, !.uid = uids[i], !.flags = f]
         /\ Record(uids[i], f)
      \/ /\ cmd' = [Doing("body") EXCEPT !.seq = i, !.uid = uids[i], !.flags = f]
         /\ UNCHANGED flags_seen
  BY DEF FetchSize, FetchBody, view
<1> HIDE DEF f
<1>5. IsCommand(Doing("size")) /\ Doing("size").op = "size"
      /\ IsCommand(Doing("body")) /\ Doing("body").op = "body"
  BY CommandFacts DEF Ops
<1>6. /\ IsCommand(cmd') /\ cmd'.seq = i /\ cmd'.uid = uids[i] /\ cmd'.flags = f
      /\ \/ cmd'.op = "size" /\ Record(uids[i], f)
         \/ cmd'.op = "body" /\ UNCHANGED flags_seen
  BY <1>2, <1>3, <1>4, <1>5 DEF IsCommand
<1> QED
  BY <1>1, <1>6, AwaitStep

\* A command under way has a number and a UID.
LEMMA UnderwayFacts ==
  ASSUME IInv, Underway
  PROVE  /\ cmd.uid \in 0..MaxUid /\ cmd.flags \in FlagSets
         /\ cmd.seq \in 0..MaxUid
         /\ lapses = {} => cmd.seq \in 1..Len(uids) /\ uids[cmd.seq] = cmd.uid
BY DEF IInv, Types, IsCommand, Addressed

\* A response is written for the command under way.
LEMMA AnswerStep ==
  ASSUME IInv, Underway, NEW g, lapses = {} => g \in {NotHeard, cmd.flags},
         Record(cmd.uid, cmd.flags), Tell(cmd.seq, g), UNCHANGED <<uids, mirror, lapses>>,
         latest' \in [live : SUBSET Uids, seen : SUBSET Uids, uidnext : 1..MaxUid + 1],
         latest'.live = latest.live, latest'.uidnext = latest.uidnext,
         cmd' = NoCommand
  PROVE  IInv'
<1>1. /\ cmd.uid \in 0..MaxUid /\ cmd.flags \in FlagSets /\ cmd.seq \in 0..MaxUid
      /\ lapses = {} => cmd.seq \in 1..Len(uids) /\ uids[cmd.seq] = cmd.uid
  BY UnderwayFacts
<1>2. LiveIsIssued' /\ Numbers'
  BY NumbersStay DEF IInv
<1>3. CASE lapses # {}
  <2>1. flags_seen' \in [Uids -> FlagSets]
    BY <1>1 DEF IInv, Types, Record
  <2>2. Types'
    BY <1>3, <2>1, CommandFacts DEF Types
  <2> QED
    BY <1>2, <1>3, <2>2 DEF IInv, Addressed, Answered, Heard
<1>4. CASE lapses = {}
  <2>1. cmd.seq \in 1..MaxUid
    BY <1>1, <1>4, ViewAssumption
  <2>2. IsCommand(cmd') /\ cmd'.op \notin {"size", "body", "store"}
    BY CommandFacts
  <2> QED
    BY <1>1, <1>4, <2>1, <2>2, TellingStep
<1> QED
  BY <1>3, <1>4

LEMMA SizeArrivesStep ==
  ASSUME IInv, SizeArrives
  PROVE  IInv'
<1>1. /\ cmd.op = "size" /\ Underway /\ Tell(cmd.seq, cmd.flags) /\ cmd' = NoCommand
      /\ UNCHANGED <<latest, uids, flags_seen, mirror, lapses>>
  BY DEF SizeArrives, Underway, shared, view
<1>2. /\ cmd.uid \in 0..MaxUid /\ cmd.flags \in FlagSets /\ cmd.seq \in 0..MaxUid
  BY <1>1, UnderwayFacts
<1>3. flags_seen \in [Uids -> FlagSets]
      /\ latest \in [live : SUBSET Uids, seen : SUBSET Uids, uidnext : 1..MaxUid + 1]
  BY DEF IInv, Types
<1>4. CASE lapses # {}
  <2>2. Types'
    BY <1>1, <1>3, <1>4, CommandFacts DEF Types
  <2>3. LiveIsIssued' /\ Numbers'
    BY <1>1, NumbersStay DEF IInv
  <2> QED
    BY <1>1, <1>4, <2>2, <2>3 DEF IInv, Addressed, Answered, Heard
<1>5. CASE lapses = {}
  <2>1. flags_seen[cmd.uid] = cmd.flags
    BY <1>1, <1>5 DEF IInv, Answered
  <2>2. Record(cmd.uid, cmd.flags)
    BY <1>1, <1>3, <2>1 DEF Record
  <2> QED
    BY <1>1, <1>2, <1>3, <2>2, AnswerStep
<1> QED
  BY <1>4, <1>5

\* When the size cannot be had, the client has the recorded flags already, or it is a
\* lapse.
LEMMA FetchFailsStep ==
  ASSUME IInv, FetchFails
  PROVE  IInv'
<1>1. /\ cmd.op = "size" /\ Underway /\ cmd' = NoCommand
      /\ Lapse("fetch_fails", Misinformed(cmd.seq, cmd.flags))
      /\ UNCHANGED <<latest, uids, flags_seen, mirror, told>>
  BY DEF FetchFails, Underway, shared, view, client
<1>2. lapses \subseteq lapses'
  BY <1>1 DEF Lapse
<1>3. LiveIsIssued' /\ Numbers'
  BY <1>1, <1>2, NumbersStay DEF IInv
<1>4. Types'
  BY <1>1, <1>2, CommandFacts DEF IInv, Types
<1>5. Addressed' /\ Answered'
  BY <1>1, CommandFacts DEF Addressed, Answered, Underway
<1>6. Heard'
  <2> SUFFICES ASSUME lapses' = {}, NEW w \in Uids
               PROVE  /\ w \notin Range(uids) => told[w] = NotHeard
                      /\ told[w] \in {NotHeard, flags_seen[w]}
    BY <1>1 DEF Heard
  <2>1. lapses = {} /\ ~Misinformed(cmd.seq, cmd.flags)
    BY <1>1, <1>2 DEF Lapse
  <2>2. cmd.seq \in 1..Len(uids) /\ uids[cmd.seq] = cmd.uid /\ mirror = uids
    BY <1>1, <2>1 DEF IInv, Addressed, Numbers
  <2>3. uids = Ascending(Range(uids)) /\ Range(uids) \subseteq Uids
    BY <2>1 DEF IInv, Numbers, InOrder
  <2>4. Len(uids) \in Nat
    BY <2>3, AscendingLists, ListsSeq
  <2>5. told[cmd.uid] \in {NotHeard, cmd.flags} /\ flags_seen[cmd.uid] = cmd.flags
    BY <1>1, <2>1, <2>2, <2>4 DEF IInv, Misinformed, Answered
  <2>6. /\ w \notin Range(uids) => told[w] = NotHeard
        /\ told[w] \in {NotHeard, flags_seen[w]} \/ cmd.uid = w
    BY <2>1 DEF IInv, Heard
  <2> QED
    BY <2>5, <2>6
<1> QED
  BY <1>3, <1>4, <1>5, <1>6 DEF IInv

LEMMA PatchKeeps ==
  ASSUME IInv, NEW u, NEW value, PatchSeen(u, value)
  PROVE  /\ latest' \in [live : SUBSET Uids, seen : SUBSET Uids, uidnext : 1..MaxUid + 1]
         /\ latest'.live = latest.live /\ latest'.uidnext = latest.uidnext
<1>1. latest \in [live : SUBSET Uids, seen : SUBSET Uids, uidnext : 1..MaxUid + 1]
  BY DEF IInv, Types
<1> DEFINE n == IF u \notin latest.live THEN latest.seen
                ELSE IF value THEN latest.seen \cup {u} ELSE latest.seen \ {u}
<1>2. n \in SUBSET Uids
  BY <1>1
<1>3. latest' = [latest EXCEPT !.seen = n]
  BY DEF PatchSeen
<1> HIDE DEF n
<1> QED
  BY <1>1, <1>2, <1>3

LEMMA BodyArrivesStep ==
  ASSUME IInv, BodyArrives
  PROVE  IInv'
<1>1. /\ Underway /\ PatchSeen(cmd.uid, TRUE) /\ Record(cmd.uid, cmd.flags)
      /\ Tell(cmd.seq, cmd.flags) /\ cmd' = NoCommand /\ UNCHANGED <<uids, mirror, lapses>>
  BY DEF BodyArrives, Underway
<1>2. cmd.flags \in FlagSets
  BY <1>1, UnderwayFacts
<1> QED
  BY <1>1, <1>2, PatchKeeps, AnswerStep

LEMMA StoreDoneStep ==
  ASSUME IInv, StoreDone
  PROVE  IInv'
<1>1. /\ cmd.op = "store" /\ Underway /\ PatchSeen(cmd.uid, "seen" \in cmd.flags)
      /\ Record(cmd.uid, cmd.flags)
      /\ Tell(cmd.seq, cmd.answer) /\ cmd' = NoCommand /\ UNCHANGED <<uids, mirror, lapses>>
  BY DEF StoreDone, Underway
<1>2. lapses = {} => cmd.answer \in {NotHeard, cmd.flags}
  BY <1>1 DEF IInv, Answered
<1> QED
  BY <1>1, <1>2, PatchKeeps, AnswerStep

LEMMA WantedType ==
  ASSUME NEW current \in FlagSets, NEW mode \in {"+", "-", ""}, NEW flags \in SUBSET Flags
  PROVE  Wanted(current, mode, flags) \in FlagSets
<1>1. flags \in FlagSets
  BY ViewAssumption DEF FlagSets, Words
<1>2. current \cup flags \in FlagSets /\ current \ flags \in FlagSets
  BY <1>1 DEF FlagSets
<1>3. /\ Wanted(current, "+", flags) = current \cup flags
      /\ Wanted(current, "-", flags) = current \ flags
      /\ Wanted(current, "", flags) = flags
  BY DEF Wanted
<1> QED
  BY <1>1, <1>2, <1>3

LEMMA StoreStep ==
  ASSUME IInv, NEW i \in 1..MaxUid, NEW mode \in {"+", "-", ""}, NEW flags \in SUBSET Flags,
         NEW silent \in BOOLEAN, Store(i, mode, flags, silent)
  PROVE  IInv'
<1> DEFINE u == uids[i]
           current == FlagsOf(u)
           wanted == Wanted(current, mode, flags)
           taken == Taken(i, mode, flags, silent)
           mk == ("deleted" \in current) # ("deleted" \in wanted)
<1>1. Target(i) /\ Lapse("silent", taken \notin {NotHeard, wanted})
  BY DEF Store
<1>2. u \in 0..MaxUid /\ u \in Uids /\ i \in 1..Len(uids) /\ i \in 0..MaxUid /\ cmd.op = "none"
  BY <1>1, TargetFacts
<1>3. wanted \in FlagSets
  BY FlagFacts, WantedType
<1>4. lapses \subseteq lapses' /\ (lapses' = {} => taken \in {NotHeard, wanted})
  BY <1>1 DEF Lapse
<1>5. CASE "seen" \in (current \ wanted) \cup (wanted \ current)
  <2>1. /\ cmd' = [op |-> "store", seq |-> i, uid |-> u, flags |-> wanted, marking |-> mk,
                   answer |-> taken]
        /\ UNCHANGED <<latest, uids, flags_seen, mirror, told>>
    BY <1>5 DEF Store, shared, view, client
  <2>2. mk \in BOOLEAN
    <3>1. mk = TRUE \/ mk = FALSE
      OBVIOUS
    <3> QED
      BY <3>1
  <2> HIDE DEF wanted, taken, mk, current, u
  <2>3. "store" \in Ops
    BY DEF Ops
  <2>4. /\ IsCommand(cmd') /\ cmd'.op = "store" /\ cmd'.seq = i /\ cmd'.uid = u
        /\ cmd'.flags = wanted /\ cmd'.answer = taken
    BY <1>2, <1>3, <2>1, <2>2, <2>3 DEF IsCommand
  <2> QED
    BY <1>1, <1>4, <2>1, <2>4, AwaitStep DEF u
<1>6. CASE ~("seen" \in (current \ wanted) \cup (wanted \ current))
  <2>1. /\ Record(u, wanted) /\ Tell(i, taken)
        /\ UNCHANGED <<latest, uids, cmd, mirror>>
    BY <1>6 DEF Store
  <2>2. latest' \in [live : SUBSET Uids, seen : SUBSET Uids, uidnext : 1..MaxUid + 1]
        /\ IsCommand(cmd')
    BY <2>1 DEF IInv, Types
  <2> HIDE DEF wanted, taken, mk, current
  <2>3. u = uids[i]
    OBVIOUS
  <2> HIDE DEF u
  <2> QED
    BY <1>2, <1>3, <1>4, <2>1, <2>2, <2>3, TellingStep
<1> QED
  BY <1>5, <1>6

--------------------------------------------------------------------------
(* The theorems *)

LEMMA InvInit ==
  ASSUME Init
  PROVE  IInv
<1>1. /\ latest = [live |-> {}, seen |-> {}, uidnext |-> 1] /\ uids = <<>> /\ flags_seen = Nothing
      /\ cmd = NoCommand /\ mirror = <<>> /\ told = Nothing
  BY DEF Init
<1>2. uids = Ascending(Range(uids)) /\ Range(uids) = {}
  BY <1>1, EmptyInOrder
<1>3. 1 \in 1..MaxUid + 1
  BY ViewAssumption
<1>4. Types
  BY <1>1, <1>3, FlagFacts, CommandFacts DEF Types
<1>5. LiveIsIssued /\ Numbers
  BY <1>1, <1>2 DEF LiveIsIssued, Numbers, InOrder
<1>6. Addressed /\ Answered
  BY <1>1, CommandFacts DEF Addressed, Underway, Answered
<1>7. Heard
  BY <1>1 DEF Heard, Nothing
<1> QED
  BY <1>4, <1>5, <1>6, <1>7 DEF IInv

LEMMA InvStep ==
  ASSUME IInv, [Next]_vars
  PROVE  IInv'
<1>1. CASE ListingLands
  BY <1>1, ListingStep
<1>2. CASE \E u \in Uids : OtherSetsSeen(u) \/ OtherSetsDeleted(u)
  BY <1>2, OthersStep
<1>3. CASE Select("select") \/ Select("examine") \/ CloseAtOnce \/ CloseDone
  BY <1>3, SelectStep
<1>4. CASE SelectDone
  BY <1>4, SelectDoneStep
<1>5. CASE Noop \/ Expunge \/ Move \/ AppendDraft \/ Close
  BY <1>5, BeginStep
<1>6. CASE FlushCommand
  BY <1>6, FlushStep
<1>7. CASE CommandFails
  BY <1>7, CommandFailsStep
<1>8. CASE CloseRefused
  BY <1>8, CloseRefusedStep
<1>9. CASE \E i \in 1..MaxUid : FetchFlags(i) \/ FetchSize(i) \/ FetchBody(i)
  BY <1>9, FetchFlagsStep, FetchAwaits
<1>10. CASE SizeArrives
  BY <1>10, SizeArrivesStep
<1>11. CASE FetchFails
  BY <1>11, FetchFailsStep
<1>12. CASE BodyArrives
  BY <1>12, BodyArrivesStep
<1>13. CASE \E i \in 1..MaxUid, mode \in {"+", "-", ""}, flags \in SUBSET Flags,
               silent \in BOOLEAN : Store(i, mode, flags, silent)
  BY <1>13, StoreStep
<1>14. CASE StoreDone
  BY <1>14, StoreDoneStep
<1>15. CASE UNCHANGED vars
  <2>1. UNCHANGED <<latest, uids, flags_seen, cmd, mirror, told, lapses>>
    BY <1>15 DEF vars, shared, view, client
  <2> QED
    BY <2>1 DEF IInv, Types, LiveIsIssued, Numbers, InOrder, Addressed, Underway, Answered, Heard
<1> QED
  BY <1>1, <1>2, <1>3, <1>4, <1>5, <1>6, <1>7, <1>8, <1>9, <1>10, <1>11, <1>12, <1>13, <1>14,
     <1>15 DEF Next

\* The invariant of the session's view holds in every behaviour, whatever upstream,
\* the other sessions and the client's commands do (Selected, imapgw/session.py).
THEOREM Invariance == Spec => []IInv
<1>1. Init => IInv
  BY InvInit
<1>2. IInv /\ [Next]_vars => IInv'
  BY InvStep
<1> QED
  BY <1>1, <1>2, PTL DEF Spec

\* The client and the session mean the same message by every number, at every moment,
\* unless a refused CLOSE dropped numbers without a word (flush_pending writes the
\* EXPUNGEs highest first, then EXISTS, and only at a safe point).
THEOREM NumbersAlwaysAgree == Spec => []NumbersAgree
<1>1. IInv => NumbersAgree
  BY DEF IInv, Numbers, NumbersAgree
<1> QED
  BY <1>1, Invariance, PTL

\* After the flush of NOOP, EXPUNGE, MOVE or APPEND the client has exactly the
\* messages of the snapshot, and every flag set it has heard of is the present one
\* (flush_pending compares with record_flags's last word).
THEOREM FlushCatchesUp == Spec => SafePointCatchesUp
<1>1. ASSUME IInv, FlushCommand, state = "selected", lapses = {}
      PROVE  CaughtUp
  <2>1. FlushPending /\ UNCHANGED shared /\ cmd.op # "size"
    BY <1>1 DEF FlushCommand, shared
  <2>2. Types /\ InOrder /\ mirror = uids /\ latest.live \subseteq Uids
    BY <1>1 DEF IInv, Numbers, Types
  <2>3. mirror' = Ascending(latest.live)
    BY <2>1, <2>2, FlushAgrees DEF FlushPending
  <2>4. Range(mirror') = latest.live
    BY <2>2, <2>3, AscendingLists, ListsSeq
  <2>5. \A u \in latest.live : told'[u] \in {NotHeard, FlagsOf(u)}
    BY <1>1, <2>1, <2>2, FlushTells
  <2> QED
    BY <2>4, <2>5 DEF CaughtUp
<1>2. IInv /\ [Next]_vars => [FlushCommand /\ state = "selected" /\ lapses = {} => CaughtUp]_vars
  BY <1>1
<1> QED
  BY <1>2, Invariance, PTL DEF Spec, SafePointCatchesUp

--------------------------------------------------------------------------
(* ListPatterns: where the characters of a pattern take the name *)

\* The first of several characters takes what it does, and the others the rest.
LEMMA PlaceFirst ==
  ASSUME NEW s, NEW text, Len(text) \in Nat, NEW i \in Nat, NEW j \in Nat, i < j,
         NEW a \in 0..Len(text), NEW b \in 0..Len(text)
  PROVE  Place(s, text, i, j, a, b) <=>
           \E c \in 0..Len(text) : Fits(s[i + 1], text, a, c) /\ Place(s, text, i + 1, j, c, b)
<1> DEFINE N == Len(text)
<1> HIDE DEF N
<1>1. ASSUME Place(s, text, i, j, a, b)
      PROVE  \E c \in 0..Len(text) : Fits(s[i + 1], text, a, c) /\ Place(s, text, i + 1, j, c, b)
  <2>1. PICK cut \in [i..j -> 0..N] :
          cut[i] = a /\ cut[j] = b /\ \A k \in i + 1..j : Fits(s[k], text, cut[k - 1], cut[k])
    BY <1>1 DEF Place, N
  <2> DEFINE rest == [k \in i + 1..j |-> cut[k]]
  <2>2. i + 1 \in i + 1..j /\ i + 1 \in i..j /\ j \in i + 1..j /\ i + 1 - 1 = i
    OBVIOUS
  <2>3. rest \in [i + 1..j -> 0..N] /\ rest[i + 1] = cut[i + 1] /\ rest[j] = b /\ cut[i + 1] \in 0..N
    BY <2>1, <2>2
  <2>4. \A k \in (i + 1) + 1..j : Fits(s[k], text, rest[k - 1], rest[k])
    <3> SUFFICES ASSUME NEW k \in (i + 1) + 1..j PROVE Fits(s[k], text, rest[k - 1], rest[k])
      OBVIOUS
    <3>1. k \in i + 1..j /\ k - 1 \in i + 1..j
      OBVIOUS
    <3>2. rest[k - 1] = cut[k - 1] /\ rest[k] = cut[k]
      BY <3>1
    <3> QED  BY <2>1, <3>1, <3>2, Zenon
  <2>5. Fits(s[i + 1], text, a, cut[i + 1])
    <3>1. \A k \in i + 1..j : Fits(s[k], text, cut[k - 1], cut[k])
      BY <2>1
    <3>2. Fits(s[i + 1], text, cut[i + 1 - 1], cut[i + 1])
      BY <2>2, <3>1
    <3>3. cut[i + 1 - 1] = a
      BY <2>1
    <3> QED  BY <3>2, <3>3, Zenon
  <2> HIDE DEF rest
  <2>6. Place(s, text, i + 1, j, cut[i + 1], b)
    BY <2>3, <2>4, Zenon DEF Place, N
  <2> QED  BY <2>3, <2>5, <2>6 DEF N
<1>2. ASSUME NEW c \in 0..N, Fits(s[i + 1], text, a, c), Place(s, text, i + 1, j, c, b)
      PROVE  Place(s, text, i, j, a, b)
  <2>1. PICK rest \in [i + 1..j -> 0..N] :
          /\ rest[i + 1] = c /\ rest[j] = b
          /\ \A k \in (i + 1) + 1..j : Fits(s[k], text, rest[k - 1], rest[k])
    BY <1>2 DEF Place, N
  <2> DEFINE cut == [k \in i..j |-> IF k = i THEN a ELSE rest[k]]
  <2>2. cut \in [i..j -> 0..N]
    BY <2>1 DEF N
  <2>3. cut[i] = a /\ \A k \in i + 1..j : cut[k] = rest[k]
    OBVIOUS
  <2>4. cut[j] = b
    BY <2>1, <2>3
  <2>5. \A k \in i + 1..j : Fits(s[k], text, cut[k - 1], cut[k])
    <3> SUFFICES ASSUME NEW k \in i + 1..j PROVE Fits(s[k], text, cut[k - 1], cut[k])
      OBVIOUS
    <3>1. CASE k = i + 1
      <4>1. cut[k - 1] = a /\ cut[k] = c
        BY <2>1, <2>3, <3>1
      <4> QED  BY <1>2, <3>1, <4>1, Zenon
    <3>2. CASE k # i + 1
      <4>1. k \in (i + 1) + 1..j /\ k - 1 \in i + 1..j
        BY <3>2
      <4>2. cut[k - 1] = rest[k - 1] /\ cut[k] = rest[k]
        BY <2>3, <4>1
      <4> QED  BY <2>1, <4>1, <4>2, Zenon
    <3> QED  BY <3>1, <3>2
  <2> HIDE DEF cut
  <2> QED  BY <2>2, <2>3, <2>4, <2>5, Zenon DEF Place, N
<1> QED  BY <1>1, <1>2 DEF N

\* The last of several characters takes what the others leave.
LEMMA PlaceLast ==
  ASSUME NEW s, NEW text, Len(text) \in Nat, NEW j \in Nat,
         NEW a \in 0..Len(text), NEW b \in 0..Len(text)
  PROVE  Place(s, text, 0, j + 1, a, b) <=>
           \E c \in 0..Len(text) : Place(s, text, 0, j, a, c) /\ Fits(s[j + 1], text, c, b)
<1> DEFINE N == Len(text)
<1> HIDE DEF N
<1>1. ASSUME Place(s, text, 0, j + 1, a, b)
      PROVE  \E c \in 0..Len(text) : Place(s, text, 0, j, a, c) /\ Fits(s[j + 1], text, c, b)
  <2>1. PICK cut \in [0..j + 1 -> 0..N] :
          /\ cut[0] = a /\ cut[j + 1] = b
          /\ \A k \in 0 + 1..j + 1 : Fits(s[k], text, cut[k - 1], cut[k])
    BY <1>1 DEF Place, N
  <2> DEFINE rest == [k \in 0..j |-> cut[k]]
  <2>2. j \in 0..j + 1 /\ 0 \in 0..j /\ j + 1 \in 0 + 1..j + 1 /\ j + 1 - 1 = j
    OBVIOUS
  <2>3. rest \in [0..j -> 0..N] /\ rest[0] = a /\ rest[j] = cut[j] /\ cut[j] \in 0..N
    BY <2>1, <2>2
  <2>4. \A k \in 0 + 1..j : Fits(s[k], text, rest[k - 1], rest[k])
    <3> SUFFICES ASSUME NEW k \in 0 + 1..j PROVE Fits(s[k], text, rest[k - 1], rest[k])
      OBVIOUS
    <3>1. k \in 0 + 1..j + 1 /\ k - 1 \in 0..j /\ k \in 0..j
      OBVIOUS
    <3>2. rest[k - 1] = cut[k - 1] /\ rest[k] = cut[k]
      BY <3>1
    <3> QED  BY <2>1, <3>1, <3>2, Zenon
  <2>5. Fits(s[j + 1], text, cut[j], b)
    <3>1. \A k \in 0 + 1..j + 1 : Fits(s[k], text, cut[k - 1], cut[k])
      BY <2>1
    <3>2. Fits(s[j + 1], text, cut[j + 1 - 1], cut[j + 1])
      BY <2>2, <3>1
    <3>3. cut[j + 1 - 1] = cut[j] /\ cut[j + 1] = b
      BY <2>1, <2>2
    <3> QED  BY <3>2, <3>3, Zenon
  <2> HIDE DEF rest
  <2>6. Place(s, text, 0, j, a, cut[j])
    BY <2>3, <2>4, Zenon DEF Place, N
  <2> QED  BY <2>3, <2>5, <2>6 DEF N
<1>2. ASSUME NEW c \in 0..N, Fits(s[j + 1], text, c, b), Place(s, text, 0, j, a, c)
      PROVE  Place(s, text, 0, j + 1, a, b)
  <2>1. PICK rest \in [0..j -> 0..N] :
          /\ rest[0] = a /\ rest[j] = c
          /\ \A k \in 0 + 1..j : Fits(s[k], text, rest[k - 1], rest[k])
    BY <1>2 DEF Place, N
  <2> DEFINE cut == [k \in 0..j + 1 |-> IF k = j + 1 THEN b ELSE rest[k]]
  <2>2. cut \in [0..j + 1 -> 0..N]
    BY <2>1 DEF N
  <2>3. cut[j + 1] = b /\ \A k \in 0..j : cut[k] = rest[k]
    OBVIOUS
  <2>4. cut[0] = a
    BY <2>1, <2>3
  <2>5. \A k \in 0 + 1..j + 1 : Fits(s[k], text, cut[k - 1], cut[k])
    <3> SUFFICES ASSUME NEW k \in 0 + 1..j + 1 PROVE Fits(s[k], text, cut[k - 1], cut[k])
      OBVIOUS
    <3>1. CASE k = j + 1
      <4>1. cut[k - 1] = c /\ cut[k] = b
        BY <2>1, <2>3, <3>1
      <4> QED  BY <1>2, <3>1, <4>1, Zenon
    <3>2. CASE k # j + 1
      <4>1. k \in 0 + 1..j /\ k - 1 \in 0..j /\ k \in 0..j
        BY <3>2
      <4>2. cut[k - 1] = rest[k - 1] /\ cut[k] = rest[k]
        BY <2>3, <4>1
      <4> QED  BY <2>1, <4>1, <4>2, Zenon
    <3> QED  BY <3>1, <3>2
  <2> HIDE DEF cut
  <2> QED  BY <2>2, <2>3, <2>4, <2>5, Zenon DEF Place, N
<1> QED  BY <1>1, <1>2 DEF N

\* No character takes nothing.
LEMMA PlaceNone ==
  ASSUME NEW s, NEW text, NEW i \in Nat, NEW a \in 0..Len(text), NEW b \in 0..Len(text)
  PROVE  Place(s, text, i, i, a, b) <=> a = b
<1>1. ASSUME a = b PROVE Place(s, text, i, i, a, b)
  <2> DEFINE cut == [k \in i..i |-> a]
  <2>1. cut \in [i..i -> 0..Len(text)] /\ cut[i] = a /\ cut[i] = b
    BY <1>1
  <2>2. \A k \in i + 1..i : Fits(s[k], text, cut[k - 1], cut[k])
    OBVIOUS
  <2> HIDE DEF cut
  <2> QED  BY <2>1, <2>2, Zenon DEF Place
<1>2. ASSUME Place(s, text, i, i, a, b) PROVE a = b
  BY <1>2, Zenon DEF Place
<1> QED  BY <1>1, <1>2

--------------------------------------------------------------------------
(* What is left of a pattern and of a name *)

\* All of s but its first i characters takes all of the text but its first a.
RestMatches(s, text, i, a) == Place(s, text, i, Len(s), a, Len(text))
Whole(s, text) == RestMatches(s, text, 0, 0)

LEMMA RestEnds ==
  ASSUME NEW C, NEW s \in Seq(C), NEW text \in Seq(C), NEW a \in 0..Len(text)
  PROVE  RestMatches(s, text, Len(s), a) <=> a = Len(text)
<1>1. Len(s) \in Nat /\ Len(text) \in Nat /\ Len(text) \in 0..Len(text)
  BY LenProperties
<1> QED  BY <1>1, PlaceNone DEF RestMatches

LEMMA RestWild ==
  ASSUME NEW C, NEW s \in Seq(C), NEW text \in Seq(C), NEW a \in 0..Len(text),
         NEW i \in Nat, i < Len(s), s[i + 1] \in Wild
  PROVE  RestMatches(s, text, i, a) <=> \E c \in a..Len(text) : RestMatches(s, text, i + 1, c)
<1>1. Len(s) \in Nat /\ Len(text) \in Nat /\ Len(text) \in 0..Len(text)
  BY LenProperties
<1>2. RestMatches(s, text, i, a) <=>
        \E c \in 0..Len(text) : Fits(s[i + 1], text, a, c) /\ RestMatches(s, text, i + 1, c)
  BY <1>1, PlaceFirst DEF RestMatches
<1>3. \A c \in 0..Len(text) : Fits(s[i + 1], text, a, c) <=> c \in a..Len(text)
  BY <1>1 DEF Fits
<1> QED  BY <1>1, <1>2, <1>3

LEMMA RestPlain ==
  ASSUME NEW C, NEW s \in Seq(C), NEW text \in Seq(C), NEW a \in 0..Len(text),
         NEW i \in Nat, i < Len(s), s[i + 1] \notin Wild
  PROVE  RestMatches(s, text, i, a) <=>
           a < Len(text) /\ text[a + 1] = s[i + 1] /\ RestMatches(s, text, i + 1, a + 1)
<1>1. Len(s) \in Nat /\ Len(text) \in Nat /\ Len(text) \in 0..Len(text)
  BY LenProperties
<1>2. RestMatches(s, text, i, a) <=>
        \E c \in 0..Len(text) : Fits(s[i + 1], text, a, c) /\ RestMatches(s, text, i + 1, c)
  BY <1>1, PlaceFirst DEF RestMatches
<1>3. \A c \in 0..Len(text) : Fits(s[i + 1], text, a, c) <=> c = a + 1 /\ text[c] = s[i + 1]
  BY <1>1 DEF Fits
<1> QED  BY <1>1, <1>2, <1>3

--------------------------------------------------------------------------
(* What the matcher has found out *)

\* j characters of the pattern s and y of the text are behind a matcher; its last
\* wildcard is the m-th character, and e characters of the text its run ended with.
\* After a wildcard:
\*  - there is a match if what follows the last wildcard has one from where its run
\*    ends or later: an earlier wildcard need not take more than it did;
\*  - wherever what follows it matches, the characters compared since take as many of
\*    the text; and where its run ends now they did match.
AfterWildcard(s, text, j, y, m, e) ==
  /\ e \in 0..y /\ y - e = j - m
  /\ Whole(s, text) <=> \E a \in e..Len(text) : RestMatches(s, text, m, a)
  /\ \A a \in e..Len(text), b \in Nat :
       RestMatches(s, text, m, a) /\ b - a = y - e => b <= Len(text) /\ RestMatches(s, text, j, b)
  /\ RestMatches(s, text, j, y) => RestMatches(s, text, m, e)

\* Before the first wildcard there is a match if what is left has one.
Reached(s, text, j, y, m, e) ==
  /\ j \in 0..Len(s) /\ y \in 0..Len(text) /\ m \in 0..j
  /\ m = 0 => (Whole(s, text) <=> RestMatches(s, text, j, y))
  /\ m > 0 => AfterWildcard(s, text, j, y, m, e)

LEMMA ReachedFirst ==
  ASSUME NEW C, NEW s \in Seq(C), NEW text \in Seq(C)
  PROVE  Reached(s, text, 0, 0, 0, 0)
<1>1. Len(s) \in Nat /\ Len(text) \in Nat
  BY LenProperties
<1> QED  BY <1>1 DEF Reached, Whole

\* A wildcard that comes next: there is a match if what is left has one.
LEMMA ReachedAll ==
  ASSUME NEW C, NEW s \in Seq(C), NEW text \in Seq(C), NEW j, NEW y, NEW m, NEW e,
         Reached(s, text, j, y, m, e),
         \A a, b \in 0..Len(text) : a <= b /\ RestMatches(s, text, j, b) => RestMatches(s, text, j, a)
  PROVE  Whole(s, text) <=> RestMatches(s, text, j, y)
<1>1. Len(s) \in Nat /\ Len(text) \in Nat
  BY LenProperties
<1>2. j \in 0..Len(s) /\ y \in 0..Len(text) /\ m \in 0..j
  BY DEF Reached
<1>3. CASE m = 0
  BY <1>3 DEF Reached
<1>4. CASE m > 0
  <2>1. AfterWildcard(s, text, j, y, m, e)
    BY <1>4 DEF Reached
  <2>2. e \in 0..y /\ y - e = j - m /\ e \in e..Len(text)
    BY <1>1, <1>2, <2>1 DEF AfterWildcard
  <2>3. ASSUME Whole(s, text) PROVE RestMatches(s, text, j, y)
    <3>1. PICK a \in e..Len(text) : RestMatches(s, text, m, a)
      BY <2>1, <2>3 DEF AfterWildcard
    <3> DEFINE b == a + (y - e)
    <3>2. b \in Nat /\ b - a = y - e /\ y <= b
      BY <1>1, <1>2, <2>2
    <3> HIDE DEF b
    <3>3. b <= Len(text) /\ RestMatches(s, text, j, b)
      BY <2>1, <3>1, <3>2 DEF AfterWildcard
    <3> QED  BY <1>1, <1>2, <3>2, <3>3
  <2>4. ASSUME RestMatches(s, text, j, y) PROVE Whole(s, text)
    BY <2>1, <2>2, <2>4 DEF AfterWildcard
  <2> QED  BY <2>3, <2>4
<1> QED  BY <1>2, <1>3, <1>4

\* A wildcard: what has matched stays as it is.
LEMMA ReachedWild ==
  ASSUME NEW C, NEW s \in Seq(C), NEW text \in Seq(C), NEW j, NEW y, NEW m, NEW e,
         Reached(s, text, j, y, m, e), j < Len(s), s[j + 1] \in Wild
  PROVE  Reached(s, text, j + 1, y, j + 1, y)
<1>1. Len(s) \in Nat /\ Len(text) \in Nat
  BY LenProperties
<1>2. j \in 0..Len(s) /\ y \in 0..Len(text) /\ j \in Nat
  BY DEF Reached
<1>3. \A a \in 0..Len(text) :
        RestMatches(s, text, j, a) <=> \E c \in a..Len(text) : RestMatches(s, text, j + 1, c)
  BY <1>2, RestWild
<1>4. \A a, b \in 0..Len(text) : a <= b /\ RestMatches(s, text, j, b) => RestMatches(s, text, j, a)
  BY <1>1, <1>3
<1>5. Whole(s, text) <=> RestMatches(s, text, j, y)
  BY <1>4, ReachedAll
<1>6. Whole(s, text) <=> \E c \in y..Len(text) : RestMatches(s, text, j + 1, c)
  BY <1>2, <1>3, <1>5
<1>0. PICK i \in Nat : i = j + 1
  BY <1>2
<1>7. y \in 0..y /\ y - y = i - i
  BY <1>2
<1>8. \A a \in y..Len(text), b \in Nat :
        RestMatches(s, text, i, a) /\ b - a = y - y => b <= Len(text) /\ RestMatches(s, text, i, b)
  <2>1. \A a \in y..Len(text), b \in Nat : b - a = y - y => b = a /\ b <= Len(text)
    BY <1>1, <1>2
  <2> QED  BY <2>1, Zenon
<1>9. AfterWildcard(s, text, i, y, i, y)
  BY <1>0, <1>6, <1>7, <1>8 DEF AfterWildcard
<1>10. i \in 0..Len(s) /\ i \in 0..i /\ i # 0
  BY <1>0, <1>1, <1>2
<1>11. Reached(s, text, i, y, i, y)
  BY <1>2, <1>9, <1>10, Zenon DEF Reached
<1> QED  BY <1>0, <1>11, Zenon

\* A character that is the next one of the text.
LEMMA ReachedPlain ==
  ASSUME NEW C, NEW s \in Seq(C), NEW text \in Seq(C), NEW j, NEW y, NEW m, NEW e,
         Reached(s, text, j, y, m, e), j < Len(s), s[j + 1] \notin Wild,
         y < Len(text), text[y + 1] = s[j + 1]
  PROVE  Reached(s, text, j + 1, y + 1, m, e)
<1>1. Len(s) \in Nat /\ Len(text) \in Nat
  BY LenProperties
<1>2. j \in 0..Len(s) /\ y \in 0..Len(text) /\ m \in 0..j /\ j \in Nat
  BY DEF Reached
<1>3. \A a \in 0..Len(text) :
        RestMatches(s, text, j, a) <=>
          a < Len(text) /\ text[a + 1] = s[j + 1] /\ RestMatches(s, text, j + 1, a + 1)
  BY <1>2, RestPlain
<1>4. RestMatches(s, text, j, y) <=> RestMatches(s, text, j + 1, y + 1)
  BY <1>2, <1>3
<1>5. j + 1 \in 0..Len(s) /\ y + 1 \in 0..Len(text) /\ m \in 0..j + 1
  BY <1>1, <1>2
<1>6. CASE m = 0
  <2>1. Whole(s, text) <=> RestMatches(s, text, j + 1, y + 1)
    BY <1>4, <1>6 DEF Reached
  <2>2. ~(m > 0)
    BY <1>6
  <2> QED  BY <1>5, <2>1, <2>2, Zenon DEF Reached
<1>7. CASE m > 0
  <2>1. AfterWildcard(s, text, j, y, m, e)
    BY <1>7 DEF Reached
  <2>2. e \in 0..y /\ y - e = j - m
    BY <2>1 DEF AfterWildcard
  <2>0. PICK i \in Nat, x \in Nat : i = j + 1 /\ x = y + 1
    BY <1>2
  <2>3. e \in 0..x /\ x - e = i - m /\ m # 0
    BY <1>2, <1>7, <2>0, <2>2
  <2>4. ASSUME NEW a \in e..Len(text), NEW b \in Nat,
               RestMatches(s, text, m, a), b - a = x - e
        PROVE  b <= Len(text) /\ RestMatches(s, text, i, b)
    <3> DEFINE c == b - 1
    <3>1. c \in Nat /\ c - a = y - e /\ b = c + 1
      BY <1>1, <1>2, <2>0, <2>2, <2>4
    <3> HIDE DEF c
    <3>2. c <= Len(text) /\ RestMatches(s, text, j, c)
      BY <2>1, <2>4, <3>1 DEF AfterWildcard
    <3>3. c < Len(text) /\ RestMatches(s, text, j + 1, c + 1)
      BY <1>1, <1>3, <3>1, <3>2
    <3> QED  BY <1>1, <2>0, <3>1, <3>3
  <2>5. Whole(s, text) <=> \E a \in e..Len(text) : RestMatches(s, text, m, a)
    BY <2>1 DEF AfterWildcard
  <2>6. RestMatches(s, text, i, x) => RestMatches(s, text, m, e)
    BY <1>4, <2>0, <2>1 DEF AfterWildcard
  <2>7. AfterWildcard(s, text, i, x, m, e)
    BY <2>3, <2>4, <2>5, <2>6 DEF AfterWildcard
  <2>8. i \in 0..Len(s) /\ x \in 0..Len(text) /\ m \in 0..i
    BY <1>5, <2>0
  <2>9. Reached(s, text, i, x, m, e)
    BY <2>3, <2>7, <2>8, Zenon DEF Reached
  <2> QED  BY <2>0, <2>9, Zenon
<1> QED  BY <1>2, <1>6, <1>7

\* What cannot go on does not match from where it is.
LEMMA NoRest ==
  ASSUME NEW C, NEW s \in Seq(C), NEW text \in Seq(C),
         NEW j \in 0..Len(s), NEW y \in 0..Len(text), y < Len(text),
         j < Len(s) => s[j + 1] \notin Wild /\ s[j + 1] # text[y + 1]
  PROVE  ~RestMatches(s, text, j, y)
<1>1. Len(s) \in Nat /\ Len(text) \in Nat /\ y # Len(text)
  BY LenProperties
<1>2. CASE j = Len(s)
  BY <1>1, <1>2, RestEnds
<1>3. CASE j < Len(s)
  BY <1>3, RestPlain
<1> QED  BY <1>1, <1>2, <1>3

\* The run of the last wildcard must take one character more.
LEMMA ReachedBack ==
  ASSUME NEW C, NEW s \in Seq(C), NEW text \in Seq(C), NEW j, NEW y, NEW m, NEW e,
         Reached(s, text, j, y, m, e), m > 0, y < Len(text),
         j < Len(s) => s[j + 1] \notin Wild /\ s[j + 1] # text[y + 1]
  PROVE  Reached(s, text, m, e + 1, m, e + 1)
<1>1. Len(s) \in Nat /\ Len(text) \in Nat
  BY LenProperties
<1>2. j \in 0..Len(s) /\ y \in 0..Len(text) /\ m \in 0..j /\ AfterWildcard(s, text, j, y, m, e)
  BY DEF Reached
<1>3. e \in 0..y /\ y - e = j - m /\ e \in e..Len(text)
  BY <1>1, <1>2 DEF AfterWildcard
<1>4. ~RestMatches(s, text, j, y)
  BY <1>2, NoRest
<1>5. ~RestMatches(s, text, m, e)
  <2>1. ASSUME RestMatches(s, text, m, e) PROVE FALSE
    <3>1. \A b \in Nat : b - e = y - e => RestMatches(s, text, j, b)
      BY <1>2, <1>3, <2>1 DEF AfterWildcard
    <3> QED  BY <1>1, <1>2, <1>4, <3>1
  <2> QED  BY <2>1
<1>6. Whole(s, text) <=> \E a \in e + 1..Len(text) : RestMatches(s, text, m, a)
  <2>1. \A a : a \in e..Len(text) <=> a = e \/ a \in e + 1..Len(text)
    BY <1>1, <1>2, <1>3
  <2>2. Whole(s, text) <=> \E a \in e..Len(text) : RestMatches(s, text, m, a)
    BY <1>2 DEF AfterWildcard
  <2> QED  BY <1>5, <2>1, <2>2, Zenon
<1>7. /\ m \in 0..Len(s) /\ e + 1 \in 0..Len(text) /\ m \in 0..m /\ m # 0
      /\ e + 1 \in 0..e + 1 /\ e + 1 - (e + 1) = m - m
  BY <1>1, <1>2, <1>3
<1>8. \A a \in e + 1..Len(text), b \in Nat :
        RestMatches(s, text, m, a) /\ b - a = e + 1 - (e + 1) => b <= Len(text) /\ RestMatches(s, text, m, b)
  <2>1. \A a \in e + 1..Len(text), b \in Nat : b - a = e + 1 - (e + 1) => b = a /\ b <= Len(text)
    BY <1>1, <1>2, <1>3
  <2> QED  BY <2>1, Zenon
<1>9. AfterWildcard(s, text, m, e + 1, m, e + 1)
  BY <1>6, <1>7, <1>8 DEF AfterWildcard
<1> QED  BY <1>7, <1>9, Zenon DEF Reached

\* Without a wildcard to go back to there is no match.
LEMMA ReachedNothing ==
  ASSUME NEW C, NEW s \in Seq(C), NEW text \in Seq(C), NEW j, NEW y, NEW e,
         Reached(s, text, j, y, 0, e), y < Len(text),
         j < Len(s) => s[j + 1] \notin Wild /\ s[j + 1] # text[y + 1]
  PROVE  ~Whole(s, text)
<1>1. j \in 0..Len(s) /\ y \in 0..Len(text) /\ (Whole(s, text) <=> RestMatches(s, text, j, y))
  BY DEF Reached
<1> QED  BY <1>1, NoRest

\* The text is over: there is a match if what is left of the pattern takes nothing.
LEMMA ReachedEnd ==
  ASSUME NEW C, NEW s \in Seq(C), NEW text \in Seq(C), NEW j, NEW m, NEW e,
         Reached(s, text, j, Len(text), m, e)
  PROVE  Whole(s, text) <=> RestMatches(s, text, j, Len(text))
<1> DEFINE N == Len(text)
<1>1. Len(s) \in Nat /\ N \in Nat
  BY LenProperties
<1>2. j \in 0..Len(s) /\ m \in 0..j
  BY DEF Reached
<1>3. CASE m = 0
  BY <1>3 DEF Reached
<1>4. CASE m > 0
  <2>1. AfterWildcard(s, text, j, N, m, e)
    BY <1>4 DEF Reached
  <2>2. e \in 0..N /\ e \in e..N
    BY <1>1, <2>1 DEF AfterWildcard
  <2>3. ASSUME Whole(s, text) PROVE RestMatches(s, text, j, N)
    <3>1. PICK a \in e..N : RestMatches(s, text, m, a)
      BY <2>1, <2>3 DEF AfterWildcard
    <3> DEFINE b == a + (N - e)
    <3>2. b \in Nat /\ b - a = N - e /\ N <= b
      BY <1>1, <2>2
    <3> HIDE DEF b
    <3>3. b <= N /\ RestMatches(s, text, j, b)
      BY <2>1, <3>1, <3>2 DEF AfterWildcard
    <3>4. b = N
      BY <1>1, <3>2, <3>3
    <3> QED  BY <3>3, <3>4
  <2>4. ASSUME RestMatches(s, text, j, N) PROVE Whole(s, text)
    BY <2>1, <2>2, <2>4 DEF AfterWildcard
  <2> QED  BY <2>3, <2>4
<1> QED  BY <1>2, <1>3, <1>4

--------------------------------------------------------------------------
(* Collapsing wildcards *)

\* Only the characters that are placed matter.
LEMMA PlaceAgrees ==
  ASSUME NEW s, NEW t, NEW text, NEW j \in Nat, NEW a, NEW b,
         \A k \in 1..j : s[k] = t[k], Place(s, text, 0, j, a, b)
  PROVE  Place(t, text, 0, j, a, b)
<1>1. PICK cut \in [0..j -> 0..Len(text)] :
        cut[0] = a /\ cut[j] = b /\ \A k \in 0 + 1..j : Fits(s[k], text, cut[k - 1], cut[k])
  BY DEF Place
<1>2. \A k \in 0 + 1..j : Fits(t[k], text, cut[k - 1], cut[k])
  <2> SUFFICES ASSUME NEW k \in 0 + 1..j PROVE Fits(t[k], text, cut[k - 1], cut[k])
    OBVIOUS
  <2>1. k \in 1..j
    OBVIOUS
  <2>2. s[k] = t[k]
    BY <2>1
  <2> QED  BY <1>1, <2>2, Zenon
<1> QED  BY <1>1, <1>2, Zenon DEF Place

\* The first j characters of s match the same beginnings of the text as all of t.
SameAs(t, s, j, text) ==
  \A b \in 0..Len(text) : Place(t, text, 0, Len(t), 0, b) <=> Place(s, text, 0, j, 0, b)

\* A character that means the same is appended.
LEMMA SameAppended ==
  ASSUME NEW C, NEW s \in Seq(C), NEW t \in Seq(C), NEW text \in Seq(C), NEW j \in Nat, j < Len(s),
         SameAs(t, s, j, text), NEW d \in C,
         \A a, b \in 0..Len(text) : Fits(d, text, a, b) <=> Fits(s[j + 1], text, a, b)
  PROVE  SameAs(Append(t, d), s, j + 1, text)
<1> DEFINE u == Append(t, d)
           n == Len(t)
<1>1. Len(text) \in Nat /\ n \in Nat /\ 0 \in 0..Len(text)
  BY LenProperties
<1>2. Len(u) = n + 1 /\ u[n + 1] = d /\ \A k \in 1..n : u[k] = t[k]
  BY AppendProperties
<1> HIDE DEF u
<1>3. \A c : Place(u, text, 0, n, 0, c) <=> Place(t, text, 0, n, 0, c)
  BY <1>1, <1>2, PlaceAgrees
<1> SUFFICES ASSUME NEW b \in 0..Len(text)
             PROVE  Place(u, text, 0, n + 1, 0, b) <=> Place(s, text, 0, j + 1, 0, b)
  BY <1>2, Zenon DEF SameAs, u
<1>4. Place(u, text, 0, n + 1, 0, b) <=>
        \E c \in 0..Len(text) : Place(u, text, 0, n, 0, c) /\ Fits(u[n + 1], text, c, b)
  BY <1>1, PlaceLast
<1>5. Place(s, text, 0, j + 1, 0, b) <=>
        \E c \in 0..Len(text) : Place(s, text, 0, j, 0, c) /\ Fits(s[j + 1], text, c, b)
  BY <1>1, PlaceLast
<1>6. \A c \in 0..Len(text) : Place(t, text, 0, n, 0, c) <=> Place(s, text, 0, j, 0, c)
  BY DEF SameAs
<1>7. \A c \in 0..Len(text) : Fits(u[n + 1], text, c, b) <=> Fits(s[j + 1], text, c, b)
  BY <1>2, Zenon
<1> QED  BY <1>3, <1>4, <1>5, <1>6, <1>7, Zenon

\* A wildcard after a wildcard says nothing more.
LEMMA SameWild ==
  ASSUME NEW C, NEW s \in Seq(C), NEW t \in Seq(C), NEW text \in Seq(C), NEW j \in Nat, j < Len(s),
         SameAs(t, s, j, text), t # <<>>, t[Len(t)] \in Wild, s[j + 1] \in Wild
  PROVE  SameAs(t, s, j + 1, text)
<1>1. Len(text) \in Nat /\ Len(t) \in Nat /\ Len(t) > 0 /\ 0 \in 0..Len(text)
  BY LenProperties, EmptySeq
<1>2. PICK n \in Nat : Len(t) = n + 1
  <2>1. Len(t) - 1 \in Nat /\ Len(t) = Len(t) - 1 + 1
    BY <1>1
  <2> QED  BY <2>1
<1>3. \A a, b \in 0..Len(text) :
        /\ Fits(t[n + 1], text, a, b) <=> a <= b
        /\ Fits(s[j + 1], text, a, b) <=> a <= b
  BY <1>2 DEF Fits
<1> SUFFICES ASSUME NEW b \in 0..Len(text)
             PROVE  Place(t, text, 0, Len(t), 0, b) <=> Place(s, text, 0, j + 1, 0, b)
  BY DEF SameAs
<1>4. \A c \in 0..Len(text) :
        Place(t, text, 0, Len(t), 0, c) <=>
          \E a \in 0..Len(text) : Place(t, text, 0, n, 0, a) /\ Fits(t[n + 1], text, a, c)
  BY <1>1, <1>2, PlaceLast
<1>5. \A c \in 0..Len(text) :
        Place(t, text, 0, Len(t), 0, c) <=> \E a \in 0..Len(text) : Place(t, text, 0, n, 0, a) /\ a <= c
  BY <1>3, <1>4
<1>6. Place(s, text, 0, j + 1, 0, b) <=>
        \E c \in 0..Len(text) : Place(s, text, 0, j, 0, c) /\ Fits(s[j + 1], text, c, b)
  BY <1>1, PlaceLast
<1>7. Place(s, text, 0, j + 1, 0, b) <=>
        \E c \in 0..Len(text) : Place(t, text, 0, Len(t), 0, c) /\ c <= b
  BY <1>3, <1>6 DEF SameAs
<1>8. ASSUME NEW c \in 0..Len(text), Place(t, text, 0, Len(t), 0, c), c <= b
      PROVE  Place(t, text, 0, Len(t), 0, b)
  <2>1. PICK a \in 0..Len(text) : Place(t, text, 0, n, 0, a) /\ a <= c
    BY <1>5, <1>8
  <2>2. a <= b
    BY <1>1, <1>8, <2>1
  <2> QED  BY <1>5, <2>1, <2>2
<1>9. b <= b
  BY <1>1
<1> QED  BY <1>7, <1>8, <1>9

--------------------------------------------------------------------------
(* The matcher *)

Characters == Letters \cup Wild

\* The pattern the matcher works on means what the pattern that was given means.
PatternTypes ==
  /\ pattern \in Seq(Characters) /\ name \in Seq(Characters) /\ p \in Seq(Characters)
  /\ chars \in 0..Len(pattern)
  /\ pc \in {"collapse", "match", "rest", "yes", "no"}
  /\ pc = "collapse" => pi = 1 /\ ni = 1 /\ star = 0 /\ match_ni = 1
  /\ pc # "collapse" => chars = Len(pattern)
CollapsedMeansSame ==
  /\ \A k \in 1..Len(p) : p[k] \in Wild => p[k] = "*"
  /\ SameAs(p, pattern, chars, name)
Progress ==
  /\ pc = "match" =>
       \E j, y, e \in Nat :
         pi = j + 1 /\ ni = y + 1 /\ match_ni = e + 1 /\ Reached(p, name, j, y, star, e)
  /\ pc = "rest" =>
       \E j \in 0..Len(p) : pi = j + 1 /\ (Whole(p, name) <=> RestMatches(p, name, j, Len(name)))
  /\ pc = "yes" => Whole(p, name)
  /\ pc = "no" => ~Whole(p, name)
PatternInv == PatternTypes /\ CollapsedMeansSame /\ Progress

LEMMA PatternInitInv == PatternInit => PatternInv
<1> SUFFICES ASSUME PatternInit PROVE PatternInv
  OBVIOUS
<1>1. pattern \in Seq(Characters) /\ name \in Seq(Characters)
  <2>1. \A S, n : BoundedSeq(S, n) \subseteq Seq(S)
    BY SeqDef DEF BoundedSeq, SeqOf
  <2>2. Seq(Letters) \subseteq Seq(Characters)
    BY SeqDef DEF Characters
  <2> QED  BY <2>1, <2>2 DEF PatternInit, Characters
<1>2. Len(pattern) \in Nat /\ Len(name) \in Nat
  BY <1>1, LenProperties
<1>3. p = <<>> /\ p \in Seq(Characters) /\ Len(p) = 0 /\ chars = 0 /\ pc = "collapse"
  BY EmptySeq DEF PatternInit
<1>4. PatternTypes
  BY <1>1, <1>2, <1>3 DEF PatternInit, PatternTypes
<1>5. SameAs(p, pattern, chars, name)
  <2>1. \A b \in 0..Len(name) : Place(p, name, 0, 0, 0, b) <=> Place(pattern, name, 0, 0, 0, b)
    BY <1>2, PlaceNone
  <2> QED  BY <1>3, <2>1 DEF SameAs
<1>6. CollapsedMeansSame
  BY <1>3, <1>5 DEF CollapsedMeansSame
<1>7. Progress
  BY <1>3 DEF Progress
<1> QED  BY <1>4, <1>6, <1>7 DEF PatternInv

LEMMA CollapseStep == PatternInv /\ CollapseNext => PatternInv'
<1> SUFFICES ASSUME PatternInv, CollapseNext PROVE PatternInv'
  OBVIOUS
<1> DEFINE ch == pattern[chars + 1]
<1>1. /\ pattern \in Seq(Characters) /\ name \in Seq(Characters) /\ p \in Seq(Characters)
      /\ chars \in 0..Len(pattern) /\ chars \in Nat /\ Len(pattern) \in Nat /\ Len(p) \in Nat
      /\ pi = 1 /\ ni = 1 /\ star = 0 /\ match_ni = 1
  BY LenProperties DEF PatternInv, PatternTypes, CollapseNext
<1>2. /\ pc = "collapse" /\ chars < Len(pattern) /\ chars' = chars + 1 /\ p' = Collapse(p, ch)
      /\ pattern' = pattern /\ name' = name /\ pc' = pc /\ pi' = pi /\ ni' = ni
      /\ star' = star /\ match_ni' = match_ni
  BY DEF CollapseNext
<1>3. ch \in Characters
  BY <1>1, <1>2, ElementOfSeq
<1>4. SameAs(p, pattern, chars, name) /\ \A k \in 1..Len(p) : p[k] \in Wild => p[k] = "*"
  BY DEF PatternInv, CollapsedMeansSame
<1>5. "*" \in Wild /\ "*" \in Characters
  BY DEF Wild, Characters
<1> DEFINE Means(q) ==
      /\ q \in Seq(Characters) /\ SameAs(q, pattern, chars + 1, name)
      /\ \A k \in 1..Len(q) : q[k] \in Wild => q[k] = "*"
<1>6. Means(p')
  <2>1. ASSUME NEW d \in Characters, p' = Append(p, d), d \in Wild => d = "*",
               \A a, b \in 0..Len(name) : Fits(d, name, a, b) <=> Fits(ch, name, a, b)
        PROVE  Means(p')
    <3>1. SameAs(Append(p, d), pattern, chars + 1, name)
      BY <1>1, <1>2, <1>4, <2>1, SameAppended
    <3>2. /\ Append(p, d) \in Seq(Characters) /\ Len(Append(p, d)) = Len(p) + 1
          /\ Append(p, d)[Len(p) + 1] = d
          /\ \A k \in 1..Len(p) : Append(p, d)[k] = p[k]
      BY <1>1, AppendProperties
    <3>3. \A k \in 1..Len(p) + 1 : Append(p, d)[k] \in Wild => Append(p, d)[k] = "*"
      <4> SUFFICES ASSUME NEW k \in 1..Len(p) + 1, Append(p, d)[k] \in Wild
                   PROVE  Append(p, d)[k] = "*"
        OBVIOUS
      <4>1. CASE k = Len(p) + 1
        BY <2>1, <3>2, <4>1
      <4>2. CASE k \in 1..Len(p)
        BY <1>4, <3>2, <4>2
      <4> QED  BY <1>1, <4>1, <4>2
    <3> QED  BY <2>1, <3>1, <3>2, <3>3
  <2>2. CASE ch \notin Wild
    <3>1. p' = Append(p, ch)
      BY <1>2, <2>2 DEF Collapse
    <3> QED  BY <1>3, <2>1, <2>2, <3>1
  <2>3. CASE ch \in Wild /\ ~(p # <<>> /\ Last(p) = "*")
    <3>1. p' = Append(p, "*")
      BY <1>2, <2>3 DEF Collapse
    <3>2. \A a, b \in 0..Len(name) : Fits("*", name, a, b) <=> Fits(ch, name, a, b)
      BY <1>5, <2>3 DEF Fits
    <3> QED  BY <1>5, <2>1, <3>1, <3>2
  <2>4. CASE ch \in Wild /\ p # <<>> /\ Last(p) = "*"
    <3>1. p' = p
      BY <1>2, <2>4 DEF Collapse
    <3>2. p[Len(p)] \in Wild
      BY <1>5, <2>4 DEF Last
    <3>3. SameAs(p, pattern, chars + 1, name)
      BY <1>1, <1>2, <1>4, <2>4, <3>2, SameWild
    <3> QED  BY <1>1, <1>4, <3>1, <3>3
  <2> QED  BY <2>2, <2>3, <2>4
<1>7. PatternTypes'
  <2>1. chars + 1 \in 0..Len(pattern)
    BY <1>1, <1>2
  <2> QED  BY <1>1, <1>2, <1>6, <2>1 DEF PatternTypes
<1>8. CollapsedMeansSame'
  BY <1>2, <1>6 DEF CollapsedMeansSame
<1>9. Progress'
  BY <1>2 DEF Progress
<1> QED  BY <1>7, <1>8, <1>9 DEF PatternInv

LEMMA PatternStep == PatternInv /\ [PatternNext]_PatternVars => PatternInv'
<1> SUFFICES ASSUME PatternInv, [PatternNext]_PatternVars PROVE PatternInv'
  OBVIOUS
<1>1. /\ pattern \in Seq(Characters) /\ name \in Seq(Characters) /\ p \in Seq(Characters)
      /\ Len(pattern) \in Nat /\ Len(p) \in Nat /\ Len(name) \in Nat
      /\ \A k \in 1..Len(p) : p[k] \in Wild => p[k] = "*"
  BY LenProperties DEF PatternInv, PatternTypes, CollapsedMeansSame
<1>2. "*" \in Wild
  BY DEF Wild
\* All the loops after the first leave what was collapsed as it is.
<1>3. ASSUME pc # "collapse" \/ chars = Len(pattern), UNCHANGED <<pattern, name, chars, p>>,
             pc' \in {"match", "rest", "yes", "no"}, Progress'
      PROVE  PatternInv'
  <2>1. PatternTypes'
    BY <1>3 DEF PatternInv, PatternTypes
  <2>2. CollapsedMeansSame'
    BY <1>3 DEF PatternInv, CollapsedMeansSame
  <2> QED  BY <1>3, <2>1, <2>2 DEF PatternInv
<1>4. CASE CollapseNext
  BY <1>4, CollapseStep
<1>5. CASE Collapsed
  <2>1. pi = 1 /\ ni = 1 /\ star = 0 /\ match_ni = 1
    BY <1>5 DEF Collapsed, PatternInv, PatternTypes
  <2>2. Reached(p, name, 0, 0, 0, 0)
    BY <1>1, ReachedFirst
  <2>3. \E j, y, e \in Nat :
          pi = j + 1 /\ ni = y + 1 /\ match_ni = e + 1 /\ Reached(p, name, j, y, star, e)
    <3> WITNESS 0 \in Nat, 0 \in Nat, 0 \in Nat
    <3> QED  BY <2>1, <2>2
  <2>4. Progress'
    BY <1>5, <2>3 DEF Collapsed, Progress
  <2> QED  BY <1>3, <1>5, <2>4 DEF Collapsed
<1> DEFINE Behind(j, y, e) ==
      /\ pi = j + 1 /\ ni = y + 1 /\ match_ni = e + 1 /\ Reached(p, name, j, y, star, e)
      /\ j \in 0..Len(p) /\ y < Len(name) /\ star \in Nat
      /\ At(pi, "*") <=> j < Len(p) /\ p[j + 1] \in Wild
      /\ At(pi, name[ni]) <=> j < Len(p) /\ p[j + 1] = name[y + 1]
<1>6. ASSUME Matching PROVE \E j, y, e \in Nat : Behind(j, y, e)
  <2>1. PICK j \in Nat, y \in Nat, e \in Nat :
          pi = j + 1 /\ ni = y + 1 /\ match_ni = e + 1 /\ Reached(p, name, j, y, star, e)
    BY <1>6 DEF Matching, PatternInv, Progress
  <2>2. j \in 0..Len(p) /\ y < Len(name) /\ star \in Nat
    BY <1>1, <1>6, <2>1 DEF Matching, Reached
  <2>3. j + 1 <= Len(p) <=> j < Len(p)
    BY <1>1
  <2>4. At(pi, "*") <=> j < Len(p) /\ p[j + 1] \in Wild
    <3>1. j < Len(p) => j + 1 \in 1..Len(p)
      BY <1>1
    <3> QED  BY <1>1, <1>2, <2>1, <2>3, <3>1 DEF At
  <2>5. At(pi, name[ni]) <=> j < Len(p) /\ p[j + 1] = name[y + 1]
    BY <2>1, <2>3 DEF At
  <2> QED  BY <2>1, <2>2, <2>4, <2>5
<1>7. CASE TakeWildcard
  <2>1. PICK j \in Nat, y \in Nat, e \in Nat : Behind(j, y, e)
    BY <1>6, <1>7 DEF TakeWildcard
  <2>2. Reached(p, name, j + 1, y, j + 1, y)
    BY <1>1, <1>7, <2>1, ReachedWild DEF TakeWildcard
  <2>3. Progress'
    <3>1. /\ pc' = "match" /\ p' = p /\ name' = name
          /\ pi' = j + 1 + 1 /\ ni' = y + 1 /\ match_ni' = y + 1 /\ star' = j + 1
      BY <1>7, <2>1 DEF TakeWildcard, Matching
    <3>2. j + 1 \in Nat
      OBVIOUS
    <3> QED  BY <2>2, <3>1, <3>2 DEF Progress
  <2> QED  BY <1>3, <1>7, <2>3 DEF TakeWildcard, Matching, PatternInv, PatternTypes
<1>8. CASE TakeCharacter
  <2>1. PICK j \in Nat, y \in Nat, e \in Nat : Behind(j, y, e)
    BY <1>6, <1>8 DEF TakeCharacter
  <2>2. Reached(p, name, j + 1, y + 1, star, e)
    BY <1>1, <1>8, <2>1, ReachedPlain DEF TakeCharacter
  <2>3. Progress'
    <3>1. /\ pc' = "match" /\ p' = p /\ name' = name
          /\ pi' = j + 1 + 1 /\ ni' = y + 1 + 1 /\ match_ni' = e + 1 /\ star' = star
      BY <1>8, <2>1 DEF TakeCharacter, Matching
    <3>2. j + 1 \in Nat /\ y + 1 \in Nat
      OBVIOUS
    <3> QED  BY <2>2, <3>1, <3>2 DEF Progress
  <2> QED  BY <1>3, <1>8, <2>3 DEF TakeCharacter, Matching
<1>9. ASSUME Mismatch, NEW j \in Nat, NEW y \in Nat, NEW e \in Nat, Behind(j, y, e)
      PROVE  j < Len(p) => p[j + 1] \notin Wild /\ p[j + 1] # name[y + 1]
  BY <1>9 DEF Mismatch
<1>10. CASE GoBack
  <2>1. PICK j \in Nat, y \in Nat, e \in Nat : Behind(j, y, e)
    BY <1>6, <1>10 DEF GoBack, Mismatch
  <2>2. Reached(p, name, star, e + 1, star, e + 1)
    <3>1. star > 0 /\ Mismatch
      BY <1>10 DEF GoBack
    <3>2. j < Len(p) => p[j + 1] \notin Wild /\ p[j + 1] # name[y + 1]
      BY <1>9, <2>1, <3>1
    <3> QED  BY <1>1, <2>1, <3>1, <3>2, ReachedBack
  <2>3. Progress'
    <3>1. /\ pc' = "match" /\ p' = p /\ name' = name /\ star \in Nat
          /\ pi' = star + 1 /\ ni' = e + 1 + 1 /\ match_ni' = e + 1 + 1 /\ star' = star
      BY <1>10, <2>1 DEF GoBack, Mismatch, Matching
    <3>2. e + 1 \in Nat
      OBVIOUS
    <3> QED  BY <2>2, <3>1, <3>2 DEF Progress
  <2> QED  BY <1>3, <1>10, <2>3 DEF GoBack, Mismatch, Matching
<1>11. CASE GiveUp
  <2>1. PICK j \in Nat, y \in Nat, e \in Nat : Behind(j, y, e)
    BY <1>6, <1>11 DEF GiveUp, Mismatch
  <2>2. ~Whole(p, name)
    <3>1. star = 0 /\ Mismatch
      BY <1>11 DEF GiveUp
    <3>2. j < Len(p) => p[j + 1] \notin Wild /\ p[j + 1] # name[y + 1]
      BY <1>9, <2>1, <3>1
    <3> QED  BY <1>1, <2>1, <3>1, <3>2, ReachedNothing
  <2>3. Progress'
    BY <1>11, <2>2 DEF GiveUp, Progress
  <2> QED  BY <1>3, <1>11, <2>3 DEF GiveUp, Mismatch, Matching
<1>12. CASE NameIsOver
  <2>1. PICK j \in Nat, y \in Nat, e \in Nat :
          pi = j + 1 /\ ni = y + 1 /\ match_ni = e + 1 /\ Reached(p, name, j, y, star, e)
    BY <1>12 DEF NameIsOver, PatternInv, Progress
  <2>2. j \in 0..Len(p) /\ y = Len(name)
    BY <1>1, <1>12, <2>1 DEF NameIsOver, Reached
  <2>3. Whole(p, name) <=> RestMatches(p, name, j, Len(name))
    BY <1>1, <2>1, <2>2, ReachedEnd
  <2>4. Progress'
    BY <1>12, <2>1, <2>2, <2>3 DEF NameIsOver, Progress
  <2> QED  BY <1>3, <1>12, <2>4 DEF NameIsOver
<1>13. ASSUME pc = "rest"
       PROVE  \E j \in 0..Len(p) :
                /\ pi = j + 1 /\ (Whole(p, name) <=> RestMatches(p, name, j, Len(name)))
                /\ At(pi, "*") <=> j < Len(p) /\ p[j + 1] \in Wild
  <2>1. PICK j \in 0..Len(p) : pi = j + 1 /\ (Whole(p, name) <=> RestMatches(p, name, j, Len(name)))
    BY <1>13 DEF PatternInv, Progress
  <2>2. (j + 1 <= Len(p) <=> j < Len(p)) /\ (j < Len(p) => j + 1 \in 1..Len(p))
    BY <1>1
  <2>3. At(pi, "*") <=> j < Len(p) /\ p[j + 1] \in Wild
    BY <1>1, <1>2, <2>1, <2>2 DEF At
  <2> QED  BY <2>1, <2>3
<1>14. CASE SkipWildcard
  <2>1. PICK j \in 0..Len(p) :
          /\ pi = j + 1 /\ (Whole(p, name) <=> RestMatches(p, name, j, Len(name)))
          /\ At(pi, "*") <=> j < Len(p) /\ p[j + 1] \in Wild
    BY <1>13, <1>14 DEF SkipWildcard
  <2>2. j \in Nat /\ j < Len(p) /\ p[j + 1] \in Wild /\ j + 1 \in 0..Len(p) /\ Len(name) \in 0..Len(name)
    BY <1>1, <1>14, <2>1 DEF SkipWildcard
  <2>3. RestMatches(p, name, j, Len(name)) <=> RestMatches(p, name, j + 1, Len(name))
    <3>1. RestMatches(p, name, j, Len(name)) <=> \E c \in Len(name)..Len(name) : RestMatches(p, name, j + 1, c)
      BY <1>1, <2>2, RestWild
    <3>2. \A c : c \in Len(name)..Len(name) <=> c = Len(name)
      BY <1>1
    <3> QED  BY <3>1, <3>2, Zenon
  <2>4. Progress'
    <3>1. pc' = "rest" /\ p' = p /\ name' = name /\ pi' = j + 1 + 1
      BY <1>14, <2>1 DEF SkipWildcard
    <3> QED  BY <2>1, <2>2, <2>3, <3>1 DEF Progress
  <2> QED  BY <1>3, <1>14, <2>4 DEF SkipWildcard
<1>15. CASE Answer
  <2>1. PICK j \in 0..Len(p) :
          /\ pi = j + 1 /\ (Whole(p, name) <=> RestMatches(p, name, j, Len(name)))
          /\ At(pi, "*") <=> j < Len(p) /\ p[j + 1] \in Wild
    BY <1>13, <1>15 DEF Answer
  <2>2. ~(j < Len(p) /\ p[j + 1] \in Wild) /\ Len(name) \in 0..Len(name)
    BY <1>1, <1>15, <2>1 DEF Answer
  <2>3. RestMatches(p, name, j, Len(name)) <=> j = Len(p)
    <3>1. CASE j = Len(p)
      BY <1>1, <2>2, <3>1, RestEnds
    <3>2. CASE j # Len(p)
      <4>1. j \in Nat /\ j < Len(p) /\ p[j + 1] \notin Wild
        BY <1>1, <2>2, <3>2
      <4>2. RestMatches(p, name, j, Len(name)) => Len(name) < Len(name)
        BY <1>1, <2>2, <4>1, RestPlain
      <4> QED  BY <1>1, <3>2, <4>2
    <3> QED  BY <3>1, <3>2
  <2>4. pi = Len(p) + 1 <=> j = Len(p)
    BY <1>1, <2>1
  <2>5. /\ p' = p /\ name' = name /\ pc' \in {"yes", "no"}
        /\ pc' = "yes" <=> pi = Len(p) + 1
    BY <1>15 DEF Answer
  <2>6. Progress'
    BY <2>1, <2>3, <2>4, <2>5 DEF Progress
  <2> QED  BY <1>3, <1>15, <2>5, <2>6 DEF Answer
<1>16. CASE UNCHANGED PatternVars
  <2>1. Progress'
    BY <1>16 DEF PatternVars, PatternInv, Progress
  <2>2. PatternTypes' /\ CollapsedMeansSame'
    BY <1>16 DEF PatternVars, PatternInv, PatternTypes, CollapsedMeansSame
  <2> QED  BY <2>1, <2>2 DEF PatternInv
<1> QED  BY <1>4, <1>5, <1>7, <1>8, <1>10, <1>11, <1>12, <1>14, <1>15, <1>16 DEF PatternNext

\* _wildcard_match: the matcher, which forgets all wildcards but the last, finds a match
\* exactly when there is one, whatever the pattern and the name.
THEOREM PatternsAreMatched == PatternSpec => []PatternsMatch
<1>1. PatternInv => PatternsMatch
  <2> SUFFICES ASSUME PatternInv PROVE PatternsMatch
    OBVIOUS
  <2>1. Len(name) \in Nat /\ Len(name) \in 0..Len(name)
    BY LenProperties DEF PatternInv, PatternTypes
  <2>2. ASSUME pc \in {"yes", "no"}
        PROVE  Whole(p, name) <=> Place(pattern, name, 0, Len(pattern), 0, Len(name))
    <3>1. chars = Len(pattern) /\ SameAs(p, pattern, chars, name)
      BY <2>2 DEF PatternInv, PatternTypes, CollapsedMeansSame
    <3> QED  BY <2>1, <3>1 DEF SameAs, Whole, RestMatches
  <2>3. (pc = "yes" => Whole(p, name)) /\ (pc = "no" => ~Whole(p, name))
    BY DEF PatternInv, Progress
  <2> QED  BY <2>2, <2>3 DEF PatternsMatch
<1> QED  BY <1>1, PatternInitInv, PatternStep, PTL DEF PatternSpec

--------------------------------------------------------------------------
(* The matcher ends *)

\* How many turns of its loops are left at most: while it matches, each place where
\* the run of the last wildcard may end costs a walk over the pattern.
Walk == Len(pattern) + 2
Remaining ==
  IF pc = "collapse" THEN Len(pattern) - chars + (Len(name) + 2) * Walk
  ELSE IF pc = "match" THEN (Len(name) + 1 - match_ni) * Walk + (Len(p) + 1 - pi) + Walk
  ELSE IF pc = "rest" THEN Len(p) + 2 - pi
  ELSE 0

\* No index leaves its string, and the run of the last wildcard ends where the walk has
\* been.
Places ==
  /\ Len(p) <= chars
  /\ pc = "match" => /\ star \in 0..pi - 1 /\ pi \in 1..Len(p) + 1
                     /\ match_ni \in 1..ni /\ ni \in 1..Len(name) + 1
  /\ pc = "rest" => pi \in 1..Len(p) + 1

\* Another place for the end of the run is worth more than any walk.
LEMMA Weighs ==
  ASSUME NEW a \in Nat, NEW b \in Nat, NEW k \in Nat
  PROVE  /\ a * k \in Nat /\ b * k \in Nat
         /\ a <= b => a * k <= b * k
         /\ a < b => a * k + k <= b * k
<1>1. a * k \in Nat /\ b * k \in Nat
  OBVIOUS
<1>2. ASSUME a <= b PROVE a * k <= b * k
  <2>1. PICK c \in Nat : b = a + c
    <3>1. b - a \in Nat /\ b = a + (b - a)
      BY <1>2
    <3> QED  BY <3>1
  <2>2. b * k = a * k + c * k /\ c * k \in Nat
    BY <2>1
  <2> QED  BY <1>1, <2>2
<1>3. ASSUME a < b PROVE a * k + k <= b * k
  <2>1. PICK c \in Nat : b = a + 1 + c
    <3>1. b - a - 1 \in Nat /\ b = a + 1 + (b - a - 1)
      BY <1>3
    <3> QED  BY <3>1
  <2>2. b * k = a * k + k + c * k /\ c * k \in Nat
    BY <2>1
  <2> QED  BY <1>1, <2>2
<1> QED  BY <1>1, <1>2, <1>3

LEMMA PlacesInit == PatternInit => Places
BY EmptySeq DEF PatternInit, Places

LEMMA PlacesStep ==
  PatternInv /\ Places /\ [PatternNext]_PatternVars =>
    Places' /\ (UNCHANGED PatternVars \/ (Remaining' \in Nat /\ Remaining' < Remaining))
<1> SUFFICES ASSUME PatternInv, Places, [PatternNext]_PatternVars
             PROVE  Places' /\ (UNCHANGED PatternVars \/ (Remaining' \in Nat /\ Remaining' < Remaining))
  OBVIOUS
<1> DEFINE n == Len(name)
           l == Len(p)
           k == Walk
           Less == Remaining' \in Nat /\ Remaining' < Remaining
<1>1. /\ Len(pattern) \in Nat /\ l \in Nat /\ n \in Nat /\ chars \in 0..Len(pattern)
      /\ k = Len(pattern) + 2 /\ k \in Nat /\ l <= chars /\ l + 2 <= k
      /\ pc # "collapse" => chars = Len(pattern)
  BY LenProperties DEF PatternInv, PatternTypes, Places, Walk
<1>2. ASSUME UNCHANGED <<pattern, name, p, chars>>
      PROVE  Len(p)' = l /\ Len(name)' = n /\ Walk' = k
  BY <1>2 DEF Walk
<1>3. CASE CollapseNext
  <2>1. /\ pc = "collapse" /\ pc' = "collapse" /\ chars' = chars + 1 /\ chars < Len(pattern)
        /\ name' = name /\ pattern' = pattern /\ p' = Collapse(p, pattern[chars + 1])
    BY <1>3 DEF CollapseNext
  <2>2. Len(p') <= l + 1
    <3>1. pattern[chars + 1] \in Characters /\ "*" \in Characters /\ p \in Seq(Characters)
      BY <1>1, <2>1, ElementOfSeq DEF PatternInv, PatternTypes, Characters, Wild
    <3> QED  BY <1>1, <2>1, <3>1, AppendProperties DEF Collapse
  <2>3. Len(p') <= chars'
    <3>1. Len(p') \in Nat
      BY CollapseStep, <1>3, LenProperties DEF PatternInv, PatternTypes
    <3> QED  BY <1>1, <2>1, <2>2, <3>1
  <2>4. Places'
    BY <2>1, <2>3 DEF Places
  <2>5. Less
    <3>1. Walk' = k
      BY <2>1 DEF Walk
    <3>2. Remaining' = Len(pattern) - (chars + 1) + (n + 2) * k
      BY <2>1, <3>1 DEF Remaining
    <3>3. Remaining = Len(pattern) - chars + (n + 2) * k
      BY <2>1 DEF Remaining
    <3>4. (n + 2) * k \in Nat
      BY <1>1
    <3> HIDE DEF n, k
    <3> QED  BY <1>1, <2>1, <3>2, <3>3, <3>4
  <2> QED  BY <2>4, <2>5
\* The other steps leave the pattern and the name as they are.
<1>4. CASE Collapsed
  <2>1. /\ pc = "collapse" /\ pc' = "match" /\ pi' = 1 /\ ni' = 1 /\ star' = 0 /\ match_ni' = 1
        /\ chars = Len(pattern) /\ UNCHANGED <<pattern, name, p, chars>>
    BY <1>4 DEF Collapsed, PatternInv, PatternTypes
  <2>2. Len(p)' = l /\ Len(name)' = n /\ Walk' = k
    BY <1>2, <2>1
  <2>3. Places'
    BY <1>1, <2>1, <2>2 DEF Places
  <2>4. Less
    <3>1. Remaining' = (n + 1 - 1) * k + (l + 1 - 1) + k
      BY <2>1, <2>2 DEF Remaining
    <3>2. Remaining = Len(pattern) - chars + (n + 2) * k
      BY <2>1 DEF Remaining
    <3>3. n + 1 - 1 = n
      BY <1>1
    <3>4. n * k \in Nat /\ (n + 2) * k = n * k + k + k
      BY <1>1
    <3> HIDE DEF n, k, l
    <3> QED  BY <1>1, <2>1, <3>1, <3>2, <3>3, <3>4
  <2> QED  BY <2>3, <2>4
<1>5. ASSUME pc = "match", pc' = "match", UNCHANGED <<pattern, name, p, chars>>,
             pi' \in 1..l + 1, ni' \in 1..n + 1, star' \in 0..pi' - 1, match_ni' \in 1..ni',
             match_ni < match_ni' \/ (match_ni <= match_ni' /\ pi < pi')
      PROVE  Places' /\ Less
  <2>1. Len(p)' = l /\ Len(name)' = n /\ Walk' = k
    BY <1>2, <1>5
  <2>2. Places'
    BY <1>1, <1>5, <2>1 DEF Places
  <2>3. pi \in 1..l + 1 /\ match_ni \in 1..n + 1 /\ match_ni' \in 1..n + 1
    BY <1>1, <1>5 DEF Places
  <2>0. PICK u \in 1..n + 1, v \in 1..n + 1, i \in 1..l + 1, j \in 1..l + 1 :
          /\ match_ni = u /\ match_ni' = v /\ pi = i /\ pi' = j
          /\ u < v \/ (u <= v /\ i < j)
    BY <1>5, <2>3, Zenon
  <2>4. PICK a \in Nat, b \in Nat : a = n + 1 - v /\ b = n + 1 - u
    <3>1. n + 1 - v \in Nat /\ n + 1 - u \in Nat
      BY <1>1
    <3> QED  BY <3>1, Zenon
  <2>5. Remaining' = a * k + (l + 1 - j) + k /\ Remaining = b * k + (l + 1 - i) + k
    BY <1>5, <2>0, <2>1, <2>4 DEF Remaining
  <2>6. a * k \in Nat /\ b * k \in Nat /\ (a <= b => a * k <= b * k) /\ (a < b => a * k + k <= b * k)
    BY <1>1, <2>4, Weighs
  <2>7. a < b \/ (a <= b /\ i < j)
    BY <1>1, <2>0, <2>4
  <2> HIDE DEF n, k, l
  <2> DEFINE x == a * k
             y == b * k
  <2>8. x \in Nat /\ y \in Nat /\ (a <= b => x <= y) /\ (a < b => x + k <= y)
        /\ Remaining' = x + (l + 1 - j) + k /\ Remaining = y + (l + 1 - i) + k
    BY <2>5, <2>6
  <2> HIDE DEF x, y
  <2>9. l \in Nat /\ k \in Nat /\ l + 2 <= k
    BY <1>1
  <2>10. x + (l + 1 - j) + k \in Nat /\ x + (l + 1 - j) + k < y + (l + 1 - i) + k
    BY <2>7, <2>8, <2>9
  <2>11. Less
    BY <2>8, <2>10, Zenon
  <2> QED  BY <2>2, <2>11
<1>6. ASSUME Matching
      PROVE  /\ pc = "match" /\ ni \in 1..n /\ star \in 0..pi - 1 /\ pi \in 1..l + 1
             /\ match_ni \in 1..ni
  BY <1>1, <1>6 DEF Matching, Places
<1>7. CASE TakeWildcard
  <2>1. Matching /\ pi <= l /\ star' = pi /\ match_ni' = ni /\ pi' = pi + 1 /\ pc' = pc /\ ni' = ni
        /\ UNCHANGED <<pattern, name, p, chars>>
    BY <1>7 DEF TakeWildcard, At
  <2>2. pi' \in 1..l + 1 /\ ni' \in 1..n + 1 /\ star' \in 0..pi' - 1 /\ match_ni' \in 1..ni'
        /\ match_ni <= match_ni' /\ pi < pi'
    BY <1>1, <1>6, <2>1
  <2> QED  BY <1>5, <1>6, <2>1, <2>2
<1>8. CASE TakeCharacter
  <2>1. Matching /\ pi <= l /\ pi' = pi + 1 /\ ni' = ni + 1 /\ pc' = pc /\ star' = star
        /\ match_ni' = match_ni /\ UNCHANGED <<pattern, name, p, chars>>
    BY <1>8 DEF TakeCharacter, At
  <2>2. pi' \in 1..l + 1 /\ ni' \in 1..n + 1 /\ star' \in 0..pi' - 1 /\ match_ni' \in 1..ni'
        /\ match_ni <= match_ni' /\ pi < pi'
    BY <1>1, <1>6, <2>1
  <2> QED  BY <1>5, <1>6, <2>1, <2>2
<1>9. CASE GoBack
  <2>1. Matching /\ star > 0 /\ pi' = star + 1 /\ match_ni' = match_ni + 1 /\ ni' = match_ni + 1
        /\ pc' = pc /\ star' = star /\ UNCHANGED <<pattern, name, p, chars>>
    BY <1>9 DEF GoBack, Mismatch
  <2>2. pi' \in 1..l + 1 /\ ni' \in 1..n + 1 /\ star' \in 0..pi' - 1 /\ match_ni' \in 1..ni'
        /\ match_ni < match_ni'
    BY <1>1, <1>6, <2>1
  <2> QED  BY <1>5, <1>6, <2>1, <2>2
<1>10. CASE GiveUp
  <2>1. Matching /\ pc' = "no" /\ UNCHANGED <<pattern, name, p, chars>>
    BY <1>10 DEF GiveUp, Mismatch
  <2>2. Places'
    BY <1>1, <1>2, <2>1 DEF Places
  <2>3. Less
    <3>1. n + 1 - match_ni \in Nat /\ l + 1 - pi \in Nat
      BY <1>1, <1>6, <2>1
    <3>2. (n + 1 - match_ni) * k \in Nat
      BY <1>1, <3>1
    <3>3. Remaining' = 0 /\ Remaining = (n + 1 - match_ni) * k + (l + 1 - pi) + k
      BY <1>6, <2>1 DEF Remaining
    <3> QED  BY <1>1, <3>1, <3>2, <3>3
  <2> QED  BY <2>2, <2>3
<1>11. CASE NameIsOver
  <2>1. pc = "match" /\ pc' = "rest" /\ pi' = pi /\ UNCHANGED <<pattern, name, p, chars>>
    BY <1>11 DEF NameIsOver
  <2>2. Len(p)' = l /\ Len(name)' = n /\ Walk' = k
    BY <1>2, <2>1
  <2>3. pi \in 1..l + 1 /\ match_ni \in 1..n + 1
    BY <1>1, <2>1 DEF Places
  <2>4. Places'
    BY <1>1, <2>1, <2>2, <2>3 DEF Places
  <2>5. Less
    <3>1. n + 1 - match_ni \in Nat
      BY <1>1, <2>3
    <3>2. (n + 1 - match_ni) * k \in Nat
      BY <1>1, <3>1
    <3>3. Remaining' = l + 2 - pi /\ Remaining = (n + 1 - match_ni) * k + (l + 1 - pi) + k
      BY <2>1, <2>2 DEF Remaining
    <3> QED  BY <1>1, <2>3, <3>2, <3>3
  <2> QED  BY <2>4, <2>5
<1>12. CASE SkipWildcard
  <2>1. pc = "rest" /\ pc' = "rest" /\ pi <= l /\ pi' = pi + 1 /\ UNCHANGED <<pattern, name, p, chars>>
    BY <1>12 DEF SkipWildcard, At
  <2>2. Len(p)' = l /\ pi \in 1..l + 1
    BY <1>2, <2>1 DEF Places
  <2>3. Places'
    BY <1>1, <2>1, <2>2 DEF Places
  <2>4. Less
    BY <1>1, <2>1, <2>2 DEF Remaining
  <2> QED  BY <2>3, <2>4
<1>13. CASE Answer
  <2>1. pc = "rest" /\ pc' \in {"yes", "no"} /\ UNCHANGED <<pattern, name, p, chars>>
    BY <1>13 DEF Answer
  <2>2. Places'
    BY <1>1, <1>2, <2>1 DEF Places
  <2>3. Less
    BY <1>1, <2>1 DEF Remaining, Places
  <2> QED  BY <2>2, <2>3
<1>14. CASE UNCHANGED PatternVars
  BY <1>14 DEF PatternVars, Places
<1> QED
  BY <1>3, <1>4, <1>7, <1>8, <1>9, <1>10, <1>11, <1>12, <1>13, <1>14 DEF PatternNext

\* _wildcard_match ends, however often it goes back: every turn of its loops takes one
\* from a number that is (len(name) + 2) * (len(pattern) + 2) and a walk at first.
THEOREM MatchingAdvances ==
  PatternSpec => [][Remaining' \in Nat /\ Remaining' < Remaining]_PatternVars
<1>1. PatternInv /\ Places /\ [PatternNext]_PatternVars =>
        PatternInv' /\ Places' /\ [Remaining' \in Nat /\ Remaining' < Remaining]_PatternVars
  BY PatternStep, PlacesStep
<1> QED  BY <1>1, PatternInitInv, PlacesInit, PTL DEF PatternSpec
==========================================================================
