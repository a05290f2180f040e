------------------------ MODULE ConnectionProofs -------------------------
(***************************************************************************)
(* Proofs about the connections and what they read: Connection, for any    *)
(* finite set of connections, any keys and any limits; then Parser, for    *)
(* any octets, any limits and any cut of the octets into reads.            *)
(***************************************************************************)
EXTENDS Connection, Parser, FiniteSetTheorems, SequenceTheorems, TLAPS

--------------------------------------------------------------------------
(* The inductive invariant *)

Pcs == {"free", "accepted", "greeting", "reading", "handling", "flushing", "closing", "lingering",
        "gone"}

SessionRecords ==
  [pc : Pcs, state : {"notauth", "auth", "logout"}, closed : BOOLEAN, key : Secrets \cup {None},
   cmd : {None, "login", "logout", "other"}, more : Int, partial : BOOLEAN, deadline : Int,
   short : {"no", "alone", "shared"}, cancelled : BOOLEAN, torn : BOOLEAN]

\* What holds of one session s, at each of its awaits:
\*  - credentials without a login are those of the LOGIN that is being handled;
\*  - a session that has not begun or is as good as closed holds none;
\*  - one that is gone holds some only if it was cancelled inside close();
\*  - one that was closed while it read is logged out;
\*  - what is handled is a command;
\*  - no deadline runs while no command is in progress, so no command begins with
\*    some of its time gone but for one that shares a read.
SessionInv(s) ==
  /\ s.state = "notauth" /\ s.key # None => s.pc = "handling"
  /\ s.pc \in {"free", "accepted", "greeting", "lingering"} => s.key = None
  /\ s.pc = "gone" /\ s.key # None => s.torn
  /\ s.pc = "reading" /\ s.closed => s.state = "logout"
  /\ s.pc = "handling" => s.cmd # None
  /\ s.pc = "reading" /\ ~s.partial => s.deadline = NoDeadline
  /\ s.short # "alone"

Types ==
  /\ max_connections \in Nat
  /\ conn \in [Connections -> SessionRecords]
  /\ secrets \in [Secrets -> Nat]

CInv ==
  /\ Types
  /\ \A c \in Connections : SessionInv(conn[c])
  /\ \A k \in Secrets : secrets[k] = Cardinality(Holders(k))
  /\ WithinLimit

--------------------------------------------------------------------------
(* What a step does to one session *)

\* The key stays, is dropped and unregistered, or is taken and registered.
KeyMoves(old, new) ==
  \/ new = old /\ UNCHANGED secrets
  \/ new = None /\ secrets' = Unregister(old)
  \/ old = None /\ new \in Secrets /\ Register(new)

\* The session of c becomes t, which is as it should be; it was registered if it is
\* now, and it is served only if it is open or logged out.
Moves(c, t) ==
  /\ Becomes(c, t)
  /\ t \in SessionRecords /\ SessionInv(t)
  /\ KeyMoves(conn[c].key, t.key)
  /\ t.pc \in {"free", "accepted", "gone"} \/ Registered(c)
  /\ conn[c].closed /\ conn[c].pc # "handling" /\ t.pc = "handling" => t.state = "logout"
  /\ UNCHANGED max_connections

\* The redactor's count of a key follows the sessions that hold it.
LEMMA CountsFollow ==
  ASSUME Types, \A k \in Secrets : secrets[k] = Cardinality(Holders(k)),
         NEW c \in Connections, NEW t \in SessionRecords, Becomes(c, t),
         KeyMoves(conn[c].key, t.key)
  PROVE  /\ secrets' \in [Secrets -> Nat]
         /\ \A k \in Secrets : secrets'[k] = Cardinality(Holders(k)')
<1> DEFINE old == conn[c].key
<1> DEFINE new == t.key
<1>1. old \in Secrets \cup {None} /\ new \in Secrets \cup {None}
  BY DEF Types, SessionRecords
<1>2. \A k : Holders(k)' = IF k = new THEN Holders(k) \cup {c} ELSE Holders(k) \ {c}
  <2> SUFFICES ASSUME NEW k, NEW d
               PROVE  d \in Holders(k)' <=> d \in IF k = new THEN Holders(k) \cup {c}
                                                             ELSE Holders(k) \ {c}
    OBVIOUS
  <2>1. CASE d = c
    BY <2>1 DEF Holders, Becomes, Types
  <2>2. CASE d # c
    BY <2>2 DEF Holders, Becomes, Types
  <2> QED BY <2>1, <2>2
<1>3. \A k : IsFiniteSet(Holders(k))
  BY FS_Subset, ConnectionAssumption DEF Holders
<1>4. \A k : Cardinality(Holders(k)) \in Nat
  BY <1>3, FS_CardinalityType
<1>5. \A k : c \in Holders(k) <=> k = old
  BY DEF Holders
<1>6. \A k : Cardinality(Holders(k) \cup {c}) =
                 IF k = old THEN Cardinality(Holders(k)) ELSE Cardinality(Holders(k)) + 1
  BY <1>3, <1>5, FS_AddElement
<1>7. \A k : Cardinality(Holders(k) \ {c}) =
                 IF k = old THEN Cardinality(Holders(k)) - 1 ELSE Cardinality(Holders(k))
  BY <1>3, <1>5, FS_RemoveElement
<1>8. None \notin Secrets
  BY ConnectionAssumption DEF None
<1>9. old \in Secrets => Cardinality(Holders(old)) >= 1
  BY <1>3, <1>4, <1>5, FS_EmptySet
<1> HIDE DEF old, new
<1>10. CASE new = old /\ UNCHANGED secrets
  BY <1>1, <1>2, <1>4, <1>6, <1>7, <1>8, <1>10 DEF Types
<1>11. CASE new = None /\ secrets' = Unregister(old)
  <2>1. CASE old = None
    BY <1>1, <1>2, <1>4, <1>7, <1>8, <1>11, <2>1 DEF Types, Unregister
  <2>2. CASE old # None
    <3>1. secrets[old] - 1 \in Nat
      BY <1>1, <1>4, <1>9, <2>2 DEF Types
    <3>2. (IF secrets[old] - 1 <= 0 THEN 0 ELSE secrets[old] - 1) = secrets[old] - 1
      BY <3>1
    <3>3. secrets' = [secrets EXCEPT ![old] = secrets[old] - 1]
      BY <1>11, <2>2, <3>2 DEF Unregister
    <3> QED BY <1>1, <1>2, <1>4, <1>7, <1>8, <1>11, <2>2, <3>1, <3>3 DEF Types
  <2> QED BY <2>1, <2>2
<1>12. CASE old = None /\ new \in Secrets /\ Register(new)
  BY <1>1, <1>2, <1>4, <1>6, <1>7, <1>8, <1>12 DEF Types, Register
<1> QED BY <1>10, <1>11, <1>12 DEF KeyMoves, old, new

\* A step of that kind registers nobody.
LEMMA SessionsShrink ==
  ASSUME Types, WithinLimit, Sessions' \subseteq Sessions, UNCHANGED max_connections
  PROVE  WithinLimit'
<1>1. IsFiniteSet(Sessions) /\ IsFiniteSet(Sessions')
  BY FS_Subset, ConnectionAssumption DEF Sessions
<1>2. Cardinality(Sessions') <= Cardinality(Sessions)
  BY <1>1, FS_Subset
<1> QED BY <1>1, <1>2, FS_CardinalityType DEF WithinLimit, Types

LEMMA MovesInv ==
  ASSUME CInv, NEW c \in Connections, NEW t, Moves(c, t)
  PROVE  CInv'
<1>1. conn' \in [Connections -> SessionRecords]
  BY DEF CInv, Types, Moves, Becomes
<1>2. \A d \in Connections : conn'[d] = IF d = c THEN t ELSE conn[d]
  BY DEF CInv, Types, Moves, Becomes
<1>3. \A d \in Connections : SessionInv(conn'[d])
  BY <1>2 DEF CInv, Moves
<1>4. /\ secrets' \in [Secrets -> Nat]
      /\ \A k \in Secrets : secrets'[k] = Cardinality(Holders(k)')
  BY CountsFollow DEF CInv, Moves
<1>5. Sessions' \subseteq Sessions
  BY <1>2 DEF Sessions, Registered, Moves
<1>6. WithinLimit'
  BY <1>5, SessionsShrink DEF CInv, Moves
<1>7. Types'
  BY <1>1, <1>4 DEF CInv, Types, Moves
<1>8. (\A d \in Connections : SessionInv(conn[d]))'
  BY <1>3 DEF SessionInv
<1> QED BY <1>4, <1>6, <1>7, <1>8 DEF CInv

--------------------------------------------------------------------------
(* The operators on sessions *)

\* A session before its connection.
LEMMA NewSessionFacts ==
  NewSession \in SessionRecords /\ SessionInv(NewSession) /\ NewSession.short = "no"
BY DEF NewSession, SessionRecords, SessionInv, Pcs, None, NoDeadline

\* The top of the loop changes the place and the deadline of a session only.
LEMMA LoopTopFacts ==
  ASSUME NEW s \in SessionRecords
  PROVE  /\ LoopTop(s) \in SessionRecords
         /\ LoopTop(s).pc = "reading"
         /\ \A f \in {"state", "closed", "key", "partial", "short"} : LoopTop(s)[f] = s[f]
         /\ ~s.partial => LoopTop(s).deadline = NoDeadline
<1> DEFINE d == CASE ~s.partial -> NoDeadline
                  [] s.partial /\ s.deadline = NoDeadline -> assembly_timeout
                  [] OTHER -> s.deadline
<1>1. d \in Int /\ (~s.partial => d = NoDeadline)
  BY ConnectionAssumption DEF NoDeadline, SessionRecords
<1> HIDE DEF d
<1>2. LoopTop(s) = [s EXCEPT !.pc = "reading", !.deadline = d]
  BY DEF LoopTop, d
<1> QED BY <1>1, <1>2 DEF SessionRecords, Pcs

\* What close() makes of a session.
LEMMA ClosedFacts ==
  ASSUME NEW s \in SessionRecords
  PROVE  /\ Closed(s) \in SessionRecords
         /\ Closed(s).pc = s.pc /\ Closed(s).key = None /\ Closed(s).state = "logout"
         /\ \A f \in {"cmd", "partial", "deadline", "short", "torn"} : Closed(s)[f] = s[f]
BY DEF Closed, SessionRecords, None

LEMMA UnreadFacts ==
  ASSUME NEW s \in SessionRecords
  PROVE  /\ Unread(s) \in SessionRecords
         /\ \A f \in {"pc", "state", "closed", "key"} : Unread(s)[f] = s[f]
         /\ Unread(s).short = "no"
<1>1. /\ s.pc \in Pcs /\ s.state \in {"notauth", "auth", "logout"} /\ s.closed \in BOOLEAN
      /\ s.key \in Secrets \cup {None} /\ s.cancelled \in BOOLEAN
  BY DEF SessionRecords
<1> QED BY <1>1, NewSessionFacts DEF Unread, SessionRecords

LEMMA LeaveFacts ==
  ASSUME NEW s \in SessionRecords
  PROVE  /\ Leave(s) \in SessionRecords
         /\ Leave(s).pc = "gone" /\ Leave(s).key = s.key
         /\ Leave(s).state = "logout" /\ Leave(s).short = "no"
<1>1. Leave(s) = [NewSession EXCEPT !.pc = "gone", !.state = "logout", !.closed = TRUE, !.key = s.key]
  BY DEF Leave
<1>2. s.key \in Secrets \cup {None}
  BY DEF SessionRecords
<1> QED BY <1>1, <1>2, NewSessionFacts DEF SessionRecords, Pcs

\* A flush leaves the session or marks it closed.
LEMMA AfterFlushFacts ==
  ASSUME NEW old \in SessionRecords, SessionInv(old), NEW s \in AfterFlush(old)
  PROVE  /\ s \in SessionRecords
         /\ s.pc = old.pc /\ s.key = old.key /\ s.more = old.more
         /\ s.partial = old.partial /\ s.deadline = old.deadline /\ s.short = old.short
         /\ s = old \/ (s.closed /\ s.state = "logout")
<1>1. CASE s = old
  BY <1>1
<1>2. CASE s = [old EXCEPT !.closed = TRUE, !.state = "logout"]
  BY <1>2 DEF SessionRecords
<1> QED BY <1>1, <1>2 DEF AfterFlush

\* close() from the session's own task, of a session s that differs from the
\* present one in other things than its key.
LEMMA CloseSessionMoves ==
  ASSUME CInv, NEW c \in Connections, Registered(c),
         NEW s \in SessionRecords, s.key = conn[c].key, NEW hasOutput \in BOOLEAN,
         s.state = "notauth" => s.key = None,
         CloseSession(c, s, hasOutput), UNCHANGED max_connections
  PROVE  \E t : Moves(c, t)
<1>1. CASE s.closed
  <2> DEFINE u == [s EXCEPT !.key = None]
  <2>1. u \in SessionRecords /\ u.key = None
    BY DEF SessionRecords
  <2> HIDE DEF u
  <2>2. Leave(u) \in SessionRecords /\ SessionInv(Leave(u)) /\ Leave(u).key = None
        /\ Leave(u).pc = "gone"
    BY <2>1, LeaveFacts DEF SessionInv
  <2>3. Becomes(c, Leave(u)) /\ secrets' = Unregister(conn[c].key)
    BY <1>1 DEF CloseSession, u
  <2>4. Moves(c, Leave(u))
    BY <2>2, <2>3 DEF Moves, KeyMoves
  <2> QED BY <2>4
<1>2. CASE ~s.closed /\ hasOutput
  <2> DEFINE u == [Unread(s) EXCEPT !.pc = "closing"]
  <2>1. u \in SessionRecords /\ SessionInv(u) /\ u.key = s.key /\ u.pc = "closing"
    BY UnreadFacts DEF SessionRecords, SessionInv, Pcs
  <2> HIDE DEF u
  <2>2. Becomes(c, u) /\ UNCHANGED secrets
    BY <1>2 DEF CloseSession, u
  <2>3. Moves(c, u)
    BY <2>1, <2>2 DEF Moves, KeyMoves
  <2> QED BY <2>3
<1>3. CASE ~s.closed /\ ~hasOutput
  <2> DEFINE u == [Closed(Unread(s)) EXCEPT !.pc = "lingering"]
  <2>1. Closed(Unread(s)) \in SessionRecords /\ Closed(Unread(s)).key = None
        /\ Closed(Unread(s)).state = "logout" /\ Closed(Unread(s)).short = "no"
    BY UnreadFacts, ClosedFacts
  <2>2. u \in SessionRecords /\ SessionInv(u) /\ u.key = None /\ u.pc = "lingering"
    BY <2>1 DEF SessionRecords, SessionInv, Pcs
  <2> HIDE DEF u
  <2>3. Becomes(c, u) /\ secrets' = Unregister(conn[c].key)
    BY <1>3 DEF CloseSession, u
  <2>4. Moves(c, u)
    BY <2>2, <2>3 DEF Moves, KeyMoves
  <2> QED BY <2>4
<1> QED BY <1>1, <1>2, <1>3

\* dispatch begins on a command of a session s that holds a key only if it is
\* logged in, and that is logged out if it is closed.
LEMMA StartCommandMoves ==
  ASSUME CInv, NEW c \in Connections, Registered(c),
         NEW s \in SessionRecords, s.key = conn[c].key, s.short # "alone",
         s.state = "notauth" => s.key = None, conn[c].closed => s.state = "logout",
         StartCommand(c, s), UNCHANGED max_connections
  PROVE  \E t : Moves(c, t)
<1>1. CASE s.state = "notauth"
           /\ \E key \in Secrets : /\ Becomes(c, [s EXCEPT !.pc = "handling", !.cmd = "login",
                                                            !.key = key])
                                   /\ Register(key)
  <2>1. PICK key \in Secrets : /\ Becomes(c, [s EXCEPT !.pc = "handling", !.cmd = "login",
                                                        !.key = key])
                               /\ Register(key)
    BY <1>1
  <2> DEFINE t == [s EXCEPT !.pc = "handling", !.cmd = "login", !.key = key]
  <2>2. t \in SessionRecords /\ t.pc = "handling" /\ t.key = key /\ t.short = s.short
        /\ t.state = s.state /\ t.cmd # None
    BY DEF SessionRecords, Pcs, None
  <2> HIDE DEF t
  <2>3. SessionInv(t)
    BY <2>2 DEF SessionInv
  <2>4. Moves(c, t)
    BY <1>1, <2>1, <2>2, <2>3 DEF Moves, KeyMoves, t
  <2> QED BY <2>4
<1>2. CASE \E cmd \in {"logout", "other"} : /\ Becomes(c, [s EXCEPT !.pc = "handling", !.cmd = cmd])
                                           /\ UNCHANGED secrets
  <2>1. PICK cmd \in {"logout", "other"} : /\ Becomes(c, [s EXCEPT !.pc = "handling", !.cmd = cmd])
                                          /\ UNCHANGED secrets
    BY <1>2
  <2> DEFINE t == [s EXCEPT !.pc = "handling", !.cmd = cmd]
  <2>2. t \in SessionRecords /\ t.pc = "handling" /\ t.key = s.key /\ t.short = s.short
        /\ t.state = s.state /\ t.cmd # None
    BY DEF SessionRecords, Pcs, None
  <2> HIDE DEF t
  <2>3. SessionInv(t)
    BY <2>2 DEF SessionInv
  <2>4. Moves(c, t)
    BY <2>1, <2>2, <2>3 DEF Moves, KeyMoves, t
  <2> QED BY <2>4
<1> QED BY <1>1, <1>2 DEF StartCommand

\* The top of the loop, for a session s that is not closed or logged out.
LEMMA LoopTopMoves ==
  ASSUME CInv, NEW c \in Connections, Registered(c),
         NEW s \in SessionRecords, s.key = conn[c].key, s.short # "alone",
         s.state = "notauth" => s.key = None, s.closed => s.state = "logout",
         Becomes(c, LoopTop(s)), UNCHANGED <<secrets, max_connections>>
  PROVE  \E t : Moves(c, t)
<1> DEFINE t == LoopTop(s)
<1>1. /\ t \in SessionRecords /\ t.pc = "reading" /\ t.key = s.key /\ t.short = s.short
      /\ t.state = s.state /\ t.closed = s.closed /\ t.partial = s.partial
      /\ ~s.partial => t.deadline = NoDeadline
  BY LoopTopFacts
<1> HIDE DEF t
<1>2. SessionInv(t)
  BY <1>1 DEF SessionInv
<1>3. Moves(c, t)
  BY <1>1, <1>2 DEF Moves, KeyMoves, t
<1> QED BY <1>3

--------------------------------------------------------------------------
(* The steps *)

\* The listener accepts, the greeting is out, the client is gone or timed out.
LEMMA OutsideStepsMove ==
  ASSUME CInv, NEW c \in Connections,
         Accept(c) \/ Greeted(c) \/ ReadEnds(c) \/ ReadTimesOut(c) \/ ReadIdles(c)
  PROVE  \E t : Moves(c, t)
<1> DEFINE old == conn[c]
<1>1. old \in SessionRecords /\ SessionInv(old)
  BY DEF CInv, Types
<1>2. CASE Accept(c)
  <2> DEFINE t == [old EXCEPT !.pc = "accepted"]
  <2>1. t \in SessionRecords /\ SessionInv(t) /\ t.pc = "accepted" /\ t.key = old.key
    BY <1>1, <1>2 DEF Accept, SessionRecords, SessionInv, Pcs
  <2> HIDE DEF t
  <2>2. Moves(c, t)
    BY <1>2, <2>1 DEF Accept, Moves, KeyMoves, t
  <2> QED BY <2>2
<1>3. CASE Greeted(c)
  <2>1. PICK s \in AfterFlush(old) :
          IF GoesOn(s) THEN Becomes(c, LoopTop(s)) /\ UNCHANGED secrets
                       ELSE CloseSession(c, s, FALSE)
    BY <1>3 DEF Greeted
  <2>2. /\ s \in SessionRecords /\ s.key = old.key /\ old.key = None /\ s.short # "alone"
        /\ Registered(c) /\ UNCHANGED max_connections
    BY <1>1, <1>3, AfterFlushFacts DEF Greeted, Registered, SessionInv
  <2>3. CASE GoesOn(s)
    BY <2>1, <2>2, <2>3, LoopTopMoves DEF GoesOn
  <2>4. CASE ~GoesOn(s)
    BY <2>1, <2>2, <2>4, CloseSessionMoves
  <2> QED BY <2>3, <2>4
<1>4. CASE ReadEnds(c) \/ ReadTimesOut(c) \/ ReadIdles(c)
  <2>1. Registered(c) /\ (old.state = "notauth" => old.key = None) /\ UNCHANGED max_connections
    BY <1>1, <1>4 DEF ReadEnds, ReadTimesOut, ReadIdles, Registered, SessionInv
  <2> QED BY <1>1, <1>4, <2>1, CloseSessionMoves DEF ReadEnds, ReadTimesOut, ReadIdles
<1> QED BY <1>2, <1>3, <1>4

\* A read brings commands, or a part of one.
LEMMA ReadDataMoves ==
  ASSUME CInv, NEW c \in Connections, NEW n \in 0..2, NEW leaves \in BOOLEAN,
         ReadData(c, n, leaves)
  PROVE  \E t : Moves(c, t)
<1> DEFINE old == conn[c]
<1> DEFINE sh == CASE n = 0 /\ old.partial -> old.short
                   [] ~leaves \/ old.deadline \in {NoDeadline, assembly_timeout} -> "no"
                   [] old.partial -> "shared"
                   [] OTHER -> "alone"
<1> DEFINE s == [old EXCEPT !.partial = leaves, !.more = n - 1, !.short = sh]
<1>1. old \in SessionRecords /\ SessionInv(old) /\ old.pc = "reading"
  BY DEF CInv, Types, ReadData
<1>2. sh \in {"no", "shared"}
  <2>1. old.short \in {"no", "shared"}
    BY <1>1 DEF SessionInv, SessionRecords
  <2>2. ~old.partial => old.deadline = NoDeadline
    BY <1>1 DEF SessionInv
  <2> QED BY <2>1, <2>2
<1> HIDE DEF sh
<1>3. /\ s \in SessionRecords /\ s.key = old.key /\ s.state = old.state /\ s.closed = old.closed
      /\ s.short = sh
  <2>1. n - 1 \in Int /\ sh \in {"no", "alone", "shared"}
    BY <1>2
  <2> QED BY <1>1, <2>1 DEF SessionRecords
<1>4. /\ Registered(c) /\ UNCHANGED max_connections
      /\ IF n = 0 THEN Becomes(c, LoopTop([s EXCEPT !.more = 0])) /\ UNCHANGED secrets
                  ELSE StartCommand(c, s)
  BY <1>1 DEF ReadData, Registered, sh
<1>5. (s.state = "notauth" => s.key = None) /\ (s.closed => s.state = "logout")
  BY <1>1, <1>3 DEF SessionInv
<1> HIDE DEF s
<1>6. CASE n # 0
  BY <1>2, <1>3, <1>4, <1>5, <1>6, StartCommandMoves
<1>7. CASE n = 0
  <2> DEFINE u == [s EXCEPT !.more = 0]
  <2>1. /\ u \in SessionRecords /\ u.key = s.key /\ u.state = s.state /\ u.closed = s.closed
        /\ u.short = s.short
    BY <1>3 DEF SessionRecords
  <2>2. Becomes(c, LoopTop(u)) /\ UNCHANGED secrets
    BY <1>4, <1>7
  <2> HIDE DEF u
  <2> QED BY <1>2, <1>3, <1>4, <1>5, <2>1, <2>2, LoopTopMoves
<1> QED BY <1>6, <1>7

\* The handler ends: a LOGIN that failed drops its key.
LEMMA HandlerEndsMoves ==
  ASSUME CInv, NEW c \in Connections, HandlerEnds(c)
  PROVE  \E t : Moves(c, t)
<1> DEFINE old == conn[c]
<1>1. old \in SessionRecords /\ SessionInv(old) /\ old.pc = "handling"
  BY DEF CInv, Types, HandlerEnds
<1>2. PICK state \in {"notauth", "auth", "logout"} : DispatchEnds(c, [old EXCEPT !.state = state])
  <2>1. old.cmd \in {"login", "logout", "other"} /\ old.state \in {"notauth", "auth", "logout"}
    BY <1>1 DEF SessionInv, SessionRecords
  <2> QED BY <2>1 DEF HandlerEnds
<1> DEFINE s == [old EXCEPT !.state = state]
<1>3. s \in SessionRecords /\ s.state = state /\ s.key = old.key /\ s.short = old.short
  BY <1>1 DEF SessionRecords
<1> DEFINE drop == s.state = "notauth" /\ s.key # None
<1> DEFINE t == [s EXCEPT !.pc = "flushing", !.cmd = None, !.key = IF drop THEN None ELSE s.key]
<1>4. Becomes(c, t) /\ secrets' = IF drop THEN Unregister(old.key) ELSE secrets
  BY <1>2, <1>3 DEF DispatchEnds
<1>5. (IF drop THEN None ELSE s.key) \in Secrets \cup {None}
  BY <1>3 DEF SessionRecords
<1> HIDE DEF s
<1>6. /\ t \in SessionRecords /\ t.pc = "flushing" /\ t.key = IF drop THEN None ELSE s.key
      /\ t.short = s.short /\ t.state = s.state
  BY <1>3, <1>5 DEF SessionRecords, Pcs
<1> HIDE DEF t
<1>7. SessionInv(t)
  BY <1>1, <1>3, <1>6 DEF SessionInv
<1>8. KeyMoves(old.key, t.key)
  BY <1>3, <1>4, <1>6 DEF KeyMoves
<1>9. Moves(c, t)
  BY <1>1, <1>4, <1>6, <1>7, <1>8 DEF Moves, Registered, HandlerEnds
<1> QED BY <1>9

\* The answer is out: the next command, the top of the loop, or the end.
LEMMA CommandFlushedMoves ==
  ASSUME CInv, NEW c \in Connections, CommandFlushed(c)
  PROVE  \E t : Moves(c, t)
<1> DEFINE old == conn[c]
<1>1. old \in SessionRecords /\ SessionInv(old) /\ old.pc = "flushing"
  BY DEF CInv, Types, CommandFlushed
<1>2. PICK s \in AfterFlush(old) :
        CASE ~GoesOn(s) -> CloseSession(c, s, FALSE)
          [] GoesOn(s) /\ s.more > 0 -> StartCommand(c, [s EXCEPT !.more = @ - 1])
          [] OTHER -> Becomes(c, LoopTop(s)) /\ UNCHANGED secrets
  BY DEF CommandFlushed
<1>3. /\ s \in SessionRecords /\ s.key = old.key /\ s.short # "alone"
      /\ s.state = "notauth" => s.key = None
      /\ Registered(c) /\ UNCHANGED max_connections
  BY <1>1, AfterFlushFacts DEF CommandFlushed, Registered, SessionInv
<1>4. CASE ~GoesOn(s)
  <2>1. CloseSession(c, s, FALSE)
    BY <1>2, <1>4
  <2> QED BY <1>3, <2>1, CloseSessionMoves
<1>5. CASE GoesOn(s) /\ s.more > 0
  <2> DEFINE u == [s EXCEPT !.more = @ - 1]
  <2>1. StartCommand(c, u)
    BY <1>2, <1>5
  <2>2. u \in SessionRecords /\ u.key = s.key /\ u.short = s.short /\ u.state = s.state
    BY <1>3 DEF SessionRecords
  <2>3. ~old.closed
    BY <1>5, AfterFlushFacts, <1>1 DEF GoesOn
  <2> HIDE DEF u
  <2> QED BY <1>3, <2>1, <2>2, <2>3, StartCommandMoves
<1>6. CASE GoesOn(s) /\ ~(s.more > 0)
  <2>1. Becomes(c, LoopTop(s)) /\ UNCHANGED secrets
    BY <1>2, <1>6
  <2> QED BY <1>3, <1>6, <2>1, LoopTopMoves DEF GoesOn
<1> QED BY <1>4, <1>5, <1>6

\* The last steps of close(), and the farewell beside it.
LEMMA ClosingStepsMove ==
  ASSUME CInv, NEW c \in Connections,
         CloseFlushed(c) \/ TransportCloses(c) \/ ByeFlushed(c) \/ ByeTimesOut(c)
         \/ (SayBye(c) /\ conn[c].closed)
  PROVE  \E t : Moves(c, t)
<1> DEFINE old == conn[c]
<1>1. old \in SessionRecords /\ SessionInv(old)
  BY DEF CInv, Types
<1>2. CASE CloseFlushed(c)
  <2> DEFINE t == [Closed(old) EXCEPT !.pc = "lingering"]
  <2>1. /\ Closed(old) \in SessionRecords /\ Closed(old).key = None /\ Closed(old).short = old.short
    BY <1>1, ClosedFacts
  <2>2. t \in SessionRecords /\ t.pc = "lingering" /\ t.key = None /\ t.short = old.short
    BY <2>1 DEF SessionRecords, Pcs
  <2> HIDE DEF t
  <2>3. SessionInv(t)
    BY <1>1, <2>2 DEF SessionInv
  <2>4. Moves(c, t)
    BY <1>2, <2>2, <2>3 DEF CloseFlushed, Moves, KeyMoves, Registered, t
  <2> QED BY <2>4
<1>3. CASE TransportCloses(c)
  <2>1. Leave(old) \in SessionRecords /\ Leave(old).pc = "gone" /\ Leave(old).key = old.key
        /\ SessionInv(Leave(old))
    BY <1>1, <1>3, LeaveFacts DEF TransportCloses, SessionInv
  <2>2. Moves(c, Leave(old))
    BY <1>3, <2>1 DEF TransportCloses, Moves, KeyMoves
  <2> QED BY <2>2
<1>4. CASE ByeFlushed(c)
  <2> DEFINE t == Closed(old)
  <2>1. t \in SessionRecords /\ t.pc = old.pc /\ t.key = None /\ t.short = old.short
        /\ t.state = "logout" /\ t.partial = old.partial /\ t.deadline = old.deadline /\ t.cmd = old.cmd
    BY <1>1, ClosedFacts
  <2> HIDE DEF t
  <2>2. SessionInv(t)
    BY <1>1, <2>1 DEF SessionInv
  <2>3. Moves(c, t)
    BY <1>4, <2>1, <2>2 DEF ByeFlushed, Moves, KeyMoves, Registered, t
  <2> QED BY <2>3
<1>5. CASE ByeTimesOut(c)
  <2> DEFINE t == [old EXCEPT !.closed = TRUE, !.state = "logout"]
  <2>1. t \in SessionRecords /\ t.pc = old.pc /\ t.key = old.key /\ t.short = old.short
        /\ t.state = "logout" /\ t.partial = old.partial /\ t.deadline = old.deadline /\ t.cmd = old.cmd
        /\ t.torn = old.torn
    BY <1>1 DEF SessionRecords
  <2> HIDE DEF t
  <2>2. SessionInv(t)
    BY <1>1, <2>1 DEF SessionInv
  <2>3. Moves(c, t)
    BY <1>5, <2>1, <2>2 DEF ByeTimesOut, Moves, KeyMoves, Registered, t
  <2> QED BY <2>3
<1>6. CASE SayBye(c) /\ old.closed
  <2> DEFINE t == [old EXCEPT !.key = None]
  <2>1. t \in SessionRecords /\ t.pc = old.pc /\ t.key = None /\ t.short = old.short
        /\ t.state = old.state /\ t.partial = old.partial /\ t.deadline = old.deadline /\ t.cmd = old.cmd
        /\ t.closed = old.closed
    BY <1>1 DEF SessionRecords
  <2> HIDE DEF t
  <2>2. SessionInv(t)
    BY <1>1, <2>1 DEF SessionInv
  <2>3. Moves(c, t)
    BY <1>6, <2>1, <2>2 DEF SayBye, Moves, KeyMoves, Registered, t
  <2> QED BY <2>3
<1> QED BY <1>2, <1>3, <1>4, <1>5, <1>6

\* CancelledError arrives where the task waits.
LEMMA CancelArrivesMoves ==
  ASSUME CInv, NEW c \in Connections, CancelArrives(c)
  PROVE  \E t : Moves(c, t)
<1> DEFINE old == conn[c]
<1> DEFINE s == [old EXCEPT !.cancelled = FALSE, !.cmd = None]
<1> DEFINE fails == old.pc = "handling" /\ s.state = "notauth" /\ s.key # None
<1>1. old \in SessionRecords /\ SessionInv(old) /\ Registered(c) /\ UNCHANGED max_connections
  BY DEF CInv, Types, CancelArrives
<1>2. s \in SessionRecords /\ s.key = old.key /\ s.state = old.state
  BY <1>1 DEF SessionRecords
<1>3. IF old.pc \in {"greeting", "closing", "lingering"}
      THEN Becomes(c, [Leave(s) EXCEPT !.torn = old.pc = "closing"]) /\ UNCHANGED secrets
      ELSE IF fails
      THEN Becomes(c, [Closed(Unread(s)) EXCEPT !.pc = "lingering"]) /\ secrets' = Unregister(s.key)
      ELSE CloseSession(c, s, FALSE) \/ CloseSession(c, s, TRUE)
  BY DEF CancelArrives
<1> HIDE DEF s
<1>4. CASE old.pc \in {"greeting", "closing", "lingering"}
  <2> DEFINE t == [Leave(s) EXCEPT !.torn = old.pc = "closing"]
  <2>1. Leave(s) \in SessionRecords /\ Leave(s).pc = "gone" /\ Leave(s).key = old.key
        /\ Leave(s).state = "logout" /\ Leave(s).short = "no"
    BY <1>2, LeaveFacts
  <2>2. t \in SessionRecords /\ t.pc = "gone" /\ t.key = old.key /\ t.state = "logout"
        /\ t.short = "no" /\ t.torn = (old.pc = "closing")
    BY <2>1 DEF SessionRecords
  <2>3. Becomes(c, t) /\ UNCHANGED secrets
    BY <1>3, <1>4
  <2> HIDE DEF t
  <2>4. SessionInv(t)
    BY <1>1, <1>4, <2>2 DEF SessionInv
  <2>5. Moves(c, t)
    BY <1>1, <2>2, <2>3, <2>4 DEF Moves, KeyMoves
  <2> QED BY <2>5
<1>5. CASE old.pc \notin {"greeting", "closing", "lingering"} /\ fails
  <2> DEFINE t == [Closed(Unread(s)) EXCEPT !.pc = "lingering"]
  <2>1. Closed(Unread(s)) \in SessionRecords /\ Closed(Unread(s)).key = None
        /\ Closed(Unread(s)).state = "logout" /\ Closed(Unread(s)).short = "no"
    BY <1>2, UnreadFacts, ClosedFacts
  <2>2. t \in SessionRecords /\ SessionInv(t) /\ t.key = None /\ t.pc = "lingering"
    BY <2>1 DEF SessionRecords, SessionInv, Pcs
  <2>3. Becomes(c, t) /\ secrets' = Unregister(old.key)
    BY <1>2, <1>3, <1>5
  <2> HIDE DEF t
  <2>4. Moves(c, t)
    BY <1>1, <2>2, <2>3 DEF Moves, KeyMoves
  <2> QED BY <2>4
<1>6. CASE old.pc \notin {"greeting", "closing", "lingering"} /\ ~fails
  <2>1. s.state = "notauth" => s.key = None
    BY <1>1, <1>2, <1>6 DEF SessionInv
  <2> QED BY <1>1, <1>2, <1>3, <1>6, <2>1, CloseSessionMoves
<1> QED BY <1>4, <1>5, <1>6

\* The check of the limit and the registration are one step.
LEMMA BeginInv ==
  ASSUME CInv, NEW c \in Connections, Begin(c)
  PROVE  CInv'
<1> DEFINE old == conn[c]
<1> DEFINE t == [old EXCEPT !.pc = IF IsFull THEN "gone" ELSE "greeting"]
<1>1. old \in SessionRecords /\ SessionInv(old) /\ old.pc = "accepted"
  BY DEF CInv, Types, Begin
<1>2. t \in SessionRecords /\ t.pc = (IF IsFull THEN "gone" ELSE "greeting") /\ t.key = old.key
      /\ t.short = old.short /\ t.state = old.state
  BY <1>1 DEF SessionRecords, Pcs
<1>3. Becomes(c, t) /\ UNCHANGED <<max_connections, secrets>>
  BY DEF Begin
<1> HIDE DEF t
<1>4. SessionInv(t)
  BY <1>1, <1>2 DEF SessionInv
<1>5. CASE IsFull
  <2>1. Moves(c, t)
    BY <1>1, <1>2, <1>3, <1>4, <1>5 DEF Moves, KeyMoves
  <2> QED BY <2>1, MovesInv
<1>6. CASE ~IsFull
  <2>1. /\ conn' \in [Connections -> SessionRecords]
        /\ \A d \in Connections : conn'[d] = IF d = c THEN t ELSE conn[d]
    BY <1>2, <1>3 DEF CInv, Types, Becomes
  <2>2. Types' /\ (\A d \in Connections : SessionInv(conn[d]))'
    BY <1>3, <1>4, <2>1 DEF CInv, Types, SessionInv
  <2>3. (\A k \in Secrets : secrets[k] = Cardinality(Holders(k)))'
    BY <1>2, <1>3, CountsFollow DEF CInv, KeyMoves
  <2>4. Sessions' = Sessions \cup {c}
    BY <1>1, <1>2, <1>6, <2>1 DEF Sessions, Registered
  <2>5. IsFiniteSet(Sessions)
    BY FS_Subset, ConnectionAssumption DEF Sessions
  <2>6. Cardinality(Sessions') <= Cardinality(Sessions) + 1
    BY <2>4, <2>5, FS_AddElement, FS_CardinalityType
  <2>7. WithinLimit'
    BY <1>3, <1>6, <2>4, <2>5, <2>6, FS_CardinalityType, FS_AddElement
       DEF WithinLimit, IsFull, CInv, Types
  <2> QED BY <2>2, <2>3, <2>7 DEF CInv
<1> QED BY <1>5, <1>6

\* A step that leaves the places, states and keys of all sessions alone.
LEMMA QuietInv ==
  ASSUME CInv, UNCHANGED <<max_connections, secrets>>,
         conn' \in [Connections -> SessionRecords],
         \A c \in Connections : SessionInv(conn'[c]) /\ conn'[c].pc = conn[c].pc
                                /\ conn'[c].key = conn[c].key
  PROVE  CInv'
<1>1. Sessions' = Sessions /\ \A k : Holders(k)' = Holders(k)
  BY DEF Sessions, Registered, Holders
<1>2. WithinLimit'
  BY <1>1 DEF CInv, WithinLimit
<1>3. (\A c \in Connections : SessionInv(conn[c]))'
  BY DEF SessionInv
<1> QED BY <1>1, <1>2, <1>3 DEF CInv, Types

LEMMA QuietStepsInv ==
  ASSUME CInv, Tick \/ CancelTasks \/ StopBegins \/ StopEnds \/ UNCHANGED vars
  PROVE  CInv'
<1>1. CASE StopBegins \/ StopEnds \/ UNCHANGED vars
  <2>1. UNCHANGED <<max_connections, secrets, conn>>
    BY <1>1 DEF StopBegins, StopEnds, vars
  <2> QED BY <2>1, QuietInv DEF CInv, Types
<1>2. CASE CancelTasks
  <2>1. \A c \in Connections : conn'[c] = [conn[c] EXCEPT !.cancelled = Registered(c)]
    BY <1>2 DEF CancelTasks
  <2>2. ASSUME NEW c \in Connections
        PROVE  /\ conn'[c] \in SessionRecords /\ SessionInv(conn'[c])
               /\ conn'[c].pc = conn[c].pc /\ conn'[c].key = conn[c].key
    <3>1. conn[c] \in SessionRecords /\ SessionInv(conn[c])
      BY DEF CInv, Types
    <3> DEFINE t == [conn[c] EXCEPT !.cancelled = Registered(c)]
    <3>2. Registered(c) \in BOOLEAN
      BY DEF Registered
    <3>3. /\ t \in SessionRecords
          /\ \A f \in {"pc", "state", "closed", "key", "cmd", "partial", "deadline", "short",
                       "torn"} : t[f] = conn[c][f]
      BY <3>1, <3>2 DEF SessionRecords
    <3> HIDE DEF t
    <3>4. SessionInv(t)
      BY <3>1, <3>3 DEF SessionInv
    <3> QED BY <2>1, <3>3, <3>4 DEF t
  <2>3. conn' \in [Connections -> SessionRecords]
    BY <1>2, <2>2 DEF CancelTasks
  <2> QED BY <1>2, <2>2, <2>3, QuietInv DEF CancelTasks
<1>3. CASE Tick
  <2> DEFINE Passed(c) == IF conn[c].deadline > 0 THEN conn[c].deadline - 1 ELSE conn[c].deadline
  <2>1. \A c \in Connections : conn'[c] = [conn[c] EXCEPT !.deadline = Passed(c)]
    BY <1>3 DEF Tick
  <2>2. ASSUME NEW c \in Connections
        PROVE  /\ conn'[c] \in SessionRecords /\ SessionInv(conn'[c])
               /\ conn'[c].pc = conn[c].pc /\ conn'[c].key = conn[c].key
    <3>1. conn[c] \in SessionRecords /\ SessionInv(conn[c])
      BY DEF CInv, Types
    <3> DEFINE t == [conn[c] EXCEPT !.deadline = Passed(c)]
    <3>2. Passed(c) \in Int /\ (conn[c].deadline = NoDeadline => Passed(c) = NoDeadline)
      BY <3>1 DEF SessionRecords, NoDeadline
    <3> HIDE DEF Passed
    <3>3. /\ t \in SessionRecords /\ t.deadline = Passed(c)
          /\ \A f \in {"pc", "state", "closed", "key", "cmd", "partial", "short", "torn"} :
               t[f] = conn[c][f]
      BY <3>1, <3>2 DEF SessionRecords
    <3> HIDE DEF t
    <3>4. SessionInv(t)
      BY <3>1, <3>2, <3>3 DEF SessionInv
    <3> QED BY <2>1, <3>3, <3>4 DEF t
  <2>3. conn' \in [Connections -> SessionRecords]
    BY <1>3, <2>2 DEF Tick
  <2> QED BY <1>3, <2>2, <2>3, QuietInv DEF Tick
<1> QED BY <1>1, <1>2, <1>3

\* What a step is: it moves one session, begins one, or moves none.
LEMMA StepKinds ==
  ASSUME CInv, [Next]_vars
  PROVE  \/ \E c \in Connections : \E t : Moves(c, t)
         \/ \E c \in Connections : Begin(c)
         \/ Tick \/ CancelTasks \/ StopBegins \/ StopEnds \/ UNCHANGED vars
         \/ \E c \in Connections : SayBye(c) /\ UNCHANGED <<conn, secrets, max_connections>>
<1>1. ASSUME NEW c \in Connections, TaskStep(c), ~Begin(c) PROVE \E t : Moves(c, t)
  BY <1>1, OutsideStepsMove, HandlerEndsMoves, CommandFlushedMoves, ClosingStepsMove,
     CancelArrivesMoves DEF TaskStep
<1>2. ASSUME NEW c \in Connections, FarewellStep(c)
      PROVE  \/ \E t : Moves(c, t)
             \/ SayBye(c) /\ UNCHANGED <<conn, secrets, max_connections>>
  <2>1. CASE SayBye(c) /\ ~conn[c].closed
    BY <2>1 DEF SayBye
  <2> QED BY <1>2, <2>1, ClosingStepsMove DEF FarewellStep
<1> QED BY <1>1, <1>2, OutsideStepsMove, ReadDataMoves DEF Next

LEMMA NextInv == CInv /\ [Next]_vars => CInv'
<1> SUFFICES ASSUME CInv, [Next]_vars PROVE CInv'
  OBVIOUS
<1>1. ASSUME NEW c \in Connections, SayBye(c), UNCHANGED <<conn, secrets, max_connections>>
      PROVE  CInv'
  BY <1>1, QuietInv DEF CInv, Types
<1> QED BY <1>1, StepKinds, MovesInv, BeginInv, QuietStepsInv

\* Before the first connection.
LEMMA InitInv == Init => CInv
<1> SUFFICES ASSUME Init PROVE CInv
  OBVIOUS
<1>1. \A c \in Connections : conn[c] = NewSession
  BY DEF Init
<1>2. Types
  BY <1>1, NewSessionFacts, ConnectionAssumption DEF Init, Types
<1>3. \A c \in Connections : SessionInv(conn[c])
  BY <1>1, NewSessionFacts
<1>4. NewSession.key = None /\ NewSession.pc = "free"
  BY DEF NewSession
<1>5. \A k \in Secrets : Holders(k) = {}
  BY <1>1, <1>4, ConnectionAssumption DEF Holders, None
<1>6. Sessions = {}
  BY <1>1, <1>4 DEF Sessions, Registered
<1>7. WithinLimit
  BY <1>2, <1>6, FS_EmptySet DEF WithinLimit, Types
<1> QED BY <1>2, <1>3, <1>5, <1>7, FS_EmptySet DEF CInv, Init

LEMMA Inductive == Spec => []CInv
BY InitInv, NextInv, PTL DEF Spec

--------------------------------------------------------------------------
(* The theorems *)

\* However LOGINs, timeouts, cancellation and shutdown interleave, the redactor counts
\* exactly the sessions that hold a key, and a session that is gone holds none unless
\* it was cancelled inside close().
THEOREM RedactionIsExact == Spec => []RedactorIsExact
<1>1. CInv => RedactorIsExact
  BY DEF CInv, RedactorIsExact, SessionInv
<1> QED BY <1>1, Inductive, PTL

\* For any number of connections at once, no more than max_connections are served.
THEOREM LimitIsKept == Spec => []WithinLimit
<1>1. CInv => WithinLimit
  BY DEF CInv
<1> QED BY <1>1, Inductive, PTL

\* A session that was closed begins no command but as a session that is logged out.
THEOREM ClosedServesNothing == Spec => ClosedIsNotServed
<1> DEFINE A == \A c \in Connections :
                  conn[c].closed /\ conn[c].pc # "handling" /\ conn'[c].pc = "handling"
                  => conn'[c].state = "logout"
<1>1. CInv /\ [Next]_vars => [A]_vars
  <2> SUFFICES ASSUME CInv, [Next]_vars, NEW c \in Connections, conn[c].closed,
                      conn[c].pc # "handling", conn'[c].pc = "handling"
               PROVE  conn'[c].state = "logout"
    OBVIOUS
  <2>1. ASSUME NEW d \in Connections, NEW t, Moves(d, t) PROVE conn'[c].state = "logout"
    BY <2>1 DEF Moves, Becomes, CInv, Types
  <2>2. ASSUME NEW d \in Connections, Begin(d) PROVE FALSE
    BY <2>2 DEF Begin, Becomes, CInv, Types, SessionRecords
  <2>3. CASE Tick \/ CancelTasks
    BY <2>3 DEF Tick, CancelTasks, CInv, Types, SessionRecords
  <2>4. CASE StopBegins \/ StopEnds \/ UNCHANGED vars \/ UNCHANGED conn
    BY <2>4 DEF StopBegins, StopEnds, vars
  <2> QED BY <2>1, <2>2, <2>3, <2>4, StepKinds
<1> QED BY <1>1, Inductive, PTL DEF Spec, ClosedIsNotServed

\* A command in progress that is timed out had its assembly_timeout, but for one that
\* began in the read which ended another.
THEOREM TimeoutsAreEarned == Spec => TimeoutIsEarned
<1>1. CInv /\ [Next]_vars =>
        [\A c \in Connections : ReadTimesOut(c) /\ conn[c].partial => conn[c].short # "alone"]_vars
  BY DEF CInv, SessionInv
<1> QED BY <1>1, Inductive, PTL DEF Spec, TimeoutIsEarned

--------------------------------------------------------------------------
(* The parser: types *)

\* Events are opaque but for how they were made.
Pieces == [kind : {"line", "literal"}, data : Seq(Octets)]
Reasons == {"line too long", "NUL byte in command", "literal too large", "command too large"}
Events ==
  {Error(tag, why) : tag \in Seq(Octets), why \in Reasons} \cup {Continue(n) : n \in Nat}
  \cup {BuildCommand(tag, pieces) : tag \in Seq(Octets), pieces \in Seq(Pieces)}
Pendings ==
  [open : BOOLEAN, tag : Seq(Octets), pieces : Seq(Pieces), total_bytes : Nat, literal_count : Nat]
Parsers ==
  [buf : Seq(Octets), pending : Pendings, awaiting : Nat \cup {NotAwaiting}, out : Seq(Events),
   fatal : BOOLEAN]

\* A set of numbers with an element has a least one.
LEMMA LeastOf ==
  ASSUME NEW S, S \subseteq Nat, NEW x \in S
  PROVE  \E n \in S : \A m \in S : n <= m
<1>1. IsWellFoundedOn(OpToRel(<, Nat), Nat)
  BY NatLessThanWellFounded, Zenon
<1>2. PICK n \in S : \A m \in S : ~(<<m, n>> \in OpToRel(<, Nat))
  BY <1>1, WFMin, Zenon
<1>3. \A m \in S : ~(m < n)
  BY <1>2 DEF OpToRel
<1> QED  BY <1>3

LEMMA NewParserType == NewParser \in Parsers /\ NoPending \in Pendings
<1>1. <<>> \in Seq(Octets) /\ <<>> \in Seq(Pieces) /\ <<>> \in Seq(Events)
  BY Zenon, EmptySeq
<1>2. NoPending \in Pendings
  BY <1>1 DEF NoPending, Pendings
<1> HIDE DEF NoPending, Pendings
<1>3. NewParser \in Parsers
  BY <1>1, <1>2 DEF NewParser, Parsers, NotAwaiting
<1> QED  BY <1>2, <1>3

LEMMA TagType ==
  ASSUME NEW line \in Seq(Octets)
  PROVE  ExtractTag(line) \in Seq(Octets)
<1> DEFINE spaces == {i \in DOMAIN line : line[i] = SP}
           least == CHOOSE i \in spaces : \A j \in spaces : i <= j
           head == IF spaces = {} THEN line ELSE SubSeq(line, 1, least - 1)
<1>1. head \in Seq(Octets)
  <2>1. CASE spaces = {}
    BY <2>1
  <2>2. CASE spaces # {}
    <3>1. spaces \subseteq Nat /\ DOMAIN line = 1..Len(line) /\ Len(line) \in Nat
      OBVIOUS
    <3>2. PICK x \in spaces : TRUE
      BY <2>2
    <3>3. least \in spaces
      <4> HIDE DEF spaces
      <4>1. \E i \in spaces : \A j \in spaces : i <= j
        BY <3>1, <3>2, LeastOf
      <4> QED  BY <4>1
    <3>4. least \in 1..Len(line)
      BY <3>1, <3>3
    <3> HIDE DEF least, spaces
    <3>5. SubSeq(line, 1, least - 1) \in Seq(Octets)
      BY <3>1, <3>4
    <3> QED  BY <2>2, <3>5
  <2> QED  BY <2>1, <2>2
<1>2. ExtractTag(line) = IF \A i \in DOMAIN head : Printable(head[i]) THEN head ELSE <<>>
  BY DEF ExtractTag
<1>3. <<>> \in Seq(Octets)
  OBVIOUS
<1> HIDE DEF head
<1> QED  BY <1>1, <1>2, <1>3

\* The end of the first line of a buffer.
FirstEnd(buf) == CHOOSE i \in LineEnds(buf) : \A j \in LineEnds(buf) : i <= j
LEMMA FirstEndIs ==
  ASSUME NEW buf \in Seq(Octets), LineEnds(buf) # {}
  PROVE  /\ FirstEnd(buf) \in 1..Len(buf) /\ buf[FirstEnd(buf)] = LF
         /\ \A j \in 1..Len(buf) : buf[j] = LF => FirstEnd(buf) <= j
<1>1. LineEnds(buf) \subseteq 1..Len(buf) /\ LineEnds(buf) \subseteq Nat
  BY DEF LineEnds
<1>2. PICK x \in LineEnds(buf) : TRUE
  OBVIOUS
<1>3. \E i \in LineEnds(buf) : \A j \in LineEnds(buf) : i <= j
  BY <1>1, <1>2, LeastOf
<1>4. FirstEnd(buf) \in LineEnds(buf) /\ \A j \in LineEnds(buf) : FirstEnd(buf) <= j
  BY <1>3 DEF FirstEnd
<1> QED  BY <1>1, <1>4 DEF LineEnds

\* A sequence cut in two.
LEMMA CutInTwo ==
  ASSUME NEW T, NEW s \in Seq(T), NEW k \in 0..Len(s)
  PROVE  /\ SubSeq(s, 1, k) \in Seq(T) /\ Len(SubSeq(s, 1, k)) = k
         /\ \A i \in 1..k : SubSeq(s, 1, k)[i] = s[i]
         /\ SubSeq(s, k + 1, Len(s)) \in Seq(T) /\ Len(SubSeq(s, k + 1, Len(s))) = Len(s) - k
         /\ \A i \in 1..Len(s) - k : SubSeq(s, k + 1, Len(s))[i] = s[k + i]
<1>1. Len(s) \in Nat /\ k \in Int /\ Len(s) \in Int /\ k + 1 \in Int /\ 0 <= k /\ k <= Len(s)
  OBVIOUS
<1>2. \A i \in 1..k : s[i] \in T
  BY <1>1, ElementOfSeq
<1>3. \A i \in k + 1..Len(s) : s[i] \in T
  BY <1>1, ElementOfSeq
<1>4. /\ SubSeq(s, 1, k) \in Seq(T) /\ Len(SubSeq(s, 1, k)) = IF 1 <= k THEN k - 1 + 1 ELSE 0
      /\ \A i \in 1..k - 1 + 1 : SubSeq(s, 1, k)[i] = s[1 + i - 1]
  BY <1>1, <1>2, SubSeqProperties
<1>5. /\ SubSeq(s, k + 1, Len(s)) \in Seq(T)
      /\ Len(SubSeq(s, k + 1, Len(s))) = IF k + 1 <= Len(s) THEN Len(s) - (k + 1) + 1 ELSE 0
      /\ \A i \in 1..Len(s) - (k + 1) + 1 : SubSeq(s, k + 1, Len(s))[i] = s[k + 1 + i - 1]
  BY <1>1, <1>3, SubSeqProperties
<1>6. Len(SubSeq(s, 1, k)) = k /\ Len(SubSeq(s, k + 1, Len(s))) = Len(s) - k
  BY <1>1, <1>4, <1>5
<1>7. \A i \in 1..k : SubSeq(s, 1, k)[i] = s[i]
  <2> SUFFICES ASSUME NEW i \in 1..k PROVE SubSeq(s, 1, k)[i] = s[i]
    OBVIOUS
  <2>1. i \in 1..k - 1 + 1 /\ 1 + i - 1 = i
    BY <1>1
  <2> QED  BY <1>4, <2>1, Zenon
<1>8. \A i \in 1..Len(s) - k : SubSeq(s, k + 1, Len(s))[i] = s[k + i]
  <2> SUFFICES ASSUME NEW i \in 1..Len(s) - k PROVE SubSeq(s, k + 1, Len(s))[i] = s[k + i]
    OBVIOUS
  <2>1. i \in 1..Len(s) - (k + 1) + 1 /\ k + 1 + i - 1 = k + i
    BY <1>1
  <2> QED  BY <1>5, <2>1, Zenon
<1> QED  BY <1>4, <1>5, <1>6, <1>7, <1>8

LEMMA FrontAndLast ==
  ASSUME NEW T, NEW s \in Seq(T), s # <<>>
  PROVE  /\ Front(s) \in Seq(T) /\ Len(Front(s)) = Len(s) - 1 /\ Last(s) \in T
         /\ Last(s) = s[Len(s)]
<1>1. Len(s) \in Nat \ {0}
  OBVIOUS
<1>2. Last(s) = s[Len(s)] /\ Front(s) = SubSeq(s, 1, Len(s) - 1)
  BY DEF Last, Front
<1>3. SubSeq(s, 1, Len(s) - 1) \in Seq(T) /\ Len(SubSeq(s, 1, Len(s) - 1)) = Len(s) - 1
  <2>1. Len(s) - 1 \in 0..Len(s)
    BY <1>1
  <2> QED  BY <2>1, CutInTwo
<1>4. s[Len(s)] \in T
  BY <1>1, ElementOfSeq
<1> QED  BY <1>2, <1>3, <1>4

--------------------------------------------------------------------------
(* The parser: the first line of the buffer *)

FirstLine(buf) ==
  LET raw == SubSeq(buf, 1, FirstEnd(buf) - 1)
  IN IF raw # <<>> /\ Last(raw) = CR THEN Front(raw) ELSE raw
AfterLine(buf) == SubSeq(buf, FirstEnd(buf) + 1, Len(buf))
WithBuf(p, b) == [p EXCEPT !.buf = b]
Fed(p, d) == WithBuf(p, p.buf \o d)

LEMMA TakeLineIs ==
  ASSUME NEW p
  PROVE  TakeLine(p) = IF Len(FirstLine(p.buf)) > max_line
                       THEN YieldFatal(WithBuf(p, AfterLine(p.buf)))
                       ELSE ConsumeLine(WithBuf(p, AfterLine(p.buf)), FirstLine(p.buf))
BY Zenon DEF TakeLine, FirstLine, AfterLine, FirstEnd, WithBuf

LEMMA LineTypes ==
  ASSUME NEW buf \in Seq(Octets), LineEnds(buf) # {}
  PROVE  /\ FirstLine(buf) \in Seq(Octets) /\ AfterLine(buf) \in Seq(Octets)
         /\ Len(AfterLine(buf)) = Len(buf) - FirstEnd(buf)
         /\ Len(FirstLine(buf)) <= FirstEnd(buf) - 1
         /\ \A i \in 1..Len(AfterLine(buf)) : AfterLine(buf)[i] = buf[FirstEnd(buf) + i]
<1> DEFINE e == FirstEnd(buf)
           raw == SubSeq(buf, 1, e - 1)
<1>1. e \in 1..Len(buf) /\ Len(buf) \in Nat
  BY FirstEndIs
<1> HIDE DEF e
<1>2. e - 1 \in 0..Len(buf) /\ e \in 0..Len(buf)
  BY <1>1
<1>3. raw \in Seq(Octets) /\ Len(raw) = e - 1
  BY <1>2, CutInTwo
<1>4. /\ SubSeq(buf, e + 1, Len(buf)) \in Seq(Octets) /\ Len(SubSeq(buf, e + 1, Len(buf))) = Len(buf) - e
      /\ \A i \in 1..Len(buf) - e : SubSeq(buf, e + 1, Len(buf))[i] = buf[e + i]
  BY <1>2, CutInTwo
<1>5. FirstLine(buf) = IF raw # <<>> /\ Last(raw) = CR THEN Front(raw) ELSE raw
  BY DEF FirstLine, e
<1> HIDE DEF raw
<1>6. FirstLine(buf) \in Seq(Octets) /\ Len(FirstLine(buf)) <= e - 1
  <2>1. raw # <<>> => Front(raw) \in Seq(Octets) /\ Len(Front(raw)) = Len(raw) - 1
    BY <1>3, FrontAndLast
  <2> QED  BY <1>1, <1>3, <1>5, <2>1
<1> QED  BY <1>4, <1>6 DEF AfterLine, e

\* More octets behind a line change neither the line nor the order of what follows.
LEMMA LinesOfFed ==
  ASSUME NEW buf \in Seq(Octets), NEW d \in Seq(Octets), LineEnds(buf) # {}
  PROVE  /\ LineEnds(buf \o d) # {}
         /\ FirstLine(buf \o d) = FirstLine(buf)
         /\ AfterLine(buf \o d) = AfterLine(buf) \o d
<1> DEFINE all == buf \o d
           e == FirstEnd(buf)
<1>1. e \in 1..Len(buf) /\ buf[e] = LF /\ \A j \in 1..Len(buf) : buf[j] = LF => e <= j
  BY FirstEndIs
<1>2. /\ all \in Seq(Octets) /\ Len(all) = Len(buf) + Len(d) /\ Len(buf) \in Nat /\ Len(d) \in Nat
      /\ \A i \in 1..Len(buf) + Len(d) : all[i] = IF i <= Len(buf) THEN buf[i] ELSE d[i - Len(buf)]
  BY ConcatProperties, LenProperties
<1> HIDE DEF all, e
<1>3. LineEnds(all) # {}
  <2>1. e \in 1..Len(all) /\ all[e] = LF
    BY <1>1, <1>2
  <2>2. DOMAIN all = 1..Len(all)
    BY <1>2, LenProperties
  <2> QED  BY <2>1, <2>2 DEF LineEnds
<1>4. FirstEnd(all) = e
  <2> DEFINE f == FirstEnd(all)
  <2>1. f \in 1..Len(all) /\ all[f] = LF /\ \A j \in 1..Len(all) : all[j] = LF => f <= j
    BY <1>2, <1>3, FirstEndIs
  <2> HIDE DEF f
  <2>2. e \in 1..Len(all) /\ all[e] = LF
    BY <1>1, <1>2
  <2>3. f <= e
    BY <2>1, <2>2
  <2>4. f \in 1..Len(buf) /\ buf[f] = LF
    BY <1>1, <1>2, <2>1, <2>3
  <2>5. e <= f
    BY <1>1, <2>4
  <2>6. e \in Int /\ f \in Int
    BY <1>1, <2>1
  <2> QED  BY <2>3, <2>5, <2>6 DEF f
<1>5. SubSeq(all, 1, e - 1) = SubSeq(buf, 1, e - 1)
  <2> DEFINE k == e - 1
  <2>1. k \in 0..Len(buf) /\ k \in 0..Len(all) /\ \A i \in 1..k : all[i] = buf[i]
    BY <1>1, <1>2
  <2> HIDE DEF k
  <2>2. SubSeq(all, 1, k) \in Seq(Octets) /\ Len(SubSeq(all, 1, k)) = k
        /\ \A i \in 1..k : SubSeq(all, 1, k)[i] = all[i]
    BY <1>2, <2>1, CutInTwo
  <2>3. SubSeq(buf, 1, k) \in Seq(Octets) /\ Len(SubSeq(buf, 1, k)) = k
        /\ \A i \in 1..k : SubSeq(buf, 1, k)[i] = buf[i]
    BY <2>1, CutInTwo
  <2>4. \A i \in 1..Len(SubSeq(all, 1, k)) : SubSeq(all, 1, k)[i] = SubSeq(buf, 1, k)[i]
    BY <2>1, <2>2, <2>3
  <2>5. SubSeq(all, 1, k) = SubSeq(buf, 1, k)
    BY <2>2, <2>3, <2>4, SeqEqual
  <2> QED  BY <2>5 DEF k
<1>6. FirstLine(all) = FirstLine(buf)
  BY <1>4, <1>5, Zenon DEF FirstLine, e
<1>7. AfterLine(all) = AfterLine(buf) \o d
  <2> DEFINE x == AfterLine(all)
             y == AfterLine(buf)
  <2>1. x \in Seq(Octets) /\ Len(x) = Len(all) - e /\ \A i \in 1..Len(x) : x[i] = all[e + i]
    BY <1>2, <1>3, <1>4, LineTypes
  <2>2. y \in Seq(Octets) /\ Len(y) = Len(buf) - e /\ \A i \in 1..Len(y) : y[i] = buf[e + i]
    BY LineTypes DEF e
  <2> HIDE DEF x, y
  <2>3. /\ y \o d \in Seq(Octets) /\ Len(y \o d) = Len(y) + Len(d)
        /\ \A i \in 1..Len(y) + Len(d) : (y \o d)[i] = IF i <= Len(y) THEN y[i] ELSE d[i - Len(y)]
    BY <2>2, ConcatProperties
  <2>4. Len(x) = Len(y \o d)
    BY <1>1, <1>2, <2>1, <2>2, <2>3
  <2>5. ASSUME NEW i \in 1..Len(x) PROVE x[i] = (y \o d)[i]
    <3>1. i \in 1..Len(y) + Len(d) /\ e + i \in 1..Len(buf) + Len(d)
      BY <1>1, <1>2, <2>1, <2>2
    <3>2. x[i] = IF e + i <= Len(buf) THEN buf[e + i] ELSE d[e + i - Len(buf)]
      <4>1. x[i] = all[e + i]
        BY <2>1
      <4>2. all[e + i] = IF e + i <= Len(buf) THEN buf[e + i] ELSE d[e + i - Len(buf)]
        BY <1>1, <1>2, <3>1
      <4> QED  BY <4>1, <4>2
    <3>3. (y \o d)[i] = IF i <= Len(y) THEN y[i] ELSE d[i - Len(y)]
      BY <2>3, <3>1
    <3>4. (e + i <= Len(buf)) = (i <= Len(y)) /\ e + i - Len(buf) = i - Len(y)
      BY <1>1, <1>2, <2>2
    <3>5. CASE i <= Len(y)
      <4>1. y[i] = buf[e + i]
        BY <1>1, <1>2, <2>2, <3>5
      <4> QED  BY <3>2, <3>3, <3>4, <3>5, <4>1
    <3>6. CASE ~(i <= Len(y))
      BY <3>2, <3>3, <3>4, <3>6
    <3> QED  BY <3>5, <3>6
  <2>6. x = y \o d
    BY <2>1, <2>3, <2>4, <2>5, SeqEqual
  <2> QED  BY <2>6 DEF x, y
<1> QED  BY <1>3, <1>6, <1>7 DEF all

--------------------------------------------------------------------------
(* The parser: what becomes of a line *)

LEMMA OpenedType ==
  ASSUME NEW p \in Parsers, NEW line \in Seq(Octets)
  PROVE  Opened(p, line) \in Pendings
<1>1. NoPending \in Pendings /\ ExtractTag(line) \in Seq(Octets)
  BY NewParserType, TagType
<1> HIDE DEF NoPending
<1>2. [NoPending EXCEPT !.open = TRUE, !.tag = ExtractTag(line)] \in Pendings
  BY <1>1 DEF Pendings
<1>3. p.pending \in Pendings
  BY DEF Parsers
<1> QED  BY <1>2, <1>3 DEF Opened

\* A line ends the command with an event, or announces a literal within the limits;
\* which it does depends on the pending command and the line alone.
LEMMA LineOutcome ==
  ASSUME NEW o \in Pendings, NEW line \in Seq(Octets)
  PROVE  \/ \E e \in Events :
              \A p : Opened(p, line) = o => ConsumeLine(p, line) = Yield(p, e)
         \/ \E n \in Nat :
              /\ line # <<>>
              /\ ~TooLarge(o.total_bytes + Len(line) + 2 + n, o.literal_count + 1)
              /\ \A p : Opened(p, line) = o => ConsumeLine(p, line) = Await(p, o, line, n)
<1> DEFINE n == Last(line)[2]
           total == o.total_bytes + Len(line) + 2
           pieces == Append(o.pieces, Piece("line", line))
           nul == \E i \in DOMAIN line : line[i] = NUL
           nonul == \A i \in DOMAIN line : line[i] # NUL
           large == TooLarge(total + n, o.literal_count + 1)
           over == total > max_command_bytes
<1>1. o.tag \in Seq(Octets) /\ o.pieces \in Seq(Pieces)
  BY DEF Pendings
<1>2. \A why \in Reasons : Error(o.tag, why) \in Events
  BY <1>1 DEF Events
<1>3. pieces \in Seq(Pieces)
  <2>1. Piece("line", line) \in Pieces
    BY DEF Piece, Pieces
  <2> QED  BY <1>1, <2>1, AppendProperties
<1>4. BuildCommand(o.tag, pieces) \in Events
  <2> HIDE DEF pieces
  <2> QED  BY <1>1, <1>3 DEF Events
<1>5. nonul = ~nul
  OBVIOUS
<1>6. ASSUME NEW p, Opened(p, line) = o
      PROVE ConsumeLine(p, line) =
        IF nul THEN Yield(p, Error(o.tag, "NUL byte in command"))
        ELSE IF Announces(line)
        THEN IF n > max_literal THEN Yield(p, Error(o.tag, "literal too large"))
             ELSE IF large THEN Yield(p, Error(o.tag, "command too large"))
             ELSE Await(p, o, line, n)
        ELSE IF over THEN Yield(p, Error(o.tag, "command too large"))
             ELSE Yield(p, BuildCommand(o.tag, pieces))
  <2>1. ConsumeLine(p, line) = AddLine(p, Opened(p, line), line)
    BY Zenon DEF ConsumeLine
  <2>2. ConsumeLine(p, line) = AddLine(p, o, line)
    BY <1>6, <2>1
  <2>3. AddLine(p, o, line) =
          CASE nul -> Yield(p, Error(o.tag, "NUL byte in command"))
            [] nonul /\ Announces(line) ->
                 IF n > max_literal THEN Yield(p, Error(o.tag, "literal too large"))
                 ELSE IF large THEN Yield(p, Error(o.tag, "command too large"))
                 ELSE Await(p, o, line, n)
            [] OTHER -> IF over THEN Yield(p, Error(o.tag, "command too large"))
                        ELSE Yield(p, BuildCommand(o.tag, pieces))
    BY Zenon DEF AddLine
  <2> HIDE DEF nul, nonul, large, over, pieces, n
  <2> QED  BY <1>5, <2>2, <2>3, Zenon
<1> HIDE DEF nul, nonul, large, over, pieces
<1>7. CASE nul
  <2>1. \A p : Opened(p, line) = o => ConsumeLine(p, line) = Yield(p, Error(o.tag, "NUL byte in command"))
    BY <1>6, <1>7, Zenon
  <2>2. Error(o.tag, "NUL byte in command") \in Events
    BY <1>2 DEF Reasons
  <2> QED  BY <2>1, <2>2, Zenon
<1>8. CASE ~nul /\ ~Announces(line)
  <2>1. CASE over
    <3>1. \A p : Opened(p, line) = o => ConsumeLine(p, line) = Yield(p, Error(o.tag, "command too large"))
      BY <1>6, <1>8, <2>1, Zenon
    <3>2. Error(o.tag, "command too large") \in Events
      BY <1>2 DEF Reasons
    <3> QED  BY <3>1, <3>2, Zenon
  <2>2. CASE ~over
    <3>1. \A p : Opened(p, line) = o => ConsumeLine(p, line) = Yield(p, BuildCommand(o.tag, pieces))
      BY <1>6, <1>8, <2>2, Zenon
    <3> QED  BY <1>4, <3>1
  <2> QED  BY <2>1, <2>2
<1>9. CASE ~nul /\ Announces(line)
  <2>1. line # <<>> /\ IsLiteral(Last(line)) /\ Last(line) \in Octets
    BY <1>9, FrontAndLast DEF Announces
  <2>2. n \in Nat
    BY <2>1, OctetsAssumption
  <2> HIDE DEF n
  <2>3. CASE n > max_literal
    <3>1. \A p : Opened(p, line) = o => ConsumeLine(p, line) = Yield(p, Error(o.tag, "literal too large"))
      BY <1>6, <1>9, <2>3, Zenon
    <3>2. Error(o.tag, "literal too large") \in Events
      BY <1>2 DEF Reasons
    <3> QED  BY <3>1, <3>2, Zenon
  <2>4. CASE ~(n > max_literal) /\ large
    <3>1. \A p : Opened(p, line) = o => ConsumeLine(p, line) = Yield(p, Error(o.tag, "command too large"))
      BY <1>6, <1>9, <2>4, Zenon
    <3>2. Error(o.tag, "command too large") \in Events
      BY <1>2 DEF Reasons
    <3> QED  BY <3>1, <3>2, Zenon
  <2>5. CASE ~(n > max_literal) /\ ~large
    <3>1. \A p : Opened(p, line) = o => ConsumeLine(p, line) = Await(p, o, line, n)
      BY <1>6, <1>9, <2>5, Zenon
    <3>2. ~TooLarge(o.total_bytes + Len(line) + 2 + n, o.literal_count + 1)
      BY <2>5 DEF large
    <3> QED  BY <2>1, <2>2, <3>1, <3>2
  <2> QED  BY <2>3, <2>4, <2>5
<1> QED  BY <1>7, <1>8, <1>9

--------------------------------------------------------------------------
(* The parser: one step of events() *)

Reason == Error(<<>>, "line too long")

LEMMA ReasonType == Reason \in Events
<1>1. <<>> \in Seq(Octets) /\ "line too long" \in Reasons
  BY EmptySeq DEF Reasons
<1>2. \A tag \in Seq(Octets), why \in Reasons : Error(tag, why) \in Events
  BY DEF Events
<1> QED  BY <1>1, <1>2, Zenon DEF Reason

LEMMA WithBufFields ==
  ASSUME NEW p \in Parsers, NEW b \in Seq(Octets)
  PROVE  /\ WithBuf(p, b) \in Parsers /\ WithBuf(p, b).buf = b
         /\ WithBuf(p, b).pending = p.pending /\ WithBuf(p, b).awaiting = p.awaiting
         /\ WithBuf(p, b).out = p.out /\ WithBuf(p, b).fatal = p.fatal
BY DEF WithBuf, Parsers

LEMMA YieldFields ==
  ASSUME NEW p \in Parsers, NEW e \in Events
  PROVE  /\ Yield(p, e) \in Parsers /\ Yield(p, e).buf = p.buf
         /\ Yield(p, e).pending = NoPending /\ Yield(p, e).awaiting = p.awaiting
         /\ Yield(p, e).out = Append(p.out, e) /\ Yield(p, e).fatal = p.fatal
<1>1. NoPending \in Pendings
  BY NewParserType
<1>2. p.out \in Seq(Events)
  BY DEF Parsers
<1>3. Append(p.out, e) \in Seq(Events)
  BY <1>2, AppendProperties
<1> QED  BY <1>1, <1>3 DEF Yield, Parsers

LEMMA YieldFatalFields ==
  ASSUME NEW p \in Parsers
  PROVE  /\ YieldFatal(p) \in Parsers /\ YieldFatal(p).buf = p.buf
         /\ YieldFatal(p).pending = NoPending /\ YieldFatal(p).awaiting = p.awaiting
         /\ YieldFatal(p).out = Append(p.out, Reason) /\ YieldFatal(p).fatal
<1> DEFINE q == Yield(p, Reason)
<1>1. /\ q \in Parsers /\ q.buf = p.buf /\ q.pending = NoPending /\ q.awaiting = p.awaiting
      /\ q.out = Append(p.out, Reason)
  BY YieldFields, ReasonType
<1>2. YieldFatal(p) = [q EXCEPT !.fatal = TRUE]
  BY Zenon DEF YieldFatal, Reason
<1> HIDE DEF q
<1> QED  BY <1>1, <1>2 DEF Parsers

LEMMA HeldFields ==
  ASSUME NEW o \in Pendings, NEW line \in Seq(Octets), line # <<>>, NEW n \in Nat
  PROVE  /\ Held(o, line, n) \in Pendings
         /\ Held(o, line, n).total_bytes = o.total_bytes + Len(line) + 2 + n
         /\ Held(o, line, n).literal_count = o.literal_count + 1
         /\ Held(o, line, n).pieces = Append(o.pieces, Piece("line", Front(line)))
         /\ Piece("line", Front(line)) \in Pieces
<1> DEFINE piece == Piece("line", Front(line))
           t == o.total_bytes + Len(line) + 2 + n
           c == o.literal_count + 1
           s == Append(o.pieces, piece)
<1>1. Front(line) \in Seq(Octets)
  BY FrontAndLast
<1>2. piece \in Pieces
  BY <1>1 DEF Piece, Pieces
<1>3. o.pieces \in Seq(Pieces) /\ o.total_bytes \in Nat /\ o.literal_count \in Nat
  BY DEF Pendings
<1> HIDE DEF piece
<1>4. t \in Nat /\ c \in Nat /\ s \in Seq(Pieces)
  BY <1>2, <1>3, AppendProperties
<1> DEFINE h == Held(o, line, n)
<1>5. h = [o EXCEPT !.total_bytes = t, !.literal_count = c, !.pieces = s]
  BY Zenon DEF Held, piece
<1> HIDE DEF t, c, s, h
<1>6. h \in Pendings /\ h.total_bytes = t /\ h.literal_count = c /\ h.pieces = s
  BY <1>4, <1>5 DEF Pendings
<1> QED  BY <1>2, <1>6 DEF t, c, s, h, piece

LEMMA AwaitFields ==
  ASSUME NEW p \in Parsers, NEW o, NEW line, NEW n \in Nat, Held(o, line, n) \in Pendings
  PROVE  /\ Await(p, o, line, n) \in Parsers /\ Await(p, o, line, n).buf = p.buf
         /\ Await(p, o, line, n).pending = Held(o, line, n) /\ Await(p, o, line, n).awaiting = n
         /\ Await(p, o, line, n).out = Append(p.out, Continue(n))
         /\ Await(p, o, line, n).fatal = p.fatal
<1> DEFINE h == Held(o, line, n)
<1>1. h \in Pendings
  OBVIOUS
<1>2. Continue(n) \in Events
  BY DEF Events
<1>3. p.out \in Seq(Events)
  BY DEF Parsers
<1>4. Append(p.out, Continue(n)) \in Seq(Events)
  BY <1>2, <1>3, AppendProperties
<1>5. Await(p, o, line, n) = [p EXCEPT !.awaiting = n, !.out = Append(@, Continue(n)), !.pending = h]
  BY Zenon DEF Await, h
<1> HIDE DEF h
<1>6. /\ Await(p, o, line, n) \in Parsers /\ Await(p, o, line, n).buf = p.buf
      /\ Await(p, o, line, n).pending = h /\ Await(p, o, line, n).awaiting = n
      /\ Await(p, o, line, n).out = Append(p.out, Continue(n))
      /\ Await(p, o, line, n).fatal = p.fatal
  BY <1>1, <1>4, <1>5 DEF Parsers
<1> QED  BY <1>6 DEF h

LEMMA TakeLiteralFields ==
  ASSUME NEW p \in Parsers, p.awaiting # NotAwaiting, p.awaiting <= Len(p.buf)
  PROVE  LET q == TakeLiteral(p)
             piece == Piece("literal", SubSeq(p.buf, 1, p.awaiting)) IN
         /\ q \in Parsers /\ q.buf = SubSeq(p.buf, p.awaiting + 1, Len(p.buf))
         /\ q.awaiting = NotAwaiting /\ q.out = p.out /\ q.fatal = p.fatal
         /\ q.pending = [p.pending EXCEPT !.pieces = Append(@, piece)]
         /\ piece \in Pieces /\ Len(piece.data) = p.awaiting
<1> DEFINE k == p.awaiting
           piece == Piece("literal", SubSeq(p.buf, 1, k))
           rest == SubSeq(p.buf, k + 1, Len(p.buf))
           pending == [p.pending EXCEPT !.pieces = Append(@, piece)]
<1>1. p.buf \in Seq(Octets) /\ p.pending \in Pendings /\ p.pending.pieces \in Seq(Pieces)
  BY DEF Parsers, Pendings
<1>2. k \in 0..Len(p.buf)
  BY <1>1 DEF Parsers
<1>3. SubSeq(p.buf, 1, k) \in Seq(Octets) /\ Len(SubSeq(p.buf, 1, k)) = k /\ rest \in Seq(Octets)
  <2> HIDE DEF k
  <2> QED  BY <1>1, <1>2, CutInTwo
<1>4. piece \in Pieces /\ piece.data = SubSeq(p.buf, 1, k)
  BY <1>3 DEF Piece, Pieces
<1>5. TakeLiteral(p) = [p EXCEPT !.buf = rest, !.awaiting = NotAwaiting, !.pending = pending]
  BY DEF TakeLiteral
<1>6. Append(p.pending.pieces, piece) \in Seq(Pieces)
  <2> HIDE DEF piece
  <2> QED  BY <1>1, <1>4, AppendProperties
<1>7. pending \in Pendings
  <2> HIDE DEF piece
  <2> QED  BY <1>1, <1>6 DEF Pendings
<1> HIDE DEF rest, pending
<1>8. /\ TakeLiteral(p) \in Parsers /\ TakeLiteral(p).buf = rest
      /\ TakeLiteral(p).awaiting = NotAwaiting /\ TakeLiteral(p).out = p.out
      /\ TakeLiteral(p).fatal = p.fatal /\ TakeLiteral(p).pending = pending
  BY <1>3, <1>5, <1>7 DEF Parsers
<1> QED  BY <1>3, <1>4, <1>8 DEF rest, pending

\* Where events() returns.
Stuck(p) ==
  \/ p.fatal
  \/ p.awaiting # NotAwaiting /\ Len(p.buf) < p.awaiting
  \/ p.awaiting = NotAwaiting /\ LineEnds(p.buf) = {} /\ Len(p.buf) <= max_line

LEMMA StepIs ==
  ASSUME NEW p \in Parsers
  PROVE  /\ Stuck(p) => EventsStep(p) = p
         /\ ~Stuck(p) /\ p.awaiting # NotAwaiting =>
              EventsStep(p) = TakeLiteral(p) /\ p.awaiting <= Len(p.buf)
         /\ ~Stuck(p) /\ p.awaiting = NotAwaiting /\ LineEnds(p.buf) = {} =>
              EventsStep(p) = YieldFatal(WithBuf(p, <<>>)) /\ Len(p.buf) > max_line
         /\ ~Stuck(p) /\ p.awaiting = NotAwaiting /\ LineEnds(p.buf) # {} =>
              EventsStep(p) = TakeLine(p)
<1>1. p.fatal \in BOOLEAN /\ p.awaiting \in Int /\ Len(p.buf) \in Nat /\ max_line \in Nat
  BY LimitsAssumption DEF Parsers, NotAwaiting
<1>2. EventsStep(p) =
        IF p.fatal THEN p
        ELSE IF p.awaiting # NotAwaiting
        THEN IF Len(p.buf) < p.awaiting THEN p ELSE TakeLiteral(p)
        ELSE IF LineEnds(p.buf) = {} THEN TakeNothing(p) ELSE TakeLine(p)
  BY Zenon DEF EventsStep
<1>3. TakeNothing(p) = IF Len(p.buf) > max_line THEN YieldFatal(WithBuf(p, <<>>)) ELSE p
  BY Zenon DEF TakeNothing, WithBuf
<1> QED  BY <1>1, <1>2, <1>3 DEF Stuck

\* What is left to do: the octets, and the literal that may be empty.
Measure(p) == 2 * Len(p.buf) + (IF p.awaiting = NotAwaiting THEN 0 ELSE 1)

LEMMA MeasureType ==
  ASSUME NEW p \in Parsers
  PROVE  Measure(p) \in Nat /\ Measure(p) <= 2 * Len(p.buf) + 1 /\ Len(p.buf) \in Nat
BY DEF Measure, Parsers

\* q comes after p: fewer octets, the last of those of p, and an event at most.
Follows(p, q) ==
  /\ q \in Parsers /\ Measure(q) < Measure(p)
  /\ Len(q.buf) <= Len(p.buf)
  /\ \A i \in 1..Len(q.buf) : q.buf[i] = p.buf[Len(p.buf) - Len(q.buf) + i]
  /\ q.out = p.out \/ \E e \in Events : q.out = Append(p.out, e)
  /\ q.fatal => q.awaiting = NotAwaiting

LEMMA StepFollows ==
  ASSUME NEW p \in Parsers, ~Stuck(p)
  PROVE  Follows(p, EventsStep(p))
<1> DEFINE q == EventsStep(p)
<1>1. p.buf \in Seq(Octets) /\ Len(p.buf) \in Nat /\ ~p.fatal /\ max_line \in Nat
      /\ p.fatal \in BOOLEAN /\ p.awaiting \in Nat \cup {NotAwaiting}
  BY LimitsAssumption DEF Parsers, Stuck
<1>2. CASE p.awaiting # NotAwaiting
  <2> DEFINE k == p.awaiting
  <2>1. q = TakeLiteral(p) /\ k <= Len(p.buf)
    BY <1>2, StepIs
  <2>2. k \in 0..Len(p.buf)
    BY <1>1, <1>2, <2>1
  <2>3. /\ q \in Parsers /\ q.buf = SubSeq(p.buf, k + 1, Len(p.buf))
        /\ q.awaiting = NotAwaiting /\ q.out = p.out /\ q.fatal = p.fatal
    BY <1>2, <2>1, TakeLiteralFields
  <2> HIDE DEF q, k
  <2>4. Len(q.buf) = Len(p.buf) - k /\ \A i \in 1..Len(p.buf) - k : q.buf[i] = p.buf[k + i]
    BY <1>1, <2>2, <2>3, CutInTwo
  <2>5. Len(p.buf) - Len(q.buf) = k /\ Len(q.buf) <= Len(p.buf) /\ Measure(q) < Measure(p)
    BY <1>1, <1>2, <2>2, <2>3, <2>4 DEF Measure
  <2> QED  BY <2>3, <2>4, <2>5 DEF Follows, q
<1>3. CASE p.awaiting = NotAwaiting /\ LineEnds(p.buf) = {}
  <2> DEFINE r == WithBuf(p, <<>>)
  <2>1. q = YieldFatal(r) /\ Len(p.buf) > max_line
    BY <1>3, StepIs
  <2>2. <<>> \in Seq(Octets) /\ Len(<<>>) = 0
    BY EmptySeq
  <2>3. r \in Parsers /\ r.buf = <<>> /\ r.awaiting = p.awaiting /\ r.out = p.out
    BY <2>2, WithBufFields
  <2> HIDE DEF r
  <2>4. /\ q \in Parsers /\ q.buf = <<>> /\ q.awaiting = p.awaiting
        /\ q.out = Append(p.out, Reason)
    BY <2>1, <2>3, YieldFatalFields
  <2> HIDE DEF q
  <2>5. Measure(q) < Measure(p) /\ Len(q.buf) = 0
    BY <1>1, <1>3, <2>1, <2>2, <2>4 DEF Measure
  <2> QED  BY <1>1, <1>3, <2>4, <2>5, ReasonType DEF Follows, q
<1>4. CASE p.awaiting = NotAwaiting /\ LineEnds(p.buf) # {}
  <2> DEFINE r == WithBuf(p, AfterLine(p.buf))
             line == FirstLine(p.buf)
             o == Opened(r, line)
             k == FirstEnd(p.buf)
  <2>1. q = IF Len(line) > max_line THEN YieldFatal(r) ELSE ConsumeLine(r, line)
    BY <1>4, StepIs, TakeLineIs
  <2>2. k \in 1..Len(p.buf)
    BY <1>1, <1>4, FirstEndIs
  <2>3. /\ line \in Seq(Octets) /\ AfterLine(p.buf) \in Seq(Octets)
        /\ Len(AfterLine(p.buf)) = Len(p.buf) - k
        /\ \A i \in 1..Len(AfterLine(p.buf)) : AfterLine(p.buf)[i] = p.buf[k + i]
    BY <1>1, <1>4, LineTypes
  <2> HIDE DEF line, k
  <2>4. r \in Parsers /\ r.buf = AfterLine(p.buf) /\ r.awaiting = NotAwaiting /\ r.out = p.out
        /\ r.fatal = p.fatal
    BY <1>4, <2>3, WithBufFields
  <2> HIDE DEF r
  <2>5. o \in Pendings
    BY <2>3, <2>4, OpenedType
  <2>6. /\ q \in Parsers /\ q.buf = r.buf
        /\ \E e \in Events : q.out = Append(p.out, e)
        /\ q.fatal => q.awaiting = NotAwaiting
    <3>1. CASE Len(line) > max_line
      <4>1. q = YieldFatal(r)
        BY <2>1, <3>1
      <4> QED  BY <2>4, <4>1, YieldFatalFields, ReasonType
    <3>2. CASE ~(Len(line) > max_line)
      <4>1. q = ConsumeLine(r, line)
        BY <2>1, <3>2
      <4>2. CASE \E e \in Events :
                   \A x : Opened(x, line) = o => ConsumeLine(x, line) = Yield(x, e)
        <5>1. PICK e \in Events : q = Yield(r, e)
          BY <4>1, <4>2
        <5> HIDE DEF o, q
        <5>2. q \in Parsers /\ q.buf = r.buf /\ q.out = Append(r.out, e) /\ q.fatal = r.fatal
          BY <2>4, <5>1, YieldFields
        <5> QED  BY <1>1, <2>4, <5>2
      <4>3. CASE \E n \in Nat :
                   /\ line # <<>>
                   /\ ~TooLarge(o.total_bytes + Len(line) + 2 + n, o.literal_count + 1)
                   /\ \A x : Opened(x, line) = o => ConsumeLine(x, line) = Await(x, o, line, n)
        <5>1. PICK n \in Nat : line # <<>> /\ q = Await(r, o, line, n)
          BY <4>1, <4>3
        <5> HIDE DEF o, q
        <5>2. /\ q \in Parsers /\ q.buf = r.buf /\ q.out = Append(r.out, Continue(n))
              /\ q.fatal = r.fatal
          <6>1. Held(o, line, n) \in Pendings
            BY <2>3, <2>5, <5>1, HeldFields
          <6> QED  BY <2>4, <5>1, <6>1, AwaitFields
        <5>3. Continue(n) \in Events
          BY DEF Events
        <5> QED  BY <1>1, <2>4, <5>2, <5>3
      <4> QED  BY <2>3, <2>5, <4>2, <4>3, LineOutcome
    <3> QED  BY <3>1, <3>2
  <2> HIDE DEF q, o
  <2>7. Len(q.buf) = Len(p.buf) - k /\ Len(p.buf) - Len(q.buf) = k /\ Len(q.buf) <= Len(p.buf)
    <3>1. Len(q.buf) = Len(p.buf) - k
      BY <2>3, <2>4, <2>6, Zenon
    <3>2. Len(p.buf) \in Nat /\ k \in 1..Len(p.buf)
      BY <1>1, <2>2
    <3> QED  BY <3>1, <3>2
  <2>8. \A i \in 1..Len(q.buf) : q.buf[i] = p.buf[k + i]
    BY <2>3, <2>4, <2>6
  <2>9. Measure(q) < Measure(p)
    <3>1. Measure(q) <= 2 * Len(q.buf) + 1
      BY <2>6, MeasureType
    <3>2. Measure(p) = 2 * Len(p.buf)
      BY <1>1, <1>4 DEF Measure
    <3>3. Measure(q) \in Nat
      BY <2>6, MeasureType
    <3> QED  BY <1>1, <2>2, <2>7, <3>1, <3>2, <3>3
  <2> QED  BY <2>6, <2>7, <2>8, <2>9 DEF Follows, q
<1> QED  BY <1>2, <1>3, <1>4

--------------------------------------------------------------------------
(* The parser: all steps of events() *)

\* g is what events() goes through from p in N steps.
Orbit(p, g, N) == N \in Nat /\ g[0] = p /\ \A n \in 1..N : g[n] = EventsStep(g[n - 1])
Ends(p, r) == Stuck(r) /\ \E N \in Nat : \E g : Orbit(p, g, N) /\ r = g[N]

LEMMA DrainIsOrbit ==
  ASSUME NEW p \in Parsers
  PROVE  \E g : Orbit(p, g, 2 * Len(p.buf) + 1) /\ Drain(p) = g[2 * Len(p.buf) + 1]
<1> DEFINE Step(f, N) == [n \in 0..N |-> IF n = 0 THEN p ELSE EventsStep(f[n - 1])]
           bad == {N \in Nat : ~(\E f : f = Step(f, N))}
           K == 2 * Len(p.buf) + 1
           g == CHOOSE f : f = Step(f, K)
<1>k. K \in Nat
  BY DEF Parsers
<1>1. bad = {}
  <2> SUFFICES ASSUME NEW x \in bad PROVE FALSE
    OBVIOUS
  <2>1. bad \subseteq Nat
    OBVIOUS
  <2> HIDE DEF bad
  <2>2. PICK N \in bad : \A m \in bad : N <= m
    BY <2>1, LeastOf
  <2>3. N \in Nat /\ ~(\E f : f = Step(f, N))
    BY <2>2 DEF bad
  <2>4. CASE N = 0
    <3> DEFINE f == [n \in 0..0 |-> p]
    <3>1. f = Step(f, 0)
      OBVIOUS
    <3> QED  BY <2>3, <2>4, <3>1
  <2>5. CASE N # 0
    <3>1. N - 1 \in Nat /\ N - 1 \notin bad
      BY <2>1, <2>2, <2>3, <2>5
    <3>2. PICK f : f = Step(f, N - 1)
      BY <3>1 DEF bad
    <3> DEFINE h == [n \in 0..N |-> IF n = N THEN EventsStep(f[N - 1]) ELSE f[n]]
    <3>3. \A n \in 0..N - 1 : h[n] = f[n]
      BY <2>3
    <3>4. \A n \in 0..N : h[n] = IF n = 0 THEN p ELSE EventsStep(h[n - 1])
      <4> SUFFICES ASSUME NEW n \in 0..N
                   PROVE  h[n] = IF n = 0 THEN p ELSE EventsStep(h[n - 1])
        OBVIOUS
      <4>1. CASE n = N
        BY <2>3, <2>5, <3>3, <4>1
      <4>2. CASE n # N
        <5>1. n \in 0..N - 1 /\ (n # 0 => n - 1 \in 0..N - 1)
          BY <2>3, <4>2
        <5>2. f[n] = IF n = 0 THEN p ELSE EventsStep(f[n - 1])
          BY <3>2, <5>1
        <5> QED  BY <3>3, <5>1, <5>2
      <4> QED  BY <4>1, <4>2
    <3>5. h = Step(h, N)
      BY <3>4
    <3> QED  BY <2>3, <3>5
  <2> QED  BY <2>4, <2>5
<1>2. g = Step(g, K)
  BY <1>1, <1>k
<1>3. Drain(p) = g[K]
  BY DEF Drain
<1> HIDE DEF g, K
<1>4. Orbit(p, g, K)
  BY <1>2, <1>k DEF Orbit
<1> QED  BY <1>3, <1>4 DEF K

\* After n steps events() is over or n of what was left is done.
LEMMA OrbitEnds ==
  ASSUME NEW p \in Parsers, NEW g, NEW N \in Nat, Orbit(p, g, N)
  PROVE  \A n \in 0..N : g[n] \in Parsers /\ (Stuck(g[n]) \/ Measure(g[n]) + n <= Measure(p))
<1> DEFINE Good(n) == g[n] \in Parsers /\ (Stuck(g[n]) \/ Measure(g[n]) + n <= Measure(p))
           bad == {n \in 0..N : ~Good(n)}
<1> SUFFICES ASSUME NEW x \in bad PROVE FALSE
  OBVIOUS
<1>1. bad \subseteq Nat
  OBVIOUS
<1> HIDE DEF bad
<1>2. PICK n \in bad : \A m \in bad : n <= m
  BY <1>1, LeastOf
<1>3. n \in 0..N /\ ~Good(n)
  BY <1>2 DEF bad
<1>4. n # 0
  <2>1. g[0] = p /\ Measure(p) \in Nat
    BY MeasureType DEF Orbit
  <2> QED  BY <1>3, <2>1
<1>5. n - 1 \in 0..N /\ n \in 1..N /\ n \in Nat
  BY <1>3, <1>4
<1>6. Good(n - 1)
  BY <1>2, <1>5 DEF bad
<1> DEFINE q == g[n - 1]
<1>7. g[n] = EventsStep(q) /\ q \in Parsers
  BY <1>5, <1>6 DEF Orbit
<1>8. Stuck(q) \/ Measure(q) + (n - 1) <= Measure(p)
  BY <1>6
<1> HIDE DEF q
<1>9. CASE Stuck(q)
  BY <1>3, <1>7, <1>9, StepIs
<1>10. CASE ~Stuck(q)
  <2>1. g[n] \in Parsers /\ Measure(g[n]) < Measure(q)
    BY <1>7, <1>10, StepFollows DEF Follows
  <2>2. Measure(g[n]) \in Nat /\ Measure(q) \in Nat /\ Measure(p) \in Nat
    BY <1>7, <2>1, MeasureType
  <2>3. Measure(g[n]) + n <= Measure(p)
    BY <1>5, <1>8, <1>10, <2>1, <2>2
  <2> QED  BY <1>3, <2>1, <2>3
<1> QED  BY <1>9, <1>10

\* Where events() ends.
LEMMA DrainEnds ==
  ASSUME NEW p \in Parsers
  PROVE  Drain(p) \in Parsers /\ Ends(p, Drain(p))
<1> DEFINE K == 2 * Len(p.buf) + 1
<1>1. Measure(p) \in Nat /\ Measure(p) <= K /\ K \in Nat
  BY MeasureType
<1>2. PICK g : Orbit(p, g, K) /\ Drain(p) = g[K]
  BY DrainIsOrbit
<1> HIDE DEF K
<1>3. g[K] \in Parsers /\ (Stuck(g[K]) \/ Measure(g[K]) + K <= Measure(p))
  BY <1>1, <1>2, OrbitEnds
<1>4. Stuck(g[K])
  <2> SUFFICES ASSUME ~Stuck(g[K]) PROVE FALSE
    OBVIOUS
  <2>1. Measure(g[K]) \in Nat
    BY <1>3, MeasureType
  <2>2. Follows(g[K], EventsStep(g[K]))
    BY <1>3, StepFollows
  <2>3. Measure(EventsStep(g[K])) \in Nat /\ Measure(EventsStep(g[K])) < Measure(g[K])
    BY <2>2, MeasureType DEF Follows
  <2> QED  BY <1>1, <1>3, <2>1, <2>3
<1> QED  BY <1>1, <1>2, <1>3, <1>4 DEF Ends

LEMMA EndsOnce ==
  ASSUME NEW p \in Parsers, NEW r, NEW s, Ends(p, r), Ends(p, s)
  PROVE  r = s
<1>1. ASSUME NEW g, NEW N \in Nat, Orbit(p, g, N), Stuck(g[N]),
             NEW h, NEW K \in Nat, Orbit(p, h, K), N <= K
      PROVE  h[K] = g[N]
  <2> DEFINE at(n) == IF n <= N THEN g[n] ELSE g[N]
             bad == {n \in 0..K : h[n] # at(n)}
  <2>1. bad = {}
    <3> SUFFICES ASSUME NEW x \in bad PROVE FALSE
      OBVIOUS
    <3>1. bad \subseteq Nat
      OBVIOUS
    <3> HIDE DEF bad
    <3>2. PICK n \in bad : \A m \in bad : n <= m
      BY <3>1, LeastOf
    <3>3. n \in 0..K /\ h[n] # at(n)
      BY <3>2 DEF bad
    <3>4. n # 0
      BY <1>1, <3>3 DEF Orbit
    <3>5. n \in 1..K /\ n - 1 \in 0..K
      BY <3>3, <3>4
    <3>6. h[n - 1] = at(n - 1)
      BY <3>2, <3>5 DEF bad
    <3>7. h[n] = EventsStep(h[n - 1])
      BY <1>1, <3>5 DEF Orbit
    <3>8. CASE n <= N
      <4>1. n \in 1..N /\ n - 1 <= N
        BY <3>5, <3>8
      <4>2. g[n] = EventsStep(g[n - 1])
        BY <1>1, <4>1 DEF Orbit
      <4> QED  BY <3>3, <3>6, <3>7, <3>8, <4>1, <4>2
    <3>9. CASE ~(n <= N)
      <4>1. N \in 0..N /\ at(n) = g[N] /\ at(n - 1) = g[N]
        BY <3>5, <3>9
      <4>2. g[N] \in Parsers
        BY <1>1, <4>1, OrbitEnds
      <4>3. EventsStep(g[N]) = g[N]
        BY <1>1, <4>2, StepIs
      <4> QED  BY <3>3, <3>6, <3>7, <4>1, <4>3
    <3> QED  BY <3>8, <3>9
  <2>2. K \in 0..K /\ at(K) = g[N]
    BY <1>1
  <2> QED  BY <2>1, <2>2
<1>2. PICK N \in Nat : \E g : Orbit(p, g, N) /\ r = g[N] /\ Stuck(g[N])
  BY DEF Ends
<1>3. PICK g : Orbit(p, g, N) /\ r = g[N] /\ Stuck(g[N])
  BY <1>2
<1>4. PICK K \in Nat : \E h : Orbit(p, h, K) /\ s = h[K] /\ Stuck(h[K])
  BY DEF Ends
<1>5. PICK h : Orbit(p, h, K) /\ s = h[K] /\ Stuck(h[K])
  BY <1>4
<1>6. CASE N <= K
  BY <1>1, <1>3, <1>5, <1>6
<1>7. CASE K <= N
  BY <1>1, <1>3, <1>5, <1>7
<1> QED  BY <1>6, <1>7

\* A step does not change where events() ends.
LEMMA DrainStep ==
  ASSUME NEW p \in Parsers
  PROVE  Drain(EventsStep(p)) = Drain(p)
<1> DEFINE q == EventsStep(p)
<1>1. q \in Parsers
  BY StepIs, StepFollows DEF Follows
<1>2. Ends(q, Drain(q)) /\ Ends(p, Drain(p))
  BY <1>1, DrainEnds
<1>3. PICK N \in Nat : \E g : Orbit(q, g, N) /\ Drain(q) = g[N] /\ Stuck(g[N])
  BY <1>2 DEF Ends
<1>4. PICK g : Orbit(q, g, N) /\ Drain(q) = g[N] /\ Stuck(g[N])
  BY <1>3
<1> DEFINE h == [n \in 0..N + 1 |-> IF n = 0 THEN p ELSE g[n - 1]]
<1>5. h[0] = p /\ \A n \in 1..N + 1 : h[n] = g[n - 1]
  BY <1>4
<1> HIDE DEF h
<1>6. \A n \in 1..N + 1 : h[n] = EventsStep(h[n - 1])
  <2> SUFFICES ASSUME NEW n \in 1..N + 1 PROVE h[n] = EventsStep(h[n - 1])
    OBVIOUS
  <2>1. CASE n = 1
    <3>1. h[n] = g[0] /\ h[n - 1] = p /\ g[0] = q
      BY <1>4, <1>5, <2>1 DEF Orbit
    <3> QED  BY <3>1
  <2>2. CASE n # 1
    <3>1. n - 1 \in 1..N /\ n - 1 \in 1..N + 1
      BY <1>4, <2>2
    <3>2. g[n - 1] = EventsStep(g[n - 1 - 1])
      BY <1>4, <3>1 DEF Orbit
    <3> QED  BY <1>5, <3>1, <3>2
  <2> QED  BY <2>1, <2>2
<1>7. N + 1 \in Nat /\ h[N + 1] = g[N]
  <2>1. N + 1 \in 1..N + 1 /\ N + 1 - 1 = N
    BY <1>4
  <2> QED  BY <1>4, <1>5, <2>1
<1>8. Orbit(p, h, N + 1)
  BY <1>5, <1>6, <1>7 DEF Orbit
<1>9. Ends(p, Drain(q))
  BY <1>4, <1>7, <1>8 DEF Ends
<1> QED  BY <1>2, <1>9, EndsOnce

LEMMA DrainStuck ==
  ASSUME NEW p \in Parsers, Stuck(p)
  PROVE  Drain(p) = p
<1> DEFINE g == [n \in 0..0 |-> p]
<1>1. Orbit(p, g, 0) /\ g[0] = p
  BY DEF Orbit
<1>2. Ends(p, p)
  BY <1>1 DEF Ends
<1> QED  BY <1>2, DrainEnds, EndsOnce

\* What holds where events() is over and, if of q then of the p before it, holds of
\* every parser.
LEMMA EventsInduction ==
  ASSUME NEW G,
         \A p \in Parsers : Stuck(p) /\ Drain(p) = p => p \in G,
         \A p \in Parsers :
           /\ ~Stuck(p) /\ Follows(p, EventsStep(p)) /\ Drain(EventsStep(p)) = Drain(p)
           /\ EventsStep(p) \in G
           => p \in G
  PROVE  \A p \in Parsers : p \in G
<1> SUFFICES ASSUME NEW bad \in Parsers, bad \notin G PROVE FALSE
  OBVIOUS
<1> DEFINE sizes == {Measure(p) : p \in Parsers \ G}
<1>1. sizes \subseteq Nat /\ Measure(bad) \in sizes
  BY MeasureType
<1>2. PICK n \in sizes : \A m \in sizes : n <= m
  <2> HIDE DEF sizes
  <2> QED  BY <1>1, LeastOf
<1>3. PICK p \in Parsers \ G : n = Measure(p)
  BY <1>2
<1>4. ~Stuck(p)
  BY <1>3, DrainStuck
<1>5. Follows(p, EventsStep(p)) /\ Drain(EventsStep(p)) = Drain(p)
  BY <1>3, <1>4, StepFollows, DrainStep
<1>6. EventsStep(p) \in Parsers /\ Measure(EventsStep(p)) < Measure(p)
  BY <1>5 DEF Follows
<1>7. EventsStep(p) \in G
  <2> SUFFICES ASSUME EventsStep(p) \notin G PROVE FALSE
    OBVIOUS
  <2>1. Measure(EventsStep(p)) \in sizes
    BY <1>6
  <2>2. n <= Measure(EventsStep(p)) /\ n \in Nat /\ Measure(EventsStep(p)) \in Nat
    BY <1>1, <1>2, <2>1
  <2> QED  BY <1>3, <1>6, <2>2
<1> QED  BY <1>3, <1>4, <1>5, <1>7

LEMMA PrefixGrows ==
  ASSUME NEW T, NEW s \in Seq(T), NEW t \in Seq(T), NEW e \in T, IsPrefix(Append(s, e), t)
  PROVE  IsPrefix(s, t)
<1> DEFINE u == Append(s, e)
           n == Len(s)
<1>1. u \in Seq(T) /\ Len(u) = n + 1 /\ n \in Nat /\ \A i \in 1..n : u[i] = s[i]
  BY AppendProperties
<1> HIDE DEF u
<1>2. Len(u) <= Len(t) /\ SubSeq(u, 1, Len(u)) = SubSeq(t, 1, Len(u)) /\ Len(t) \in Nat
  BY DEF IsPrefix, u
<1>3. n \in 0..Len(u) /\ n \in 0..Len(t) /\ n \in 0..Len(s) /\ Len(u) \in 0..Len(u) /\ Len(u) \in 0..Len(t)
  BY <1>1, <1>2
<1>4. /\ \A i \in 1..Len(u) : SubSeq(u, 1, Len(u))[i] = u[i]
      /\ \A i \in 1..Len(u) : SubSeq(t, 1, Len(u))[i] = t[i]
  BY <1>1, <1>3, CutInTwo
<1>5. \A i \in 1..n : s[i] = t[i]
  <2> SUFFICES ASSUME NEW i \in 1..n PROVE s[i] = t[i]
    OBVIOUS
  <2>1. i \in 1..Len(u)
    BY <1>1
  <2>2. u[i] = t[i]
    BY <1>2, <1>4, <2>1
  <2> QED  BY <1>1, <2>2
<1>6. SubSeq(s, 1, n) \in Seq(T) /\ Len(SubSeq(s, 1, n)) = n
      /\ \A i \in 1..n : SubSeq(s, 1, n)[i] = s[i]
  BY <1>3, CutInTwo
<1>7. SubSeq(t, 1, n) \in Seq(T) /\ Len(SubSeq(t, 1, n)) = n
      /\ \A i \in 1..n : SubSeq(t, 1, n)[i] = t[i]
  BY <1>3, CutInTwo
<1> HIDE DEF n
<1>8. SubSeq(s, 1, n) = SubSeq(t, 1, n)
  BY <1>5, <1>6, <1>7, SeqEqual
<1>9. n <= Len(t)
  BY <1>3 DEF n
<1> QED  BY <1>8, <1>9 DEF IsPrefix, n

\* Events are yielded behind those that were.
LEMMA DrainGrows ==
  \A p \in Parsers : IsPrefix(p.out, Drain(p).out)
<1> DEFINE G == {p \in Parsers : IsPrefix(p.out, Drain(p).out)}
<1>1. ASSUME NEW p \in Parsers, Drain(p) = p PROVE p \in G
  <2>1. p.out \in Seq(Events)
    BY DEF Parsers
  <2>2. IsPrefix(p.out, p.out)
    BY <2>1 DEF IsPrefix
  <2> QED  BY <1>1, <2>2
<1>2. ASSUME NEW p \in Parsers, Follows(p, EventsStep(p)), Drain(EventsStep(p)) = Drain(p),
             EventsStep(p) \in G
      PROVE p \in G
  <2> DEFINE q == EventsStep(p)
  <2>1. IsPrefix(q.out, Drain(p).out) /\ p.out \in Seq(Events) /\ Drain(p) \in Parsers
    BY <1>2, DrainEnds DEF Parsers
  <2>2. Drain(p).out \in Seq(Events)
    BY <2>1 DEF Parsers
  <2>3. q.out = p.out \/ \E e \in Events : q.out = Append(p.out, e)
    BY <1>2 DEF Follows
  <2> HIDE DEF q
  <2>4. IsPrefix(p.out, Drain(p).out)
    BY <2>1, <2>2, <2>3, PrefixGrows
  <2> QED  BY <2>4
<1> HIDE DEF G
<1>3. \A p \in Parsers : p \in G
  BY <1>1, <1>2, EventsInduction
<1> QED  BY <1>3 DEF G

--------------------------------------------------------------------------
(* The parser: more octets behind those it has *)

LEMMA ParsersEqual ==
  ASSUME NEW p \in Parsers, NEW q \in Parsers, p.buf = q.buf, p.pending = q.pending,
         p.awaiting = q.awaiting, p.out = q.out, p.fatal = q.fatal
  PROVE  p = q
BY DEF Parsers

LEMMA FedFields ==
  ASSUME NEW p \in Parsers, NEW d \in Seq(Octets)
  PROVE  /\ Fed(p, d) \in Parsers /\ Fed(p, d).buf = p.buf \o d
         /\ Fed(p, d).pending = p.pending /\ Fed(p, d).awaiting = p.awaiting
         /\ Fed(p, d).out = p.out /\ Fed(p, d).fatal = p.fatal
         /\ Len(p.buf \o d) = Len(p.buf) + Len(d) /\ p.buf \in Seq(Octets)
         /\ p.buf \o d \in Seq(Octets)
<1>1. p.buf \in Seq(Octets)
  BY DEF Parsers
<1>2. p.buf \o d \in Seq(Octets) /\ Len(p.buf \o d) = Len(p.buf) + Len(d)
  BY <1>1, ConcatProperties
<1> QED  BY <1>1, <1>2, WithBufFields DEF Fed

LEMMA CutOfConcat ==
  ASSUME NEW T, NEW s \in Seq(T), NEW d \in Seq(T), NEW k \in 0..Len(s)
  PROVE  /\ SubSeq(s \o d, 1, k) = SubSeq(s, 1, k)
         /\ SubSeq(s \o d, k + 1, Len(s \o d)) = SubSeq(s, k + 1, Len(s)) \o d
<1> DEFINE all == s \o d
           x == SubSeq(all, k + 1, Len(all))
           y == SubSeq(s, k + 1, Len(s))
<1>1. /\ all \in Seq(T) /\ Len(all) = Len(s) + Len(d) /\ Len(s) \in Nat /\ Len(d) \in Nat
      /\ \A i \in 1..Len(s) + Len(d) : all[i] = IF i <= Len(s) THEN s[i] ELSE d[i - Len(s)]
  BY ConcatProperties, LenProperties
<1> HIDE DEF all
<1>2. k \in 0..Len(all) /\ \A i \in 1..k : all[i] = s[i]
  BY <1>1
<1>3. /\ SubSeq(all, 1, k) \in Seq(T) /\ Len(SubSeq(all, 1, k)) = k
      /\ \A i \in 1..k : SubSeq(all, 1, k)[i] = all[i]
      /\ x \in Seq(T) /\ Len(x) = Len(all) - k
      /\ \A i \in 1..Len(all) - k : x[i] = all[k + i]
  BY <1>1, <1>2, CutInTwo
<1>4. /\ SubSeq(s, 1, k) \in Seq(T) /\ Len(SubSeq(s, 1, k)) = k
      /\ \A i \in 1..k : SubSeq(s, 1, k)[i] = s[i]
      /\ y \in Seq(T) /\ Len(y) = Len(s) - k
      /\ \A i \in 1..Len(s) - k : y[i] = s[k + i]
  BY CutInTwo
<1>5. SubSeq(all, 1, k) = SubSeq(s, 1, k)
  <2>1. \A i \in 1..k : SubSeq(all, 1, k)[i] = SubSeq(s, 1, k)[i]
    BY <1>2, <1>3, <1>4
  <2> QED  BY <1>3, <1>4, <2>1, SeqEqual
<1> HIDE DEF x, y
<1>6. /\ y \o d \in Seq(T) /\ Len(y \o d) = Len(y) + Len(d)
      /\ \A i \in 1..Len(y) + Len(d) : (y \o d)[i] = IF i <= Len(y) THEN y[i] ELSE d[i - Len(y)]
  BY <1>4, ConcatProperties
<1>7. Len(x) = Len(y \o d)
  BY <1>1, <1>3, <1>4, <1>6
<1>8. ASSUME NEW i \in 1..Len(x) PROVE x[i] = (y \o d)[i]
  <2>1. i \in 1..Len(y) + Len(d) /\ i \in 1..Len(all) - k /\ k + i \in 1..Len(s) + Len(d)
    BY <1>1, <1>3, <1>4
  <2>2. x[i] = all[k + i]
    BY <1>3, <2>1
  <2>3. all[k + i] = IF k + i <= Len(s) THEN s[k + i] ELSE d[k + i - Len(s)]
    BY <1>1, <2>1
  <2>4. (y \o d)[i] = IF i <= Len(y) THEN y[i] ELSE d[i - Len(y)]
    BY <1>6, <2>1
  <2>5. (k + i <= Len(s)) = (i <= Len(y)) /\ k + i - Len(s) = i - Len(y)
    BY <1>1, <1>4
  <2>6. i <= Len(y) => y[i] = s[k + i]
    BY <1>4, <2>1
  <2> QED  BY <2>2, <2>3, <2>4, <2>5, <2>6
<1>9. x = y \o d
  BY <1>3, <1>6, <1>7, <1>8, SeqEqual
<1> QED  BY <1>5, <1>9 DEF x, y, all

\* A line is taken in the same way whatever is behind it.
LEMMA TakeLineOfFed ==
  ASSUME NEW p \in Parsers, p.awaiting = NotAwaiting, LineEnds(p.buf) # {}, NEW d \in Seq(Octets)
  PROVE  /\ TakeLine(p) \in Parsers
         /\ TakeLine(Fed(p, d)) = Fed(TakeLine(p), d)
         /\ TakeLine(p).fatal /\ ~p.fatal =>
              Len(FirstLine(p.buf)) > max_line /\ TakeLine(p).out = Append(p.out, Reason)
         /\ Len(FirstLine(p.buf)) > max_line => TakeLine(p).fatal
         /\ TakeLine(p).buf = AfterLine(p.buf)
<1> DEFINE f == Fed(p, d)
           rest == AfterLine(p.buf)
           r == WithBuf(p, rest)
           t == WithBuf(f, rest \o d)
           line == FirstLine(p.buf)
           o == Opened(r, line)
<1>1. /\ f \in Parsers /\ f.buf = p.buf \o d /\ f.pending = p.pending /\ f.awaiting = p.awaiting
      /\ f.out = p.out /\ f.fatal = p.fatal
  BY FedFields
<1>2. p.buf \in Seq(Octets)
  BY DEF Parsers
<1>3. line \in Seq(Octets) /\ rest \in Seq(Octets)
  BY <1>2, LineTypes
<1>4. FirstLine(f.buf) = line /\ AfterLine(f.buf) = rest \o d
  BY <1>1, <1>2, LinesOfFed
<1>5. rest \o d \in Seq(Octets)
  <2> HIDE DEF rest
  <2> QED  BY <1>3, ConcatProperties
<1>6. TakeLine(p) = IF Len(line) > max_line THEN YieldFatal(r) ELSE ConsumeLine(r, line)
  BY TakeLineIs
<1>7. TakeLine(f) = IF Len(line) > max_line THEN YieldFatal(t) ELSE ConsumeLine(t, line)
  BY <1>4, TakeLineIs, Zenon
<1> HIDE DEF f, rest, line
<1>8. /\ r \in Parsers /\ r.buf = rest /\ r.pending = p.pending /\ r.awaiting = p.awaiting
      /\ r.out = p.out /\ r.fatal = p.fatal
  BY <1>3, WithBufFields
<1>9. /\ t \in Parsers /\ t.buf = rest \o d /\ t.pending = p.pending /\ t.awaiting = p.awaiting
      /\ t.out = p.out /\ t.fatal = p.fatal
  BY <1>1, <1>5, WithBufFields
<1> HIDE DEF r, t
<1>10. o \in Pendings /\ Opened(t, line) = o
  <2>1. o \in Pendings
    BY <1>3, <1>8, OpenedType
  <2> QED  BY <1>8, <1>9, <2>1, Zenon DEF Opened
<1> HIDE DEF o
\* What has the same fields but for the octets behind is the same.
<1>11. ASSUME NEW x \in Parsers, NEW y \in Parsers, x.buf = rest, y.buf = rest \o d,
              x.pending = y.pending, x.awaiting = y.awaiting, x.out = y.out, x.fatal = y.fatal
       PROVE  y = Fed(x, d)
  <2>1. /\ Fed(x, d) \in Parsers /\ Fed(x, d).buf = rest \o d /\ Fed(x, d).pending = x.pending
        /\ Fed(x, d).awaiting = x.awaiting /\ Fed(x, d).out = x.out /\ Fed(x, d).fatal = x.fatal
    BY <1>11, FedFields
  <2> QED  BY <1>11, <2>1, ParsersEqual
<1>12. CASE Len(line) > max_line
  <2>1. TakeLine(p) = YieldFatal(r) /\ TakeLine(f) = YieldFatal(t)
    BY <1>6, <1>7, <1>12
  <2>2. /\ TakeLine(p) \in Parsers /\ TakeLine(p).buf = rest /\ TakeLine(p).pending = NoPending
        /\ TakeLine(p).awaiting = p.awaiting /\ TakeLine(p).out = Append(p.out, Reason)
        /\ TakeLine(p).fatal = TRUE
    <3>1. YieldFatal(r).fatal \in BOOLEAN
      BY <1>8, YieldFatalFields DEF Parsers
    <3> QED  BY <1>8, <2>1, <3>1, YieldFatalFields
  <2>3. /\ TakeLine(f) \in Parsers /\ TakeLine(f).buf = rest \o d /\ TakeLine(f).pending = NoPending
        /\ TakeLine(f).awaiting = p.awaiting /\ TakeLine(f).out = Append(p.out, Reason)
        /\ TakeLine(f).fatal = TRUE
    <3>1. YieldFatal(t).fatal \in BOOLEAN
      BY <1>9, YieldFatalFields DEF Parsers
    <3> QED  BY <1>9, <2>1, <3>1, YieldFatalFields
  <2>4. TakeLine(f) = Fed(TakeLine(p), d)
    BY <1>11, <2>2, <2>3
  <2> QED  BY <1>12, <2>2, <2>4 DEF f, rest, line
<1>13. CASE ~(Len(line) > max_line)
  <2>1. TakeLine(p) = ConsumeLine(r, line) /\ TakeLine(f) = ConsumeLine(t, line)
    BY <1>6, <1>7, <1>13
  <2>2. /\ TakeLine(p) \in Parsers /\ TakeLine(p).buf = rest /\ TakeLine(p).fatal = p.fatal
        /\ TakeLine(f) = Fed(TakeLine(p), d)
    <3>1. CASE \E e \in Events :
                 \A x : Opened(x, line) = o => ConsumeLine(x, line) = Yield(x, e)
      <4>1. PICK e \in Events : TakeLine(p) = Yield(r, e) /\ TakeLine(f) = Yield(t, e)
        BY <1>10, <2>1, <3>1 DEF o
      <4>2. /\ TakeLine(p) \in Parsers /\ TakeLine(p).buf = rest /\ TakeLine(p).pending = NoPending
            /\ TakeLine(p).awaiting = p.awaiting /\ TakeLine(p).out = Append(p.out, e)
            /\ TakeLine(p).fatal = p.fatal
        BY <1>8, <4>1, YieldFields
      <4>3. /\ TakeLine(f) \in Parsers /\ TakeLine(f).buf = rest \o d
            /\ TakeLine(f).pending = NoPending
            /\ TakeLine(f).awaiting = p.awaiting /\ TakeLine(f).out = Append(p.out, e)
            /\ TakeLine(f).fatal = p.fatal
        <5>1. LET y == Yield(t, e) IN
              /\ y \in Parsers /\ y.buf = t.buf /\ y.pending = NoPending
              /\ y.awaiting = t.awaiting /\ y.out = Append(t.out, e) /\ y.fatal = t.fatal
          BY <1>9, YieldFields
        <5> QED  BY <1>1, <1>9, <4>1, <5>1
      <4> QED  BY <1>11, <4>2, <4>3
    <3>2. CASE \E n \in Nat :
                 /\ line # <<>>
                 /\ ~TooLarge(o.total_bytes + Len(line) + 2 + n, o.literal_count + 1)
                 /\ \A x : Opened(x, line) = o => ConsumeLine(x, line) = Await(x, o, line, n)
      <4>1. PICK n \in Nat : /\ line # <<>>
                             /\ TakeLine(p) = Await(r, o, line, n) /\ TakeLine(f) = Await(t, o, line, n)
        BY <1>10, <2>1, <3>2 DEF o
      <4> DEFINE h == Held(o, line, n)
      <4>a. line # <<>>
        BY <4>1
      <4>b. Held(o, line, n) \in Pendings
        BY <1>3, <1>10, <4>a, HeldFields
      <4>2. /\ TakeLine(p) \in Parsers /\ TakeLine(p).buf = rest /\ TakeLine(p).pending = h
            /\ TakeLine(p).awaiting = n /\ TakeLine(p).out = Append(p.out, Continue(n))
            /\ TakeLine(p).fatal = p.fatal
        <5>1. LET y == Await(r, o, line, n) IN
              /\ y \in Parsers /\ y.buf = r.buf /\ y.pending = h
              /\ y.awaiting = n /\ y.out = Append(r.out, Continue(n)) /\ y.fatal = r.fatal
          BY <1>8, <4>b, AwaitFields
        <5> HIDE DEF h
        <5> QED  BY <1>1, <1>8, <4>1, <5>1
      <4>3. /\ TakeLine(f) \in Parsers /\ TakeLine(f).buf = rest \o d /\ TakeLine(f).pending = h
            /\ TakeLine(f).awaiting = n /\ TakeLine(f).out = Append(p.out, Continue(n))
            /\ TakeLine(f).fatal = p.fatal
        <5>1. LET y == Await(t, o, line, n) IN
              /\ y \in Parsers /\ y.buf = t.buf /\ y.pending = h
              /\ y.awaiting = n /\ y.out = Append(t.out, Continue(n)) /\ y.fatal = t.fatal
          <6>1. t \in Parsers
            BY <1>9
          <6> QED  BY <4>b, <6>1, AwaitFields
        <5> HIDE DEF h
        <5> QED  BY <1>1, <1>9, <4>1, <5>1
      <4> HIDE DEF h
      <4> QED  BY <1>11, <4>2, <4>3
    <3> QED  BY <1>3, <1>10, <3>1, <3>2, LineOutcome
  <2> QED  BY <1>13, <2>2 DEF f, rest, line
<1> QED  BY <1>12, <1>13

\* A step that does not fail is the same with more octets behind.
LEMMA StepOfFed ==
  ASSUME NEW p \in Parsers, ~Stuck(p), ~EventsStep(p).fatal, NEW d \in Seq(Octets)
  PROVE  ~Stuck(Fed(p, d)) /\ EventsStep(Fed(p, d)) = Fed(EventsStep(p), d)
<1> DEFINE f == Fed(p, d)
           q == EventsStep(p)
<1>1. /\ f \in Parsers /\ f.buf = p.buf \o d /\ f.pending = p.pending /\ f.awaiting = p.awaiting
      /\ f.out = p.out /\ f.fatal = p.fatal /\ Len(f.buf) = Len(p.buf) + Len(d)
  BY FedFields
<1>2. p.buf \in Seq(Octets) /\ Len(p.buf) \in Nat /\ Len(d) \in Nat /\ ~p.fatal
      /\ p.awaiting \in Nat \cup {NotAwaiting}
  BY DEF Parsers, Stuck
<1> HIDE DEF f
<1>3. CASE p.awaiting # NotAwaiting
  <2> DEFINE k == p.awaiting
             piece == Piece("literal", SubSeq(p.buf, 1, k))
  <2>1. q = TakeLiteral(p) /\ k <= Len(p.buf)
    BY <1>3, StepIs
  <2>2. /\ q \in Parsers /\ q.buf = SubSeq(p.buf, k + 1, Len(p.buf))
        /\ q.awaiting = NotAwaiting /\ q.out = p.out /\ q.fatal = p.fatal
        /\ q.pending = [p.pending EXCEPT !.pieces = Append(@, piece)]
    BY <1>3, <2>1, TakeLiteralFields
  <2>3. ~Stuck(f) /\ f.awaiting <= Len(f.buf) /\ f.awaiting # NotAwaiting
    BY <1>1, <1>2, <1>3, <2>1 DEF Stuck
  <2>4. EventsStep(f) = TakeLiteral(f)
    BY <1>1, <2>3, StepIs
  <2>5. k \in 0..Len(p.buf)
    BY <1>2, <1>3, <2>1
  <2>6. /\ SubSeq(f.buf, 1, k) = SubSeq(p.buf, 1, k)
        /\ SubSeq(f.buf, k + 1, Len(f.buf)) = q.buf \o d
    <3> HIDE DEF k, q
    <3>1. /\ SubSeq(p.buf \o d, 1, k) = SubSeq(p.buf, 1, k)
          /\ SubSeq(p.buf \o d, k + 1, Len(p.buf \o d)) = SubSeq(p.buf, k + 1, Len(p.buf)) \o d
      BY <1>2, <2>5, CutOfConcat
    <3> QED  BY <1>1, <2>2, <3>1, Zenon
  <2> DEFINE g == EventsStep(f)
  <2>7. /\ g \in Parsers /\ g.buf = SubSeq(f.buf, f.awaiting + 1, Len(f.buf))
        /\ g.awaiting = NotAwaiting /\ g.out = f.out /\ g.fatal = f.fatal
        /\ g.pending = [f.pending EXCEPT !.pieces = Append(@, Piece("literal", SubSeq(f.buf, 1, f.awaiting)))]
    BY <1>1, <2>3, <2>4, TakeLiteralFields
  <2> HIDE DEF g, q, piece
  <2>8. /\ g.buf = q.buf \o d /\ g.awaiting = q.awaiting /\ g.out = q.out /\ g.fatal = q.fatal
        /\ g.pending = q.pending
    <3>1. Piece("literal", SubSeq(f.buf, 1, f.awaiting)) = piece
      BY <1>1, <2>6, Zenon DEF piece
    <3>2. g.pending = [p.pending EXCEPT !.pieces = Append(@, piece)]
      BY <1>1, <2>7, <3>1, Zenon
    <3>3. g.buf = q.buf \o d
      BY <1>1, <2>6, <2>7, Zenon
    <3> QED  BY <1>1, <2>2, <2>7, <3>2, <3>3
  <2>9. /\ Fed(q, d) \in Parsers /\ Fed(q, d).buf = q.buf \o d /\ Fed(q, d).pending = q.pending
        /\ Fed(q, d).awaiting = q.awaiting /\ Fed(q, d).out = q.out /\ Fed(q, d).fatal = q.fatal
    BY <2>2, FedFields
  <2>10. g = Fed(q, d)
    BY <2>7, <2>8, <2>9, ParsersEqual
  <2> QED  BY <2>3, <2>10 DEF g, q, f
<1>4. CASE p.awaiting = NotAwaiting /\ LineEnds(p.buf) = {}
  <2>1. q = YieldFatal(WithBuf(p, <<>>)) /\ WithBuf(p, <<>>) \in Parsers
    <3>1. <<>> \in Seq(Octets)
      BY EmptySeq
    <3> QED  BY <1>4, <3>1, StepIs, WithBufFields
  <2> QED  BY <2>1, YieldFatalFields
<1>5. CASE p.awaiting = NotAwaiting /\ LineEnds(p.buf) # {}
  <2>1. q = TakeLine(p)
    BY <1>5, StepIs
  <2>2. LineEnds(f.buf) # {}
    BY <1>1, <1>2, <1>5, LinesOfFed
  <2>3. ~Stuck(f)
    BY <1>1, <1>2, <1>5, <2>2 DEF Stuck
  <2>4. EventsStep(f) = TakeLine(f)
    BY <1>1, <1>5, <2>2, <2>3, StepIs
  <2>5. TakeLine(f) = Fed(TakeLine(p), d)
    BY <1>5, TakeLineOfFed DEF f
  <2> QED  BY <2>1, <2>3, <2>4, <2>5 DEF f
<1> QED  BY <1>3, <1>4, <1>5

\* Unless events() fails, it may be interrupted for more octets anywhere.
LEMMA DrainOfFed ==
  ASSUME NEW d \in Seq(Octets)
  PROVE  \A p \in Parsers : ~Drain(p).fatal => Drain(Fed(p, d)) = Drain(Fed(Drain(p), d))
<1> DEFINE G == {p \in Parsers : ~Drain(p).fatal => Drain(Fed(p, d)) = Drain(Fed(Drain(p), d))}
<1>1. ASSUME NEW p \in Parsers, Drain(p) = p PROVE p \in G
  BY <1>1
<1>2. ASSUME NEW p \in Parsers, ~Stuck(p), Follows(p, EventsStep(p)),
             Drain(EventsStep(p)) = Drain(p), EventsStep(p) \in G
      PROVE  p \in G
  <2> DEFINE q == EventsStep(p)
  <2> SUFFICES ASSUME ~Drain(p).fatal PROVE Drain(Fed(p, d)) = Drain(Fed(Drain(p), d))
    OBVIOUS
  <2>1. q \in Parsers /\ Drain(Fed(q, d)) = Drain(Fed(Drain(p), d))
    BY <1>2 DEF Follows
  <2>2. ~q.fatal
    <3> SUFFICES ASSUME q.fatal PROVE FALSE
      OBVIOUS
    <3>1. Drain(q) = q
      BY <2>1, DrainStuck DEF Stuck
    <3> QED  BY <1>2, <3>1
  <2>3. EventsStep(Fed(p, d)) = Fed(q, d)
    BY <1>2, <2>2, StepOfFed
  <2>4. Drain(Fed(q, d)) = Drain(Fed(p, d))
    BY <2>3, FedFields, DrainStep
  <2> QED  BY <2>1, <2>4
<1> HIDE DEF G
<1>3. \A p \in Parsers : p \in G
  BY <1>1, <1>2, EventsInduction
<1> QED  BY <1>3 DEF G

\* Without octets events() does not fail.
LEMMA DrainOfEmpty ==
  ASSUME NEW p \in Parsers, p.buf = <<>>, ~p.fatal
  PROVE  ~Drain(p).fatal
<1>1. max_line \in Nat /\ p.awaiting \in Nat \cup {NotAwaiting} /\ p.fatal \in BOOLEAN
  BY LimitsAssumption DEF Parsers
<1>2. ASSUME NEW x \in Parsers, x.buf = <<>>, x.awaiting = NotAwaiting PROVE Stuck(x)
  <2>1. LineEnds(x.buf) = {} /\ Len(x.buf) = 0
    BY <1>2, EmptySeq DEF LineEnds
  <2> QED  BY <1>1, <1>2, <2>1 DEF Stuck
<1>3. CASE Stuck(p)
  BY <1>3, DrainStuck
<1>4. CASE ~Stuck(p)
  <2> DEFINE q == EventsStep(p)
  <2>1. p.awaiting # NotAwaiting
    BY <1>2, <1>4
  <2>2. q = TakeLiteral(p) /\ p.awaiting <= Len(p.buf)
    BY <1>4, <2>1, StepIs
  <2>3. q \in Parsers /\ q.fatal = p.fatal /\ q.awaiting = NotAwaiting
    BY <2>1, <2>2, TakeLiteralFields
  <2>4. Follows(p, q) /\ Drain(q) = Drain(p)
    BY <1>4, StepFollows, DrainStep
  <2> HIDE DEF q
  <2>5. q.buf = <<>>
    <3>1. Len(q.buf) <= Len(p.buf) /\ Len(p.buf) = 0 /\ q.buf \in Seq(Octets)
      BY <2>3, <2>4, EmptySeq DEF Follows, Parsers
    <3> QED  BY <3>1, EmptySeq
  <2>6. Drain(q) = q
    BY <1>2, <2>3, <2>5, DrainStuck
  <2> QED  BY <2>3, <2>4, <2>6
<1> QED  BY <1>3, <1>4

LEMMA ConcatOne ==
  ASSUME NEW T, NEW s \in Seq(T), NEW d \in Seq(T), Len(d) = 1
  PROVE  /\ s \o d \in Seq(T) /\ Len(s \o d) = Len(s) + 1 /\ DOMAIN (s \o d) = 1..Len(s) + 1
         /\ \A i \in 1..Len(s) + 1 : (s \o d)[i] = IF i <= Len(s) THEN s[i] ELSE d[1]
<1>1. /\ s \o d \in Seq(T) /\ Len(s \o d) = Len(s) + Len(d) /\ Len(s) \in Nat
      /\ \A i \in 1..Len(s) + Len(d) : (s \o d)[i] = IF i <= Len(s) THEN s[i] ELSE d[i - Len(s)]
  BY ConcatProperties, LenProperties
<1>2. \A i \in 1..Len(s) + 1 : (s \o d)[i] = IF i <= Len(s) THEN s[i] ELSE d[1]
  <2> SUFFICES ASSUME NEW i \in 1..Len(s) + 1
               PROVE  (s \o d)[i] = IF i <= Len(s) THEN s[i] ELSE d[1]
    OBVIOUS
  <2>1. (s \o d)[i] = IF i <= Len(s) THEN s[i] ELSE d[i - Len(s)]
    BY <1>1
  <2>2. ~(i <= Len(s)) => i - Len(s) = 1
    BY <1>1
  <2> QED  BY <2>1, <2>2, Zenon
<1>3. DOMAIN (s \o d) = 1..Len(s) + 1
  BY <1>1, LenProperties
<1> QED  BY <1>1, <1>2, <1>3

\* All of a line but its LF is there, with the CR: the octet that fits no line.
LEMMA LineThatFits ==
  ASSUME NEW p \in Parsers, p.awaiting = NotAwaiting, ~p.fatal, LineEnds(p.buf) = {},
         Len(p.buf) > max_line, LF \in Octets
  PROVE  LET f == Fed(p, <<LF>>) IN
         \/ Drain(f).out = Append(p.out, Reason)
         \/ ~Drain(f).fatal /\ p.buf # <<>> /\ p.buf[Len(p.buf)] = CR
<1> DEFINE d == <<LF>>
           f == Fed(p, d)
           n == Len(p.buf)
           raw == SubSeq(f.buf, 1, FirstEnd(f.buf) - 1)
<1>1. /\ d \in Seq(Octets) /\ Len(d) = 1 /\ d[1] = LF
      /\ p.buf \in Seq(Octets) /\ n \in Nat /\ max_line \in Nat
  BY LimitsAssumption DEF Parsers
<1> HIDE DEF d
<1>2. /\ f \in Parsers /\ f.buf = p.buf \o d /\ f.awaiting = p.awaiting
      /\ f.out = p.out /\ f.fatal = p.fatal /\ f.buf \in Seq(Octets)
  BY <1>1, FedFields
<1> HIDE DEF f
<1>3. /\ Len(f.buf) = n + 1 /\ DOMAIN f.buf = 1..n + 1
      /\ \A i \in 1..n + 1 : f.buf[i] = IF i <= n THEN p.buf[i] ELSE LF
  <2>1. /\ Len(p.buf \o d) = Len(p.buf) + 1 /\ DOMAIN (p.buf \o d) = 1..Len(p.buf) + 1
        /\ \A i \in 1..Len(p.buf) + 1 : (p.buf \o d)[i] = IF i <= Len(p.buf) THEN p.buf[i] ELSE d[1]
    BY <1>1, ConcatOne
  <2> QED  BY <1>1, <1>2, <2>1, Zenon
<1>4. n + 1 \in 1..n + 1 /\ f.buf[n + 1] = LF
  BY <1>1, <1>3
<1>5. DOMAIN f.buf = 1..n + 1 /\ DOMAIN p.buf = 1..n
  BY <1>1, <1>3, LenProperties
<1>6. LineEnds(f.buf) # {}
  BY <1>4, <1>5 DEF LineEnds
<1>7. FirstEnd(f.buf) = n + 1
  <2> DEFINE e == FirstEnd(f.buf)
  <2>1. e \in 1..n + 1 /\ f.buf[e] = LF
    BY <1>2, <1>3, <1>6, FirstEndIs
  <2> HIDE DEF e
  <2>2. ASSUME e \in 1..n PROVE FALSE
    <3>1. p.buf[e] = LF
      BY <1>3, <2>1, <2>2
    <3> QED  BY <1>5, <2>2, <3>1 DEF LineEnds
  <2>3. e = n + 1
    BY <1>1, <2>1, <2>2
  <2> QED  BY <2>3 DEF e
<1>8. raw = p.buf
  <2>1. n \in 0..n /\ n + 1 - 1 = n
    BY <1>1
  <2>2. SubSeq(p.buf \o d, 1, n) = SubSeq(p.buf, 1, n) /\ SubSeq(p.buf, 1, n) = p.buf
    <3> HIDE DEF n
    <3>1. n \in 0..Len(p.buf) /\ n = Len(p.buf)
      BY <2>1 DEF n
    <3> QED  BY <1>1, <3>1, CutOfConcat, SubSeqFull
  <2> QED  BY <1>2, <1>7, <2>1, <2>2
<1>9. FirstLine(f.buf) = IF p.buf # <<>> /\ Last(p.buf) = CR THEN Front(p.buf) ELSE p.buf
  BY <1>8, Zenon DEF FirstLine
<1> HIDE DEF raw
<1>10. ~Stuck(f)
  BY <1>2, <1>6 DEF Stuck
<1>11. EventsStep(f) = TakeLine(f)
  BY <1>2, <1>6, <1>10, StepIs
<1> DEFINE q == TakeLine(f)
<1>12. /\ q \in Parsers /\ q.buf = AfterLine(f.buf)
       /\ q.fatal => q.out = Append(p.out, Reason)
       /\ Len(FirstLine(f.buf)) > max_line => q.fatal
  BY <1>1, <1>2, <1>6, TakeLineOfFed
<1>13. Drain(f) = Drain(q)
  BY <1>2, <1>11, DrainStep
<1>14. CASE q.fatal
  <2>1. Drain(q) = q
    BY <1>12, <1>14, DrainStuck DEF Stuck
  <2> QED  BY <1>12, <1>13, <1>14, <2>1 DEF f, d
<1>15. CASE ~q.fatal
  <2>1. ~(Len(FirstLine(f.buf)) > max_line)
    BY <1>12, <1>15
  <2>2. p.buf # <<>> /\ Last(p.buf) = CR
    BY <1>9, <2>1
  <2>3. p.buf[Len(p.buf)] = CR
    BY <2>2 DEF Last
  <2>4. Len(q.buf) = 0
    <3>1. Len(AfterLine(f.buf)) = Len(f.buf) - FirstEnd(f.buf)
      BY <1>2, <1>6, LineTypes
    <3> QED  BY <1>1, <1>3, <1>7, <1>12, <3>1
  <2> HIDE DEF q
  <2>5. q.buf = <<>>
    <3>1. q.buf \in Seq(Octets)
      BY <1>12 DEF Parsers
    <3> QED  BY <2>4, <3>1, EmptySeq
  <2>6. ~Drain(q).fatal
    BY <1>12, <1>15, <2>5, DrainOfEmpty
  <2> QED  BY <1>13, <2>2, <2>3, <2>6 DEF f, d
<1> QED  BY <1>14, <1>15

\* Where events() failed it would have with one octet more, but for that line.
LEMMA FatalOfFed ==
  ASSUME NEW o \in Octets
  PROVE  \A p \in Parsers : ~p.fatal /\ Drain(p).fatal =>
           \/ Drain(Fed(p, <<o>>)).out = Drain(p).out
           \/ o = LF /\ ~Drain(Fed(p, <<o>>)).fatal /\ p.buf # <<>> /\ p.buf[Len(p.buf)] = CR
<1> DEFINE d == <<o>>
           Fits(p) == o = LF /\ ~Drain(Fed(p, d)).fatal /\ p.buf # <<>> /\ p.buf[Len(p.buf)] = CR
           G == {p \in Parsers : ~p.fatal /\ Drain(p).fatal =>
                                   Drain(Fed(p, d)).out = Drain(p).out \/ Fits(p)}
<1>1. d \in Seq(Octets) /\ Len(d) = 1 /\ d[1] = o
  OBVIOUS
<1> HIDE DEF d
<1>2. ASSUME NEW p \in Parsers, Drain(p) = p PROVE p \in G
  BY <1>2
<1>3. ASSUME NEW p \in Parsers, ~Stuck(p), Follows(p, EventsStep(p)),
             Drain(EventsStep(p)) = Drain(p), EventsStep(p) \in G
      PROVE  p \in G
  <2> DEFINE q == EventsStep(p)
             f == Fed(p, d)
  <2> SUFFICES ASSUME ~p.fatal, Drain(p).fatal
               PROVE  Drain(f).out = Drain(p).out \/ Fits(p)
    OBVIOUS
  <2>1. q \in Parsers /\ p.buf \in Seq(Octets) /\ f \in Parsers /\ f.buf = p.buf \o d
        /\ f.awaiting = p.awaiting /\ f.out = p.out /\ f.fatal = p.fatal
    BY <1>1, <1>3, FedFields DEF Follows
  <2>2. CASE ~q.fatal
    <3>1. EventsStep(f) = Fed(q, d)
      BY <1>1, <1>3, <2>2, StepOfFed
    <3>2. Drain(f) = Drain(Fed(q, d))
      BY <2>1, <3>1, DrainStep
    <3>3. Drain(Fed(q, d)).out = Drain(q).out \/ Fits(q)
      BY <1>3, <2>2
    <3>4. q.buf # <<>> => p.buf # <<>> /\ p.buf[Len(p.buf)] = q.buf[Len(q.buf)]
      <4> HIDE DEF q
      <4>1. q.buf \in Seq(Octets) /\ p.buf \in Seq(Octets)
        BY <2>1 DEF Parsers
      <4> SUFFICES ASSUME q.buf # <<>>
                   PROVE  p.buf # <<>> /\ p.buf[Len(p.buf)] = q.buf[Len(q.buf)]
        OBVIOUS
      <4>2. Len(q.buf) \in 1..Len(q.buf) /\ Len(q.buf) <= Len(p.buf) /\ Len(p.buf) \in Nat
        BY <1>3, <4>1, EmptySeq DEF Follows, q
      <4>3. q.buf[Len(q.buf)] = p.buf[Len(p.buf) - Len(q.buf) + Len(q.buf)]
        BY <1>3, <4>2 DEF Follows, q
      <4>4. Len(p.buf) - Len(q.buf) + Len(q.buf) = Len(p.buf) /\ Len(p.buf) # 0
        BY <4>2
      <4> QED  BY <4>3, <4>4, EmptySeq
    <3> HIDE DEF q, f
    <3>5. CASE Drain(Fed(q, d)).out = Drain(q).out
      BY <1>3, <3>2, <3>5 DEF q
    <3>6. CASE Fits(q)
      BY <3>2, <3>4, <3>6 DEF f
    <3> QED  BY <3>3, <3>5, <3>6
  <2>3. CASE q.fatal
    <3>1. Drain(p) = q
      BY <1>3, <2>1, <2>3, DrainStuck DEF Stuck
    <3>2. CASE p.awaiting # NotAwaiting
      <4>1. q = TakeLiteral(p) /\ p.awaiting <= Len(p.buf)
        BY <1>3, <3>2, StepIs
      <4> QED  BY <2>3, <3>2, <4>1, TakeLiteralFields
    <3>3. CASE p.awaiting = NotAwaiting /\ LineEnds(p.buf) # {}
      <4>1. q = TakeLine(p)
        BY <1>3, <3>3, StepIs
      <4>2. /\ TakeLine(f) = Fed(TakeLine(p), d)
            /\ TakeLine(p).fatal /\ ~p.fatal =>
                 Len(FirstLine(p.buf)) > max_line /\ TakeLine(p).out = Append(p.out, Reason)
        BY <1>1, <3>3, TakeLineOfFed
      <4>3. LineEnds(f.buf) # {}
        BY <1>1, <2>1, <3>3, LinesOfFed
      <4>4. ~Stuck(f)
        BY <2>1, <3>3, <4>3 DEF Stuck
      <4>5. EventsStep(f) = TakeLine(f)
        BY <2>1, <3>3, <4>3, <4>4, StepIs
      <4>6. EventsStep(f) \in Parsers /\ EventsStep(f).fatal /\ EventsStep(f).out = q.out
        <5> HIDE DEF f, q
        <5>1. EventsStep(f) = Fed(q, d)
          BY <4>1, <4>2, <4>5
        <5>2. Fed(q, d) \in Parsers /\ Fed(q, d).out = q.out /\ Fed(q, d).fatal = q.fatal
          BY <1>1, <2>1, FedFields
        <5> QED  BY <2>3, <5>1, <5>2
      <4>7. Drain(f) = EventsStep(f)
        BY <2>1, <4>6, DrainStep, DrainStuck DEF Stuck
      <4> QED  BY <3>1, <4>6, <4>7
    <3>4. CASE p.awaiting = NotAwaiting /\ LineEnds(p.buf) = {}
      <4>1. q = YieldFatal(WithBuf(p, <<>>)) /\ Len(p.buf) > max_line
        BY <1>3, <3>4, StepIs
      <4>2. q.out = Append(p.out, Reason)
        <5>1. <<>> \in Seq(Octets)
          BY EmptySeq
        <5>2. WithBuf(p, <<>>) \in Parsers /\ WithBuf(p, <<>>).out = p.out
          BY <5>1, WithBufFields
        <5> QED  BY <4>1, <5>2, YieldFatalFields
      <4>3. CASE o = LF
        <5>1. LF \in Octets
          BY <4>3
        <5>2. d = <<LF>>
          BY <4>3 DEF d
        <5>3. \/ Drain(f).out = Append(p.out, Reason)
              \/ ~Drain(f).fatal /\ p.buf # <<>> /\ p.buf[Len(p.buf)] = CR
          BY <3>4, <4>1, <5>1, <5>2, LineThatFits
        <5> QED  BY <3>1, <4>2, <4>3, <5>3
      <4>4. CASE o # LF
        <5> HIDE DEF f
        <5>a. /\ p.buf \o d \in Seq(Octets) /\ Len(p.buf \o d) = Len(p.buf) + 1
              /\ DOMAIN (p.buf \o d) = 1..Len(p.buf) + 1
              /\ \A i \in 1..Len(p.buf) + 1 : (p.buf \o d)[i] = IF i <= Len(p.buf) THEN p.buf[i] ELSE d[1]
          BY <1>1, <2>1, ConcatOne
        <5>1. /\ Len(f.buf) = Len(p.buf) + 1 /\ f.buf \in Seq(Octets)
              /\ \A i \in 1..Len(p.buf) + 1 : f.buf[i] = IF i <= Len(p.buf) THEN p.buf[i] ELSE o
          BY <1>1, <2>1, <5>a, Zenon
        <5>2. DOMAIN f.buf = 1..Len(p.buf) + 1 /\ DOMAIN p.buf = 1..Len(p.buf) /\ Len(p.buf) \in Nat
          BY <2>1, <5>1, LenProperties
        <5>3. LineEnds(f.buf) = {}
          <6> SUFFICES ASSUME NEW i \in 1..Len(p.buf) + 1, f.buf[i] = LF PROVE FALSE
            BY <5>2 DEF LineEnds
          <6>1. CASE i <= Len(p.buf)
            <7>1. i \in 1..Len(p.buf) /\ p.buf[i] = LF
              BY <5>1, <5>2, <6>1
            <7> QED  BY <3>4, <5>2, <7>1 DEF LineEnds
          <6>2. CASE ~(i <= Len(p.buf))
            BY <4>4, <5>1, <6>2
          <6> QED  BY <6>1, <6>2
        <5>4. ~Stuck(f)
          <6>1. Len(f.buf) > max_line /\ max_line \in Nat
            BY <4>1, <5>1, <5>2, LimitsAssumption
          <6> QED  BY <2>1, <3>4, <5>2, <6>1 DEF Stuck
        <5>5. EventsStep(f) = YieldFatal(WithBuf(f, <<>>))
          BY <2>1, <3>4, <5>3, <5>4, StepIs
        <5>6. WithBuf(f, <<>>) \in Parsers /\ WithBuf(f, <<>>).out = f.out
          <6>1. <<>> \in Seq(Octets)
            BY EmptySeq
          <6> QED  BY <2>1, <6>1, WithBufFields
        <5>7. EventsStep(f) \in Parsers /\ EventsStep(f).fatal /\ EventsStep(f).out = Append(f.out, Reason)
          BY <5>5, <5>6, YieldFatalFields
        <5>8. Drain(f) = EventsStep(f)
          BY <2>1, <5>7, DrainStep, DrainStuck DEF Stuck
        <5> QED  BY <2>1, <3>1, <4>2, <5>7, <5>8
      <4> QED  BY <4>3, <4>4
    <3> QED  BY <3>2, <3>3, <3>4
  <2> QED  BY <2>2, <2>3
<1> HIDE DEF G
<1>4. \A p \in Parsers : p \in G
  BY <1>2, <1>3, EventsInduction
<1> QED  BY <1>4 DEF G, d

--------------------------------------------------------------------------
(* The parser: what it keeps *)

SizeSteps(s, g) == g[0] = 0 /\ \A n \in 1..Len(s) : g[n] = g[n - 1] + Len(s[n].data)
LEMMA SizeStep ==
  ASSUME NEW s, Len(s) \in Nat
  PROVE  \E g : SizeSteps(s, g) /\ SizeOf(s) = g[Len(s)]
<1> DEFINE Step(f, N) == [i \in 0..N |-> IF i = 0 THEN 0 ELSE f[i - 1] + Len(s[i].data)]
           bad == {N \in Nat : ~(\E f : f = Step(f, N))}
           g == CHOOSE f : f = Step(f, Len(s))
<1>1. bad = {}
  <2> SUFFICES ASSUME NEW x \in bad PROVE FALSE
    OBVIOUS
  <2>1. bad \subseteq Nat
    OBVIOUS
  <2> HIDE DEF bad
  <2>2. PICK N \in bad : \A m \in bad : N <= m
    BY <2>1, LeastOf
  <2>3. N \in Nat /\ ~(\E f : f = Step(f, N))
    BY <2>2 DEF bad
  <2>4. CASE N = 0
    <3> DEFINE f == [n \in 0..0 |-> 0]
    <3>1. f = Step(f, 0)
      OBVIOUS
    <3> QED  BY <2>3, <2>4, <3>1
  <2>5. CASE N # 0
    <3>1. N - 1 \in Nat /\ N - 1 \notin bad
      BY <2>1, <2>2, <2>3, <2>5
    <3>2. PICK f : f = Step(f, N - 1)
      BY <3>1 DEF bad
    <3> DEFINE h == [n \in 0..N |-> IF n = N THEN f[N - 1] + Len(s[N].data) ELSE f[n]]
    <3>3. \A n \in 0..N - 1 : h[n] = f[n]
      BY <2>3
    <3>4. \A n \in 0..N : h[n] = IF n = 0 THEN 0 ELSE h[n - 1] + Len(s[n].data)
      <4> SUFFICES ASSUME NEW n \in 0..N
                   PROVE  h[n] = IF n = 0 THEN 0 ELSE h[n - 1] + Len(s[n].data)
        OBVIOUS
      <4>1. CASE n = N
        BY <2>3, <2>5, <3>3, <4>1
      <4>2. CASE n # N
        <5>1. n \in 0..N - 1 /\ (n # 0 => n - 1 \in 0..N - 1)
          BY <2>3, <4>2
        <5>2. f[n] = IF n = 0 THEN 0 ELSE f[n - 1] + Len(s[n].data)
          BY <3>2, <5>1
        <5> QED  BY <3>3, <5>1, <5>2
      <4> QED  BY <4>1, <4>2
    <3>5. h = Step(h, N)
      BY <3>4
    <3> QED  BY <2>3, <3>5
  <2> QED  BY <2>4, <2>5
<1>2. g = Step(g, Len(s))
  BY <1>1
<1>3. SizeOf(s) = g[Len(s)]
  BY DEF SizeOf
<1> HIDE DEF g
<1>4. SizeSteps(s, g)
  BY <1>2 DEF SizeSteps
<1> QED  BY <1>3, <1>4

LEMMA SizeOfNone == SizeOf(<<>>) = 0
<1>1. Len(<<>>) = 0
  BY EmptySeq
<1> QED  BY <1>1, SizeStep DEF SizeSteps

LEMMA SizeOfMore ==
  ASSUME NEW s \in Seq(Pieces), NEW piece \in Pieces
  PROVE  /\ SizeOf(s) \in Nat
         /\ SizeOf(Append(s, piece)) = SizeOf(s) + Len(piece.data)
<1> DEFINE t == Append(s, piece)
           N == Len(s)
<1>1. N \in Nat /\ t \in Seq(Pieces) /\ Len(t) = N + 1 /\ t[N + 1] = piece
      /\ \A i \in 1..N : t[i] = s[i]
  BY AppendProperties
<1> HIDE DEF t
<1>2. PICK g : SizeSteps(s, g) /\ SizeOf(s) = g[N]
  BY <1>1, SizeStep
<1>3. PICK h : SizeSteps(t, h) /\ SizeOf(t) = h[N + 1]
  BY <1>1, SizeStep
<1> HIDE DEF N
<1>4. /\ g[0] = 0 /\ \A n \in 1..N : g[n] = g[n - 1] + Len(s[n].data)
      /\ h[0] = 0 /\ \A n \in 1..N + 1 : h[n] = h[n - 1] + Len(t[n].data)
  BY <1>1, <1>2, <1>3 DEF SizeSteps, N
<1>5. \A n \in 1..N : Len(s[n].data) \in Nat
  BY DEF Pieces, N
<1> DEFINE bad == {n \in 0..N : ~(h[n] = g[n] /\ g[n] \in Nat)}
<1>6. bad = {}
  <2> SUFFICES ASSUME NEW x \in bad PROVE FALSE
    OBVIOUS
  <2>1. bad \subseteq Nat
    OBVIOUS
  <2> HIDE DEF bad
  <2>2. PICK n \in bad : \A m \in bad : n <= m
    BY <2>1, LeastOf
  <2>3. n \in 0..N /\ ~(h[n] = g[n] /\ g[n] \in Nat)
    BY <2>2 DEF bad
  <2>4. n # 0
    BY <1>4, <2>3
  <2>5. n \in 1..N /\ n \in 1..N + 1 /\ n - 1 \in 0..N /\ n - 1 < n
    BY <1>1, <2>3, <2>4
  <2>6. h[n - 1] = g[n - 1] /\ g[n - 1] \in Nat
    BY <2>2, <2>3, <2>5 DEF bad
  <2>7. h[n] = h[n - 1] + Len(t[n].data) /\ g[n] = g[n - 1] + Len(s[n].data) /\ t[n] = s[n]
    BY <1>1, <1>4, <2>5
  <2> QED  BY <1>5, <2>3, <2>5, <2>6, <2>7
<1>7. N \in 0..N /\ N + 1 \in 1..N + 1 /\ N + 1 - 1 = N
  BY <1>1
<1>8. h[N] = g[N] /\ g[N] \in Nat
  BY <1>6, <1>7
<1>9. h[N + 1] = h[N] + Len(t[N + 1].data)
  BY <1>4, <1>7
<1> QED  BY <1>1, <1>2, <1>3, <1>8, <1>9 DEF t

LEMMA LiteralsOfNone == LiteralsOf(<<>>) = {} /\ Cardinality(LiteralsOf(<<>>)) = 0
<1>1. DOMAIN <<>> = {}
  OBVIOUS
<1>2. LiteralsOf(<<>>) = {}
  BY <1>1, Zenon DEF LiteralsOf
<1> QED  BY <1>2, FS_EmptySet, Zenon

LEMMA LiteralsOfMore ==
  ASSUME NEW s \in Seq(Pieces), NEW piece \in Pieces
  PROVE  /\ Cardinality(LiteralsOf(s)) \in Nat
         /\ Cardinality(LiteralsOf(Append(s, piece))) =
              Cardinality(LiteralsOf(s)) + (IF piece.kind = "literal" THEN 1 ELSE 0)
<1> DEFINE t == Append(s, piece)
           N == Len(s)
<1>1. N \in Nat /\ Len(t) = N + 1 /\ t[N + 1] = piece /\ \A i \in 1..N : t[i] = s[i]
      /\ t \in Seq(Pieces)
  BY AppendProperties
<1>2. DOMAIN t = 1..N + 1 /\ DOMAIN s = 1..N
  BY <1>1, LenProperties
<1> HIDE DEF t
<1>3. LiteralsOf(s) \subseteq 1..N /\ N + 1 \notin LiteralsOf(s)
  BY <1>1, <1>2 DEF LiteralsOf
<1>4. IsFiniteSet(LiteralsOf(s))
  <2>1. 1 \in Int /\ N \in Int
    BY <1>1
  <2>2. IsFiniteSet(1..N)
    <3> HIDE DEF N
    <3> QED  BY <2>1, FS_Interval
  <2> QED  BY <1>3, <2>2, FS_Subset
<1>5. Cardinality(LiteralsOf(s)) \in Nat
  BY <1>4, FS_CardinalityType
<1>6. CASE piece.kind = "literal"
  <2>1. LiteralsOf(t) = LiteralsOf(s) \cup {N + 1}
    BY <1>1, <1>2, <1>6 DEF LiteralsOf
  <2>2. Cardinality(LiteralsOf(s) \cup {N + 1}) = Cardinality(LiteralsOf(s)) + 1
    BY <1>3, <1>4, FS_AddElement
  <2> QED  BY <1>5, <1>6, <2>1, <2>2 DEF t
<1>7. CASE piece.kind # "literal"
  <2>1. LiteralsOf(t) = LiteralsOf(s)
    BY <1>1, <1>2, <1>7 DEF LiteralsOf
  <2> QED  BY <1>5, <1>7, <2>1 DEF t
<1> QED  BY <1>6, <1>7

\* The pieces of a command are counted in it before they arrive.
Owed(awaiting) == IF awaiting = NotAwaiting THEN 0 ELSE awaiting
Due(awaiting) == IF awaiting = NotAwaiting THEN 0 ELSE 1
Counted(o, awaiting) ==
  /\ SizeOf(o.pieces) + Owed(awaiting) <= o.total_bytes
  /\ o.total_bytes <= max_command_bytes
  /\ Cardinality(LiteralsOf(o.pieces)) + Due(awaiting) <= o.literal_count
  /\ o.literal_count <= max_literals
Within(p) == Counted(p.pending, p.awaiting) /\ (p.fatal => p.awaiting = NotAwaiting)

LEMMA NothingIsCounted == Counted(NoPending, NotAwaiting)
<1>1. NoPending.pieces = <<>> /\ NoPending.total_bytes = 0 /\ NoPending.literal_count = 0
  BY DEF NoPending
<1> QED  BY <1>1, SizeOfNone, LiteralsOfNone, LimitsAssumption DEF Counted, Owed, Due

LEMMA OpenedIsCounted ==
  ASSUME NEW p \in Parsers, NEW line, Counted(p.pending, NotAwaiting)
  PROVE  Counted(Opened(p, line), NotAwaiting)
<1> DEFINE o == [NoPending EXCEPT !.open = TRUE, !.tag = ExtractTag(line)]
<1>1. o.pieces = NoPending.pieces /\ o.total_bytes = NoPending.total_bytes
      /\ o.literal_count = NoPending.literal_count
  BY DEF NoPending
<1> HIDE DEF o
<1>2. Counted(o, NotAwaiting)
  BY <1>1, NothingIsCounted DEF Counted
<1> QED  BY <1>2 DEF Opened, o

LEMMA HeldIsCounted ==
  ASSUME NEW o \in Pendings, Counted(o, NotAwaiting), NEW line \in Seq(Octets), line # <<>>,
         NEW n \in Nat, ~TooLarge(o.total_bytes + Len(line) + 2 + n, o.literal_count + 1)
  PROVE  Counted(Held(o, line, n), n)
<1> DEFINE h == Held(o, line, n)
           piece == Piece("line", Front(line))
<1>1. /\ h.total_bytes = o.total_bytes + Len(line) + 2 + n /\ h.literal_count = o.literal_count + 1
      /\ h.pieces = Append(o.pieces, piece) /\ piece \in Pieces
  BY HeldFields
<1>2. o.pieces \in Seq(Pieces) /\ o.total_bytes \in Nat /\ o.literal_count \in Nat
  BY DEF Pendings
<1>3. piece.kind = "line" /\ Len(piece.data) = Len(line) - 1 /\ Len(line) \in Nat
  BY FrontAndLast DEF Piece
<1> HIDE DEF h, piece
<1>4. SizeOf(o.pieces) \in Nat /\ SizeOf(h.pieces) = SizeOf(o.pieces) + Len(piece.data)
  BY <1>1, <1>2, SizeOfMore
<1>5. /\ Cardinality(LiteralsOf(o.pieces)) \in Nat
      /\ Cardinality(LiteralsOf(h.pieces)) = Cardinality(LiteralsOf(o.pieces))
  <2>1. /\ Cardinality(LiteralsOf(o.pieces)) \in Nat
        /\ Cardinality(LiteralsOf(h.pieces)) =
             Cardinality(LiteralsOf(o.pieces)) + (IF piece.kind = "literal" THEN 1 ELSE 0)
    BY <1>1, <1>2, LiteralsOfMore, Zenon
  <2>2. (IF piece.kind = "literal" THEN 1 ELSE 0) = 0
    BY <1>3
  <2> QED  BY <2>1, <2>2
<1>6. Owed(n) = n /\ Due(n) = 1 /\ Owed(NotAwaiting) = 0 /\ Due(NotAwaiting) = 0
  BY DEF NotAwaiting, Owed, Due
<1> DEFINE size == SizeOf(o.pieces)
           literals == Cardinality(LiteralsOf(o.pieces))
<1>7. /\ size + 0 <= o.total_bytes /\ literals + 0 <= o.literal_count
      /\ size \in Nat /\ literals \in Nat
  BY <1>4, <1>5, <1>6 DEF Counted
<1>8. ~(h.total_bytes > max_command_bytes) /\ ~(h.literal_count > max_literals)
  BY <1>1, Zenon DEF TooLarge
<1>9. SizeOf(h.pieces) = size + (Len(line) - 1) /\ Cardinality(LiteralsOf(h.pieces)) = literals
  BY <1>3, <1>4, <1>5
<1> HIDE DEF size, literals
<1>10. size + (Len(line) - 1) + n <= h.total_bytes /\ literals + 1 <= h.literal_count
       /\ h.total_bytes <= max_command_bytes /\ h.literal_count <= max_literals
  <2> DEFINE l == Len(line)
             b == h.total_bytes
             c == h.literal_count
             b0 == o.total_bytes
             c0 == o.literal_count
  <2>1. b = b0 + l + 2 + n /\ c = c0 + 1 /\ l \in Nat /\ b0 \in Nat /\ c0 \in Nat
    BY <1>1, <1>2, <1>3
  <2>2. ~(b > max_command_bytes) /\ ~(c > max_literals) /\ size <= b0 /\ literals <= c0
    BY <1>2, <1>7, <1>8
  <2> HIDE DEF l, b, c, b0, c0
  <2>3. max_command_bytes \in Nat /\ max_literals \in Nat /\ size \in Nat /\ literals \in Nat
    BY <1>7, LimitsAssumption
  <2>4. size + (l - 1) + n <= b /\ literals + 1 <= c /\ b <= max_command_bytes /\ c <= max_literals
    BY <2>1, <2>2, <2>3
  <2> QED  BY <2>4 DEF l, b, c
<1>11. Counted(h, n)
  BY <1>6, <1>9, <1>10, Zenon DEF Counted
<1> QED  BY <1>11 DEF h

LEMMA StepWithin ==
  ASSUME NEW p \in Parsers, Within(p), ~Stuck(p)
  PROVE  Within(EventsStep(p))
<1> DEFINE q == EventsStep(p)
<1>1. /\ p.pending \in Pendings /\ p.buf \in Seq(Octets) /\ p.awaiting \in Nat \cup {NotAwaiting}
      /\ ~p.fatal
  BY DEF Parsers, Stuck
<1>2. CASE p.awaiting # NotAwaiting
  <2> DEFINE piece == Piece("literal", SubSeq(p.buf, 1, p.awaiting))
             old == p.pending
  <2>1. q = TakeLiteral(p) /\ p.awaiting <= Len(p.buf)
    BY <1>2, StepIs
  <2>2. /\ q.awaiting = NotAwaiting /\ q.fatal = p.fatal
        /\ q.pending = [p.pending EXCEPT !.pieces = Append(@, piece)]
        /\ piece \in Pieces /\ Len(piece.data) = p.awaiting
    BY <1>2, <2>1, TakeLiteralFields
  <2>3. piece.kind = "literal"
    BY DEF Piece
  <2> HIDE DEF piece, q
  <2>4. q.pending.pieces = Append(old.pieces, piece) /\ q.pending.total_bytes = old.total_bytes
        /\ q.pending.literal_count = old.literal_count /\ old.pieces \in Seq(Pieces)
        /\ old.total_bytes \in Nat /\ old.literal_count \in Nat
    BY <1>1, <2>2 DEF Pendings
  <2>5. /\ SizeOf(old.pieces) \in Nat
        /\ SizeOf(q.pending.pieces) = SizeOf(old.pieces) + p.awaiting
    BY <2>2, <2>4, SizeOfMore
  <2>6. /\ Cardinality(LiteralsOf(old.pieces)) \in Nat
        /\ Cardinality(LiteralsOf(q.pending.pieces)) = Cardinality(LiteralsOf(old.pieces)) + 1
    BY <2>2, <2>3, <2>4, LiteralsOfMore
  <2>7. Counted(q.pending, NotAwaiting)
    BY <1>1, <1>2, <2>4, <2>5, <2>6 DEF Within, Counted, Owed, Due
  <2> QED  BY <2>2, <2>7 DEF Within, q
<1>3. CASE p.awaiting = NotAwaiting /\ LineEnds(p.buf) = {}
  <2>1. q = YieldFatal(WithBuf(p, <<>>))
    BY <1>3, StepIs
  <2>2. WithBuf(p, <<>>) \in Parsers /\ WithBuf(p, <<>>).awaiting = NotAwaiting
    BY <1>3, EmptySeq, WithBufFields
  <2>3. q.pending = NoPending /\ q.awaiting = NotAwaiting
    BY <2>1, <2>2, YieldFatalFields
  <2> QED  BY <2>3, NothingIsCounted DEF Within
<1>4. CASE p.awaiting = NotAwaiting /\ LineEnds(p.buf) # {}
  <2> DEFINE r == WithBuf(p, AfterLine(p.buf))
             line == FirstLine(p.buf)
             o == Opened(r, line)
  <2>1. q = IF Len(line) > max_line THEN YieldFatal(r) ELSE ConsumeLine(r, line)
    BY <1>4, StepIs, TakeLineIs
  <2>2. line \in Seq(Octets) /\ AfterLine(p.buf) \in Seq(Octets)
    BY <1>1, <1>4, LineTypes
  <2> HIDE DEF line
  <2>3. r \in Parsers /\ r.awaiting = NotAwaiting /\ r.pending = p.pending /\ r.fatal = p.fatal
    BY <1>4, <2>2, WithBufFields
  <2> HIDE DEF r
  <2>4. o \in Pendings /\ Counted(o, NotAwaiting)
    BY <1>4, <2>2, <2>3, OpenedType, OpenedIsCounted DEF Within
  <2>5. CASE Len(line) > max_line
    <3>1. q = YieldFatal(r)
      BY <2>1, <2>5
    <3>2. q.pending = NoPending /\ q.awaiting = NotAwaiting
      BY <2>3, <3>1, YieldFatalFields
    <3> QED  BY <3>2, NothingIsCounted DEF Within
  <2>6. CASE ~(Len(line) > max_line)
    <3>1. q = ConsumeLine(r, line)
      BY <2>1, <2>6
    <3>2. CASE \E e \in Events : \A x : Opened(x, line) = o => ConsumeLine(x, line) = Yield(x, e)
      <4>1. PICK e \in Events : q = Yield(r, e)
        BY <3>1, <3>2
      <4> HIDE DEF q, o
      <4>2. q.pending = NoPending /\ q.awaiting = NotAwaiting
        BY <2>3, <4>1, YieldFields
      <4> QED  BY <4>2, NothingIsCounted DEF Within, q
    <3>3. CASE \E n \in Nat :
                 /\ line # <<>>
                 /\ ~TooLarge(o.total_bytes + Len(line) + 2 + n, o.literal_count + 1)
                 /\ \A x : Opened(x, line) = o => ConsumeLine(x, line) = Await(x, o, line, n)
      <4>1. PICK n \in Nat :
              /\ line # <<>>
              /\ ~TooLarge(o.total_bytes + Len(line) + 2 + n, o.literal_count + 1)
              /\ q = Await(r, o, line, n)
        BY <3>1, <3>3
      <4> HIDE DEF q, o
      <4>2. Held(o, line, n) \in Pendings /\ Counted(Held(o, line, n), n)
        BY <2>2, <2>4, <4>1, HeldFields, HeldIsCounted
      <4>3. q.pending = Held(o, line, n) /\ q.awaiting = n /\ q.fatal = r.fatal
        BY <2>3, <4>1, <4>2, AwaitFields
      <4> QED  BY <1>1, <2>3, <4>2, <4>3 DEF Within, q
    <3> QED  BY <2>2, <2>4, <3>2, <3>3, LineOutcome
  <2> QED  BY <2>5, <2>6
<1> QED  BY <1>2, <1>3, <1>4

LEMMA DrainWithin ==
  \A p \in Parsers : Within(p) => Within(Drain(p))
<1> DEFINE G == {p \in Parsers : Within(p) => Within(Drain(p))}
<1>1. ASSUME NEW p \in Parsers, Drain(p) = p PROVE p \in G
  BY <1>1
<1>2. ASSUME NEW p \in Parsers, ~Stuck(p), Drain(EventsStep(p)) = Drain(p), EventsStep(p) \in G
      PROVE  p \in G
  <2> SUFFICES ASSUME Within(p) PROVE Within(Drain(p))
    OBVIOUS
  <2>1. Within(EventsStep(p))
    BY <1>2, StepWithin
  <2> QED  BY <1>2, <2>1
<1> HIDE DEF G
<1>3. \A p \in Parsers : p \in G
  BY <1>1, <1>2, EventsInduction
<1> QED  BY <1>3 DEF G

--------------------------------------------------------------------------
(* The parser: the octets of a connection *)

LEMMA NewParserIs ==
  /\ NewParser \in Parsers /\ Stuck(NewParser) /\ Within(NewParser)
  /\ NewParser.buf = <<>> /\ NewParser.out = <<>> /\ ~NewParser.fatal
<1>1. /\ NewParser.buf = <<>> /\ NewParser.out = <<>> /\ NewParser.fatal = FALSE
      /\ NewParser.pending = NoPending /\ NewParser.awaiting = NotAwaiting
  BY DEF NewParser
<1>2. LineEnds(NewParser.buf) = {} /\ Len(NewParser.buf) = 0
  BY <1>1, EmptySeq DEF LineEnds
<1>3. Stuck(NewParser)
  BY <1>1, <1>2, LimitsAssumption DEF Stuck
<1>4. Within(NewParser)
  BY <1>1, NothingIsCounted DEF Within
<1> QED  BY <1>1, <1>3, <1>4, NewParserType

LEMMA AllAtOnceIs ==
  ASSUME NEW s \in Seq(Octets)
  PROVE  /\ AllAtOnce(s) = Drain(Fed(NewParser, s)) /\ Fed(NewParser, s) \in Parsers
         /\ Fed(NewParser, s).buf = s /\ ~Fed(NewParser, s).fatal
<1>1. NewParser.buf \o s = s
  BY NewParserIs, ConcatEmptySeq
<1>2. AllAtOnce(s) = Drain(Fed(NewParser, s))
  BY <1>1, Zenon DEF AllAtOnce, Fed, WithBuf
<1>3. /\ Fed(NewParser, s) \in Parsers /\ Fed(NewParser, s).buf = NewParser.buf \o s
      /\ Fed(NewParser, s).fatal = NewParser.fatal
  BY NewParserIs, FedFields
<1> QED  BY <1>1, <1>2, <1>3, NewParserIs

LEMMA AllAtOnceMore ==
  ASSUME NEW s \in Seq(Octets), NEW d \in Seq(Octets)
  PROVE  /\ s \o d \in Seq(Octets)
         /\ AllAtOnce(s \o d) = Drain(Fed(Fed(NewParser, s), d))
<1> DEFINE p == Fed(NewParser, s)
           q == Fed(NewParser, s \o d)
<1>1. s \o d \in Seq(Octets)
  BY ConcatProperties
<1>2. /\ p \in Parsers /\ p.buf = s /\ q \in Parsers /\ q.buf = s \o d
      /\ AllAtOnce(s \o d) = Drain(q)
  BY <1>1, AllAtOnceIs
<1>3. /\ p.pending = q.pending /\ p.awaiting = q.awaiting /\ p.out = q.out /\ p.fatal = q.fatal
  <2>1. ASSUME NEW x \in Seq(Octets)
        PROVE  /\ Fed(NewParser, x).pending = NewParser.pending
               /\ Fed(NewParser, x).awaiting = NewParser.awaiting
               /\ Fed(NewParser, x).out = NewParser.out
               /\ Fed(NewParser, x).fatal = NewParser.fatal
    BY <2>1, FedFields, NewParserIs
  <2> QED  BY <1>1, <2>1, Zenon
<1> HIDE DEF p, q
<1>4. /\ Fed(p, d) \in Parsers /\ Fed(p, d).buf = p.buf \o d /\ Fed(p, d).pending = p.pending
      /\ Fed(p, d).awaiting = p.awaiting /\ Fed(p, d).out = p.out /\ Fed(p, d).fatal = p.fatal
  BY <1>2, FedFields
<1>5. Fed(p, d) = q
  <2>1. Fed(p, d).buf = q.buf
    BY <1>2, <1>4, Zenon
  <2> QED  BY <1>2, <1>3, <1>4, <2>1, ParsersEqual
<1> QED  BY <1>1, <1>2, <1>5 DEF p

\* The inductive invariant.
\* The parser is where all octets at once would have brought it, and the command it
\* holds is within what it has counted.
ParserInv ==
  /\ sent \in Seq(Octets) /\ parser \in Parsers
  /\ parser = AllAtOnce(sent)
  /\ Stuck(parser) /\ Within(parser)

LEMMA InitParserInv == ParserInit => ParserInv
<1> SUFFICES ASSUME ParserInit PROVE ParserInv
  OBVIOUS
<1>1. parser = NewParser /\ sent = <<>> /\ sent \in Seq(Octets)
  BY EmptySeq DEF ParserInit
<1>2. Fed(NewParser, <<>>) = NewParser
  <2> DEFINE f == Fed(NewParser, <<>>)
  <2>1. <<>> \in Seq(Octets)
    BY EmptySeq
  <2>2. /\ f \in Parsers /\ f.buf = NewParser.buf \o <<>> /\ f.pending = NewParser.pending
        /\ f.awaiting = NewParser.awaiting /\ f.out = NewParser.out /\ f.fatal = NewParser.fatal
    BY <2>1, NewParserIs, FedFields
  <2>3. f.buf = NewParser.buf
    BY <2>1, AllAtOnceIs, NewParserIs
  <2> HIDE DEF f
  <2>4. f = NewParser
    BY <2>2, <2>3, NewParserIs, ParsersEqual
  <2> QED  BY <2>4 DEF f
<1>3. AllAtOnce(sent) = NewParser
  BY <1>1, <1>2, AllAtOnceIs, NewParserIs, DrainStuck
<1> QED  BY <1>1, <1>3, NewParserIs DEF ParserInv

LEMMA NextParserInv == ParserInv /\ [ParserNext]_ParserVars => ParserInv'
<1> SUFFICES ASSUME ParserInv, [ParserNext]_ParserVars PROVE ParserInv'
  OBVIOUS
<1>1. CASE UNCHANGED ParserVars
  BY <1>1, Zenon DEF ParserInv, ParserVars
<1>2. CASE ParserNext
  <2>1. PICK n \in 1..MaxFeed : \E data \in [1..n -> Octets] : Feed(data)
    BY <1>2 DEF ParserNext
  <2>2. PICK d \in [1..n -> Octets] : Feed(d)
    BY <2>1
  <2>3. n \in Nat /\ d \in Seq(Octets)
    <3>1. n \in Nat
      BY LimitsAssumption
    <3> QED  BY <3>1, SeqDef
  <2>4. ~parser.fatal /\ parser' = Drain(Fed(parser, d)) /\ sent' = sent \o d
    BY <2>2, Zenon DEF Feed, Fed, WithBuf
  <2>5. /\ sent \in Seq(Octets) /\ parser \in Parsers /\ parser = AllAtOnce(sent)
        /\ Within(parser)
    BY DEF ParserInv
  <2>6. sent' \in Seq(Octets) /\ AllAtOnce(sent') = Drain(Fed(Fed(NewParser, sent), d))
    BY <2>3, <2>4, <2>5, AllAtOnceMore, Zenon
  <2>7. Drain(Fed(Fed(NewParser, sent), d)) = Drain(Fed(parser, d))
    <3> DEFINE p == Fed(NewParser, sent)
    <3>1. p \in Parsers /\ parser = Drain(p)
      BY <2>5, AllAtOnceIs
    <3> HIDE DEF p
    <3>2. Drain(Fed(p, d)) = Drain(Fed(parser, d))
      BY <2>3, <2>4, <3>1, DrainOfFed
    <3> QED  BY <3>2 DEF p
  <2>8. /\ Fed(parser, d) \in Parsers /\ Fed(parser, d).pending = parser.pending
        /\ Fed(parser, d).awaiting = parser.awaiting /\ Fed(parser, d).fatal = parser.fatal
    BY <2>3, <2>5, FedFields
  <2>9. Within(Fed(parser, d))
    BY <2>5, <2>8 DEF Within
  <2>10. parser' \in Parsers /\ Stuck(parser') /\ Within(parser')
    BY <2>4, <2>8, <2>9, DrainEnds, DrainWithin DEF Ends
  <2>11. parser' = AllAtOnce(sent')
    BY <2>4, <2>6, <2>7, Zenon
  <2>12. ParserInv' = (/\ sent' \in Seq(Octets) /\ parser' \in Parsers
                       /\ parser' = AllAtOnce(sent')
                       /\ Stuck(parser') /\ Within(parser'))
    BY Zenon DEF ParserInv
  <2> QED  BY <2>6, <2>10, <2>11, <2>12, Zenon
<1> QED  BY <1>1, <1>2

LEMMA ParserInvHolds == ParserSpec => []ParserInv
<1> QED  BY InitParserInv, NextParserInv, PTL DEF ParserSpec

LEMMA CutsDoNotMatterNow == ParserInv => CutsDoNotMatter
<1> SUFFICES ASSUME ParserInv PROVE CutsDoNotMatter
  OBVIOUS
<1> DEFINE p == Fed(NewParser, sent)
<1>1. sent \in Seq(Octets) /\ parser \in Parsers /\ parser = AllAtOnce(sent)
  BY DEF ParserInv
<1>2. p \in Parsers /\ p.buf = sent /\ ~p.fatal /\ parser = Drain(p)
  BY <1>1, AllAtOnceIs
<1>3. ASSUME NEW o \in Octets
      PROVE  IsPrefix(parser.out, AllAtOnce(Append(sent, o)).out) \/ CutBeforeLf
  <2> DEFINE d == <<o>>
             q == AllAtOnce(Append(sent, o))
  <2>1. d \in Seq(Octets)
    OBVIOUS
  <2>2. Append(sent, o) = sent \o d
    BY <1>1, AppendIsConcat
  <2>3. q = Drain(Fed(p, d))
    BY <1>1, <2>1, <2>2, AllAtOnceMore, Zenon
  <2>4. CASE ~parser.fatal
    <3>1. Drain(Fed(p, d)) = Drain(Fed(parser, d))
      <4> HIDE DEF p, d
      <4> QED  BY <1>2, <2>1, <2>4, DrainOfFed
    <3>2. Fed(parser, d) \in Parsers /\ Fed(parser, d).out = parser.out
      BY <1>1, <2>1, FedFields
    <3>3. IsPrefix(Fed(parser, d).out, Drain(Fed(parser, d)).out)
      BY <3>2, DrainGrows, Zenon
    <3> QED  BY <2>3, <3>1, <3>2, <3>3, Zenon
  <2>5. CASE parser.fatal
    <3>1. \/ Drain(Fed(p, <<o>>)).out = Drain(p).out
          \/ o = LF /\ ~Drain(Fed(p, <<o>>)).fatal /\ p.buf # <<>> /\ p.buf[Len(p.buf)] = CR
      <4> HIDE DEF p
      <4> QED  BY <1>2, <2>5, FatalOfFed
    <3>2. CASE Drain(Fed(p, <<o>>)).out = Drain(p).out
      <4>1. q.out = parser.out
        BY <1>2, <2>3, <3>2, Zenon
      <4>2. parser.out \in Seq(Events)
        BY <1>1 DEF Parsers
      <4> HIDE DEF q
      <4>3. IsPrefix(parser.out, q.out)
        BY <4>1, <4>2 DEF IsPrefix
      <4> QED  BY <4>3 DEF q
    <3>3. CASE o = LF /\ ~Drain(Fed(p, <<o>>)).fatal /\ p.buf # <<>> /\ p.buf[Len(p.buf)] = CR
      <4>1. o = LF /\ ~q.fatal
        BY <2>3, <3>3, Zenon
      <4>2. ~AllAtOnce(Append(sent, LF)).fatal
        BY <4>1, Zenon
      <4>3. sent # <<>> /\ sent[Len(sent)] = CR
        BY <1>2, <3>3, Zenon
      <4>4. Last(sent) = CR
        BY <4>3, Zenon DEF Last
      <4>5. CutBeforeLf
        BY <2>5, <4>2, <4>4, Zenon DEF CutBeforeLf
      <4> QED  BY <4>5
    <3> QED  BY <3>1, <3>2, <3>3, Zenon
  <2> QED  BY <2>4, <2>5
<1> QED  BY <1>1, <1>3, Zenon DEF CutsDoNotMatter

\* How the network cuts the octets of a connection into the reads of Session.run()
\* does not change what CommandParser.events() yields, for any octets, limits and
\* cuts, but for the one line that CutBeforeLf names.
THEOREM CutsNeverMatter == ParserSpec => []CutsDoNotMatter
<1> QED  BY ParserInvHolds, CutsDoNotMatterNow, PTL

LEMMA HeldIsBoundedNow == ParserInv => HeldIsBounded
<1> SUFFICES ASSUME ParserInv PROVE HeldIsBounded
  OBVIOUS
<1>1. /\ Stuck(parser) /\ Within(parser) /\ parser \in Parsers
  BY DEF ParserInv
<1> DEFINE size == SizeOf(parser.pending.pieces)
           literals == Cardinality(LiteralsOf(parser.pending.pieces))
           owed == Owed(parser.awaiting)
           due == Due(parser.awaiting)
           total == parser.pending.total_bytes
           count == parser.pending.literal_count
<1>2. parser.fatal => parser.awaiting = NotAwaiting
  BY <1>1 DEF Within
<1>3. parser.awaiting # NotAwaiting => Len(parser.buf) < parser.awaiting
  BY <1>1, <1>2 DEF Stuck
<1>4. parser.awaiting = NotAwaiting /\ ~parser.fatal => Len(parser.buf) <= max_line
  BY <1>1 DEF Stuck
<1>5. /\ size + owed <= total /\ total <= max_command_bytes
      /\ literals + due <= count /\ count <= max_literals
  BY <1>1, Zenon DEF Within, Counted
<1>6. size \in Int /\ literals \in Int /\ owed \in Int /\ due \in Int /\ total \in Int /\ count \in Int
  <2>1. /\ parser.pending.pieces \in Seq(Pieces) /\ total \in Nat /\ count \in Nat
        /\ parser.awaiting \in Int
    BY <1>1 DEF Parsers, Pendings, NotAwaiting
  <2>2. size \in Nat /\ literals \in Nat
    <3>1. Piece("line", <<>>) \in Pieces
      <4>1. <<>> \in Seq(Octets)
        BY EmptySeq
      <4> QED  BY <4>1 DEF Piece, Pieces
    <3> QED  BY <2>1, <3>1, SizeOfMore, LiteralsOfMore, Zenon
  <2>3. owed \in Int /\ due \in Int
    BY <2>1 DEF Owed, Due
  <2> QED  BY <2>1, <2>2, <2>3
<1>7. size + owed <= max_command_bytes /\ literals + due <= max_literals
  <2> HIDE DEF size, literals, owed, due, total, count
  <2> QED  BY <1>5, <1>6, LimitsAssumption
<1> QED  BY <1>3, <1>4, <1>7, Zenon DEF HeldIsBounded, Owed, Due

\* Whatever a client sends and then leaves unfinished, the buffer, the pieces and the
\* literal that CommandParser waits for are within max_line, max_command_bytes and
\* max_literals: _consume_line() refuses before it asks for a literal.
THEOREM HeldIsAlwaysBounded == ParserSpec => []HeldIsBounded
<1> QED  BY ParserInvHolds, HeldIsBoundedNow, PTL

LEMMA LiteralsAreOpaqueNow == ParserInv => LiteralsAreOpaque
<1> SUFFICES ASSUME ParserInv, parser.awaiting # NotAwaiting,
                    NEW rest \in [1..parser.awaiting - Len(parser.buf) -> Octets]
             PROVE  LET done == Drain([parser EXCEPT !.buf = @ \o rest]) IN
                    /\ done.buf = <<>> /\ done.awaiting = NotAwaiting /\ done.out = parser.out
                    /\ done.pending.pieces =
                         Append(parser.pending.pieces, Piece("literal", parser.buf \o rest))
  BY Zenon DEF LiteralsAreOpaque
<1> DEFINE f == Fed(parser, rest)
           q == EventsStep(f)
           n == parser.awaiting
<1>1. parser \in Parsers /\ Stuck(parser) /\ Within(parser) /\ parser.buf \in Seq(Octets)
  BY DEF ParserInv, Parsers
<1>2. ~parser.fatal /\ n \in Nat /\ Len(parser.buf) \in Nat /\ Len(parser.buf) < n
  BY <1>1 DEF Stuck, Within, Parsers
<1>3. rest \in Seq(Octets) /\ Len(rest) = n - Len(parser.buf)
  <2> DEFINE m == n - Len(parser.buf)
  <2>1. m \in Nat /\ rest \in [1..m -> Octets]
    BY <1>2
  <2> HIDE DEF m
  <2>2. rest \in Seq(Octets) /\ Len(rest) = m
    BY <2>1, SeqDef
  <2> QED  BY <2>2 DEF m
<1>4. /\ f \in Parsers /\ f.buf = parser.buf \o rest /\ f.pending = parser.pending
      /\ f.awaiting = n /\ f.out = parser.out /\ f.fatal = parser.fatal
      /\ Len(parser.buf \o rest) = Len(parser.buf) + Len(rest)
  BY <1>1, <1>3, FedFields
<1>5. Len(f.buf) = n
  <2>1. Len(f.buf) = Len(parser.buf) + Len(rest)
    BY <1>4, Zenon
  <2> QED  BY <1>2, <1>3, <2>1
<1> HIDE DEF f
<1>6. ~Stuck(f) /\ f.awaiting # NotAwaiting
  <2>1. n # NotAwaiting /\ ~(n < n)
    BY <1>2
  <2> QED  BY <1>2, <1>4, <1>5, <2>1, Zenon DEF Stuck
<1>7. q = TakeLiteral(f)
  BY <1>4, <1>6, StepIs, Zenon
<1>8. /\ SubSeq(f.buf, n + 1, Len(f.buf)) = <<>> /\ SubSeq(f.buf, 1, n) = f.buf
  <2>1. f.buf \in Seq(Octets)
    BY <1>4 DEF Parsers
  <2>2. n \in 0..Len(f.buf)
    BY <1>2, <1>5
  <2> DEFINE a == SubSeq(f.buf, 1, n)
             b == SubSeq(f.buf, n + 1, Len(f.buf))
  <2> HIDE DEF n
  <2>3. /\ a \in Seq(Octets) /\ Len(a) = n /\ \A i \in 1..n : a[i] = f.buf[i]
        /\ b \in Seq(Octets) /\ Len(b) = Len(f.buf) - n
    BY <2>1, <2>2, CutInTwo
  <2> HIDE DEF a, b
  <2>4. b = <<>>
    BY <1>2, <1>5, <2>3, EmptySeq
  <2>5. a = f.buf
    BY <1>5, <2>1, <2>3, SeqEqual
  <2> QED  BY <2>4, <2>5 DEF a, b
<1>9. /\ q \in Parsers /\ q.buf = <<>> /\ q.awaiting = NotAwaiting /\ q.out = parser.out
      /\ q.pending = [f.pending EXCEPT !.pieces = Append(@, Piece("literal", f.buf))]
  <2>1. /\ q \in Parsers /\ q.buf = SubSeq(f.buf, f.awaiting + 1, Len(f.buf))
        /\ q.awaiting = NotAwaiting /\ q.out = f.out
        /\ q.pending = [f.pending EXCEPT !.pieces =
                          Append(@, Piece("literal", SubSeq(f.buf, 1, f.awaiting)))]
    <3>1. f.awaiting # NotAwaiting /\ f.awaiting <= Len(f.buf)
      BY <1>2, <1>4, <1>5
    <3> QED  BY <1>4, <1>7, <3>1, TakeLiteralFields
  <2> HIDE DEF q
  <2> QED  BY <1>4, <1>8, <2>1, Zenon
<1> HIDE DEF q
<1>10. q.pending.pieces = Append(parser.pending.pieces, Piece("literal", parser.buf \o rest))
  <2>1. f.pending \in Pendings
    BY <1>4 DEF Parsers
  <2>2. [f.pending EXCEPT !.pieces = Append(@, Piece("literal", f.buf))].pieces
          = Append(f.pending.pieces, Piece("literal", f.buf))
    BY <2>1 DEF Pendings
  <2> QED  BY <1>4, <1>9, <2>2, Zenon
<1>11. Drain(f) = q
  <2>1. LineEnds(q.buf) = {} /\ Len(q.buf) = 0
    BY <1>9, EmptySeq DEF LineEnds
  <2>2. Stuck(q)
    BY <1>9, <2>1, LimitsAssumption DEF Stuck
  <2>3. Drain(EventsStep(f)) = Drain(f)
    BY <1>4, DrainStep
  <2> QED  BY <1>9, <2>2, <2>3, DrainStuck DEF q
<1>12. [parser EXCEPT !.buf = @ \o rest] = f
  BY Zenon DEF f, Fed, WithBuf
<1> QED  BY <1>9, <1>10, <1>11, <1>12, Zenon

\* The octets of a literal that events() waits for become the data of the literal and
\* nothing else, whichever octets they are and wherever the reads cut them.
THEOREM LiteralsAreAlwaysOpaque == ParserSpec => []LiteralsAreOpaque
<1> QED  BY ParserInvHolds, LiteralsAreOpaqueNow, PTL
==========================================================================
