---------------------------- MODULE Connection ----------------------------
(***************************************************************************)
(* The life of connections: Server._on_connection and stop, Session.run,   *)
(* dispatch and close, LOGIN and LOGOUT, and the reference counts of the   *)
(* redacting log filter.  A connection has one task, which reads, handles  *)
(* the commands of a read in order, flushes and closes; stop() says        *)
(* farewell to each session from tasks of its own, at the same time.       *)
(*                                                                         *)
(* What commands do to mailboxes is in the other modules.  The idle,       *)
(* write, command and farewell timeouts are choices: they may fire when    *)
(* they are pending.  The assembly deadline is counted in ticks.           *)
(***************************************************************************)
EXTENDS Integers, FiniteSets

CONSTANTS
  Connections,
  Secrets,         \* API keys that clients log in with
  Limits,          \* the values of max_connections to consider
  assembly_timeout, \* in ticks
  MaxCommands      \* bound: commands of all connections together

ASSUME ConnectionAssumption ==
  /\ IsFiniteSet(Connections) /\ "none" \notin Secrets
  /\ Limits \subseteq Nat /\ assembly_timeout \in Nat \ {0} /\ MaxCommands \in Nat

VARIABLES
  max_connections, \* setting
  server,    \* "running", "farewell" and "cancelling" in stop(), "stopped"
  conn,      \* the session and the task of each connection
  farewell,  \* the _farewell task of each session
  secrets,   \* REDACTOR._secrets
  commands   \* how many commands were sent

vars == <<max_connections, server, conn, farewell, secrets, commands>>

None == "none"
NoDeadline == -1

\* pc of the connection's task:
\*   free, accepted   no connection yet; accepted, the task has not begun
\*   greeting         flushing the greeting
\*   reading          waiting for octets
\*   handling         in dispatch(), awaiting the handler of cmd
\*   flushing         flushing what the command wrote
\*   closing          in close(), flushing
\*   lingering        in close(), waiting for the transport
\*   gone             the session is no longer registered
\* state, closed, key: Session.state (without SELECTED), _closed, _api_key.
\* more: complete commands of the last read that are not handled yet.
\* partial: parser.in_progress when those are.  deadline: ticks to the assembly
\* deadline.  short: history, whether some of those had passed at the first octet of
\* the command in progress: "no", "alone", or "shared" if it came in the read that
\* ended another command in progress.
NewSession ==
  [pc |-> "free", state |-> "notauth", closed |-> FALSE, key |-> None, cmd |-> None, more |-> 0,
   partial |-> FALSE, deadline |-> NoDeadline, short |-> "no",
   cancelled |-> FALSE, torn |-> FALSE]

Registered(c) == conn[c].pc \notin {"free", "accepted", "gone"}
Sessions == {c \in Connections : Registered(c)} \* Server._sessions

Init ==
  /\ max_connections \in Limits
  /\ server = "running"
  /\ conn = [c \in Connections |-> NewSession]
  /\ farewell = [c \in Connections |-> "none"]
  /\ secrets = [k \in Secrets |-> 0]
  /\ commands = 0

Becomes(c, s) == conn' = [conn EXCEPT ![c] = s]

--------------------------------------------------------------------------
(* Credentials *)

Register(key) == secrets' = [secrets EXCEPT ![key] = @ + 1]

\* clear_credentials of a session: unregister stops at zero.
UnregisterAll(key) == IF key = None THEN secrets ELSE [secrets EXCEPT ![key] = 0]
Unregister(key) ==
  IF key = None THEN secrets
  ELSE [secrets EXCEPT ![key] = IF @ - 1 <= 0 THEN 0 ELSE @ - 1]

\* The session after close() has come to its end, and clear_credentials with it.
Closed(s) == [s EXCEPT !.closed = TRUE, !.state = "logout", !.key = None]

--------------------------------------------------------------------------
(* Server._on_connection *)

\* The listener accepts and a task is created.
Accept(c) ==
  /\ server = "running" /\ conn[c].pc = "free"
  /\ Becomes(c, [conn[c] EXCEPT !.pc = "accepted"])
  /\ UNCHANGED <<max_connections, commands, server, farewell, secrets>>

\* The task begins: the check and the registration are one step.
IsOverfull == Cardinality(Sessions) > max_connections
IsFull == Cardinality(Sessions) >= max_connections

Begin(c) ==
  /\ conn[c].pc = "accepted"
  /\ Becomes(c, [conn[c] EXCEPT !.pc = IF IsFull THEN "gone" ELSE "greeting"])
  /\ UNCHANGED <<max_connections, commands, server, farewell, secrets>>

--------------------------------------------------------------------------
(* Session.close, from the connection's own task *)

\* What was being read does not matter any more, nor what the session was.
Unread(s) == [NewSession EXCEPT !.pc = s.pc, !.state = s.state, !.closed = s.closed, !.key = s.key,
                                !.cancelled = s.cancelled]
Leave(s) == [NewSession EXCEPT !.pc = "gone", !.state = "logout", !.closed = TRUE, !.key = s.key]

\* With hasOutput the flush has to be awaited first.
CloseSession(c, s, hasOutput) ==
  IF s.closed
  THEN /\ Becomes(c, Leave([s EXCEPT !.key = None]))
       /\ secrets' = Unregister(s.key)
  ELSE IF hasOutput
  THEN /\ Becomes(c, [Unread(s) EXCEPT !.pc = "closing"])
       /\ UNCHANGED secrets
  ELSE /\ Becomes(c, [Closed(Unread(s)) EXCEPT !.pc = "lingering"])
       /\ secrets' = Unregister(s.key)

CloseFlushed(c) ==
  /\ conn[c].pc = "closing"
  /\ Becomes(c, [Closed(conn[c]) EXCEPT !.pc = "lingering"])
  /\ secrets' = Unregister(conn[c].key)
  /\ UNCHANGED <<max_connections, commands, server, farewell>>

TransportCloses(c) ==
  /\ conn[c].pc = "lingering"
  /\ Becomes(c, Leave(conn[c]))
  /\ UNCHANGED <<max_connections, commands, server, farewell, secrets>>

--------------------------------------------------------------------------
(* Session.run *)

\* The top of the loop: the deadline is set when a command is first seen in
\* progress and forgotten when none is.
LoopTopKeepsDeadline(s) ==
  [s EXCEPT !.pc = "reading",
            !.deadline = IF s.partial /\ s.deadline = NoDeadline THEN assembly_timeout ELSE @]
LoopTopRestarts(s) ==
  [s EXCEPT !.pc = "reading", !.deadline = IF s.partial THEN assembly_timeout ELSE NoDeadline]
LoopTop(s) ==
  [s EXCEPT !.pc = "reading",
            !.deadline = CASE ~s.partial -> NoDeadline
                           [] s.partial /\ s.deadline = NoDeadline -> assembly_timeout
                           [] OTHER -> s.deadline]

\* flush: the client may have stopped reading or be gone, which closes the session.
AfterFlush(s) == {s, [s EXCEPT !.closed = TRUE, !.state = "logout"]}

\* What the loop checks before it handles or reads more.
GoesOnUnlessLogout(s) == s.state # "logout"
GoesOn(s) == s.state # "logout" /\ ~s.closed

Greeted(c) ==
  /\ conn[c].pc = "greeting"
  /\ \E s \in AfterFlush(conn[c]) :
       IF GoesOn(s) THEN Becomes(c, LoopTop(s)) /\ UNCHANGED secrets
                    ELSE CloseSession(c, s, FALSE)
  /\ UNCHANGED <<max_connections, commands, server, farewell>>

\* dispatch begins on the next command: a LOGIN sets the credentials and asks
\* upstream, any other command does what it does.
StartCommand(c, s) ==
  \/ /\ s.state = "notauth"
     /\ \E key \in Secrets : /\ Becomes(c, [s EXCEPT !.pc = "handling", !.cmd = "login", !.key = key])
                             /\ Register(key)
  \/ \E cmd \in {"logout", "other"} : /\ Becomes(c, [s EXCEPT !.pc = "handling", !.cmd = cmd])
                                     /\ UNCHANGED secrets

\* A read brings n commands to their end and leaves one begun or not; two of them
\* at most, which is a bound.
ReadData(c, n, leaves) ==
  LET old == conn[c]
      s == [old EXCEPT !.partial = leaves, !.more = n - 1,
                       !.short = CASE n = 0 /\ old.partial -> @
                                   [] ~leaves \/ old.deadline \in {NoDeadline, assembly_timeout} -> "no"
                                   [] old.partial -> "shared"
                                   [] OTHER -> "alone"] IN
  /\ old.pc = "reading" /\ old.deadline # 0
  /\ commands' = commands + n /\ commands' <= MaxCommands
  /\ n = 0 => leaves
  /\ n = 2 => ~leaves
  /\ IF n = 0 THEN Becomes(c, LoopTop([s EXCEPT !.more = 0])) /\ UNCHANGED secrets
              ELSE StartCommand(c, s)
  /\ UNCHANGED <<max_connections, server, farewell>>

\* The client is gone.
ReadEnds(c) ==
  /\ conn[c].pc = "reading"
  /\ CloseSession(c, conn[c], FALSE)
  /\ UNCHANGED <<max_connections, commands, server, farewell>>

\* The assembly deadline while a command is in progress, or else the idle timeout.
ReadTimesOut(c) ==
  /\ conn[c].pc = "reading"
  /\ conn[c].deadline \in {NoDeadline, 0}
  /\ CloseSession(c, conn[c], TRUE)
  /\ UNCHANGED <<max_connections, commands, server, farewell>>

\* Settings may make the idle timeout the shorter of the two; octet by octet a client
\* can put it off, so that a command in progress need not meet it.
ReadIdles(c) ==
  /\ conn[c].pc = "reading" /\ conn[c].deadline > 0
  /\ CloseSession(c, conn[c], TRUE)
  /\ UNCHANGED <<max_connections, commands, server, farewell>>

--------------------------------------------------------------------------
(* Session.dispatch *)

\* The finally clause: a LOGIN that did not succeed drops the credentials.
DispatchEnds(c, s) ==
  LET drop == s.state = "notauth" /\ s.key # None IN
  /\ Becomes(c, [s EXCEPT !.pc = "flushing", !.cmd = None, !.key = IF drop THEN None ELSE @])
  /\ secrets' = IF drop THEN Unregister(s.key) ELSE secrets

\* The handler returns, raises or times out.  A LOGIN may succeed, LOGOUT and
\* credentials that upstream rejects end the session.  Other commands leave it, but
\* SELECT and CLOSE set its state, even if it was closed while they waited.
HandlerEnds(c) ==
  LET s == conn[c]
      states == CASE s.cmd = "login" -> {"auth", s.state}
                  [] s.cmd = "logout" -> {"logout"}
                  [] s.cmd = "other" -> IF s.state = "notauth" THEN {"notauth"} ELSE {"auth", "logout"}
  IN
  /\ s.pc = "handling"
  /\ \E state \in states : DispatchEnds(c, [s EXCEPT !.state = state])
  /\ UNCHANGED <<max_connections, commands, server, farewell>>

\* The answer is flushed: the next command, the top of the loop, or the end.
CommandFlushed(c) ==
  /\ conn[c].pc = "flushing"
  /\ \E s \in AfterFlush(conn[c]) :
       CASE ~GoesOn(s) -> CloseSession(c, s, FALSE)
         [] GoesOn(s) /\ s.more > 0 -> StartCommand(c, [s EXCEPT !.more = @ - 1])
         [] OTHER -> Becomes(c, LoopTop(s)) /\ UNCHANGED secrets
  /\ UNCHANGED <<max_connections, commands, server, farewell>>

--------------------------------------------------------------------------
(* Server.stop *)

StopBegins ==
  /\ server = "running"
  /\ server' = "farewell"
  /\ farewell' = [c \in Connections |-> IF Registered(c) THEN "begun" ELSE "none"]
  /\ UNCHANGED <<max_connections, commands, conn, secrets>>

\* say_bye_and_close, unless the session is closed already.
SayByeIfOpen(c) ==
  /\ farewell[c] = "begun" /\ ~conn[c].closed
  /\ farewell' = [farewell EXCEPT ![c] = "flushing"]
  /\ UNCHANGED <<max_connections, commands, conn, secrets, server>>
SayBye(c) ==
  /\ farewell[c] = "begun"
  /\ IF conn[c].closed
     THEN /\ farewell' = [farewell EXCEPT ![c] = "over"]
          /\ Becomes(c, [conn[c] EXCEPT !.key = None])
          /\ secrets' = Unregister(conn[c].key)
     ELSE /\ farewell' = [farewell EXCEPT ![c] = "flushing"]
          /\ UNCHANGED <<conn, secrets>>
  /\ UNCHANGED <<max_connections, commands, server>>

\* The flush of close() ends, one way or another, and close() with it.
ByeFlushed(c) ==
  /\ farewell[c] = "flushing"
  /\ farewell' = [farewell EXCEPT ![c] = "over"]
  /\ Becomes(c, Closed(conn[c]))
  /\ secrets' = Unregister(conn[c].key)
  /\ UNCHANGED <<max_connections, commands, server>>

\* Five seconds are over first: _abort, which leaves the rest to the session.
ByeTimesOut(c) ==
  /\ farewell[c] = "flushing"
  /\ farewell' = [farewell EXCEPT ![c] = "over"]
  /\ Becomes(c, [conn[c] EXCEPT !.closed = TRUE, !.state = "logout"])
  /\ UNCHANGED <<max_connections, commands, server, secrets>>

\* Every farewell is over: the tasks still registered are cancelled.  A task that
\* was accepted has begun by then if there was any farewell to wait for.
CancelTasks ==
  /\ server = "farewell"
  /\ \A c \in Connections : farewell[c] \in {"none", "over"}
  /\ (\E c \in Connections : farewell[c] = "over") => \A c \in Connections : conn[c].pc # "accepted"
  /\ server' = "cancelling"
  /\ conn' = [c \in Connections |-> [conn[c] EXCEPT !.cancelled = Registered(c)]]
  /\ UNCHANGED <<max_connections, commands, farewell, secrets>>

\* The transport's workers and the store are closed.
StopEnds ==
  /\ server = "cancelling"
  /\ server' = "stopped"
  /\ UNCHANGED <<max_connections, commands, conn, farewell, secrets>>

\* CancelledError arrives where the task waits.  In dispatch and in the loop the
\* finally clauses run; the greeting and close() itself have none.
CancelArrives(c) ==
  LET old == conn[c]
      s == [old EXCEPT !.cancelled = FALSE, !.cmd = None]
      fails == old.pc = "handling" /\ s.state = "notauth" /\ s.key # None IN
  /\ old.cancelled /\ Registered(c)
  /\ IF old.pc \in {"greeting", "closing", "lingering"}
     THEN /\ Becomes(c, [Leave(s) EXCEPT !.torn = old.pc = "closing"])
          /\ UNCHANGED secrets
     ELSE IF fails
     THEN /\ Becomes(c, [Closed(Unread(s)) EXCEPT !.pc = "lingering"])
          /\ secrets' = Unregister(s.key)
     ELSE \/ CloseSession(c, s, FALSE)
          \/ old.pc = "handling" /\ CloseSession(c, s, TRUE)
  /\ UNCHANGED <<max_connections, commands, server, farewell>>

--------------------------------------------------------------------------
(* Time *)

\* A tick does not pass over a deadline that a read waits for.
Tick ==
  /\ \A c \in Connections : conn[c].pc = "reading" => conn[c].deadline # 0
  /\ conn' = [c \in Connections |->
                [conn[c] EXCEPT !.deadline = IF @ > 0 THEN @ - 1 ELSE @]]
  /\ UNCHANGED <<max_connections, commands, server, farewell, secrets>>

--------------------------------------------------------------------------

\* The event loop runs what is ready, and each wait below ends by its timeout.
TaskStep(c) ==
  \/ Begin(c) \/ Greeted(c) \/ HandlerEnds(c) \/ CommandFlushed(c)
  \/ CloseFlushed(c) \/ TransportCloses(c) \/ CancelArrives(c)

FarewellStep(c) == SayBye(c) \/ ByeFlushed(c) \/ ByeTimesOut(c)

Next ==
  \/ \E c \in Connections :
       \/ Accept(c) \/ TaskStep(c) \/ ReadEnds(c) \/ ReadTimesOut(c) \/ ReadIdles(c) \/ FarewellStep(c)
       \/ \E n \in 0..2, leaves \in BOOLEAN : ReadData(c, n, leaves)
  \/ StopBegins \/ CancelTasks \/ StopEnds
  \/ Tick

Spec == Init /\ [][Next]_vars

Fairness ==
  /\ \A c \in Connections :
       WF_vars(TaskStep(c)) /\ WF_vars(ReadTimesOut(c)) /\ WF_vars(FarewellStep(c))
  /\ WF_vars(CancelTasks) /\ WF_vars(StopEnds)
  /\ WF_vars(Tick)

FairSpec == Spec /\ Fairness

--------------------------------------------------------------------------
(* Properties *)

Holders(k) == {c \in Connections : conn[c].key = k}

\* A key is redacted while some session holds it and counted once for each, though
\* sessions share keys, LOGINs fail and stop() closes a session beside its own
\* task; and a session that is gone has let go of its key, unless it was cancelled
\* inside close().
RedactorIsExact ==
  /\ \A k \in Secrets : secrets[k] = Cardinality(Holders(k))
  /\ \A c \in Connections : conn[c].pc = "gone" /\ conn[c].key # None => conn[c].torn

\* The limit holds although connections are accepted before they are counted.
WithinLimit == Cardinality(Sessions) <= max_connections

\* A session that was closed, by its client, its timeouts or stop(), serves no
\* further command: what was read at that moment finds it logged out, and a
\* command already read behind a LOGIN that succeeds late is not begun.
ClosedIsNotServed ==
  [][ \A c \in Connections :
        conn[c].closed /\ conn[c].pc # "handling" /\ conn'[c].pc = "handling"
        => conn'[c].state = "logout" ]_vars

\* Every session ends, unless its client keeps sending whole commands: neither a
\* silent client, nor one that does not read, nor one that sends a command octet by
\* octet keeps it for ever.
EverySessionEnds == \A c \in Connections : Registered(c) ~> ~Registered(c)

\* stop() comes to its end, whatever clients and handlers do.
StopReturns == (server = "farewell") ~> (server = "stopped")

\* A command in progress meets the assembly deadline only when it had assembly_timeout
\* from its first octet to be completed, however long the handlers of earlier commands took
\* and whatever was sent before.  (A command that began in the read which ended
\* another one in progress has what is left of that one's time.)
TimeoutIsEarned ==
  [][ \A c \in Connections :
        ReadTimesOut(c) /\ conn[c].partial => conn[c].short # "alone" ]_vars
==========================================================================
