------------------------------ MODULE Parser ------------------------------
(***************************************************************************)
(* CommandParser of imapgw/parser.py: octets arrive in pieces of any       *)
(* length, and after each one events() yields what it can: commands,       *)
(* continuation requests and errors.  What events() does between two       *)
(* yields is one step here, and the loop is enough of them.                *)
(***************************************************************************)
EXTENDS Tokenizer, FiniteSets

CONSTANTS
  Octets,            \* what a client sends
  max_line, max_literal, max_command_bytes, max_literals, \* Limits
  MaxFeed,           \* bound: octets of one feed
  MaxSent            \* bound: octets of a connection

ASSUME LimitsAssumption ==
  /\ max_line \in Nat /\ max_literal \in Nat /\ max_command_bytes \in Nat /\ max_literals \in Nat
  /\ MaxFeed \in Nat \ {0} /\ MaxSent \in Nat

\* An announcement holds up to twelve digits and nothing else.
ASSUME OctetsAssumption == \A o \in Octets : IsLiteral(o) => o[2] \in Nat

VARIABLES
  parser, \* the state of the CommandParser and the events it has yielded
  sent    \* history: all octets fed

ParserVars == <<parser, sent>>

\* _Pending.  A tag is a sequence of octets, the empty one when there is none.
NoPending == [open |-> FALSE, tag |-> <<>>, pieces |-> <<>>, total_bytes |-> 0, literal_count |-> 0]
NotAwaiting == -1

\* fatal: a fatal error was yielded and nothing is read any more.
NewParser == [buf |-> <<>>, pending |-> NoPending, awaiting |-> NotAwaiting, out |-> <<>>,
              fatal |-> FALSE]

ParserInit == parser = NewParser /\ sent = <<>>

--------------------------------------------------------------------------
(* Events *)

Error(tag, why) == <<"error", tag, why>>
Continue(n) == <<"continue", n>>

\* The command is over, whatever came of it.
Yield(p, event) == [p EXCEPT !.pending = NoPending, !.out = Append(@, event)]
YieldFatal(p) == [Yield(p, Error(<<>>, "line too long")) EXCEPT !.fatal = TRUE]

\* _extract_tag: all up to the first space, if it is printable.
ExtractTag(line) ==
  LET spaces == {i \in DOMAIN line : line[i] = SP}
      head == IF spaces = {} THEN line
              ELSE SubSeq(line, 1, (CHOOSE i \in spaces : \A j \in spaces : i <= j) - 1)
  IN IF \A i \in DOMAIN head : Printable(head[i]) THEN head ELSE <<>>

BuildCommand(tag, pieces) ==
  LET tokens == TokenizePieces(pieces) IN
  CASE tokens = NotTokens -> Error(tag, "bad syntax")
    [] tokens = <<>> -> Error(<<>>, "empty command")
    [] tokens # NotTokens /\ Len(tokens) = 1 -> Error(tag, "missing command")
    [] Len(tokens) > 1 /\ ~(tokens[1][1] = "atom" /\ tokens[2][1] = "atom") ->
         Error(tag, "tag and command must be atoms")
    [] OTHER -> IF Star \in Range(tokens[1][2]) THEN Error(<<>>, "invalid tag")
                ELSE <<"command", tokens>>

--------------------------------------------------------------------------
(* _consume_line *)

\* _LITERAL_TAIL: an announcement ends the line, after a space or a parenthesis.
Announces(line) ==
  /\ line # <<>> /\ IsLiteral(Last(line))
  /\ Len(line) > 1 => line[Len(line) - 1] \in {SP, Open}

Piece(kind, data) == [kind |-> kind, data |-> data]

TooLarge(total, literals) == total > max_command_bytes \/ literals > max_literals

\* The command the line belongs to: the pending one, or one that it begins.
Opened(p, line) ==
  IF p.pending.open THEN p.pending ELSE [NoPending EXCEPT !.open = TRUE, !.tag = ExtractTag(line)]

\* A literal of n octets is announced: it is counted before it is asked for.
Held(pending, line, n) ==
  [pending EXCEPT !.total_bytes = @ + Len(line) + 2 + n, !.literal_count = @ + 1,
                  !.pieces = Append(@, Piece("line", Front(line)))]
Await(p, pending, line, n) ==
  [p EXCEPT !.awaiting = n, !.out = Append(@, Continue(n)), !.pending = Held(pending, line, n)]

AddLine(p, pending, line) ==
  LET n == Last(line)[2]
      tag == pending.tag
      total == pending.total_bytes + Len(line) + 2
  IN
  CASE \E i \in DOMAIN line : line[i] = NUL -> Yield(p, Error(tag, "NUL byte in command"))
    [] (\A i \in DOMAIN line : line[i] # NUL) /\ Announces(line) ->
         IF n > max_literal THEN Yield(p, Error(tag, "literal too large"))
         ELSE IF TooLarge(total + n, pending.literal_count + 1)
         THEN Yield(p, Error(tag, "command too large"))
         ELSE Await(p, pending, line, n)
    [] OTHER -> IF total > max_command_bytes
                THEN Yield(p, Error(tag, "command too large"))
                ELSE Yield(p, BuildCommand(tag, Append(pending.pieces, Piece("line", line))))

ConsumeLine(p, line) == AddLine(p, Opened(p, line), line)

--------------------------------------------------------------------------
(* events *)

\* The literal that is awaited is in the buffer.
TakeLiteralOverlap(p) ==
  [p EXCEPT !.buf = SubSeq(@, p.awaiting, Len(@)), !.awaiting = NotAwaiting,
            !.pending.pieces = Append(@, Piece("literal", SubSeq(p.buf, 1, p.awaiting)))]
TakeLiteral(p) ==
  [p EXCEPT !.buf = SubSeq(@, p.awaiting + 1, Len(@)), !.awaiting = NotAwaiting,
            !.pending.pieces = Append(@, Piece("literal", SubSeq(p.buf, 1, p.awaiting)))]

LineEnds(buf) == {i \in DOMAIN buf : buf[i] = LF}

\* A buffer without a line end is waited on until it is longer than a line may be.
TakeNothingEarly(p) ==
  IF Len(p.buf) >= max_line THEN YieldFatal([p EXCEPT !.buf = <<>>]) ELSE p
WaitForEver(p) == p
TakeNothing(p) ==
  IF Len(p.buf) > max_line THEN YieldFatal([p EXCEPT !.buf = <<>>]) ELSE p

TakeLine(p) ==
  LET idx == CHOOSE i \in LineEnds(p.buf) : \A j \in LineEnds(p.buf) : i <= j
      raw == SubSeq(p.buf, 1, idx - 1)
      line == IF raw # <<>> /\ Last(raw) = CR THEN Front(raw) ELSE raw
      rest == [p EXCEPT !.buf = SubSeq(@, idx + 1, Len(@))]
  IN IF Len(line) > max_line THEN YieldFatal(rest) ELSE ConsumeLine(rest, line)

EventsStep(p) ==
  CASE p.fatal -> p
    [] ~p.fatal /\ p.awaiting # NotAwaiting -> IF Len(p.buf) < p.awaiting THEN p ELSE TakeLiteral(p)
    [] ~p.fatal /\ p.awaiting = NotAwaiting /\ LineEnds(p.buf) = {} -> TakeNothing(p)
    [] OTHER -> TakeLine(p)

\* Each step but one that takes an empty literal removes an octet.
Drain(p) ==
  LET run[n \in 0..2 * Len(p.buf) + 1] == IF n = 0 THEN p ELSE EventsStep(run[n - 1])
  IN run[2 * Len(p.buf) + 1]

\* run(): feed, then events() to its end.  The session ends with a fatal error.
Feed(data) ==
  /\ ~parser.fatal
  /\ Len(sent) + Len(data) <= MaxSent
  /\ parser' = Drain([parser EXCEPT !.buf = @ \o data])
  /\ sent' = sent \o data

ParserNext == \E n \in 1..MaxFeed : \E data \in [1..n -> Octets] : Feed(data)

ParserSpec == ParserInit /\ [][ParserNext]_ParserVars

--------------------------------------------------------------------------
(* Properties *)

\* What the same octets give when they arrive in one piece.
AllAtOnce(octets) == Drain([NewParser EXCEPT !.buf = octets])

\* A line of exactly max_line octets of which all but the LF has arrived is taken
\* for one that is too long.
CutBeforeLf ==
  LET cut == AllAtOnce(Append(sent, LF)) IN
  parser.fatal /\ ~cut.fatal /\ Last(sent) = CR

\* How the network cuts a connection's octets into reads does not matter: the
\* parser is where it would be had they come at once, and no event is taken back
\* or changed by what follows, but for the cut that CutBeforeLf names.
CutsDoNotMatter ==
  /\ parser = AllAtOnce(sent)
  /\ \A o \in Octets : IsPrefix(parser.out, AllAtOnce(Append(sent, o)).out) \/ CutBeforeLf

\* What the parser keeps for a client that stops sending is bounded: less than a
\* literal or at most a line in the buffer, and a command within its limits, each
\* literal counted before its continuation is sent.  (What follows a line that is
\* too long stays in the buffer: the error is fatal and the session ends.)
SizeOf(pieces) ==
  LET size[i \in 0..Len(pieces)] == IF i = 0 THEN 0 ELSE size[i - 1] + Len(pieces[i].data)
  IN size[Len(pieces)]
LiteralsOf(pieces) == {i \in DOMAIN pieces : pieces[i].kind = "literal"}
HeldIsBounded ==
  /\ parser.awaiting # NotAwaiting => Len(parser.buf) < parser.awaiting
  /\ parser.awaiting = NotAwaiting /\ ~parser.fatal => Len(parser.buf) <= max_line
  /\ SizeOf(parser.pending.pieces) + (IF parser.awaiting = NotAwaiting THEN 0 ELSE parser.awaiting)
       <= max_command_bytes
  /\ Cardinality(LiteralsOf(parser.pending.pieces)) + (IF parser.awaiting = NotAwaiting THEN 0 ELSE 1)
       <= max_literals

\* The octets of an announced literal are data: whatever they are, line ends, NULs
\* and announcements included, they end up in the literal, in order and all of
\* them, and change nothing else.
LiteralsAreOpaque ==
  parser.awaiting # NotAwaiting =>
    \A rest \in [1..parser.awaiting - Len(parser.buf) -> Octets] :
      LET done == Drain([parser EXCEPT !.buf = @ \o rest]) IN
      /\ done.buf = <<>> /\ done.awaiting = NotAwaiting /\ done.out = parser.out
      /\ done.pending.pieces =
           Append(parser.pending.pieces, Piece("literal", parser.buf \o rest))
==========================================================================
