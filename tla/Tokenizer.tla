---------------------------- MODULE Tokenizer ----------------------------
(***************************************************************************)
(* From the pieces of a command to its tokens: _tokenize_pieces and the    *)
(* readers it calls, in imapgw/parser.py.  Octets are reduced to the ones  *)
(* the code tells apart; an announcement {n} of a literal is one octet,    *)
(* the pair <<"{", n>>.  The index loops of the code are a fold that       *)
(* carries what the loops keep in local variables.                         *)
(***************************************************************************)
EXTENDS Integers, Sequences, SequencesExt

SP == <<"sp", 0>>
Open == <<"(", 0>>
Close == <<")", 0>>
Quote == <<"q", 0>>
Backslash == <<"esc", 0>>
LeftBracket == <<"[", 0>>
RightBracket == <<"]", 0>>
Control == <<"ctl", 0>>
NonAscii == <<"hi", 0>>
NUL == <<"nul", 0>>
CR == <<"cr", 0>>
LF == <<"lf", 0>>
Star == <<"*", 0>>
Letter(n) == <<"a", n>>
Literal(n) == <<"{", n>>
IsLiteral(o) == o[1] = "{"

Printable(o) == o \notin {SP, Control, NonAscii, NUL, CR, LF}

\* mode: outside a token, or the reader that runs: an atom, a quoted string, a
\* bracketed section of an atom and a quoted string in it.  text: what the reader
\* has; depth: the open brackets; escaped: the octet before was a backslash.
\* stack: the lists being filled, the innermost last.
Start == [mode |-> "out", text |-> <<>>, depth |-> 0, escaped |-> FALSE, stack |-> << <<>> >>]
Failed == [Start EXCEPT !.mode = "error"]

AddToken(stack, token) ==
  [stack EXCEPT ![Len(stack)] = Append(@, token)]

\* A list is closed: it becomes a token of the list around it.
CloseList(stack) ==
  AddToken(SubSeq(stack, 1, Len(stack) - 1), <<"list", stack[Len(stack)]>>)

OutsideToken(t, o) ==
  CASE o = SP -> t
    [] o = Open -> [t EXCEPT !.stack = Append(@, <<>>)]
    [] o = Close -> IF Len(t.stack) = 1 THEN Failed ELSE [t EXCEPT !.stack = CloseList(@)]
    [] o = Quote -> [t EXCEPT !.mode = "quoted", !.text = <<>>]
    [] o = LeftBracket -> [t EXCEPT !.mode = "section", !.text = <<o>>, !.depth = 1]
    [] ~Printable(o) \/ IsLiteral(o) -> Failed
    [] OTHER -> [t EXCEPT !.mode = "atom", !.text = <<o>>]

EndAtom(t) == [t EXCEPT !.mode = "out", !.text = <<>>, !.stack = AddToken(@, <<"atom", t.text>>)]

\* _read_atom: an octet that stops the atom is read again outside it.
InAtom(t, o) ==
  CASE o \in {SP, Open, Close, Quote} \/ IsLiteral(o) -> OutsideToken(EndAtom(t), o)
    [] o = LeftBracket -> [t EXCEPT !.mode = "section", !.text = Append(@, o), !.depth = 1]
    [] o \in {Control, NonAscii, NUL, CR} -> Failed
    [] OTHER -> [t EXCEPT !.text = Append(@, o)]

\* _read_quoted, for a token and, with its text kept raw, in a section.
InQuoted(t, o) ==
  LET inSection == t.mode = "sectionQuoted"
      raw == IF inSection THEN Append(t.text, o) ELSE t.text IN
  CASE t.escaped -> IF o \in {Quote, Backslash}
                    THEN [t EXCEPT !.escaped = FALSE, !.text = Append(@, o)] ELSE Failed
    [] ~t.escaped /\ o = Backslash -> [t EXCEPT !.escaped = TRUE, !.text = raw]
    [] ~t.escaped /\ o = Quote ->
         IF inSection THEN [t EXCEPT !.mode = "section", !.text = raw]
         ELSE [t EXCEPT !.mode = "out", !.text = <<>>, !.stack = AddToken(@, <<"quoted", t.text>>)]
    [] ~t.escaped /\ o \in {Control, NonAscii, NUL, CR} -> Failed
    [] OTHER -> [t EXCEPT !.text = Append(@, o)]

\* _skip_bracket: brackets nest, and the atom goes on after the last one.
InSection(t, o) ==
  CASE o = Quote -> [t EXCEPT !.mode = "sectionQuoted", !.text = Append(@, o)]
    [] o = LeftBracket -> [t EXCEPT !.depth = @ + 1, !.text = Append(@, o)]
    [] o = RightBracket -> [t EXCEPT !.depth = @ - 1, !.text = Append(@, o),
                                     !.mode = IF t.depth = 1 THEN "atom" ELSE "section"]
    [] o \in {Control, NonAscii, NUL, CR} -> Failed
    [] OTHER -> [t EXCEPT !.text = Append(@, o)]

Read(t, o) ==
  CASE t.mode = "error" -> t
    [] t.mode = "out" -> OutsideToken(t, o)
    [] t.mode = "atom" -> InAtom(t, o)
    [] t.mode = "section" -> InSection(t, o)
    [] t.mode \in {"quoted", "sectionQuoted"} -> InQuoted(t, o)

\* _tokenize_line: a reader that is still open when the line ends fails.
TokenizeLine(t, line) ==
  LET end == FoldLeft(Read, t, line) IN
  CASE end.mode = "out" -> end
    [] end.mode = "atom" -> EndAtom(end)
    [] OTHER -> Failed

\* _tokenize_pieces: a literal is a token of its own, whatever is in it.
TokenizePiece(t, piece) ==
  IF piece.kind = "literal" /\ t.mode # "error"
  THEN [t EXCEPT !.stack = AddToken(@, <<"literal", piece.data>>)]
  ELSE TokenizeLine(t, piece.data)

NotTokens == << <<"error">> >>
TokenizePieces(pieces) ==
  LET end == FoldLeft(TokenizePiece, Start, pieces) IN
  IF end.mode = "error" \/ Len(end.stack) # 1 THEN NotTokens ELSE end.stack[1]
==========================================================================
