----------------------------- MODULE Fetch -------------------------------
(***************************************************************************)
(* What FETCH is asked for and what it cuts out of a message:              *)
(* imapgw/fetch.py without its sequence sets.  A message is a sequence of  *)
(* CR, LF, SP and fields; a field stands for "Name: value" as one symbol.  *)
(***************************************************************************)
EXTENDS Integers, Sequences, SequencesExt, FiniteSetsExt

Fields == {"A", "B"}
Blank == <<"CR", "LF">>

--------------------------------------------------------------------------
(* Attributes *)

\* An item as the client writes it.  partial: <<offset, count>>, or empty.
Asked(name, section, fields, partial) ==
  [name |-> name, section |-> section, fields |-> fields, partial |-> partial]
Simple == {"UID", "FLAGS", "INTERNALDATE", "RFC822.SIZE"}

\* _parse_attr.  The label is what the response echoes: of a partial only the
\* offset.
Attr(kind, label, peek, asked) ==
  [kind |-> kind, label |-> label, peek |-> peek, section |-> asked.section,
   fields |-> asked.fields, partial |-> asked.partial]
LabelOf(asked) ==
  <<"BODY", asked.section, asked.fields, IF asked.partial = <<>> THEN <<>> ELSE <<asked.partial[1]>>>>
IsAttr(asked) ==
  /\ asked.name \in Simple \cup {"RFC822", "RFC822.HEADER", "RFC822.TEXT", "BODY[", "BODY.PEEK["}
  /\ asked.section \in {"", "HEADER", "TEXT", "HEADER.FIELDS", "HEADER.FIELDS.NOT"}
  /\ asked.section \in {"HEADER.FIELDS", "HEADER.FIELDS.NOT"} => asked.fields # {}
ParseAttr(asked) ==
  LET part(section) == [asked EXCEPT !.section = section] IN
  CASE asked.name \in Simple     -> Attr(asked.name, <<asked.name>>, TRUE, asked)
    [] asked.name = "RFC822"        -> Attr("BODY", <<"RFC822">>, FALSE, asked)
    [] asked.name = "RFC822.HEADER" -> Attr("BODY", <<"RFC822.HEADER">>, TRUE, part("HEADER"))
    [] asked.name = "RFC822.TEXT"   -> Attr("BODY", <<"RFC822.TEXT">>, FALSE, part("TEXT"))
    [] asked.name = "BODY["         -> Attr("BODY", LabelOf(asked), FALSE, asked)
    [] asked.name = "BODY.PEEK["    -> Attr("BODY", LabelOf(asked), TRUE, asked)

\* parse_fetch_attributes: one attribute per label, in the order first asked for,
\* and the side effect of BODY[] survives beside BODY.PEEK[].
MergeFirst(attrs, a) ==
  IF \E i \in DOMAIN attrs : attrs[i].label = a.label THEN attrs ELSE Append(attrs, a)
Merge(attrs, a) ==
  IF \E i \in DOMAIN attrs : attrs[i].label = a.label
  THEN [i \in DOMAIN attrs |->
          IF attrs[i].label = a.label THEN [attrs[i] EXCEPT !.peek = @ /\ a.peek] ELSE attrs[i]]
  ELSE Append(attrs, a)
ParseFetchAttributes(asked) ==
  IF asked = <<>> \/ \E i \in DOMAIN asked : ~IsAttr(asked[i]) THEN [ok |-> FALSE, attrs |-> <<>>]
  ELSE [ok |-> TRUE, attrs |-> FoldLeft(Merge, <<>>, [i \in DOMAIN asked |-> ParseAttr(asked[i])])]

--------------------------------------------------------------------------
(* Sections *)

\* bytes.find, with 0 for not found.
Find(raw, what) ==
  LET at == {i \in DOMAIN raw : i + Len(what) - 1 <= Len(raw)
                                /\ SubSeq(raw, i, i + Len(what) - 1) = what}
  IN IF at = {} THEN 0 ELSE Min(at)

\* split_message: header with its blank line, and the rest.
SplitMessage(raw) ==
  LET crlf == Find(raw, Blank \o Blank)
      lf == Find(raw, <<"LF", "LF">>)
      cut == IF crlf > 0 THEN crlf + 3 ELSE IF lf > 0 THEN lf + 1 ELSE Len(raw)
  IN [header |-> SubSeq(raw, 1, cut), body |-> SubSeq(raw, cut + 1, Len(raw))]

\* bytes.splitlines(keepends=True): CRLF, LF or CR ends a line.
EndsLine(header, i) ==
  \/ i = Len(header) \/ header[i] = "LF"
  \/ header[i] = "CR" /\ header[i + 1] # "LF"
PhysicalLines(header) ==
  LET ends == SelectSeq([i \in DOMAIN header |-> i], LAMBDA i : EndsLine(header, i))
  IN [k \in DOMAIN ends |-> SubSeq(header, IF k = 1 THEN 1 ELSE ends[k - 1] + 1, ends[k])]

\* header_lines: up to the blank line, continuations joined to their field.
AddUnfolded(lines, physical) == Append(lines, physical)
AddPhysical(lines, physical) ==
  IF physical[1] = "SP" /\ lines # <<>>
  THEN [lines EXCEPT ![Len(lines)] = @ \o physical] ELSE Append(lines, physical)
HeaderLines(header) ==
  LET physical == PhysicalLines(header)
      blank == {k \in DOMAIN physical : physical[k] \in {Blank, <<"LF">>}}
      end == IF blank = {} THEN Len(physical) ELSE Min(blank) - 1
  IN FoldLeft(AddPhysical, <<>>, SubSeq(physical, 1, end))

\* filter_header.
FieldOf(line) ==
  LET named == SelectSeq(line, LAMBDA b : b \in Fields) IN IF named = <<>> THEN "" ELSE named[1]
FilterHeader(header, names, invert) ==
  LET kept == SelectSeq(HeaderLines(header), LAMBDA line : (FieldOf(line) \in names) # invert)
      ended(line) == IF Last(line) = "LF" THEN line ELSE line \o Blank
  IN FlattenSeq([k \in DOMAIN kept |-> ended(kept[k])]) \o Blank

\* section_bytes.
Slice(data, partial) ==
  IF partial = <<>> THEN data
  ELSE SubSeq(data, partial[1] + 1, Min({partial[1] + partial[2], Len(data)}))
SectionBytes(raw, attr) ==
  LET message == SplitMessage(raw)
      data == CASE attr.section = "" -> raw
                [] attr.section = "HEADER" -> message.header
                [] attr.section = "TEXT" -> message.body
                [] attr.section = "HEADER.FIELDS" -> FilterHeader(message.header, attr.fields, FALSE)
                [] attr.section = "HEADER.FIELDS.NOT" -> FilterHeader(message.header, attr.fields, TRUE)
  IN Slice(data, attr.partial)
==========================================================================
