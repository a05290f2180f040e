----------------------------- MODULE Search ------------------------------
(***************************************************************************)
(* SEARCH: the parser and the evaluation of imapgw/search.py and the loop  *)
(* of _search in imapgw/commands.py.  Tokens are pairs: an atom that names *)
(* a key, an atom that is a set or a number, a date, another string, or a  *)
(* list.  Texts are the sets of the needles they contain.                  *)
(***************************************************************************)
EXTENDS SequenceSets

Atom(name) == <<"atom", name>>
SetTok(items) == <<"set", items>>
Num(n) == <<"num", n>>
DateTok(d) == <<"date", d>>
Text(needle) == <<"text", needle>>
ListTok(tokens) == <<"list", tokens>>

Crit(op, arg, subs) == [op |-> op, arg |-> arg, subs |-> subs]
Failed == [ok |-> FALSE, crit |-> Crit("NONE", <<"none">>, <<>>), rest |-> <<>>]
Parsed(crit, rest) == [ok |-> TRUE, crit |-> crit, rest |-> rest]

FlagKeys == {"ANSWERED", "DELETED", "DRAFT", "FLAGGED", "SEEN"}
UnflagKey == [UNANSWERED |-> "ANSWERED", UNDELETED |-> "DELETED", UNDRAFT |-> "DRAFT",
              UNFLAGGED |-> "FLAGGED", UNSEEN |-> "SEEN"]
DateKeys == {"BEFORE", "ON", "SINCE", "SENTBEFORE", "SENTON", "SENTSINCE"}
TextKeys == {"FROM", "TO", "SUBJECT", "CC", "BCC", "BODY", "TEXT"}

\* _text: any token but a list is a string.
Strings == {"atom", "set", "num", "date", "text"}

\* A key with one argument of a kind that kinds lists.
TakesOne(op, name, tokens, kinds) ==
  IF tokens = <<>> \/ tokens[1][1] \notin kinds THEN Failed
  ELSE Parsed(Crit(op, <<name, tokens[1][2]>>, <<>>), Tail(tokens))
TakesSet(op, tokens) ==
  IF tokens = <<>> \/ tokens[1][1] # "set" \/ ~ParseSequenceSet(tokens[1][2]).ok THEN Failed
  ELSE Parsed(Crit(op, <<op, ParseSequenceSet(tokens[1][2]).ranges>>, <<>>), Tail(tokens))

\* OR takes the two keys that follow, in prefix notation.
OrTakesOne(first, second) == Parsed(Crit("OR", <<"OR">>, <<first.crit, first.crit>>), first.rest)
OrOf(first, second) ==
  IF ~second.ok THEN Failed ELSE Parsed(Crit("OR", <<"OR">>, <<first.crit, second.crit>>), second.rest)

\* _Parser.key, and the keys of a group or of the whole command.
RECURSIVE Key(_)
RECURSIVE Keys(_, _)
Keys(tokens, crits) ==
  IF tokens = <<>>
  THEN IF crits = <<>> THEN Failed ELSE Parsed(Crit("AND", <<"AND">>, crits), <<>>)
  ELSE LET k == Key(tokens) IN IF k.ok THEN Keys(k.rest, Append(crits, k.crit)) ELSE Failed
Key(tokens) ==
  IF tokens = <<>> THEN Failed
  ELSE LET kind == tokens[1][1]
           name == tokens[1][2]
           rest == Tail(tokens)
       IN
  IF kind = "list"
  THEN LET sub == Keys(name, <<>>) IN IF sub.ok THEN Parsed(sub.crit, rest) ELSE Failed
  ELSE IF kind = "set" THEN TakesSet("SEQSET", tokens)
  ELSE IF kind # "atom" THEN Failed
  ELSE CASE name \in {"ALL", "OLD"} -> Parsed(Crit("ALL", <<"ALL">>, <<>>), rest)
         [] name \in {"NEW", "RECENT"} -> Parsed(Crit("NONE", <<"NONE">>, <<>>), rest)
         [] name \in FlagKeys -> Parsed(Crit("FLAG", <<name, TRUE>>, <<>>), rest)
         [] name \in DOMAIN UnflagKey -> Parsed(Crit("FLAG", <<UnflagKey[name], FALSE>>, <<>>), rest)
         [] name \in {"KEYWORD", "UNKEYWORD"} -> TakesOne("KEYWORD", name, rest, Strings)
         [] name = "UID" -> TakesSet("UIDSET", rest)
         [] name = "NOT" ->
              LET k == Key(rest)
              IN IF k.ok THEN Parsed(Crit("NOT", <<"NOT">>, <<k.crit>>), k.rest) ELSE Failed
         [] name = "OR" ->
              LET first == Key(rest) IN IF first.ok THEN OrOf(first, Key(first.rest)) ELSE Failed
         [] name \in DateKeys -> TakesOne("DATE", name, rest, {"date"})
         [] name \in {"LARGER", "SMALLER"} -> TakesOne("SIZE", name, rest, {"num"})
         [] name \in TextKeys -> TakesOne("TEXT", name, rest, Strings)
         [] name = "HEADER" ->
              IF rest # <<>> /\ rest[1][1] \in Strings
              THEN TakesOne("HEADER", rest[1][2], Tail(rest), Strings) ELSE Failed
         [] OTHER -> Failed

\* parse_search.  The only charsets are UTF-8 and US-ASCII.
ParseSearch(tokens) ==
  IF tokens # <<>> /\ tokens[1] = Atom("CHARSET")
  THEN IF Len(tokens) < 2 \/ tokens[2] # Text("UTF-8") THEN Failed
       ELSE Keys(SubSeq(tokens, 3, Len(tokens)), <<>>)
  ELSE Keys(tokens, <<>>)

--------------------------------------------------------------------------
(* Evaluation *)

\* evaluate gives "yes", "no", or "gone" for the NotFoundError of a message whose
\* content or size has to be fetched and is no longer there.  What is not needed
\* is not fetched.
Verdict(b) == IF b THEN "yes" ELSE "no"
Fetched(item, b) == IF item.gone THEN "gone" ELSE Verdict(b)
Dated(name, when, d) ==
  CASE name \in {"BEFORE", "SENTBEFORE"} -> when < d
    [] name \in {"ON", "SENTON"} -> when = d
    [] OTHER -> when >= d

RECURSIVE Evaluate(_, _, _)
Evaluate(crit, item, uids) ==
  LET name == crit.arg[1]
      value == crit.arg[2]
      sub(k) == Evaluate(crit.subs[k], item, uids)
  IN
  CASE crit.op = "ALL" -> "yes"
    [] crit.op = "NONE" -> "no"
    [] crit.op = "AND" ->
         FoldLeft(LAMBDA v, c : IF v = "yes" THEN Evaluate(c, item, uids) ELSE v, "yes", crit.subs)
    [] crit.op = "OR" -> IF sub(1) = "no" THEN sub(2) ELSE sub(1)
    [] crit.op = "NOT" -> IF sub(1) = "gone" THEN "gone" ELSE Verdict(sub(1) = "no")
    [] crit.op = "FLAG" -> Verdict((name \in item.flags) = value)
    [] crit.op = "KEYWORD" -> Verdict((value \in item.labels) = (name = "KEYWORD"))
    [] crit.op = "UIDSET" -> Verdict(Contains(SelectNumbers(value, uids), item.uid))
    [] crit.op = "SEQSET" ->
         Verdict(Contains(SelectNumbers(value, [i \in DOMAIN uids |-> i]), item.seq))
    [] crit.op = "SIZE" ->
         Fetched(item, IF name = "LARGER" THEN item.size > value ELSE item.size < value)
    [] crit.op = "DATE" ->
         IF name \in {"BEFORE", "ON", "SINCE"} THEN Verdict(Dated(name, item.date, value))
         ELSE Fetched(item, item.sent # 0 /\ Dated(name, item.sent, value))
    [] crit.op = "TEXT" ->
         IF name \in {"FROM", "TO", "SUBJECT"} THEN Verdict(value \in item.envelope[name])
         ELSE Fetched(item, value \in item.texts[name])
    [] crit.op = "HEADER" ->
         Fetched(item, IF value = "" THEN name \in DOMAIN item.headers
                       ELSE name \in DOMAIN item.headers /\ value \in item.headers[name])

\* _search: one message after the other; one that is gone is no hit.
GoneIsHit(v) == v # "no"
IsHit(v) == v = "yes"
SearchHits(crit, items, uids) == SelectSeq(items, LAMBDA item : IsHit(Evaluate(crit, item, uids)))
==========================================================================
