---------------------------- MODULE Operators ----------------------------
(***************************************************************************)
(* The pure parts of the gateway, checked against what they should compute *)
(* over every input up to a bound: LIST patterns, step by step, and        *)
(* sequence sets, FETCH items and sections, and SEARCH, of which the state *)
(* is one input at a time.                                                 *)
(***************************************************************************)
EXTENDS Search, Fetch, ListPatterns

CONSTANTS
  MaxNumber,  \* bound: the message numbers and UIDs of a set
  MaxItems,   \* bound: the items of a set
  MaxAsked,   \* bound: the items of a FETCH
  MaxMessage  \* bound: the bytes of any message (two more where CRLF counts as one)

ASSUME OperatorsAssumption ==
  /\ MaxNumber \in Nat /\ MaxNumber < STAR
  /\ MaxItems \in Nat /\ MaxAsked \in Nat /\ MaxMessage \in Nat

VARIABLE input

Input(kind, one, two) == [kind |-> kind, one |-> one, two |-> two]

Init == PatternInit /\ input = Input("none", <<>>, <<>>)

--------------------------------------------------------------------------
(* The inputs *)

Numbers == {Number(n) : n \in 0..MaxNumber} \cup {StarText, EmptyText, Junk}
SetItems == {<<n>> : n \in Numbers} \cup (Numbers \X Numbers)
Candidates == {SetToSortSeq(S, <) : S \in SUBSET (1..MaxNumber)}
GiveSet ==
  \E items \in BoundedSeq(SetItems, MaxItems), candidates \in Candidates :
    input' = Input("set", items, candidates)

AskedItems ==
  {Asked("UID", "", {}, <<>>), Asked("RFC822", "", {}, <<>>), Asked("RFC822.HEADER", "", {}, <<>>),
   Asked("ENVELOPE", "", {}, <<>>), Asked("BODY[", "HEADER.FIELDS", {}, <<>>),
   Asked("BODY[", "MIME", {}, <<>>)}
  \cup {Asked(item, section, {}, <<>>) : item \in {"BODY[", "BODY.PEEK["}, section \in {"", "TEXT"}}
  \cup {Asked("BODY.PEEK[", "", {}, <<0, n>>) : n \in 1..2}
  \cup {Asked("BODY[", "HEADER.FIELDS", {"A"}, <<>>), Asked("BODY[", "", {}, <<1, 1>>)}
GiveFetch ==
  \E asked \in BoundedSeq(AskedItems, MaxAsked) : input' = Input("fetch", asked, <<>>)

\* Any bytes, and longer messages made of whole line ends.
Pieces == {<<"CR", "LF">>, <<"SP">>} \cup {<<f>> : f \in Fields}
GiveMessage ==
  \/ \E raw \in BoundedSeq({"CR", "LF", "SP"} \cup Fields, MaxMessage) :
       input' = Input("message", raw, <<>>)
  \/ \E pieces \in BoundedSeq(Pieces, MaxMessage + 2) :
       input' = Input("message", FlattenSeq(pieces), <<>>)

\* A search key, as the grammar of RFC 3501 builds it.
SKey(key, val, subs) == [key |-> key, val |-> val, subs |-> subs]
Plain == {SKey(k, <<"none">>, <<>>) :
            k \in {"ALL", "NEW", "OLD", "RECENT", "SEEN", "UNSEEN", "DELETED", "UNDELETED"}}
WithText == {SKey(k, <<"text", "x">>, <<>>) : k \in {"KEYWORD", "UNKEYWORD", "FROM", "BODY", "TEXT"}}
            \cup {SKey("FROM", <<"atom", "x">>, <<>>)}
WithDate == {SKey(k, <<"date", 2>>, <<>>) : k \in DateKeys}
WithNumber == {SKey(k, <<"num", 1>>, <<>>) : k \in {"LARGER", "SMALLER"}}
WithHeader == {SKey("HEADER", <<"header", h>>, <<>>) : h \in {"", "x"}}
WithSet == {SKey(k, <<"set", s>>, <<>>) :
              k \in {"UID", "SET"}, s \in {<<<<Number(2), StarText>>>>, <<<<Number(1)>>, <<Number(4)>>>>}}
Leaves == Plain \cup WithText \cup WithDate \cup WithNumber \cup WithHeader \cup WithSet
Few == {k \in Leaves : k.key \in {"ALL", "SEEN", "BODY", "LARGER"}}
Not(k) == SKey("NOT", <<"none">>, <<k>>)
Or(k, l) == SKey("OR", <<"none">>, <<k, l>>)
Group(k, l) == SKey("GROUP", <<"none">>, <<k, l>>)
Trees ==
  LET pairs == {Or(k, l) : k, l \in Leaves} \cup {Group(k, l) : k \in Leaves, l \in Few}
      few == {Or(k, l) : k, l \in Few} \cup {Group(k, l) : k, l \in Few}
  IN Leaves \cup {Not(k) : k \in Leaves} \cup pairs \cup {Not(k) : k \in few}
     \cup {Or(Not(k), l) : k \in Few, l \in few} \cup {Group(k, Not(l)) : k \in few, l \in Few}

\* What listings say of a message, and what has to be fetched.
Listed == [flags : {{}, {"SEEN"}, {"SEEN", "DELETED"}}, labels : {{}, {"x"}}, date : {1, 2}]
Contents == [size : {1, 2}, sent : {0, 2, 3}, texts : {{}, {"x"}}]
Message(l, c, gone) ==
  [uid |-> 2, seq |-> 1, flags |-> l.flags, labels |-> l.labels, date |-> l.date,
   envelope |-> [FROM |-> l.labels, TO |-> {}, SUBJECT |-> {}],
   size |-> c.size, sent |-> c.sent,
   texts |-> [BODY |-> c.texts, TEXT |-> c.texts, CC |-> {}, BCC |-> {}],
   headers |-> IF c.sent = 0 THEN <<>> ELSE [Subject |-> c.texts], gone |-> gone]
Uids == <<2, 4>>

RECURSIVE Written(_)
Written(k) ==
  CASE k.key = "NOT" -> <<Atom("NOT")>> \o Written(k.subs[1])
    [] k.key = "OR" -> <<Atom("OR")>> \o Written(k.subs[1]) \o Written(k.subs[2])
    [] k.key = "GROUP" -> <<ListTok(Written(k.subs[1]) \o Written(k.subs[2]))>>
    [] k.key = "SET" -> <<SetTok(k.val[2])>>
    [] k.key = "HEADER" -> <<Atom("HEADER"), Text("Subject"), Text(k.val[2])>>
    [] k.val[1] = "none" -> <<Atom(k.key)>>
    [] OTHER -> <<Atom(k.key), k.val>>

GiveSearch ==
  \E k \in Trees, l \in Listed, gone \in BOOLEAN : input' = Input("search", k, <<l, gone>>)

\* Where there is no pattern the other parts are given their inputs.
GiveInput ==
  /\ pattern = <<>> /\ name = <<>> /\ pc = "yes" /\ input.kind = "none"
  /\ GiveSet \/ GiveFetch \/ GiveMessage \/ GiveSearch

Next ==
  \/ PatternNext /\ UNCHANGED input
  \/ GiveInput /\ UNCHANGED PatternVars

Spec == Init /\ [][Next]_<<PatternVars, input>>

--------------------------------------------------------------------------
(* Properties *)

\* RFC 3501: a range takes its ends in either order, the star is the largest
\* number in use, and nothing outside the mailbox is ever named.
Means(text, largest) == IF text = StarText THEN largest ELSE text[2]
InItem(n, item, largest) ==
  LET ends == {Means(item[i], largest) : i \in DOMAIN item} IN Min(ends) <= n /\ n <= Max(ends)
Named(items, candidates) ==
  {n \in Range(candidates) : \E i \in DOMAIN items : InItem(n, items[i], Last(candidates))}

\* A sequence set is refused exactly when it is not one, and otherwise selects the
\* numbers it names among those of the mailbox, in order; and _uid_set writes any
\* set of UIDs, given in any order, so that it is read back as the same set.
SetsAreRead ==
  input.kind = "set" =>
    LET items == input.one
        candidates == input.two
        parsed == ParseSequenceSet(items)
        wrong == items = <<>> \/ \E i \in DOMAIN items, j \in 1..2 :
                   j \in DOMAIN items[i] /\ items[i][j] \in {EmptyText, Junk, Number(0)}
        selected == SelectNumbers(parsed.ranges, candidates)
        rewritten == ParseSequenceSet(UidSet(Reverse(selected)))
    IN /\ parsed.ok = ~wrong
       /\ parsed.ok => /\ Range(selected) = Named(items, candidates)
                       /\ IsInjective(selected)
                       /\ \A i, j \in DOMAIN selected : i < j => selected[i] < selected[j]
                       /\ selected # <<>> => SelectNumbers(rewritten.ranges, candidates) = selected

\* Every item a FETCH asks for is answered once, under its label, with the section
\* it names, and the message is marked \Seen if any item asks for it, whatever
\* other items share the label.
ItemsAreAnswered(asked, parsed) ==
  /\ parsed.ok = (asked # <<>> /\ \A i \in DOMAIN asked : IsAttr(asked[i]))
  /\ parsed.ok =>
       LET wanted == {ParseAttr(asked[i]) : i \in DOMAIN asked}
           attrs == Range(parsed.attrs)
       IN /\ IsInjective([i \in DOMAIN parsed.attrs |-> parsed.attrs[i].label])
          /\ \A a \in wanted : \E b \in attrs :
               /\ a.label = b.label /\ a.section = b.section /\ a.fields = b.fields
               /\ (a.partial = <<>>) = (b.partial = <<>>)
          /\ (\E a \in wanted : ~a.peek) = (\E b \in attrs : ~b.peek)

\* A message as RFC 5322 has it: lines end in CRLF, the first one begins a field,
\* and a blank line ends the header.
WellFormed(raw) ==
  /\ \A i \in DOMAIN raw : /\ raw[i] = "CR" => i < Len(raw) /\ raw[i + 1] = "LF"
                           /\ raw[i] = "LF" => i > 1 /\ raw[i - 1] = "CR"
  /\ raw # <<>> /\ raw[1] \in Fields
  /\ Find(raw, Blank \o Blank) > 0

\* The field a byte of the header belongs to: the last line at or before it that
\* does not begin with a space.
FieldAt(header, i) ==
  header[Max({j \in 1..i : (j = 1 \/ header[j - 1] = "LF") /\ header[j] # "SP"})]
BytesOf(header, names) ==
  LET kept == SelectSeq([i \in 1..Len(header) - 2 |-> i], LAMBDA i : FieldAt(header, i) \in names)
  IN [k \in DOMAIN kept |-> header[kept[k]]]

Section(raw, section, names, partial) ==
  SectionBytes(raw, [section |-> section, fields |-> names, partial |-> partial])

\* HEADER and TEXT make up the message, and so do partial fetches of any size put
\* one after the other; HEADER.FIELDS has exactly the bytes of the fields it names,
\* folded lines included, and HEADER.FIELDS.NOT the bytes of the others.
SectionsFit(raw) ==
  LET header == Section(raw, "HEADER", {}, <<>>) IN
  /\ header \o Section(raw, "TEXT", {}, <<>>) = raw
  /\ \A n \in 1..3 :
       FlattenSeq([k \in 1..Len(raw) |-> Section(raw, "", {}, <<(k - 1) * n, n>>)]) = raw
  /\ WellFormed(raw) =>
       \A names \in SUBSET Fields :
         /\ Section(raw, "HEADER.FIELDS", names, <<>>) = BytesOf(header, names) \o Blank
         /\ Section(raw, "HEADER.FIELDS.NOT", names, <<>>) = BytesOf(header, Fields \ names) \o Blank

\* What FETCH answers is what was asked for, of the message that there is.
FetchIsFaithful ==
  /\ input.kind = "fetch" => ItemsAreAnswered(input.one, ParseFetchAttributes(input.one))
  /\ input.kind = "message" => SectionsFit(input.one)

\* What a search key means for a message.
RECURSIVE Holds(_, _)
Holds(k, m) ==
  LET arg == k.val[2]
      when == IF k.key \in {"BEFORE", "ON", "SINCE"} THEN m.date ELSE m.sent
  IN CASE k.key \in {"ALL", "OLD"} -> TRUE
       [] k.key \in {"NEW", "RECENT"} -> FALSE
       [] k.key \in FlagKeys -> k.key \in m.flags
       [] k.key \in DOMAIN UnflagKey -> UnflagKey[k.key] \notin m.flags
       [] k.key = "KEYWORD" -> arg \in m.labels
       [] k.key = "UNKEYWORD" -> arg \notin m.labels
       [] k.key = "FROM" -> arg \in m.envelope["FROM"]
       [] k.key \in {"BODY", "TEXT"} -> arg \in m.texts[k.key]
       [] k.key = "HEADER" -> IF arg = "" THEN m.sent # 0 ELSE m.sent # 0 /\ arg \in m.texts["BODY"]
       [] k.key = "LARGER" -> m.size > arg
       [] k.key = "SMALLER" -> m.size < arg
       [] k.key \in {"BEFORE", "SENTBEFORE"} -> when # 0 /\ when < arg
       [] k.key \in {"ON", "SENTON"} -> when # 0 /\ when = arg
       [] k.key \in {"SINCE", "SENTSINCE"} -> when # 0 /\ when >= arg
       [] k.key = "UID" -> m.uid \in Named(arg, Uids)
       [] k.key = "SET" -> m.seq \in Named(arg, <<1, 2>>)
       [] k.key = "NOT" -> ~Holds(k.subs[1], m)
       [] k.key = "OR" -> Holds(k.subs[1], m) \/ Holds(k.subs[2], m)
       [] k.key = "GROUP" -> Holds(k.subs[1], m) /\ Holds(k.subs[2], m)

\* SEARCH finds a message exactly when the keys hold of it, however they nest; a
\* message that is gone upstream is found only if they hold whatever it contained.
\* Keys that end too soon are refused.
SearchIsSound ==
  input.kind = "search" =>
    LET k == input.one
        parsed == ParseSearch(Written(k))
        gone == input.two[2]
        found(c) == SearchHits(parsed.crit, <<Message(input.two[1], c, gone)>>, Uids) # <<>>
        holds(c) == Holds(k, Message(input.two[1], c, gone))
    IN /\ parsed.ok
       /\ ~ParseSearch(Front(Written(k))).ok
       /\ IF gone THEN \A c, d \in Contents : found(c) => holds(d)
          ELSE \A c \in Contents : found(c) = holds(c)
==========================================================================
