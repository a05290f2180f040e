------------------------- MODULE LabelHoldProofs -------------------------
(***************************************************************************)
(* Proofs about LabelHold, for any number of messages, sessions and        *)
(* writes: what the gateway wrote is held over the listings.               *)
(***************************************************************************)
EXTENDS LabelHold, TLAPS

--------------------------------------------------------------------------
(* Types *)

LabelSets == SUBSET Labels
Shown == LabelSets \cup {None}
Progress ==
  [state : {"asked", "answered"}, at : Messages, page : Shown,
   got : [Messages -> Shown], stale : SUBSET Messages]
Patches ==
  [state : {"idle", "sent", "applied"}, op : OpNames \cup {"none"}, view : {"INBOX", "Trash"},
   m : 0..MaxMessage, item : Shown, answer : Shown]

LabelTypes ==
  /\ labels \in [Messages -> LabelSets] /\ index \in [Messages -> LabelSets]
  /\ held \in [Messages -> Shown] /\ expired \subseteq Messages
  /\ written \in [Messages -> Shown]
ViewTypes ==
  /\ pinned \in [Messages -> Shown] /\ aged \subseteq Messages
  /\ snap \in [Views -> [Messages -> Shown]]
  /\ listing \in [Listings -> Progress]
WriterTypes ==
  /\ writer \in [Writers -> Patches]
  /\ \A w \in Writers : writer[w].state # "idle" => writer[w].m \in Messages
  /\ \A w \in Writers : writer[w].state = "sent" => writer[w].item \in LabelSets
  /\ \A w \in Writers : writer[w].state = "applied" => writer[w].answer \in LabelSets

Types == LabelTypes /\ ViewTypes /\ WriterTypes

\* What counts as written is what upstream has; it is held, or the hold was let go
\* when the index had it and no listing still had to read an older page.
WrittenIsHeld ==
  \A m \in Messages : written[m] # None =>
    /\ labels[m] = written[m]
    /\ \/ held[m] = written[m] /\ m \notin expired
       \/ /\ held[m] = None /\ index[m] = written[m]
          /\ \A l \in Listings : listing[l].state = "answered" /\ listing[l].at = m
                                => listing[l].page \in {None, written[m]}

\* A page that was answered after the write shows the message as written or not at
\* all, and not if the view hides it.
ReadAs(v, m, shown) ==
  /\ shown \in {None, written[m]}
  /\ Hidden(v, written[m]) => shown = None
ReadIsWritten ==
  \A l \in Listings, m \in Messages :
    /\ written[m] # None /\ m \notin listing[l].stale /\ m < listing[l].at
    => ReadAs(ViewOf(l), m, listing[l].got[m])

IInv == Types /\ WrittenIsHeld /\ ReadIsWritten

--------------------------------------------------------------------------
(* Facts about the constants and the values *)

LEMMA Numbers ==
  /\ 1 \in Messages /\ Messages \subseteq Nat /\ MaxMessage \in Messages
  /\ \A m \in Messages : m # MaxMessage => m + 1 \in Messages /\ m < MaxMessage
  /\ \A m \in Messages : m >= 1 /\ m \in 0..MaxMessage
BY HoldAssumption DEF Messages

LEMMA NoneIsNoLabels == None \notin LabelSets
<1>1. "none" \in None /\ "none" \notin Labels
  BY DEF None, Labels
<1> QED  BY <1>1 DEF LabelSets

LEMMA ChangedType ==
  ASSUME NEW old \in LabelSets, NEW op
  PROVE  Changed(old, op) \in LabelSets
BY DEF Changed, LabelSets, Added, Labels

LEMMA NothingTypes ==
  /\ Nothing \in [Messages -> Shown]
  /\ NoListing \in Progress /\ NoListing.state = "asked" /\ NoListing.at = 1
  /\ NoListing.page = None
  /\ NoWrite \in Patches /\ NoWrite.state = "idle"
<1>1. Nothing \in [Messages -> Shown] /\ None \in Shown
  BY DEF Nothing, Shown
<1>2. NoListing \in Progress /\ NoListing.state = "asked" /\ NoListing.at = 1
      /\ NoListing.page = None
  BY <1>1, Numbers DEF NoListing, Progress
<1>3. NoWrite \in Patches /\ NoWrite.state = "idle"
  BY <1>1, HoldAssumption DEF NoWrite, Patches, OpNames
<1> QED  BY <1>1, <1>2, <1>3

LEMMA InitHolds == Init => IInv
<1> SUFFICES ASSUME Init PROVE IInv
  OBVIOUS
<1> USE NothingTypes DEF Init
<1>1. LabelTypes
  BY DEF LabelTypes, LabelSets, Labels
<1>2. ViewTypes
  BY DEF ViewTypes
<1>3. WriterTypes
  BY DEF WriterTypes
<1>4. \A m \in Messages : written[m] = None
  BY DEF Nothing
<1> QED  BY <1>1, <1>2, <1>3, <1>4 DEF IInv, Types, WrittenIsHeld, ReadIsWritten

--------------------------------------------------------------------------
(* Reading a page *)

\* What is read of the page of l, and the listing and the labels it leaves.
Effective(l) == EffectiveLabels(listing[l].at, listing[l].page)
ReadNow(l) ==
  IF listing[l].page = None \/ Hidden(ViewOf(l), Effective(l)) THEN None ELSE Effective(l)
GotNow(l) == [listing[l].got EXCEPT ![listing[l].at] = ReadNow(l)]

LEMMA ReadTypes ==
  ASSUME Types, NEW l \in Listings
  PROVE  /\ listing[l] \in Progress /\ listing[l].at \in Messages
         /\ Effective(l) \in Shown /\ ReadNow(l) \in Shown /\ GotNow(l) \in [Messages -> Shown]
<1>1. listing[l] \in Progress
  BY DEF Types, ViewTypes
<1>2. listing[l].at \in Messages /\ listing[l].page \in Shown
      /\ listing[l].got \in [Messages -> Shown]
  BY <1>1 DEF Progress
<1>3. Effective(l) \in Shown
  BY <1>2 DEF Effective, EffectiveLabels, Types, LabelTypes
<1>4. ReadNow(l) \in Shown
  BY <1>3 DEF ReadNow, Shown
<1> QED  BY <1>1, <1>2, <1>3, <1>4 DEF GotNow

\* The holds and what counts as written, of the message read and of the others.
LEMMA ReadPageHolds ==
  ASSUME Types, NEW l \in Listings, ReadPage(l)
  PROVE  LET m == listing[l].at IN
         /\ held' \in [Messages -> Shown] /\ expired' \subseteq Messages
         /\ written' \in [Messages -> Shown]
         /\ \A k \in Messages \ {m} : /\ held'[k] = held[k] /\ (k \in expired' <=> k \in expired)
                                      /\ written'[k] = written[k]
         /\ written'[m] \in {None, written[m]}
         /\ \/ held'[m] = held[m] /\ (m \in expired' <=> m \in expired)
            \/ /\ held'[m] = None /\ listing[l].page # None
               /\ held[m] = listing[l].page \/ m \in expired
               /\ LetGoEarly(l, m) /\ held[m] # None => written'[m] = None
<1> DEFINE m == listing[l].at
<1>1. m \in Messages /\ None \in Shown
  BY ReadTypes DEF Shown
<1>2. held \in [Messages -> Shown] /\ expired \subseteq Messages /\ written \in [Messages -> Shown]
  BY DEF Types, LabelTypes
<1>3. \/ held' = [held EXCEPT ![m] = None] /\ expired' = expired \ {m}
         /\ listing[l].page # None /\ held[m] # None /\ LetsGo(m, listing[l].page)
      \/ held' = held /\ expired' = expired
  BY DEF ReadPage
<1>4. written' = [written EXCEPT ![m] = IF held'[m] # held[m] /\ LetGoEarly(l, m) THEN None ELSE @]
  BY DEF ReadPage
<1> HIDE DEF m
<1>5. held' \in [Messages -> Shown] /\ expired' \subseteq Messages
  BY <1>1, <1>2, <1>3
<1>6. written' \in [Messages -> Shown]
  BY <1>1, <1>2, <1>4
<1>7. \A k \in Messages \ {m} : /\ held'[k] = held[k] /\ (k \in expired' <=> k \in expired)
                                /\ written'[k] = written[k]
  BY <1>2, <1>3, <1>4
<1>8. written'[m] \in {None, written[m]}
  BY <1>1, <1>2, <1>4
<1>9. \/ held'[m] = held[m] /\ (m \in expired' <=> m \in expired)
      \/ /\ held'[m] = None /\ listing[l].page # None
         /\ held[m] = listing[l].page \/ m \in expired
         /\ LetGoEarly(l, m) /\ held[m] # None => written'[m] = None
  BY <1>1, <1>2, <1>3, <1>4 DEF LetsGo
<1> QED  BY <1>5, <1>6, <1>7, <1>8, <1>9 DEF m

\* The listing goes on to the next page, or lands.
LEMMA ReadPageListing ==
  ASSUME Types, NEW l \in Listings, ReadPage(l)
  PROVE  /\ listing[l].state = "answered"
         /\ listing' \in [Listings -> Progress]
         /\ \A k \in Listings \ {l} : listing'[k] = listing[k]
         /\ \/ /\ listing[l].at < MaxMessage
               /\ listing'[l].state = "asked" /\ listing'[l].at = listing[l].at + 1
               /\ listing'[l].got = GotNow(l) /\ listing'[l].stale = listing[l].stale
               /\ UNCHANGED <<pinned, aged, snap>>
            \/ /\ listing[l].at = MaxMessage /\ listing'[l] = NoListing
               /\ snap' = [snap EXCEPT ![ViewOf(l)] = WithPins(ViewOf(l), GotNow(l))]
               /\ pinned' \in [Messages -> Shown] /\ aged' \subseteq Messages
<1>1. /\ listing[l] \in Progress /\ listing[l].at \in Messages
      /\ GotNow(l) \in [Messages -> Shown] /\ None \in Shown
  BY ReadTypes DEF Shown
<1>2. listing \in [Listings -> Progress] /\ listing[l].state = "answered"
  BY DEF ReadPage, Types, ViewTypes
<1>3. CASE listing[l].at < MaxMessage
  <2>1. listing' = [listing EXCEPT ![l] = [listing[l] EXCEPT !.state = "asked",
                                             !.at = listing[l].at + 1, !.page = None, !.got = GotNow(l)]]
        /\ UNCHANGED <<pinned, aged, snap>>
    BY <1>3 DEF ReadPage, GotNow, ReadNow, Effective
  <2>2. listing[l].at + 1 \in Messages
    BY <1>1, <1>3, HoldAssumption DEF Messages
  <2>3. listing'[l] \in Progress /\ \A k \in Listings \ {l} : listing'[k] = listing[k]
    BY <1>1, <1>2, <2>1, <2>2 DEF Progress
  <2>4. /\ listing'[l].state = "asked" /\ listing'[l].at = listing[l].at + 1
        /\ listing'[l].got = GotNow(l) /\ listing'[l].stale = listing[l].stale
    BY <1>1, <1>2, <2>1 DEF Progress
  <2>5. listing' \in [Listings -> Progress]
    BY <1>1, <1>2, <2>1, <2>2 DEF Progress
  <2> QED  BY <1>2, <1>3, <2>1, <2>3, <2>4, <2>5
<1>4. CASE listing[l].at = MaxMessage
  <2>1. /\ listing' = [listing EXCEPT ![l] = NoListing]
        /\ snap' = [snap EXCEPT ![ViewOf(l)] = WithPins(ViewOf(l), GotNow(l))]
        /\ IF ViewOf(l) = "Trash"
           THEN /\ pinned' = [k \in Messages |-> IF k \in PinsKept(GotNow(l)) THEN pinned[k] ELSE None]
                /\ aged' = aged \cap PinsKept(GotNow(l))
           ELSE UNCHANGED <<pinned, aged>>
    BY <1>1, <1>4, HoldAssumption DEF ReadPage, GotNow, ReadNow, Effective
  <2>2. pinned' \in [Messages -> Shown] /\ aged' \subseteq Messages
    BY <2>1 DEF Shown, Types, ViewTypes
  <2> QED  BY <1>2, <1>4, <2>1, <2>2, NothingTypes
<1> QED  BY <1>1, <1>3, <1>4, Numbers, HoldAssumption DEF Messages

\* A listing that lands shows what it has read, and the pins in Trash.
LEMMA WithPinsType ==
  ASSUME Types, NEW v \in Views, NEW got \in [Messages -> Shown]
  PROVE  /\ WithPins(v, got) \in [Messages -> Shown]
         /\ \A m \in Messages : \/ WithPins(v, got)[m] = got[m]
                                \/ v = "Trash" /\ WithPins(v, got)[m] = pinned[m]
BY DEF WithPins, Types, ViewTypes

\* A message that counts as written is read as it was written.
LEMMA ReadsAsWritten ==
  ASSUME Types, WrittenIsHeld, NEW l \in Listings, listing[l].state = "answered",
         written[listing[l].at] # None
  PROVE  ReadAs(ViewOf(l), listing[l].at, ReadNow(l))
<1> DEFINE m == listing[l].at
<1>1. m \in Messages
  BY ReadTypes
<1>2. CASE listing[l].page = None
  BY <1>2 DEF ReadNow, ReadAs
<1>3. CASE listing[l].page # None
  <2>1. Effective(l) = written[m]
    BY <1>1, <1>3 DEF WrittenIsHeld, Effective, EffectiveLabels, LetsGo
  <2> QED  BY <1>3, <2>1 DEF ReadNow, ReadAs
<1> QED  BY <1>2, <1>3

--------------------------------------------------------------------------
(* The steps *)

\* Steps that leave the listings and the holds alone, and at most lapse or keep what
\* counts as written.
Quiet ==
  /\ UNCHANGED <<held, listing>>
  /\ written' \in [Messages -> Shown]
  /\ \A m \in Messages : written'[m] # None =>
       /\ written'[m] = written[m] /\ labels'[m] = labels[m]
       /\ index'[m] \in {index[m], labels[m]}
       /\ m \in expired' => m \in expired

\* The answer of a label write, of message m.
Held(w, m) ==
  /\ m \in Messages
  /\ UNCHANGED <<labels, index>>
  /\ held' = [held EXCEPT ![m] = writer[w].answer] /\ expired' = expired \ {m}
  /\ written' = [written EXCEPT ![m] = IF labels[m] = writer[w].answer THEN writer[w].answer ELSE None]
  /\ listing' = [l \in Listings |-> [listing[l] EXCEPT !.stale =
                   IF Answered(l, m) THEN @ \cup {m} ELSE @]]

\* Steps of the upstream, of the time limits and of the start of a write.
OtherSteps ==
  \/ \E m \in Messages : IndexCatchesUp(m) \/ HoldExpires(m) \/ PinExpires(m)
  \/ \E m \in Messages, new \in SUBSET Labels : UpstreamWrites(m, new)
  \/ \E w \in Writers, v \in Views, op \in Ops \ {"outside"}, m \in Messages : Write(w, v, op, m)
  \/ \E w \in Writers : PatchApplies(w) \/ PatchFails(w)
  \/ UNCHANGED vars

LEMMA NextCases ==
  ASSUME [Next]_vars
  PROVE  \/ OtherSteps
         \/ \E l \in Listings : AnswerPage(l) \/ ReadPage(l) \/ ListingFails(l)
         \/ \E w \in Writers : PatchAnswered(w)
BY DEF Next, OtherSteps, WriteSteps

LEMMA OthersAreQuiet ==
  ASSUME Types, OtherSteps
  PROVE  Quiet
<1> USE DEF Types, LabelTypes
<1>1. ASSUME NEW m \in Messages, IndexCatchesUp(m) PROVE Quiet
  BY <1>1 DEF Quiet, IndexCatchesUp, service
<1>2. ASSUME NEW m \in Messages, HoldExpires(m) PROVE Quiet
  BY <1>2 DEF Quiet, HoldExpires, upstream, Shown
<1>3. ASSUME NEW m \in Messages, PinExpires(m) PROVE Quiet
  BY <1>3 DEF Quiet, PinExpires, upstream
<1>4. ASSUME NEW m \in Messages, NEW new \in SUBSET Labels, UpstreamWrites(m, new) PROVE Quiet
  BY <1>4 DEF Quiet, UpstreamWrites, service, Shown
<1>5. ASSUME NEW w \in Writers, NEW v \in Views, NEW op \in Ops \ {"outside"}, NEW m \in Messages,
             Write(w, v, op, m)
      PROVE Quiet
  BY <1>5 DEF Quiet, Write, upstream, service
<1>6. ASSUME NEW w \in Writers, PatchApplies(w) PROVE Quiet
  BY <1>6 DEF Quiet, PatchApplies, service, Shown
<1>7. ASSUME NEW w \in Writers, PatchFails(w) PROVE Quiet
  BY <1>7 DEF Quiet, PatchFails, upstream, service
<1>8. CASE UNCHANGED vars
  BY <1>8 DEF Quiet, vars, upstream, service
<1> QED  BY <1>1, <1>2, <1>3, <1>4, <1>5, <1>6, <1>7, <1>8 DEF OtherSteps

LEMMA AnswersHold ==
  ASSUME Types, NEW w \in Writers, PatchAnswered(w)
  PROVE  Held(w, writer[w].m) /\ writer[w].answer \in LabelSets
BY DEF PatchAnswered, Hold, Held, Types, WriterTypes, upstream

--------------------------------------------------------------------------
(* The types are kept *)

LEMMA LabelTypesKept ==
  ASSUME Types, [Next]_vars
  PROVE  LabelTypes'
<1> USE DEF LabelTypes
<1>1. labels \in [Messages -> LabelSets] /\ index \in [Messages -> LabelSets]
      /\ held \in [Messages -> Shown] /\ expired \subseteq Messages
      /\ written \in [Messages -> Shown]
  BY DEF Types
<1>2. ASSUME OtherSteps PROVE LabelTypes'
  <2>1. held' = held /\ written' \in [Messages -> Shown]
    BY <1>2, OthersAreQuiet DEF Quiet
  <2>2. ASSUME NEW m \in Messages, IndexCatchesUp(m) \/ HoldExpires(m) \/ PinExpires(m)
        PROVE  LabelTypes'
    BY <1>1, <2>1, <2>2 DEF IndexCatchesUp, HoldExpires, PinExpires, upstream, service
  <2>3. ASSUME NEW m \in Messages, NEW new \in SUBSET Labels, UpstreamWrites(m, new)
        PROVE  LabelTypes'
    BY <1>1, <2>1, <2>3 DEF UpstreamWrites, service, LabelSets
  <2>4. ASSUME NEW w \in Writers, PatchApplies(w) PROVE LabelTypes'
    <3>1. writer[w].m \in Messages
      BY <2>4 DEF PatchApplies, Types, WriterTypes
    <3>2. Changed(labels[writer[w].m], writer[w].op) \in LabelSets
      BY <1>1, <3>1, ChangedType
    <3> QED  BY <1>1, <2>1, <2>4, <3>1, <3>2 DEF PatchApplies, service
  <2>5. CASE \/ \E w \in Writers, v \in Views, op \in Ops \ {"outside"}, m \in Messages :
                   Write(w, v, op, m)
             \/ \E w \in Writers : PatchFails(w)
             \/ UNCHANGED vars
    BY <1>1, <2>5 DEF Write, PatchFails, vars, upstream, service
  <2> QED  BY <1>2, <2>2, <2>3, <2>4, <2>5 DEF OtherSteps
<1>3. ASSUME NEW l \in Listings, AnswerPage(l) \/ ListingFails(l) PROVE LabelTypes'
  BY <1>1, <1>3 DEF AnswerPage, ListingFails, upstream, service
<1>4. ASSUME NEW l \in Listings, ReadPage(l) PROVE LabelTypes'
  <2>1. UNCHANGED <<labels, index>>
    BY <1>4 DEF ReadPage, upstream
  <2> QED  BY <1>1, <1>4, <2>1, ReadPageHolds
<1>5. ASSUME NEW w \in Writers, PatchAnswered(w) PROVE LabelTypes'
  BY <1>1, <1>5, AnswersHold DEF Held, Shown
<1> QED  BY <1>2, <1>3, <1>4, <1>5, NextCases

LEMMA ViewTypesKept ==
  ASSUME Types, [Next]_vars
  PROVE  ViewTypes'
<1> USE DEF ViewTypes
<1>1. pinned \in [Messages -> Shown] /\ aged \subseteq Messages
      /\ snap \in [Views -> [Messages -> Shown]] /\ listing \in [Listings -> Progress]
  BY DEF Types
<1>2. ASSUME OtherSteps PROVE ViewTypes'
  <2>1. listing' = listing
    BY <1>2, OthersAreQuiet DEF Quiet
  <2>2. UNCHANGED <<pinned, snap>> /\ aged' \subseteq Messages
    BY <1>1, <1>2 DEF OtherSteps, IndexCatchesUp, HoldExpires, PinExpires, UpstreamWrites, Write,
                PatchApplies, PatchFails, vars, service
  <2> QED  BY <1>1, <2>1, <2>2
<1>3. ASSUME NEW l \in Listings, AnswerPage(l) \/ ListingFails(l) PROVE ViewTypes'
  <2>1. UNCHANGED <<pinned, aged, snap>>
    BY <1>3 DEF AnswerPage, ListingFails, service
  <2>2. listing[l] \in Progress /\ listing[l].at \in Messages
    BY <1>1 DEF Progress
  <2>3. CASE AnswerPage(l)
    <3> DEFINE page == IF Matches(ViewOf(l), index[listing[l].at]) THEN index[listing[l].at] ELSE None
    <3>1. page \in Shown
      BY <2>2 DEF Shown, Types, LabelTypes
    <3>2. listing' = [listing EXCEPT ![l].state = "answered", ![l].page = page]
      BY <2>3 DEF AnswerPage
    <3> HIDE DEF page
    <3>3. listing' \in [Listings -> Progress]
      BY <1>1, <2>2, <3>1, <3>2 DEF Progress
    <3> QED  BY <1>1, <2>1, <3>3
  <2>4. CASE ListingFails(l)
    BY <1>1, <2>1, <2>4, NothingTypes DEF ListingFails
  <2> QED  BY <1>3, <2>3, <2>4
<1>4. ASSUME NEW l \in Listings, ReadPage(l) PROVE ViewTypes'
  <2>1. ViewOf(l) \in Views
    BY HoldAssumption DEF ViewOf
  <2>2. WithPins(ViewOf(l), GotNow(l)) \in [Messages -> Shown]
    BY <2>1, ReadTypes, WithPinsType
  <2> QED  BY <1>1, <1>4, <2>2, ReadPageListing
<1>5. ASSUME NEW w \in Writers, PatchAnswered(w) PROVE ViewTypes'
  <2>1. Held(w, writer[w].m) /\ writer[w].m \in Messages /\ writer[w].answer \in Shown
    BY <1>5, AnswersHold DEF Held, Shown
  <2>2. \A l \in Listings : listing[l] \in Progress /\ listing[l].stale \in SUBSET Messages
    BY <1>1 DEF Progress
  <2>3. listing' \in [Listings -> Progress]
    BY <2>1, <2>2 DEF Held, Progress
  <2>4. pinned' \in [Messages -> Shown] /\ aged' \subseteq Messages
    BY <1>1, <1>5, <2>1 DEF PatchAnswered
  <2>5. snap' \in [Views -> [Messages -> Shown]]
    BY <1>1, <1>5, <2>1 DEF PatchAnswered
  <2> QED  BY <2>3, <2>4, <2>5
<1> QED  BY <1>2, <1>3, <1>4, <1>5, NextCases

LEMMA WriterTypesKept ==
  ASSUME Types, [Next]_vars
  PROVE  WriterTypes'
<1> USE DEF WriterTypes
<1>1. /\ writer \in [Writers -> Patches]
      /\ \A w \in Writers : writer[w].state # "idle" => writer[w].m \in Messages
      /\ \A w \in Writers : writer[w].state = "sent" => writer[w].item \in LabelSets
      /\ \A w \in Writers : writer[w].state = "applied" => writer[w].answer \in LabelSets
  BY DEF Types
<1>2. ASSUME NEW w \in Writers, NEW v \in Views, NEW op \in Ops \ {"outside"}, NEW m \in Messages,
             Write(w, v, op, m)
      PROVE  WriterTypes'
  <2>1. snap[v][m] \in Shown /\ None \in Shown
    BY DEF Types, ViewTypes, Shown
  <2> DEFINE sent == [state |-> "sent", op |-> op, view |-> v, m |-> m, item |-> snap[v][m],
                      answer |-> None]
  <2>2. sent \in Patches
    BY <2>1, HoldAssumption, Numbers DEF Patches
  <2>3. sent.state = "sent" /\ sent.m = m /\ sent.item \in LabelSets
    BY <1>2, <2>1 DEF Write, Shown
  <2>4. writer' = [writer EXCEPT ![w] = sent]
    BY <1>2 DEF Write
  <2> HIDE DEF sent
  <2> QED  BY <1>1, <2>2, <2>3, <2>4
<1>3. ASSUME NEW w \in Writers, PatchApplies(w) PROVE WriterTypes'
  <2>1. /\ writer[w].m \in Messages /\ writer[w] \in Patches
        /\ writer[w].item \in LabelSets /\ labels[writer[w].m] \in LabelSets
    BY <1>1, <1>3 DEF PatchApplies, Types, LabelTypes
  <2>2. PICK answer \in {Changed(labels[writer[w].m], writer[w].op),
                         Changed(writer[w].item, writer[w].op)} :
          writer' = [writer EXCEPT ![w] = [writer[w] EXCEPT !.state = "applied", !.item = None,
                                                            !.answer = answer]]
    BY <1>3 DEF PatchApplies
  <2>3. answer \in LabelSets /\ answer \in Shown /\ None \in Shown
    BY <2>1, ChangedType DEF Shown
  <2>4. /\ writer'[w] \in Patches /\ writer'[w].m = writer[w].m /\ writer'[w].answer = answer
        /\ writer'[w].state = "applied" /\ writer' \in [Writers -> Patches]
        /\ \A x \in Writers \ {w} : writer'[x] = writer[x]
    BY <1>1, <2>1, <2>2, <2>3 DEF Patches
  <2> QED  BY <1>1, <2>1, <2>3, <2>4
<1>4. ASSUME NEW w \in Writers, PatchFails(w) \/ PatchAnswered(w) PROVE WriterTypes'
  BY <1>1, <1>4, NothingTypes DEF PatchFails, PatchAnswered
<1>5. CASE UNCHANGED writer
  BY <1>1, <1>5
<1>6. ASSUME NEW l \in Listings, AnswerPage(l) \/ ReadPage(l) \/ ListingFails(l)
      PROVE  UNCHANGED writer
  BY <1>6 DEF AnswerPage, ReadPage, ListingFails
<1>7. ASSUME NEW m \in Messages, IndexCatchesUp(m) \/ HoldExpires(m) \/ PinExpires(m)
      PROVE  UNCHANGED writer
  BY <1>7 DEF IndexCatchesUp, HoldExpires, PinExpires
<1>8. ASSUME NEW m \in Messages, NEW new \in SUBSET Labels, UpstreamWrites(m, new)
      PROVE  UNCHANGED writer
  BY <1>8 DEF UpstreamWrites
<1>9. UNCHANGED vars => UNCHANGED writer
  BY DEF vars
<1> QED  BY <1>2, <1>3, <1>4, <1>5, <1>6, <1>7, <1>8, <1>9, NextCases DEF OtherSteps

--------------------------------------------------------------------------
(* What was written is held *)

LEMMA WrittenIsHeldKept ==
  ASSUME Types, WrittenIsHeld, [Next]_vars
  PROVE  WrittenIsHeld'
<1> SUFFICES ASSUME NEW m \in Messages, written'[m] # None
             PROVE  /\ labels'[m] = written'[m]
                    /\ \/ held'[m] = written'[m] /\ m \notin expired'
                       \/ /\ held'[m] = None /\ index'[m] = written'[m]
                          /\ \A l \in Listings : listing'[l].state = "answered" /\ listing'[l].at = m
                                                => listing'[l].page \in {None, written'[m]}
  BY DEF WrittenIsHeld
<1> DEFINE Before ==
      /\ labels[m] = written[m]
      /\ \/ held[m] = written[m] /\ m \notin expired
         \/ /\ held[m] = None /\ index[m] = written[m]
            /\ \A l \in Listings : listing[l].state = "answered" /\ listing[l].at = m
                                  => listing[l].page \in {None, written[m]}
<1>1. written[m] # None => Before
  BY DEF WrittenIsHeld
<1>2. CASE OtherSteps
  BY <1>1, <1>2, OthersAreQuiet DEF Quiet
<1>3. listing \in [Listings -> Progress]
  BY DEF Types, ViewTypes
<1>4. ASSUME NEW l \in Listings, ListingFails(l)
      PROVE  /\ UNCHANGED <<labels, index, held, expired, written>>
             /\ \A k \in Listings : listing'[k].state = "answered" => listing'[k] = listing[k]
  BY <1>3, <1>4, NothingTypes DEF ListingFails, upstream, service, Progress
<1>5. ASSUME NEW l \in Listings, AnswerPage(l)
      PROVE  /\ UNCHANGED <<labels, index, held, expired, written>>
             /\ \A k \in Listings \ {l} : listing'[k] = listing[k]
             /\ listing'[l].at = listing[l].at
             /\ listing'[l].page \in {None, index[listing[l].at]}
  BY <1>3, <1>5 DEF AnswerPage, upstream, service, Progress
<1>6. ASSUME NEW l \in Listings, ReadPage(l), m # listing[l].at
      PROVE  /\ UNCHANGED <<labels, index>>
             /\ held'[m] = held[m] /\ (m \in expired' <=> m \in expired) /\ written'[m] = written[m]
             /\ \A k \in Listings : listing'[k].state = "answered" => listing'[k] = listing[k]
  <2>1. UNCHANGED <<labels, index>>
    BY <1>6 DEF ReadPage, upstream
  <2>2. held'[m] = held[m] /\ (m \in expired' <=> m \in expired) /\ written'[m] = written[m]
    BY <1>6, ReadPageHolds
  <2>3. \A k \in Listings : listing'[k].state = "answered" => listing'[k] = listing[k]
    BY <1>6, ReadPageListing, NothingTypes
  <2> QED  BY <2>1, <2>2, <2>3
<1>7. ASSUME NEW l \in Listings, ReadPage(l), m = listing[l].at
      PROVE  \/ held'[m] = written'[m] /\ m \notin expired'
             \/ /\ held'[m] = None /\ index'[m] = written'[m]
                /\ \A k \in Listings : listing'[k].state = "answered" /\ listing'[k].at = m
                                      => listing'[k].page \in {None, written'[m]}
  <2>1. written'[m] = written[m] /\ written[m] # None /\ UNCHANGED <<labels, index>>
    BY <1>7, ReadPageHolds DEF ReadPage, upstream
  <2>2. /\ \A k \in Listings \ {l} : listing'[k] = listing[k]
        /\ listing'[l].state # "answered"
    BY <1>7, ReadPageListing, NothingTypes
  <2>3. CASE held'[m] = held[m] /\ (m \in expired' <=> m \in expired)
    BY <1>1, <2>1, <2>2, <2>3
  <2>4. CASE /\ held'[m] = None /\ listing[l].page # None
             /\ held[m] = listing[l].page \/ m \in expired
             /\ LetGoEarly(l, m) /\ held[m] # None => written'[m] = None
    <3>1. CASE held[m] = None
      BY <1>1, <2>1, <2>2, <2>4, <3>1
    <3>2. CASE held[m] # None
      <4>1. held[m] = written[m] /\ m \notin expired /\ listing[l].page = written[m]
        BY <1>1, <2>1, <2>4, <3>2
      <4>2. ~LetGoEarly(l, m)
        BY <2>4, <3>2
      <4> QED  BY <2>1, <2>2, <2>4, <4>1, <4>2 DEF LetGoEarly
    <3> QED  BY <3>1, <3>2
  <2> QED  BY <1>7, <2>3, <2>4, ReadPageHolds
<1>8. ASSUME NEW w \in Writers, PatchAnswered(w)
      PROVE  /\ labels'[m] = written'[m]
             /\ \/ held'[m] = written'[m] /\ m \notin expired'
                \/ /\ held'[m] = None /\ index'[m] = written'[m]
                   /\ \A l \in Listings : listing'[l].state = "answered" /\ listing'[l].at = m
                                         => listing'[l].page \in {None, written'[m]}
  <2>1. Held(w, writer[w].m)
    BY <1>8, AnswersHold
  <2>2. held \in [Messages -> Shown] /\ written \in [Messages -> Shown]
    BY DEF Types, LabelTypes
  <2>3. CASE m = writer[w].m
    BY <2>1, <2>2, <2>3 DEF Held
  <2>4. CASE m # writer[w].m
    <3>1. /\ UNCHANGED <<labels, index>> /\ held'[m] = held[m] /\ written'[m] = written[m]
          /\ (m \in expired' <=> m \in expired)
      BY <2>1, <2>2, <2>4 DEF Held
    <3>2. \A l \in Listings : /\ listing'[l].state = listing[l].state /\ listing'[l].at = listing[l].at
                           /\ listing'[l].page = listing[l].page
      BY <1>3, <2>1 DEF Held, Progress
    <3> QED  BY <1>1, <3>1, <3>2
  <2> QED  BY <2>3, <2>4
<1>9. ASSUME NEW l \in Listings, ReadPage(l), m = listing[l].at
      PROVE  labels'[m] = written'[m]
  BY <1>1, <1>9, ReadPageHolds DEF ReadPage, upstream
<1>10. CASE \E l \in Listings : AnswerPage(l) \/ ReadPage(l) \/ ListingFails(l)
  <2> PICK l \in Listings : AnswerPage(l) \/ ReadPage(l) \/ ListingFails(l)
    BY <1>10
  <2>1. CASE ListingFails(l)
    BY <1>1, <1>4, <2>1
  <2>2. CASE AnswerPage(l)
    BY <1>1, <1>5, <2>2
  <2>3. CASE ReadPage(l) /\ m # listing[l].at
    BY <1>1, <1>6, <2>3
  <2>4. CASE ReadPage(l) /\ m = listing[l].at
    BY <1>7, <1>9, <2>4
  <2> QED  BY <2>1, <2>2, <2>3, <2>4
<1> QED  BY <1>2, <1>8, <1>10, NextCases

LEMMA ReadIsWrittenKept ==
  ASSUME Types, WrittenIsHeld, ReadIsWritten, [Next]_vars
  PROVE  ReadIsWritten'
<1> SUFFICES ASSUME NEW k \in Listings, NEW m \in Messages, written'[m] # None,
                    m \notin listing'[k].stale, m < listing'[k].at
             PROVE  ReadAs(ViewOf(k), m, listing[k].got[m])'
  BY DEF ReadIsWritten
<1> USE DEF ReadAs, Hidden
<1>1. /\ written[m] # None /\ m \notin listing[k].stale /\ m < listing[k].at
      => ReadAs(ViewOf(k), m, listing[k].got[m])
  BY DEF ReadIsWritten
<1>2. CASE OtherSteps
  BY <1>1, <1>2, OthersAreQuiet DEF Quiet
<1>3. listing \in [Listings -> Progress] /\ m >= 1 /\ m \in Nat
  BY Numbers DEF Types, ViewTypes
<1>4. ASSUME NEW l \in Listings, AnswerPage(l) \/ ListingFails(l)
      PROVE  /\ UNCHANGED written
             /\ \/ listing'[k] = NoListing
                \/ /\ listing'[k].at = listing[k].at /\ listing'[k].stale = listing[k].stale
                   /\ listing'[k].got = listing[k].got
  BY <1>3, <1>4 DEF AnswerPage, ListingFails, Progress
<1>5. ASSUME NEW l \in Listings, ReadPage(l)
      PROVE  ReadAs(ViewOf(k), m, listing[k].got[m])'
  <2>1. written'[m] = written[m]
    BY <1>5, ReadPageHolds
  <2>2. CASE k # l
    BY <1>1, <1>5, <2>1, <2>2, ReadPageListing
  <2>3. CASE k = l
    <3>1. /\ listing[l].at < MaxMessage /\ listing'[l].at = listing[l].at + 1
          /\ listing'[l].got = GotNow(l) /\ listing'[l].stale = listing[l].stale
      BY <1>3, <1>5, <2>3, ReadPageListing, NothingTypes
    <3>2. listing[l].at \in Nat /\ listing[l].got \in [Messages -> Shown] /\ listing[l].at \in Messages
      BY <1>3, Numbers DEF Progress
    <3>3. CASE m = listing[l].at
      <4>1. ReadAs(ViewOf(l), m, ReadNow(l))
        BY <1>5, <2>1, <3>3, ReadsAsWritten, ReadPageListing
      <4>2. listing'[l].got[m] = ReadNow(l)
        BY <3>1, <3>2, <3>3 DEF GotNow
      <4> QED  BY <2>1, <2>3, <4>1, <4>2
    <3>4. CASE m # listing[l].at
      <4>1. m < listing[l].at
        BY <1>3, <2>3, <3>1, <3>2, <3>4
      <4>2. listing'[l].got[m] = listing[l].got[m]
        BY <3>1, <3>2, <3>4 DEF GotNow
      <4> QED  BY <1>1, <2>1, <2>3, <3>1, <4>1, <4>2
    <3> QED  BY <3>3, <3>4
  <2> QED  BY <2>2, <2>3
<1>6. ASSUME NEW w \in Writers, PatchAnswered(w)
      PROVE  ReadAs(ViewOf(k), m, listing[k].got[m])'
  <2>1. Held(w, writer[w].m)
    BY <1>6, AnswersHold
  <2>2. /\ listing'[k].at = listing[k].at /\ listing'[k].got = listing[k].got
        /\ listing'[k].stale = IF Answered(k, writer[w].m)
                               THEN listing[k].stale \cup {writer[w].m} ELSE listing[k].stale
    BY <1>3, <2>1 DEF Held, Progress
  <2>3. m # writer[w].m /\ m \notin listing[k].stale
    BY <2>2 DEF Answered
  <2>4. written'[m] = written[m]
    BY <2>1, <2>3 DEF Held, Types, LabelTypes
  <2> QED  BY <1>1, <2>2, <2>3, <2>4
<1>7. ASSUME NEW l \in Listings, AnswerPage(l) \/ ListingFails(l)
      PROVE  ReadAs(ViewOf(k), m, listing[k].got[m])'
  <2>1. listing'[k] # NoListing
    BY <1>3, NothingTypes
  <2> QED  BY <1>1, <1>4, <1>7, <2>1
<1> QED  BY <1>2, <1>5, <1>6, <1>7, NextCases

--------------------------------------------------------------------------
(* The theorems *)

LEMMA HoldsAreInductive == Spec => []IInv
<1>1. IInv /\ [Next]_vars => IInv'
  BY LabelTypesKept, ViewTypesKept, WriterTypesKept, WrittenIsHeldKept, ReadIsWrittenKept
     DEF IInv, Types
<1> QED  BY <1>1, InitHolds, PTL DEF Spec

\* A label that the gateway wrote is held over stale listings of every view, however
\* many overlap: a listing whose page upstream answered after the write shows the
\* message as written or not at all, or as it is pinned in Trash, and never in INBOX if
\* it was moved to Trash.  What ends the promise is said at OwnWritesHold.
THEOREM WritesAreHeld == Spec => OwnWritesHold
<1> DEFINE Holds ==
      \A l \in Listings, m \in Messages :
        LET v == ViewOf(l) IN
        /\ ReadPage(l) /\ listing[l].at = MaxMessage
        /\ m \notin listing[l].stale
        /\ written[m] # None
        => /\ \/ snap'[v][m] \in {None, written[m]}
              \/ v = "Trash" /\ snap'[v][m] = pinned[m]
           /\ Hidden(v, written[m]) => snap'[v][m] = None
<1>1. ASSUME IInv PROVE Holds
  <2> SUFFICES ASSUME NEW l \in Listings, NEW m \in Messages, ReadPage(l),
                      listing[l].at = MaxMessage, m \notin listing[l].stale, written[m] # None
               PROVE  LET v == ViewOf(l) IN
                      /\ \/ snap'[v][m] \in {None, written[m]}
                         \/ v = "Trash" /\ snap'[v][m] = pinned[m]
                      /\ Hidden(v, written[m]) => snap'[v][m] = None
    OBVIOUS
  <2> USE <1>1 DEF IInv
  <2>1. /\ snap' = [snap EXCEPT ![ViewOf(l)] = WithPins(ViewOf(l), GotNow(l))]
        /\ listing[l].state = "answered" /\ ViewOf(l) \in Views
    BY ReadPageListing, HoldAssumption DEF ViewOf
  <2>2. GotNow(l) \in [Messages -> Shown] /\ listing[l].at \in Messages /\ listing[l] \in Progress
    BY ReadTypes
  <2>3. snap'[ViewOf(l)] = WithPins(ViewOf(l), GotNow(l))
    BY <2>1 DEF Types, ViewTypes
  <2>4. ReadAs(ViewOf(l), m, GotNow(l)[m])
    <3>1. CASE m = listing[l].at
      <4>1. ReadAs(ViewOf(l), m, ReadNow(l))
        BY <2>1, <3>1, ReadsAsWritten
      <4>2. GotNow(l)[m] = ReadNow(l)
        BY <2>2, <3>1 DEF GotNow, Progress
      <4> QED  BY <4>1, <4>2
    <3>2. CASE m # listing[l].at
      <4>1. m < listing[l].at
        BY <2>1, <3>2, Numbers
      <4>2. GotNow(l)[m] = listing[l].got[m]
        BY <2>2, <3>2 DEF GotNow, Progress
      <4> QED  BY <4>1, <4>2 DEF ReadIsWritten
    <3> QED  BY <3>1, <3>2
  <2>5. \/ WithPins(ViewOf(l), GotNow(l))[m] = GotNow(l)[m]
        \/ ViewOf(l) = "Trash" /\ WithPins(ViewOf(l), GotNow(l))[m] = pinned[m]
    BY <2>1, <2>2, WithPinsType
  <2> QED  BY <2>3, <2>4, <2>5 DEF ReadAs, Hidden
<1>2. IInv => [Holds]_vars
  BY <1>1
<1> QED  BY <1>2, HoldsAreInductive, PTL DEF OwnWritesHold
==========================================================================
