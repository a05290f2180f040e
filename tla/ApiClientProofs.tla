------------------------- MODULE ApiClientProofs -------------------------
(***************************************************************************)
(* Proofs about ApiClient, for any chain of page tokens, any limits and    *)
(* any pool.                                                               *)
(***************************************************************************)
EXTENDS ApiClient, TLAPS

--------------------------------------------------------------------------
(* The inductive invariant *)

Types ==
  /\ op \in {"list", "write"}
  /\ chain \in [Pages -> Tokens \cup {End}]
  /\ pc \in {"send", "queued", "sent", "backoff"} \cup Ends
  /\ token \in Pages /\ seen \subseteq Tokens /\ read \subseteq Pages
  /\ attempt \in Int /\ elapsed \in Int /\ delay \in Int
  /\ ahead \in Nat /\ closed \in BOOLEAN /\ orphan \in BOOLEAN
  /\ gaveUp \in {"none", "send", "queued", "sent", "backoff"} /\ late \in Nat

\* The pages that _paginate has asked for.
Asked == seen \cup {First}

\* What has been asked for lies on the chain, whichever set follows it.
AskedOnChain == \A S \in SUBSET Pages : Follows(S) => Asked \subseteq S

\* While a listing runs, all that was asked for but the present page is read, and
\* each page that is read led to one that was asked for.
Running ==
  op = "list" /\ ~Over =>
    /\ token \in Asked /\ read = Asked \ {token}
    /\ \A p \in read : chain[p] \in seen

\* A listing that came to its end has read all it asked for.
ReadAll ==
  op = "list" /\ pc \in {"returned", "loop"} =>
    /\ token \in Asked /\ read = Asked
    /\ \A p \in Asked \ {token} : chain[p] \in seen
    /\ pc = "returned" => chain[token] = End
    /\ pc = "loop" => chain[token] \in seen

\* The listing, page by page.
ListingInv == AskedOnChain /\ Running /\ ReadAll

\* An attempt begins within the budget, and a sleep ends within it.
TimeInv ==
  /\ pc \in {"send", "queued", "sent"} => elapsed <= RetryBudget
  /\ pc = "backoff" => elapsed + delay <= RetryBudget
  /\ EndsInTime

\* Nothing is executed late before the call is given up, and a thread that works
\* on had taken the request up and has not executed it yet.
LateInv ==
  /\ gaveUp = "none" <=> pc # "cancelled"
  /\ gaveUp = "none" => late = 0
  /\ orphan => gaveUp = "sent" /\ late = 0
  /\ LateOnlyIfTaken

IInv == Types /\ ListingInv /\ TimeInv /\ LateInv

--------------------------------------------------------------------------
(* Facts about the chain *)

\* The first page and what a page of the chain leads to are on it: whatever
\* follows the chain contains what was asked for, and what comes next.
LEMMA AskedGrows ==
  ASSUME Types, AskedOnChain, NEW p \in Asked, chain[p] # End
  PROVE  \A S \in SUBSET Pages : Follows(S) => Asked \cup {chain[p]} \subseteq S
BY DEF AskedOnChain, Follows

\* When every page asked for leads to one that was asked for, or to the end, these
\* are the pages of the chain.
LEMMA AskedIsWhole ==
  ASSUME Types, AskedOnChain, \A p \in Asked : chain[p] \in Asked \cup {End}
  PROVE  Asked = Whole
<1>1. Asked \subseteq Pages
  BY DEF Types, Asked, Pages
<1>2. Follows(Asked)
  BY DEF Follows, Asked
<1>3. Asked \subseteq Whole
  BY <1>1 DEF Whole, AskedOnChain
<1>4. Whole \subseteq Asked
  BY <1>1, <1>2 DEF Whole
<1> QED BY <1>3, <1>4

\* What is slept before another attempt is a number.
LEMMA WaitIsNumber ==
  ASSUME attempt \in Int, NEW wait \in Backoffs \cup RetryAfters
  PROVE  wait \in Int
<1>1. CASE wait \in RetryAfters
  BY <1>1, ApiAssumption
<1>2. CASE wait \in Backoffs
  <2>1. PICK jitter \in 0..(BackoffBase * 2^(attempt - 1)) \div 4 :
          wait = BackoffBase * 2^(attempt - 1) + jitter
    BY <1>2 DEF Backoffs
  <2> QED BY <2>1, ApiAssumption
<1> QED BY <1>1, <1>2

--------------------------------------------------------------------------
(* The steps *)

\* The first state: nothing asked for but the first page.
LEMMA InitInv == Init => IInv
<1> SUFFICES ASSUME Init PROVE IInv
  OBVIOUS
<1>1. chain \in [Pages -> Tokens \cup {End}]
  <2>1. CASE op = "list"
    BY <2>1 DEF Init
  <2>2. CASE op # "list"
    BY <2>2 DEF Init
  <2> QED BY <2>1, <2>2
<1>2. Types
  <2>1. op \in {"list", "write"}
    BY ApiAssumption DEF Init
  <2>2. token \in Pages /\ seen \subseteq Tokens /\ read \subseteq Pages
    BY DEF Init, Pages
  <2>3. closed \in BOOLEAN /\ orphan \in BOOLEAN
    BY DEF Init
  <2>4. attempt \in Int /\ elapsed \in Int /\ delay \in Int /\ ahead \in Nat /\ late \in Nat
    BY DEF Init
  <2> QED BY <1>1, <2>1, <2>2, <2>3, <2>4 DEF Init, Types
<1>3. ListingInv
  BY DEF Init, ListingInv, AskedOnChain, Running, ReadAll, Asked, Follows, Over, Ends
<1>4. TimeInv
  BY ApiAssumption DEF Init, TimeInv, EndsInTime
<1>5. LateInv
  BY DEF Init, LateInv, LateOnlyIfTaken
<1> QED BY <1>2, <1>3, <1>4, <1>5 DEF IInv

\* A step that reads no page leaves the listing where it was: it runs on, or it
\* ends without having returned.
LEMMA ListingUntouched ==
  ASSUME ListingInv, UNCHANGED call,
         pc' \in Ends => pc' = pc \/ pc' \in {"raised", "cancelled"} \/ op = "write",
         pc \in Ends => pc' \in Ends
  PROVE  ListingInv'
<1>1. AskedOnChain'
  BY DEF ListingInv, AskedOnChain, Asked, Follows, call
<1>2. Running'
  BY DEF ListingInv, Running, Asked, Over, call
<1>3. ReadAll'
  BY DEF ListingInv, ReadAll, Asked, Ends, call
<1> QED BY <1>1, <1>2, <1>3 DEF ListingInv

\* Reading a page: the listing goes on to a page it has not asked for, or is over.
LEMMA PageIsRead ==
  ASSUME Types, ListingInv, op = "list", pc = "sent", NEW time, ReadPage(time),
         UNCHANGED <<op, chain>>
  PROVE  ListingInv'
<1> DEFINE next == chain[token]
<1>1. /\ token \in Asked /\ read = Asked \ {token}
      /\ \A p \in read : chain[p] \in seen
  BY DEF ListingInv, Running, Over, Ends
<1>2. next \in Tokens \cup {End}
  BY DEF Types
<1>3. CASE next = End /\ Finish("returned", time)
  <2>1. AskedOnChain'
    BY <1>3 DEF ListingInv, AskedOnChain, Asked, Follows, Finish
  <2>2. Running'
    BY <1>3 DEF Running, Finish, Over, Ends
  <2>3. ReadAll'
    BY <1>1, <1>3 DEF ReadAll, Finish, ReadPage, Asked
  <2> QED BY <2>1, <2>2, <2>3 DEF ListingInv
<1>4. CASE next # End /\ Repeats(next) /\ Finish("loop", time)
  <2>1. AskedOnChain'
    BY <1>4 DEF ListingInv, AskedOnChain, Asked, Follows, Finish
  <2>2. Running'
    BY <1>4 DEF Running, Finish, Over, Ends
  <2>3. ReadAll'
    BY <1>1, <1>4 DEF ReadAll, Finish, ReadPage, Asked, Repeats
  <2> QED BY <2>1, <2>2, <2>3 DEF ListingInv
<1>5. CASE next # End /\ ~Repeats(next) /\ AskFor(next)
  <2>1. AskedOnChain'
    <3>1. \A S \in SUBSET Pages : Follows(S) => Asked \cup {next} \subseteq S
      BY <1>1, <1>5, AskedGrows DEF ListingInv
    <3>2. Asked' = Asked \cup {next}
      BY <1>5 DEF AskFor, Asked
    <3>3. \A S : Follows(S)' <=> Follows(S)
      BY DEF Follows
    <3> HIDE DEF next
    <3> QED BY <3>1, <3>2, <3>3 DEF AskedOnChain
  <2>2. Running'
    <3>1. read' = Asked
      BY <1>1 DEF ReadPage
    <3>2. next \notin Asked
      BY <1>2, <1>5, ApiAssumption DEF Asked, Repeats
    <3>3. token' = next /\ seen' = seen \cup {next} /\ next \in Asked' /\ read' = Asked' \ {token'}
      BY <1>5, <3>1, <3>2 DEF AskFor, Asked
    <3>4. \A p \in read' : chain'[p] \in seen'
      BY <1>1, <3>1, <3>3
    <3> QED BY <3>3, <3>4 DEF Running
  <2>3. ReadAll'
    BY <1>5 DEF ReadAll, AskFor
  <2> QED BY <2>1, <2>2, <2>3 DEF ListingInv
<1> QED BY <1>3, <1>4, <1>5 DEF ReadPage

\* Each step keeps the variables within their types.
LEMMA NextTypes == IInv /\ [Next]_vars => Types'
<1> SUFFICES ASSUME IInv, [Next]_vars PROVE Types'
  OBVIOUS
<1> USE DEF IInv, Types
<1>1. CASE Send
  BY <1>1, ApiAssumption DEF Send, call, history, Ends
<1>2. CASE OtherEnds
  BY <1>2 DEF OtherEnds, call, history
<1>3. CASE TakeUp
  BY <1>3 DEF TakeUp, call, pool, history
<1>4. CASE GiveUp
  BY <1>4 DEF GiveUp, Cancelled, LeavesOrphan, call, Over, Ends
<1>5. CASE Close
  BY <1>5 DEF Close, Cancelled, LeavesOrphan, call, Ends
<1>6. CASE OrphanEnds
  <2>1. late' \in Nat
    BY <1>6 DEF OrphanEnds, Executed
  <2>2. orphan' \in BOOLEAN /\ UNCHANGED <<call, pc, attempt, elapsed, delay, ahead, closed, gaveUp>>
    BY <1>6 DEF OrphanEnds
  <2> QED BY <2>1, <2>2 DEF call
<1>7. CASE Wake
  BY <1>7 DEF Wake, call, pool, history
<1>8. CASE Ended \/ UNCHANGED vars
  BY <1>8 DEF Ended, vars, call, pool, history
<1>9. ASSUME NEW time \in Durations, Succeeds(time)
      PROVE  Types'
  <2>1. time \in Int /\ late' \in Nat
    BY <1>9, ApiAssumption DEF Succeeds, Executed
  <2>2. ASSUME NEW how \in Ends, Finish(how, time), read' \subseteq Pages PROVE Types'
    BY <1>9, <2>1, <2>2 DEF Finish, Succeeds, pool
  <2>3. CASE op = "list" /\ ReadPage(time)
    <3>1. read' \subseteq Pages
      BY <2>3 DEF ReadPage
    <3>2. ASSUME chain[token] # End, AskFor(chain[token]) PROVE Types'
      BY <1>9, <2>1, <3>1, <3>2 DEF AskFor, Succeeds, pool, Pages
    <3> QED BY <2>2, <2>3, <3>1, <3>2 DEF ReadPage, Ends
  <2>4. CASE op = "write" /\ Finish("returned", time) /\ UNCHANGED read
    BY <2>2, <2>4 DEF Ends
  <2> QED BY <1>9, <2>3, <2>4 DEF Succeeds
<1>10. ASSUME NEW time \in Durations, Malformed(time) \/ Refused(time)
       PROVE  Types'
  BY <1>10, ApiAssumption DEF Malformed, Refused, Executed, call, pool, history, Ends
<1>11. ASSUME NEW time \in Durations, Unavailable(time)
       PROVE  Types'
  <2>1. PICK wait \in Backoffs \cup RetryAfters : TryAgain(elapsed + time, wait)
    BY <1>11 DEF Unavailable
  <2>2. wait \in Int
    BY WaitIsNumber
  <2> QED BY <1>11, <2>1, <2>2, ApiAssumption DEF Unavailable, TryAgain, Executed, call, pool, Ends
<1> QED BY <1>1, <1>2, <1>3, <1>4, <1>5, <1>6, <1>7, <1>8, <1>9, <1>10, <1>11 DEF Next

\* Each step keeps what the listing has read and what is left of it.
LEMMA NextListing == IInv /\ [Next]_vars => ListingInv'
<1> SUFFICES ASSUME IInv, [Next]_vars PROVE ListingInv'
  OBVIOUS
<1> USE DEF IInv
<1>1. CASE Send \/ OtherEnds \/ TakeUp \/ OrphanEnds \/ Wake \/ Ended \/ UNCHANGED vars
  <2>1. UNCHANGED call /\ (pc' = pc \/ (~Over /\ pc' \in {"raised", "queued", "sent", "send"}))
    BY <1>1 DEF Send, OtherEnds, TakeUp, OrphanEnds, Wake, Ended, vars, Over, Ends
  <2> QED BY <2>1, ListingUntouched DEF Over, Ends
<1>2. CASE GiveUp \/ Close
  <2>1. UNCHANGED call /\ (pc' = pc \/ (~Over /\ pc' = "cancelled"))
    BY <1>2 DEF GiveUp, Close, Cancelled, Over, Ends
  <2> QED BY <2>1, ListingUntouched DEF Over, Ends
<1>3. ASSUME NEW time \in Durations, Succeeds(time)
      PROVE  ListingInv'
  <2>1. CASE op = "list"
    BY <1>3, <2>1, PageIsRead DEF Succeeds
  <2>2. CASE op # "list"
    BY <1>3, <2>2, ListingUntouched DEF Succeeds, Finish, call, Ends
  <2> QED BY <2>1, <2>2
<1>4. ASSUME NEW time \in Durations, Malformed(time) \/ Refused(time) \/ Unavailable(time)
      PROVE  ListingInv'
  <2>1. UNCHANGED call /\ ~Over /\ pc' \in {"raised", "backoff"}
    BY <1>4 DEF Malformed, Refused, Unavailable, TryAgain, Over, Ends
  <2> QED BY <2>1, ListingUntouched DEF Over, Ends
<1> QED BY <1>1, <1>2, <1>3, <1>4 DEF Next

\* Each step keeps the time a request has taken within its budget.
LEMMA NextTime == IInv /\ [Next]_vars => TimeInv'
<1> SUFFICES ASSUME IInv, [Next]_vars PROVE TimeInv'
  OBVIOUS
<1> USE ApiAssumption DEF IInv, TimeInv, EndsInTime
<1>1. CASE Send
  BY <1>1 DEF Send
<1>2. CASE OtherEnds \/ TakeUp \/ OrphanEnds
  BY <1>2 DEF OtherEnds, TakeUp, OrphanEnds
<1>3. CASE GiveUp \/ Close
  BY <1>3 DEF GiveUp, Close, Cancelled
<1>4. CASE Wake
  BY <1>4 DEF Wake, Types
<1>5. CASE Ended \/ UNCHANGED vars
  BY <1>5 DEF Ended, vars
<1>6. ASSUME NEW time \in Durations, Succeeds(time)
      PROVE  TimeInv'
  <2>1. CASE elapsed' = 0 /\ pc' = "send"
    BY <2>1
  <2>2. CASE elapsed' = elapsed + time /\ pc' \in {"returned", "loop"}
    BY <1>6, <2>2 DEF Succeeds, Types
  <2> QED BY <1>6, <2>1, <2>2 DEF Succeeds, ReadPage, Finish, AskFor
<1>7. ASSUME NEW time \in Durations, Malformed(time) \/ Refused(time)
      PROVE  TimeInv'
  BY <1>7 DEF Malformed, Refused, Types
<1>8. ASSUME NEW time \in Durations, Unavailable(time)
      PROVE  TimeInv'
  <2>1. PICK wait \in Backoffs \cup RetryAfters : TryAgain(elapsed + time, wait)
    BY <1>8 DEF Unavailable
  <2>2. wait \in Int
    BY WaitIsNumber DEF Types
  <2>3. CASE pc' = "raised"
    BY <1>8, <2>3 DEF Unavailable, Types
  <2>4. CASE pc' = "backoff" /\ delay' = wait /\ ~PastDeadline(elapsed + time, wait)
    BY <1>8, <2>2, <2>4 DEF Unavailable, PastDeadline, Types
  <2> QED BY <2>1, <2>3, <2>4 DEF TryAgain
<1> QED BY <1>1, <1>2, <1>3, <1>4, <1>5, <1>6, <1>7, <1>8 DEF Next

\* Each step keeps account of what is executed after the call was given up.
LEMMA NextLate == IInv /\ [Next]_vars => LateInv'
<1> SUFFICES ASSUME IInv, [Next]_vars PROVE LateInv'
  OBVIOUS
<1> USE DEF IInv, LateInv, LateOnlyIfTaken
<1>1. CASE Send \/ OtherEnds \/ TakeUp \/ Wake
  BY <1>1 DEF Send, OtherEnds, TakeUp, Wake, pool, history
<1>2. CASE GiveUp
  BY <1>2 DEF GiveUp, Cancelled, LeavesOrphan, Over, Ends, Types
<1>3. CASE Close
  BY <1>3 DEF Close, Cancelled, LeavesOrphan
<1>4. CASE OrphanEnds
  BY <1>4 DEF OrphanEnds, Executed, Types
<1>5. CASE Ended \/ UNCHANGED vars
  BY <1>5 DEF Ended, vars, pool, history
<1>6. ASSUME NEW time \in Durations, Succeeds(time)
      PROVE  LateInv'
  BY <1>6 DEF Succeeds, Executed, ReadPage, Finish, AskFor, pool
<1>7. ASSUME NEW time \in Durations, Malformed(time) \/ Refused(time)
      PROVE  LateInv'
  BY <1>7 DEF Malformed, Refused, Executed, pool, history
<1>8. ASSUME NEW time \in Durations, Unavailable(time)
      PROVE  LateInv'
  BY <1>8 DEF Unavailable, TryAgain, Executed, pool
<1> QED BY <1>1, <1>2, <1>3, <1>4, <1>5, <1>6, <1>7, <1>8 DEF Next

\* The invariant is inductive.
LEMMA Inductive == Spec => []IInv
<1>1. IInv /\ [Next]_vars => IInv'
  BY NextTypes, NextListing, NextTime, NextLate DEF IInv
<1> QED BY <1>1, InitInv, PTL DEF Spec

--------------------------------------------------------------------------
(* The theorems *)

\* For every chain of page tokens, loops of any length included, _paginate returns
\* only with every page of a chain that ends and reports a loop only for a chain
\* that does not end.
THEOREM ListingsAreComplete == Spec => []CompleteListing
<1>1. IInv => CompleteListing
  <2> SUFFICES ASSUME IInv, op = "list" PROVE
        /\ pc = "returned" => read = Whole /\ \E p \in Whole : chain[p] = End
        /\ pc = "loop" => read = Whole /\ \A p \in Whole : chain[p] # End
    BY DEF CompleteListing
  <2>1. CASE pc = "returned"
    <3>1. read = Whole
      BY <2>1, AskedIsWhole DEF IInv, ListingInv, ReadAll, Asked
    <3> QED BY <2>1, <3>1 DEF IInv, ListingInv, ReadAll
  <2>2. CASE pc = "loop"
    <3>1. read = Whole /\ \A p \in Asked : chain[p] \in seen
      BY <2>2, AskedIsWhole DEF IInv, ListingInv, ReadAll, Asked
    <3> QED BY <2>2, <3>1, ApiAssumption DEF IInv, ListingInv, ReadAll, Types
  <2> QED BY <2>1, <2>2
<1> QED BY <1>1, Inductive, PTL

\* Whatever Retry-After says and however long the backoff grows, the attempts of a
\* request end within retry_budget and one attempt.
THEOREM RequestsEndInTime == Spec => []EndsInTime
<1>1. IInv => EndsInTime
  BY DEF IInv, TimeInv
<1> QED BY <1>1, Inductive, PTL

\* A request given up is executed at most once afterwards, and only if a thread of
\* the pool had it.
THEOREM LateAtMostOnce == Spec => []LateOnlyIfTaken
<1>1. IInv => LateOnlyIfTaken
  BY DEF IInv, LateInv
<1> QED BY <1>1, Inductive, PTL
==========================================================================
