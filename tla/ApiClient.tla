---------------------------- MODULE ApiClient ----------------------------
(***************************************************************************)
(* The calls of imapgw/apiclient.py on the AgentMail API: _with_retries,   *)
(* which repeats a request inside a budget of attempts and of time, and    *)
(* _paginate, which follows next_page_token over such requests.  A write   *)
(* (create_draft, update_labels, delete_draft) is one request.  Each       *)
(* attempt waits for a thread of ThreadedTransport, which works on when    *)
(* the command that waits for it is given up.                              *)
(*                                                                         *)
(* A page is abstracted to the token that asks for it; what the pages hold *)
(* is a chain the upstream fixes, which may run into a loop.  Time is      *)
(* counted from the first attempt of a request, as the deadline is; the    *)
(* wait for a thread is part of the attempt.                               *)
(***************************************************************************)
EXTENDS Integers

CONSTANTS
  Tokens,       \* the page tokens the upstream hands out
  First, End,   \* no page_token yet; no next_page_token any more
  MaxAttempts,  \* max_attempts
  RetryBudget,  \* retry_budget
  BackoffBase,  \* backoff_base
  RetryAfters,  \* numeric Retry-After headers the upstream may send
  Durations,    \* how long one attempt may take
  MaxAhead,     \* bound: requests of other calls that the threads take up first
  Operations    \* a subset of {"list", "write"}

ASSUME ApiAssumption ==
  /\ MaxAttempts \in Nat \ {0} /\ RetryBudget \in Nat /\ BackoffBase \in Nat
  /\ RetryAfters \subseteq Nat /\ Durations \subseteq Nat /\ MaxAhead \in Nat
  /\ First # End /\ First \notin Tokens /\ End \notin Tokens
  /\ Operations \subseteq {"list", "write"}

Pages == Tokens \cup {First}

VARIABLES
  op,       \* what the caller asked for
  chain,    \* upstream: the next_page_token on each page
  pc,       \* "send", "queued", "sent", "backoff", or how the call ended
  token,    \* _paginate: token
  seen,     \* _paginate: seen
  read,     \* the pages whose items were yielded
  attempt,  \* _with_retries: attempt
  elapsed,  \* _with_retries: loop.time() since its start
  delay,    \* _with_retries: delay
  ahead,    \* the requests of other calls before this one in the pool
  closed,   \* whether the pool was shut down
  orphan,   \* whether a thread works on for a call that was given up
  gaveUp,   \* history: the pc at which the call was given up, or "none"
  late      \* history: how often upstream executed the request after that

pool == <<ahead, closed, orphan>>
history == <<gaveUp, late>>
call == <<op, chain, token, seen, read>>
vars == <<call, pc, attempt, elapsed, delay, pool, history>>

Ends == {"returned", "raised", "loop", "cancelled"}
Over == pc \in Ends

Init ==
  /\ op \in Operations
  /\ chain \in IF op = "list" THEN [Pages -> Tokens \cup {End}] ELSE {[p \in Pages |-> End]}
  /\ pc = "send" /\ token = First /\ seen = {} /\ read = {}
  /\ attempt = 0 /\ elapsed = 0 /\ delay = 0
  /\ ahead = 0 /\ closed = FALSE /\ orphan = FALSE
  /\ gaveUp = "none" /\ late = 0

\* Upstream executes the request.
Executed == late' = IF gaveUp = "none" THEN late ELSE late + 1

--------------------------------------------------------------------------
(* The thread pool *)

SendCountsFromOne ==
  /\ pc = "send"
  /\ attempt' = 1 /\ delay' = 0
  /\ IF closed THEN pc' = "raised" /\ UNCHANGED ahead
     ELSE pc' = "queued" /\ ahead' \in 0..MaxAhead
  /\ UNCHANGED <<call, elapsed, closed, orphan, history>>
\* Each attempt is handed to the pool, behind the requests of other calls; a pool
\* that was shut down takes none.
Send ==
  /\ pc = "send"
  /\ attempt' = attempt + 1 /\ delay' = 0
  /\ IF closed THEN pc' = "raised" /\ UNCHANGED ahead
     ELSE pc' = "queued" /\ ahead' \in 0..MaxAhead
  /\ UNCHANGED <<call, elapsed, closed, orphan, history>>

OtherEnds ==
  /\ pc = "queued" /\ ahead > 0
  /\ ahead' = ahead - 1
  /\ UNCHANGED <<call, pc, attempt, elapsed, delay, closed, orphan, history>>

\* A thread takes the request.
TakeUp ==
  /\ pc = "queued" /\ ahead = 0
  /\ pc' = "sent"
  /\ UNCHANGED <<call, attempt, elapsed, delay, pool, history>>

\* Cancelling the future takes a queued request out of the pool and leaves a
\* request that a thread has taken up.
LeavesOrphanAlways == pc \in {"queued", "sent"}
LeavesOrphan == pc = "sent"
Cancelled ==
  /\ pc' = "cancelled"
  /\ orphan' = LeavesOrphan
  /\ gaveUp' = pc

\* The deadline of the command passes, or its session is ended.
GiveUp ==
  /\ ~Over
  /\ Cancelled
  /\ UNCHANGED <<call, attempt, elapsed, delay, ahead, closed, late>>

\* close: shutdown(wait=False, cancel_futures=True).
Close ==
  /\ ~closed
  /\ closed' = TRUE
  /\ IF pc = "queued" THEN Cancelled ELSE UNCHANGED <<pc, orphan, gaveUp>>
  /\ UNCHANGED <<call, attempt, elapsed, delay, ahead, late>>

\* The thread ends, and nobody takes its answer.
OrphanEnds ==
  /\ orphan
  /\ orphan' = FALSE
  /\ Executed \/ UNCHANGED late
  /\ UNCHANGED <<call, pc, attempt, elapsed, delay, ahead, closed, gaveUp>>

--------------------------------------------------------------------------
(* _with_retries and _paginate *)

\* _backoff_delay: a quarter of random jitter on top of the doubling.
Backoffs == {BackoffBase * 2^(attempt - 1) + jitter :
               jitter \in 0..(BackoffBase * 2^(attempt - 1)) \div 4}

Repeats(next) == next \in seen

\* The end of a listing, after the page that was just read.
Finish(how, time) ==
  /\ pc' = how /\ elapsed' = elapsed + time
  /\ UNCHANGED <<token, seen, attempt>>
\* The next page is a request of its own.
AskFor(next) ==
  /\ pc' = "send" /\ token' = next /\ seen' = seen \cup {next}
  /\ attempt' = 0 /\ elapsed' = 0

ReadPageQuietLoop(time) ==
  LET next == chain[token] IN
  /\ read' = read \cup {token}
  /\ \/ (next = End \/ Repeats(next)) /\ Finish("returned", time)
     \/ next # End /\ ~Repeats(next) /\ AskFor(next)
\* One page is read: its items are yielded, then its token decides.
ReadPage(time) ==
  LET next == chain[token] IN
  /\ read' = read \cup {token}
  /\ \/ next = End /\ Finish("returned", time)
     \/ next # End /\ Repeats(next) /\ Finish("loop", time)
     \/ next # End /\ ~Repeats(next) /\ AskFor(next)

\* A 2xx with a body of the expected shape.
Succeeds(time) ==
  /\ pc = "sent"
  /\ Executed
  /\ \/ op = "list" /\ ReadPage(time)
     \/ op = "write" /\ Finish("returned", time) /\ UNCHANGED read
  /\ UNCHANGED <<op, chain, delay, pool, gaveUp>>

\* A 2xx whose body _json or _paginate rejects: the upstream has executed it.
Malformed(time) ==
  /\ pc = "sent"
  /\ Executed /\ pc' = "raised" /\ elapsed' = elapsed + time
  /\ UNCHANGED <<call, attempt, delay, pool, gaveUp>>

\* _classify without retryable: a redirect, 401, 403, 404 or another 4xx.
Refused(time) ==
  /\ pc = "sent"
  /\ pc' = "raised" /\ elapsed' = elapsed + time
  /\ UNCHANGED <<call, attempt, delay, pool, history>>

\* The tail of the loop: give up, or sleep and try again.
DeadlineAlone(now, wait) == now > RetryBudget
PastDeadline(now, wait) == now + wait > RetryBudget
TryAgain(now, wait) ==
  IF attempt >= MaxAttempts \/ PastDeadline(now, wait)
    THEN pc' = "raised" /\ UNCHANGED delay
    ELSE pc' = "backoff" /\ delay' = wait

\* A 429, a 5xx or a failure of the transport; whether the upstream executed the
\* request is not known.  Only an answer can carry Retry-After.
Unavailable(time) ==
  /\ pc = "sent"
  /\ Executed \/ UNCHANGED late
  /\ elapsed' = elapsed + time
  /\ \E wait \in Backoffs \cup RetryAfters : TryAgain(elapsed + time, wait)
  /\ UNCHANGED <<call, attempt, pool, gaveUp>>

\* The sleep is over.
Wake ==
  /\ pc = "backoff"
  /\ pc' = "send" /\ elapsed' = elapsed + delay
  /\ UNCHANGED <<call, attempt, delay, pool, history>>

Ended == Over /\ UNCHANGED vars

Next ==
  \/ Send \/ OtherEnds \/ TakeUp \/ GiveUp \/ Close \/ OrphanEnds \/ Wake \/ Ended
  \/ \E time \in Durations : Succeeds(time) \/ Malformed(time) \/ Refused(time) \/ Unavailable(time)

Spec == Init /\ [][Next]_vars

\* An attempt ends within the transport's timeout, a sleep at its end.
FairSpec == Spec /\ WF_vars(Next)

--------------------------------------------------------------------------
(* Properties *)

\* The pages that lie on the chain from the first one.
Follows(S) == First \in S /\ \A p \in S : chain[p] \in S \cup {End}
Whole == {p \in Pages : \A S \in SUBSET Pages : Follows(S) => p \in S}

\* _paginate cannot return early and cannot mistake a long chain for a loop: it
\* returns only after yielding every page of a chain that ends, and reports a
\* loop only when the chain never ends, having yielded all of it as well.
CompleteListing ==
  op = "list" =>
    /\ pc = "returned" => read = Whole /\ \E p \in Whole : chain[p] = End
    /\ pc = "loop" => read = Whole /\ \A p \in Whole : chain[p] # End

\* Repeats never start after the budget: a request that is over took at most
\* the budget and one attempt, whatever Retry-After the upstream asks for.
EndsInTime ==
  \A longest \in Durations :
    (\A d \in Durations : d <= longest) => elapsed <= RetryBudget + longest

\* A command that gives up does not know what becomes of its request: the upstream
\* executes it at most once more, and only if a thread had taken it up; a request
\* that waited in the pool never runs, and nothing is repeated.
LateOnlyIfTaken ==
  late <= IF gaveUp = "sent" THEN 1 ELSE 0

\* Every call ends, whatever the upstream answers and however its tokens loop.
EveryCallEnds == <>Over
==========================================================================
