--------------------------- MODULE MCApiClient ---------------------------
(* Every chain over three tokens; a backoff of 4 and 8 units with jitter,   *)
(* Retry-After of nothing, of some and of more than the budget.             *)
EXTENDS ApiClient

CONSTANTS t1, t2, t3
MCTokens == {t1, t2, t3}
MCRetryAfters == {0, 5, 20}
MCDurations == {0, 3, 6}
MCOperations == {"list", "write"}
==========================================================================
