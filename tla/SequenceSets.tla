-------------------------- MODULE SequenceSets ---------------------------
(***************************************************************************)
(* Sequence sets of imapgw/fetch.py, and _uid_set of imapgw/commands.py,   *)
(* which writes them.  A set is a sequence of items; an item is one number *)
(* or two around a colon.  What an atom can hold in the place of a number  *)
(* is a pair: <<"n", value>>, the star, an empty text or anything else.    *)
(***************************************************************************)
EXTENDS Integers, Sequences, SequencesExt, FiniteSetsExt

CONSTANT STAR  \* _STAR, 2^32 in the code

ASSUME StarAssumption == STAR \in Nat \ {0}

Number(n) == <<"n", n>>
StarText == <<"*", 0>>
EmptyText == <<"", 0>>
Junk == <<"junk", 0>>

\* _seq_number: the star becomes a number like any other.
IsSeqNumber(text) == text = StarText \/ (text[1] = "n" /\ text[2] # 0)
SeqNumber(text) == IF text = StarText THEN STAR ELSE text[2]

\* One item of parse_sequence_set, refused or turned into a range that ascends.
GoodItem(item) == \A i \in DOMAIN item : IsSeqNumber(item[i])
RangeOf(item) ==
  LET lo == SeqNumber(item[1])
      hi == SeqNumber(item[Len(item)])
  IN <<IF lo > hi THEN hi ELSE lo, IF lo > hi THEN lo ELSE hi>>

\* parse_sequence_set: FetchSyntaxError, or the ranges.
SyntaxError == [ok |-> FALSE, ranges |-> <<>>]
ParseSequenceSet(items) ==
  IF items = <<>> \/ \E i \in DOMAIN items : ~GoodItem(items[i]) THEN SyntaxError
  ELSE [ok |-> TRUE, ranges |-> [i \in DOMAIN items |-> RangeOf(items[i])]]

\* select_numbers: the star is the largest candidate, which may turn a range round.
Resolved(n, largest) == IF n = STAR THEN largest ELSE n
BetweenUnturned(n, lo, hi) == lo <= n /\ n <= hi
Between(n, lo, hi) == IF lo > hi THEN hi <= n /\ n <= lo ELSE lo <= n /\ n <= hi
SelectNumbers(ranges, candidates) ==
  SelectSeq(candidates, LAMBDA n : \E i \in DOMAIN ranges :
    Between(n, Resolved(ranges[i][1], Last(candidates)), Resolved(ranges[i][2], Last(candidates))))

\* _uid_set: runs of consecutive UIDs, as a sequence set.
ItemOf(run) == IF run[1] = run[2] THEN <<Number(run[1])>> ELSE <<Number(run[1]), Number(run[2])>>
AddToRuns(runs, u) ==
  IF runs # <<>> /\ u = Last(runs)[2] + 1 THEN [runs EXCEPT ![Len(runs)][2] = u]
  ELSE Append(runs, <<u, u>>)
Sorted(uids) ==
  LET order == CHOOSE p \in [1..Len(uids) -> 1..Len(uids)] :
        /\ \A i \in 1..Len(uids) : \E j \in 1..Len(uids) : p[j] = i
        /\ \A i, j \in 1..Len(uids) : i < j => uids[p[i]] <= uids[p[j]]
  IN [i \in 1..Len(uids) |-> uids[order[i]]]
RunsOf(uids) ==
  LET runs[n \in 0..Len(uids)] == IF n = 0 THEN <<>> ELSE AddToRuns(runs[n - 1], uids[n])
  IN runs[Len(uids)]
UidSet(uids) ==
  LET runs == RunsOf(Sorted(uids))
  IN [i \in DOMAIN runs |-> ItemOf(runs[i])]
==========================================================================
