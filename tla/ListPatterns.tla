-------------------------- MODULE ListPatterns ---------------------------
(***************************************************************************)
(* _wildcard_match of imapgw/commands.py, which LIST and LSUB use: a       *)
(* matcher that goes back to the last wildcard only.  One step is one turn *)
(* of one of its loops.  Case, which is folded before, is left out, and    *)
(* indices count from 1.                                                   *)
(***************************************************************************)
EXTENDS Integers, Sequences, SequencesExt

CONSTANTS
  Letters,    \* what names are made of, and patterns but for the wildcards
  MaxPattern, \* bound: the characters of a pattern
  MaxName     \* bound: the characters of a name

ASSUME PatternsAssumption == MaxPattern \in Nat /\ MaxName \in Nat

Wild == {"*", "%"}

VARIABLES
  pattern, name, \* the arguments
  pc,            \* the loop that runs; "yes" and "no" when the call has returned
  chars,         \* how many characters of the pattern are in p
  p,             \* the pattern, adjacent wildcards collapsed into one star
  pi, ni,        \* the places reached in p and in the name
  star,          \* the place of the last wildcard in p, 0 before the first one
  match_ni       \* the place in the name where its run ends

PatternVars == <<pattern, name, pc, chars, p, pi, ni, star, match_ni>>

PatternInit ==
  /\ pattern \in BoundedSeq(Letters \cup Wild, MaxPattern)
  /\ name \in BoundedSeq(Letters, MaxName)
  /\ pc = "collapse" /\ chars = 0 /\ p = <<>>
  /\ pi = 1 /\ ni = 1 /\ star = 0 /\ match_ni = 1

--------------------------------------------------------------------------
(* for ch in pattern *)

Collapse(s, ch) ==
  IF ch \notin Wild THEN Append(s, ch)
  ELSE IF s # <<>> /\ Last(s) = "*" THEN s ELSE Append(s, "*")

CollapseNext ==
  /\ pc = "collapse" /\ chars < Len(pattern)
  /\ chars' = chars + 1 /\ p' = Collapse(p, pattern[chars + 1])
  /\ UNCHANGED <<pattern, name, pc, pi, ni, star, match_ni>>

Collapsed ==
  /\ pc = "collapse" /\ chars = Len(pattern)
  /\ pc' = "match"
  /\ UNCHANGED <<pattern, name, chars, p, pi, ni, star, match_ni>>

--------------------------------------------------------------------------
(* while ni < len(name) *)

At(i, ch) == i <= Len(p) /\ p[i] = ch
Matching == pc = "match" /\ ni <= Len(name)

TakeWildcard ==
  /\ Matching /\ At(pi, "*")
  /\ star' = pi /\ match_ni' = ni /\ pi' = pi + 1
  /\ UNCHANGED <<pattern, name, pc, chars, p, ni>>

TakeCharacter ==
  /\ Matching /\ ~At(pi, "*") /\ At(pi, name[ni])
  /\ pi' = pi + 1 /\ ni' = ni + 1
  /\ UNCHANGED <<pattern, name, pc, chars, p, star, match_ni>>

\* The run of the last wildcard takes one character more.
Mismatch == Matching /\ ~At(pi, "*") /\ ~At(pi, name[ni])
GoBackNotFar ==
  /\ Mismatch /\ star > 0
  /\ pi' = star + 1 /\ match_ni' = ni + 1 /\ ni' = ni + 1
  /\ UNCHANGED <<pattern, name, pc, chars, p, star>>
GoBack ==
  /\ Mismatch /\ star > 0
  /\ pi' = star + 1 /\ match_ni' = match_ni + 1 /\ ni' = match_ni + 1
  /\ UNCHANGED <<pattern, name, pc, chars, p, star>>

GiveUp ==
  /\ Mismatch /\ star = 0
  /\ pc' = "no"
  /\ UNCHANGED <<pattern, name, chars, p, pi, ni, star, match_ni>>

NameIsOver ==
  /\ pc = "match" /\ ni > Len(name)
  /\ pc' = "rest"
  /\ UNCHANGED <<pattern, name, chars, p, pi, ni, star, match_ni>>

--------------------------------------------------------------------------
(* while pi < len(p) and p[pi] == "*", and the answer *)

SkipWildcard ==
  /\ pc = "rest" /\ At(pi, "*")
  /\ pi' = pi + 1
  /\ UNCHANGED <<pattern, name, pc, chars, p, ni, star, match_ni>>

Answer ==
  /\ pc = "rest" /\ ~At(pi, "*")
  /\ pc' = IF pi = Len(p) + 1 THEN "yes" ELSE "no"
  /\ UNCHANGED <<pattern, name, chars, p, pi, ni, star, match_ni>>

PatternNext ==
  \/ CollapseNext \/ Collapsed
  \/ TakeWildcard \/ TakeCharacter \/ GoBack \/ GiveUp \/ NameIsOver
  \/ SkipWildcard \/ Answer

PatternSpec == PatternInit /\ [][PatternNext]_PatternVars

--------------------------------------------------------------------------
(* Properties *)

\* A character of a pattern takes the name from the a-th character to the b-th: a
\* wildcard any run of it, any other character itself.
Fits(ch, text, a, b) == IF ch \in Wild THEN a <= b ELSE b = a + 1 /\ text[b] = ch

\* The characters of s from the i-th to the j-th, one after the other, take the text
\* from the a-th character to the b-th.  cut: how much of it is taken after each.
Place(s, text, i, j, a, b) ==
  \E cut \in [i..j -> 0..Len(text)] :
    cut[i] = a /\ cut[j] = b /\ \A k \in i + 1..j : Fits(s[k], text, cut[k - 1], cut[k])

\* The matcher, which forgets all wildcards but the last, finds a match exactly when
\* there is one, whatever the runs of the wildcards have to be.
PatternsMatch ==
  /\ pc = "yes" => Place(pattern, name, 0, Len(pattern), 0, Len(name))
  /\ pc = "no" => ~Place(pattern, name, 0, Len(pattern), 0, Len(name))
==========================================================================
