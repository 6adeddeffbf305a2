------------------------------ MODULE BestDraft ------------------------------
(***************************************************************************)
(* What a critique loop promises, whatever it loops over.                  *)
(*                                                                         *)
(* Drafts are judged one after the other; each judgement is a score, a     *)
(* pair <<unsafe, findings>> compared lexicographically, lower is better.  *)
(* At most one result is ever declared, it is one of the judged drafts, no *)
(* judged draft scores better than it, and it is the earliest of those     *)
(* that score as well.  Nothing is judged once the result is declared.     *)
(***************************************************************************)
EXTENDS Naturals, Sequences

CONSTANT MaxFindings   \* the most findings one judgement can hold

VARIABLES
  judged,   \* the scores given so far, in order: draft i scored judged[i]
  chosen    \* 0, or the index of the draft declared to be the result

vars == <<judged, chosen>>

Score == {0, 1} \X (0..MaxFindings)

\* Python's tuple comparison of two draft scores.
Better(s, t) == \/ s[1] < t[1]
                \/ s[1] = t[1] /\ s[2] < t[2]

\* The earliest of the drafts no other beats.
IsBest(i, scores) ==
  /\ i \in 1..Len(scores)
  /\ \A j \in 1..Len(scores) : ~ Better(scores[j], scores[i])
  /\ \A j \in 1..(i - 1) : Better(scores[i], scores[j])

\* Scores, and at most one result.
TypeOK ==
  /\ judged \in Seq(Score)
  /\ chosen \in Nat

Init ==
  /\ judged = <<>>
  /\ chosen = 0

Judge(score) ==
  /\ chosen = 0
  /\ judged' = Append(judged, score)
  /\ UNCHANGED chosen

Choose(i) ==
  /\ chosen = 0
  /\ IsBest(i, judged)
  /\ chosen' = i
  /\ UNCHANGED judged

Next ==
  \/ \E score \in Score : Judge(score)
  \/ \E i \in 1..Len(judged) : Choose(i)

Spec == Init /\ [][Next]_vars
=============================================================================
