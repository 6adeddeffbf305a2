------------------------- MODULE StoryWorkflowProofs -------------------------
(***************************************************************************)
(* Proofs about StoryWorkflow, for any budget of rewrites, attempts and    *)
(* findings, any book length, corpus and caller's grounding.               *)
(*                                                                         *)
(* The safety of the gate rests on two facts the code never states in one  *)
(* place: where the loop is (every draft written so far but at most one    *)
(* has been judged, and leaving the loop means an empty critique or a      *)
(* spent budget), and what best_prose is (the earliest of the best judged  *)
(* drafts, with the critique of that very draft).                          *)
(***************************************************************************)
EXTENDS StoryWorkflow, FiniteSetTheorems, TLAPS

Judgement == [raw : CriticAnswer, kept : KeptReviews]

\* The loop's position, by the statement it is at.
LoopPosition ==
  /\ phase \in {"validate", "verify", "plan"} => judged = <<>> /\ written = 0
  /\ phase = "write" => written = Len(judged) /\ Len(judged) <= MaxProseRevisions
  /\ phase = "critique" => /\ written = Len(judged) + 1
                           /\ Len(judged) <= MaxProseRevisions
                           /\ prose \in Draft
                           /\ prose.rev = written
  /\ phase \in {"gate", "remember", "book", "unsafe"} =>
       /\ written = Len(judged)
       /\ Len(judged) \in 1..(MaxProseRevisions + 1)
       /\ Len(judged) = MaxProseRevisions + 1 \/ judged[Len(judged)].kept = {}

\* best_prose and best_reviews.
BestSoFar ==
  IF Len(judged) = 0
    THEN best.draft = NoDraft
    ELSE /\ best.draft.rev \in 1..Len(judged)
         /\ best.found = judged[best.draft.rev].kept
         /\ Loop!IsBest(best.draft.rev, Scores)

\* What the gate has decided.
GateDecision ==
  /\ phase \in {"remember", "book"} => prose = best.draft /\ ~ Unsafe(best.found)
  /\ phase = "unsafe" => Unsafe(best.found)

IInv == TypeOK /\ LoopPosition /\ BestSoFar /\ GateDecision

-----------------------------------------------------------------------------
(* Scores.                                                                 *)

Pair == {0, 1} \X Nat

\* The promise's order of scores is the one of the code.
LEMMA BetterIsTheSame == \A s, t : Loop!Better(s, t) <=> Better(s, t)
BY DEF Loop!Better, Better

\* The lexicographic order of scores is strict, and the draft that loses to
\* none of its rivals beats whatever they beat.
LEMMA BetterOrder ==
  ASSUME NEW s \in Pair, NEW t \in Pair, NEW u \in Pair
  PROVE  /\ ~ Better(s, s)
         /\ Better(s, t) /\ ~ Better(u, t) => Better(s, u)
         /\ Better(s, t) => ~ Better(t, s)
<1>1. /\ s[1] \in {0, 1} /\ t[1] \in {0, 1} /\ u[1] \in {0, 1}
      /\ s[2] \in Nat /\ t[2] \in Nat /\ u[2] \in Nat
  BY DEF Pair
<1> QED
  BY <1>1 DEF Better

\* A new draft is the best if it beats the best so far; otherwise the best so
\* far remains it (best_prose).
LEMMA BestAfterOneMore ==
  ASSUME NEW scores \in Seq(Pair), NEW s \in Pair
  PROVE  /\ scores = <<>> => Loop!IsBest(1, Append(scores, s))
         /\ \A i \in 1..Len(scores) : Loop!IsBest(i, scores) =>
              IF Better(s, scores[i]) THEN Loop!IsBest(Len(scores) + 1, Append(scores, s))
                                      ELSE Loop!IsBest(i, Append(scores, s))
<1>1. PICK more : more = Append(scores, s)
  OBVIOUS
<1>2. /\ Len(scores) \in Nat /\ Len(more) = Len(scores) + 1
      /\ more[Len(scores) + 1] = s
      /\ \A k \in 1..Len(scores) : more[k] = scores[k] /\ scores[k] \in Pair
  BY <1>1
<1>3. ASSUME scores = <<>>
      PROVE  Loop!IsBest(1, more)
  <2>1. Len(more) = 1 /\ more[1] = s
    BY <1>2, <1>3
  <2> QED
    BY <2>1, BetterOrder, BetterIsTheSame DEF Loop!IsBest
<1>4. ASSUME NEW i \in 1..Len(scores), Loop!IsBest(i, scores), Better(s, scores[i])
      PROVE  Loop!IsBest(Len(scores) + 1, more)
  <2>1. \A j \in 1..Len(scores) : ~ Better(scores[j], scores[i])
    BY <1>4, BetterIsTheSame DEF Loop!IsBest
  <2>2. \A j \in 1..Len(scores) : Better(s, scores[j])
    BY <1>2, <1>4, <2>1, BetterOrder
  <2>3. \A j \in 1..Len(scores) : ~ Better(scores[j], s)
    BY <1>2, <2>2, BetterOrder
  <2>4. ~ Better(s, s)
    BY BetterOrder
  <2>5. \A j \in 1..Len(more) : ~ Better(more[j], more[Len(scores) + 1])
    BY <1>2, <2>3, <2>4
  <2>6. \A j \in 1..((Len(scores) + 1) - 1) : Better(more[Len(scores) + 1], more[j])
    BY <1>2, <2>2
  <2> QED
    BY <1>2, <2>5, <2>6, BetterIsTheSame DEF Loop!IsBest
<1>5. ASSUME NEW i \in 1..Len(scores), Loop!IsBest(i, scores), ~ Better(s, scores[i])
      PROVE  Loop!IsBest(i, more)
  <2>1. /\ \A j \in 1..Len(scores) : ~ Better(scores[j], scores[i])
        /\ \A j \in 1..(i - 1) : Better(scores[i], scores[j])
    BY <1>5, BetterIsTheSame DEF Loop!IsBest
  <2>2. \A j \in 1..Len(more) : ~ Better(more[j], more[i])
    BY <1>2, <1>5, <2>1
  <2>3. \A j \in 1..(i - 1) : Better(more[i], more[j])
    BY <1>2, <2>1
  <2> QED
    BY <1>2, <2>2, <2>3, BetterIsTheSame DEF Loop!IsBest
<1> QED
  BY <1>1, <1>3, <1>4, <1>5

LEMMA ScoreOfKept ==
  ASSUME NEW found \in KeptReviews
  PROVE  /\ DraftScore(found) \in Pair
         /\ DraftScore(found) \in Loop!Score
         /\ DraftScore(found)[1] = IF Unsafe(found) THEN 1 ELSE 0
<1>1. Cardinality(found) \in Nat /\ Cardinality(found) <= MaxReviews + 1
  BY FS_CardinalityType DEF KeptReviews, AtMost
<1>2. PICK n : n = Cardinality(found)
  OBVIOUS
<1>3. PICK u \in {0, 1} : u = IF Unsafe(found) THEN 1 ELSE 0
  OBVIOUS
<1>4. DraftScore(found) = <<u, n>>
  BY <1>2, <1>3 DEF DraftScore
<1>5. n \in Nat /\ n \in 0..(MaxReviews + 1)
  BY <1>1, <1>2, MaxReviewsAssumption
<1> QED
  BY <1>3, <1>4, <1>5 DEF Pair, Loop!Score

LEMMA CritiqueIsKept ==
  ASSUME NEW answer \in CriticAnswer, NEW draft
  PROVE  Routable(answer) \cup Counted(draft) \in KeptReviews
<1>1. /\ answer \subseteq Finding /\ Routable(answer) \subseteq answer
      /\ IsFiniteSet(answer) /\ Cardinality(answer) <= MaxReviews
  <2>1. answer \in SUBSET Finding /\ AtMost(MaxReviews, answer)
    BY DEF CriticAnswer
  <2>2. Routable(answer) \subseteq answer
    BY DEF Routable
  <2> QED
    BY <2>1, <2>2 DEF AtMost
<1>2. /\ IsFiniteSet(Routable(answer))
      /\ Cardinality(Routable(answer)) \in Nat /\ Cardinality(answer) \in Nat
      /\ Cardinality(Routable(answer)) <= Cardinality(answer)
  <2>1. Routable(answer) \in SUBSET answer
    BY <1>1
  <2>2. /\ IsFiniteSet(Routable(answer))
        /\ Cardinality(Routable(answer)) <= Cardinality(answer)
    BY <1>1, <2>1, FS_Subset
  <2> QED
    BY <1>1, <2>2, FS_CardinalityType
<1>3. AtMost(MaxReviews + 1, Routable(answer))
  BY <1>1, <1>2, MaxReviewsAssumption DEF AtMost
<1>4. AtMost(MaxReviews + 1, Routable(answer) \cup {RepeatedOpening})
  <2>1. /\ IsFiniteSet(Routable(answer) \cup {RepeatedOpening})
        /\ \/ Cardinality(Routable(answer) \cup {RepeatedOpening})
                = Cardinality(Routable(answer))
           \/ Cardinality(Routable(answer) \cup {RepeatedOpening})
                = Cardinality(Routable(answer)) + 1
    BY <1>2, FS_AddElement
  <2> QED
    BY <1>1, <1>2, <2>1, MaxReviewsAssumption DEF AtMost
<1> QED
  BY <1>1, <1>3, <1>4 DEF Counted, KeptReviews

LEMMA ScoresAreScores ==
  ASSUME judged \in Seq(Judgement)
  PROVE  /\ Scores \in Seq(Pair)
         /\ Scores \in Seq(Loop!Score)
         /\ Len(Scores) = Len(judged)
         /\ \A i \in 1..Len(judged) : Scores[i] = DraftScore(judged[i].kept)
<1>1. \A i \in 1..Len(judged) : judged[i].kept \in KeptReviews
  <2>1. \A i \in 1..Len(judged) : judged[i] \in Judgement
    OBVIOUS
  <2> QED
    BY <2>1 DEF Judgement
<1>2. \A i \in 1..Len(judged) : Scores[i] \in Pair /\ Scores[i] \in Loop!Score
  BY <1>1, ScoreOfKept DEF Scores
<1> QED
  BY <1>2 DEF Scores

LEMMA OneMoreScore ==
  ASSUME judged \in Seq(Judgement), NEW j \in Judgement, judged' = Append(judged, j)
  PROVE  Scores' = Append(Scores, DraftScore(j.kept))
<1>1. /\ Len(judged) \in Nat /\ Len(judged') = Len(judged) + 1
      /\ judged'[Len(judged) + 1] = j
      /\ \A k \in 1..Len(judged) : judged'[k] = judged[k]
  OBVIOUS
<1>2. /\ Scores \in Seq(Pair) /\ Len(Scores) = Len(judged)
      /\ \A i \in 1..Len(judged) : Scores[i] = DraftScore(judged[i].kept)
  BY ScoresAreScores
<1>3. Scores' = [i \in 1..(Len(judged) + 1) |-> DraftScore(judged'[i].kept)]
  BY <1>1 DEF Scores
<1>4. \A i \in 1..(Len(judged) + 1) :
        DraftScore(judged'[i].kept) = Append(Scores, DraftScore(j.kept))[i]
  BY <1>1, <1>2
<1>5. /\ DraftScore(j.kept) \in Pair
      /\ Append(Scores, DraftScore(j.kept)) \in Seq(Pair)
      /\ Len(Append(Scores, DraftScore(j.kept))) = Len(judged) + 1
  BY <1>1, <1>2, ScoreOfKept DEF Judgement
<1>6. Append(Scores, DraftScore(j.kept)) =
        [i \in 1..(Len(judged) + 1) |-> Append(Scores, DraftScore(j.kept))[i]]
  BY <1>5
<1> QED
  BY <1>3, <1>4, <1>6

-----------------------------------------------------------------------------
(* The invariant.                                                          *)

LEMMA InitInv == Init => IInv
<1> SUFFICES ASSUME Init PROVE IInv
  OBVIOUS
<1>1. {} \in KeptReviews
  BY FS_EmptySet, MaxReviewsAssumption DEF KeptReviews, AtMost
<1>2. TypeOK
  BY <1>1, MaxAttemptsAssumption, MaxProseRevisionsAssumption
     DEF Init, TypeOK, Phase, NoDraft
<1>3. LoopPosition /\ BestSoFar /\ GateDecision
  BY DEF Init, LoopPosition, BestSoFar, GateDecision
<1> QED
  BY <1>2, <1>3 DEF IInv

\* Every step but the critique leaves the judgements and the best draft alone.
LEMMA NoJudgement ==
  ASSUME IInv, UNCHANGED <<judged, best>>
  PROVE  BestSoFar' /\ Scores' = Scores
<1>1. Scores' = Scores
  BY DEF Scores
<1> QED
  BY <1>1 DEF IInv, BestSoFar

LEMMA BeforeTheLoop ==
  ASSUME IInv, ValidateOutline \/ VerifyGrounding \/ PlanPages
  PROVE  IInv'
<1>1. TypeOK'
  BY MaxAttemptsAssumption
     DEF IInv, TypeOK, Phase, ValidateOutline, VerifyGrounding, PlanPages
<1>2. UNCHANGED <<judged, best, prose, written>>
  BY DEF ValidateOutline, VerifyGrounding, PlanPages
<1>3. LoopPosition'
  BY <1>2, MaxProseRevisionsAssumption
     DEF IInv, LoopPosition, ValidateOutline, VerifyGrounding, PlanPages
<1>4. GateDecision'
  BY DEF GateDecision, ValidateOutline, VerifyGrounding, PlanPages
<1> QED
  BY <1>1, <1>2, <1>3, <1>4, NoJudgement DEF IInv

LEMMA WriteProseStep ==
  ASSUME IInv, NEW drones \in BOOLEAN, WriteProse(drones)
  PROVE  IInv'
<1>1. /\ phase' = "critique" /\ attempt' = 0 /\ UNCHANGED <<judged, best>>
      /\ written = Len(judged) /\ Len(judged) <= MaxProseRevisions
      /\ Len(judged) \in Nat /\ written' = written + 1
  BY DEF IInv, TypeOK, LoopPosition, WriteProse, AfterWriting
<1>2. prose' \in Draft /\ prose'.rev = written'
  BY <1>1, MaxProseRevisionsAssumption DEF WriteProse, Draft
<1>3. TypeOK'
  BY <1>1, <1>2, MaxAttemptsAssumption, MaxProseRevisionsAssumption
     DEF IInv, TypeOK, Phase, WriteProse
<1>4. LoopPosition'
  BY <1>1, <1>2 DEF LoopPosition
<1>5. GateDecision'
  BY <1>1 DEF GateDecision
<1> QED
  BY <1>1, <1>3, <1>4, <1>5, NoJudgement DEF IInv

LEMMA CritiqueProseStep ==
  ASSUME IInv, NEW answer \in CriticAnswer, CritiqueProse(answer)
  PROVE  /\ IInv'
         /\ \E score \in Loop!Score : Scores' = Append(Scores, score)
<1>1. PICK found \in KeptReviews : found = Routable(answer) \cup Counted(prose)
  BY CritiqueIsKept
<1>2. PICK j \in Judgement : j = [raw |-> answer, kept |-> found]
  BY DEF Judgement
<1>3. /\ judged \in Seq(Judgement) /\ Len(judged) \in Nat
      /\ best \in [draft : Draft \cup {NoDraft}, found : KeptReviews]
  BY DEF IInv, TypeOK, Judgement
<1>4. /\ written = Len(judged) + 1 /\ Len(judged) <= MaxProseRevisions
      /\ prose \in Draft /\ prose.rev = written
  BY DEF IInv, LoopPosition, CritiqueProse
<1>5. /\ attempt' = 0 /\ reviews' = found
      /\ judged' = Append(judged, j)
      /\ best' = IF best.draft = NoDraft \/ Better(DraftScore(found), DraftScore(best.found))
                   THEN [draft |-> prose, found |-> found] ELSE best
      /\ phase' = IF found = {} \/ Len(judged) = MaxProseRevisions THEN "gate" ELSE "write"
      /\ UNCHANGED <<grounding, written, prose, memory>>
  BY <1>1, <1>2 DEF CritiqueProse
<1>6. /\ judged' \in Seq(Judgement) /\ Len(judged') = Len(judged) + 1
      /\ judged'[Len(judged) + 1] = j /\ j.kept = found
      /\ \A k \in 1..Len(judged) : judged'[k] = judged[k]
  BY <1>2, <1>3, <1>5
<1>7. TypeOK'
  <2>1. best' \in [draft : Draft \cup {NoDraft}, found : KeptReviews]
    BY <1>1, <1>3, <1>4, <1>5
  <2> QED
    BY <1>1, <1>5, <1>6, <2>1, MaxAttemptsAssumption
       DEF IInv, TypeOK, Phase, Judgement
<1>8. LoopPosition'
  BY <1>3, <1>4, <1>5, <1>6, MaxProseRevisionsAssumption DEF LoopPosition
<1>9. GateDecision'
  BY <1>5 DEF GateDecision
<1>10. PICK scores \in Seq(Pair) : scores = Scores
  BY <1>3, ScoresAreScores
<1>11. PICK score \in Pair : score = DraftScore(found) /\ score \in Loop!Score
  BY <1>1, ScoreOfKept
<1>12. Scores' = Append(scores, score)
  BY <1>2, <1>3, <1>5, <1>6, <1>10, <1>11, OneMoreScore
<1>13. /\ Len(scores) = Len(judged)
       /\ \A i \in 1..Len(judged) : scores[i] = DraftScore(judged[i].kept)
  BY <1>3, <1>10, ScoresAreScores
<1>14. BestSoFar'
  <2>1. CASE Len(judged) = 0
    <3>1. best.draft = NoDraft
      BY <2>1 DEF IInv, BestSoFar
    <3>2. best' = [draft |-> prose, found |-> found]
      BY <1>5, <3>1
    <3>3. Loop!IsBest(1, Append(scores, score))
      <4>1. scores = <<>>
        BY <1>13, <2>1
      <4> QED
        BY <4>1, BestAfterOneMore
    <3>4. best'.draft.rev = 1 /\ best'.found = judged'[1].kept /\ Len(judged') = 1
      BY <1>4, <1>6, <2>1, <3>2
    <3> QED
      BY <1>12, <3>3, <3>4 DEF BestSoFar
  <2>2. CASE Len(judged) # 0
    <3>1. PICK i \in 1..Len(judged) : i = best.draft.rev
      BY <2>2 DEF IInv, BestSoFar
    <3>2. best.found = judged[i].kept /\ Loop!IsBest(i, scores)
      BY <1>10, <2>2, <3>1 DEF IInv, BestSoFar
    <3>3. best.draft # NoDraft
      BY <1>3, <3>1 DEF NoDraft
    <3>4. scores[i] = DraftScore(best.found)
      BY <1>13, <3>2
    <3>5. CASE Better(score, scores[i])
      <4>1. best' = [draft |-> prose, found |-> found]
        BY <1>5, <1>11, <3>4, <3>5
      <4>2. Loop!IsBest(Len(judged) + 1, Append(scores, score))
        BY <1>13, <3>2, <3>5, BestAfterOneMore
      <4>3. best'.draft.rev = Len(judged) + 1 /\ best'.found = judged'[Len(judged) + 1].kept
        BY <1>4, <1>6, <4>1
      <4> QED
        BY <1>3, <1>6, <1>12, <4>2, <4>3 DEF BestSoFar
    <3>6. CASE ~ Better(score, scores[i])
      <4>1. best' = best
        BY <1>5, <1>11, <3>3, <3>4, <3>6
      <4>2. Loop!IsBest(i, Append(scores, score))
        BY <1>13, <3>2, <3>6, BestAfterOneMore
      <4>3. best'.draft.rev = i /\ best'.found = judged'[i].kept /\ i \in 1..Len(judged')
        BY <1>3, <1>6, <3>1, <3>2, <4>1
      <4> QED
        BY <1>3, <1>6, <1>12, <4>2, <4>3 DEF BestSoFar
    <3> QED
      BY <3>5, <3>6
  <2> QED
    BY <2>1, <2>2
<1> QED
  BY <1>7, <1>8, <1>9, <1>10, <1>11, <1>12, <1>14 DEF IInv

LEMMA TaskFailsStep ==
  ASSUME IInv, NEW transient \in BOOLEAN, TaskFails(transient)
  PROVE  IInv'
<1>1. /\ phase' \in {phase, "failed"} /\ phase \in {"plan", "write", "critique"}
      /\ UNCHANGED <<grounding, written, prose, reviews, best, judged, memory>>
  BY DEF TaskFails
<1>2. attempt' \in 0..(MaxAttempts - 1)
  BY MaxAttemptsAssumption DEF IInv, TypeOK, TaskFails, Retries
<1>3. TypeOK'
  BY <1>1, <1>2 DEF IInv, TypeOK, Phase
<1>4. LoopPosition'
  BY <1>1 DEF IInv, LoopPosition
<1>5. GateDecision'
  BY <1>1 DEF GateDecision
<1> QED
  BY <1>1, <1>3, <1>4, <1>5, NoJudgement DEF IInv

LEMMA SafetyGateStep ==
  ASSUME IInv, SafetyGate
  PROVE  /\ IInv'
         /\ best.draft.rev \in 1..Len(judged)
         /\ Loop!IsBest(best.draft.rev, Scores)
<1>1. /\ phase = "gate" /\ phase' = IF Unsafe(best.found) THEN "unsafe" ELSE "remember"
      /\ prose' = best.draft /\ reviews' = best.found
      /\ UNCHANGED <<attempt, grounding, written, best, judged, memory>>
  BY DEF SafetyGate, DraftReturned
<1>2. TypeOK'
  BY <1>1 DEF IInv, TypeOK, Phase
<1>3. LoopPosition'
  BY <1>1 DEF IInv, LoopPosition
<1>4. GateDecision'
  <2>1. best' = best
    BY <1>1
  <2> QED
    BY <1>1, <2>1 DEF GateDecision, Unsafe
<1>5. Len(judged) # 0
  BY <1>1, MaxProseRevisionsAssumption DEF IInv, LoopPosition
<1> QED
  BY <1>1, <1>2, <1>3, <1>4, <1>5, NoJudgement DEF IInv, BestSoFar

LEMMA RememberStoryStep ==
  ASSUME IInv, RememberStory
  PROVE  IInv'
<1>1. /\ phase = "remember" /\ phase' = "book" /\ memory' \in {"none", "saved", "lost"}
      /\ UNCHANGED <<attempt, grounding, written, prose, reviews, best, judged>>
  BY DEF RememberStory
<1>2. TypeOK'
  BY <1>1 DEF IInv, TypeOK, Phase
<1>3. LoopPosition' /\ GateDecision'
  BY <1>1 DEF IInv, LoopPosition, GateDecision, Unsafe
<1> QED
  BY <1>1, <1>2, <1>3, NoJudgement DEF IInv

LEMMA StaysInv ==
  ASSUME IInv, UNCHANGED vars
  PROVE  IInv'
<1>1. TypeOK' /\ LoopPosition' /\ GateDecision'
  BY DEF IInv, TypeOK, LoopPosition, GateDecision, Unsafe, vars
<1> QED
  BY <1>1, NoJudgement DEF IInv, vars

LEMMA NextInv == IInv /\ [Next]_vars => IInv'
  BY BeforeTheLoop, WriteProseStep, CritiqueProseStep, TaskFailsStep, SafetyGateStep,
     RememberStoryStep, StaysInv DEF Next

\* The inductive invariant holds of every run.
THEOREM Invariance == Spec => []IInv
  BY InitInv, NextInv, PTL DEF Spec

-----------------------------------------------------------------------------
(* The theorems.                                                           *)

\* Every variable of a run keeps its type, whatever the critics answer.
THEOREM TypeCorrect == Spec => []TypeOK
<1>1. IInv => TypeOK
  BY DEF IInv
<1> QED
  BY <1>1, Invariance, PTL

\* A book is returned only if its own critique holds no safety finding.
THEOREM ReturnedIsSafe == Spec => []ReturnedDraftIsSafe
<1>1. IInv => ReturnedDraftIsSafe
  <2> SUFFICES ASSUME IInv, Returned
               PROVE  prose.rev \in 1..Len(judged) /\ ~ Unsafe(judged[prose.rev].kept)
    BY DEF ReturnedDraftIsSafe
  <2>1. prose = best.draft /\ ~ Unsafe(best.found) /\ Len(judged) # 0
    BY MaxProseRevisionsAssumption DEF IInv, GateDecision, LoopPosition, Returned
  <2> QED
    BY <2>1 DEF IInv, BestSoFar
<1> QED
  BY <1>1, Invariance, PTL

\* A run is refused as unsafe only when no draft it judged was safe and no
\* rewrite was left.
THEOREM RefusedOnlyIfAllUnsafe == Spec => []UnsafeOnlyWhenAllDraftsAre
<1>1. IInv => UnsafeOnlyWhenAllDraftsAre
  <2> SUFFICES ASSUME IInv, phase = "unsafe"
               PROVE  /\ Len(judged) = MaxProseRevisions + 1
                      /\ \A i \in 1..Len(judged) : Unsafe(judged[i].kept)
    BY DEF UnsafeOnlyWhenAllDraftsAre
  <2>1. /\ Unsafe(best.found) /\ Len(judged) \in 1..(MaxProseRevisions + 1)
        /\ Len(judged) = MaxProseRevisions + 1 \/ judged[Len(judged)].kept = {}
    BY DEF IInv, GateDecision, LoopPosition
  <2>2. PICK b \in 1..Len(judged) : b = best.draft.rev
    BY <2>1, MaxProseRevisionsAssumption DEF IInv, BestSoFar
  <2>3. best.found = judged[b].kept /\ Loop!IsBest(b, Scores)
    BY <2>1, <2>2, MaxProseRevisionsAssumption DEF IInv, BestSoFar
  <2>4. judged \in Seq(Judgement)
    BY DEF IInv, TypeOK, Judgement
  <2>5. ASSUME NEW i \in 1..Len(judged)
        PROVE  /\ Scores[i] = DraftScore(judged[i].kept)
               /\ Scores[i] \in Pair
               /\ Scores[i][1] = IF Unsafe(judged[i].kept) THEN 1 ELSE 0
    <3>1. judged[i] \in Judgement
      BY <2>4
    <3>2. judged[i].kept \in KeptReviews
      BY <3>1 DEF Judgement
    <3> QED
      BY <2>4, <3>2, ScoresAreScores, ScoreOfKept
  <2>6. Scores[b][1] = 1
    BY <2>1, <2>3, <2>5
  <2>7. ASSUME NEW i \in 1..Len(judged)
        PROVE  Unsafe(judged[i].kept)
    <3>1. i \in 1..Len(Scores) /\ ~ Better(Scores[i], Scores[b])
      BY <2>3, <2>4, ScoresAreScores, BetterIsTheSame DEF Loop!IsBest
    <3>2. Scores[i][1] # 0
      BY <2>6, <3>1 DEF Better
    <3> QED
      BY <2>5, <3>2
  <2>8. Len(judged) = MaxProseRevisions + 1
    <3>1. Len(judged) \in 1..Len(judged) /\ Unsafe(judged[Len(judged)].kept)
      BY <2>1, <2>4, <2>7
    <3> QED
      BY <2>1, <3>1 DEF Unsafe
  <2> QED
    BY <2>7, <2>8
<1> QED
  BY <1>1, Invariance, PTL

\* When the gate decides, every draft has been judged.
THEOREM EndsOnCritique == Spec => []LoopEndsOnCritique
<1>1. IInv => LoopEndsOnCritique
  BY DEF IInv, LoopPosition, LoopEndsOnCritique
<1> QED
  BY <1>1, Invariance, PTL

\* The workflow implements the abstract loop: each critique is a judgement,
\* the gate that lets a book through declares the earliest best draft, and
\* every other step is invisible.
THEOREM Refinement == Spec => ReturnsBestDraft
<1>1. Init => Loop!Init
  <2> SUFFICES ASSUME Init PROVE Scores = <<>> /\ ~ Returned
    BY DEF Loop!Init
  <2>1. Len(judged) = 0 /\ phase = "validate"
    BY DEF Init
  <2>2. Scores = [i \in {} |-> DraftScore(judged[i].kept)]
    BY <2>1 DEF Scores
  <2> QED
    BY <2>1, <2>2 DEF Returned
<1>2. IInv /\ [Next]_vars => [Loop!Next]_(Loop!vars)
  <2> SUFFICES ASSUME IInv, [Next]_vars PROVE [Loop!Next]_(Loop!vars)
    OBVIOUS
  <2>1. ASSUME NEW answer \in CriticAnswer, CritiqueProse(answer)
        PROVE  Loop!Next
    <3>1. PICK score \in Loop!Score : Scores' = Append(Scores, score)
      BY <2>1, CritiqueProseStep
    <3>2. ~ Returned /\ ~ Returned'
      BY <2>1 DEF CritiqueProse, Returned
    <3>3. Loop!Judge(score)
      BY <3>1, <3>2 DEF Loop!Judge
    <3> QED
      BY <3>3 DEF Loop!Next
  <2>2. ASSUME SafetyGate, phase' = "remember"
        PROVE  Loop!Next
    <3>1. ~ Returned /\ Returned' /\ best' = best /\ Scores' = Scores
      BY <2>2 DEF SafetyGate, Returned, Scores
    <3>2. PICK i \in 1..Len(Scores) : i = best.draft.rev /\ Loop!IsBest(i, Scores)
      BY <2>2, SafetyGateStep, ScoresAreScores DEF IInv, TypeOK, Judgement
    <3>3. Loop!Choose(i)
      BY <3>1, <3>2 DEF Loop!Choose
    <3> QED
      BY <3>2, <3>3 DEF Loop!Next
  <2>3. ASSUME \/ ValidateOutline \/ VerifyGrounding \/ PlanPages
               \/ \E drones \in BOOLEAN : WriteProse(drones)
               \/ \E transient \in BOOLEAN : TaskFails(transient)
               \/ SafetyGate /\ phase' # "remember"
               \/ RememberStory \/ UNCHANGED vars
        PROVE  UNCHANGED Loop!vars
    <3>1. UNCHANGED <<judged, best>> /\ Returned' = Returned
      BY <2>3 DEF ValidateOutline, VerifyGrounding, PlanPages, WriteProse, AfterWriting,
                  TaskFails, SafetyGate, RememberStory, vars, Returned
    <3> QED
      BY <3>1 DEF Loop!vars, Scores
  <2> QED
    BY <2>1, <2>2, <2>3 DEF Next
<1> QED
  BY <1>1, <1>2, Invariance, PTL DEF Spec, ReturnsBestDraft, Loop!Spec

-----------------------------------------------------------------------------
(* Grounding.                                                              *)

GroundingInv ==
  /\ GroundingResolves
  /\ phase \in {"validate", "verify"} /\ grounding # NoGrounding => grounding \subseteq Facts

LEMMA GroundingNext == GroundingInv /\ [Next]_vars => GroundingInv'
<1> SUFFICES ASSUME GroundingInv, [Next]_vars PROVE GroundingInv'
  OBVIOUS
<1>1. CASE VerifyGrounding
  <2>1. CASE grounding # NoGrounding /\ phase' = "plan"
    <3>1. grounding \subseteq Facts /\ phase = "verify"
      BY <1>1, <2>1 DEF GroundingInv, VerifyGrounding
    <3>2. grounding' = DropUnprovenanced(grounding, Store, NoLedger)
      BY <1>1, <2>1 DEF VerifyGrounding
    <3>3. ASSUME NEW g \in grounding'
          PROVE  /\ g.cites \in DOMAIN Store /\ Store[g.cites].kind = "fact"
                 /\ Store[g.cites].source = g.source
      <4>1. PICK f \in grounding :
              /\ Vouched(f, Store, NoLedger)
              /\ g = [f EXCEPT !.source = SourceOnRecord(f, Store, NoLedger)]
        BY <3>2, <3>3 DEF DropUnprovenanced
      <4>2. f.cites \notin WebId /\ f.cites \in DOMAIN Store /\ Store[f.cites].kind = "fact"
        BY <4>1 DEF Vouched, VouchedByWeb, VouchedByStore
      <4>3. f = [cites |-> f.cites, source |-> f.source]
        BY <3>1, FactsAssumption
      <4>4. g.cites = f.cites /\ g.source = Store[f.cites].source
        BY <4>1, <4>2, <4>3 DEF SourceOnRecord
      <4> QED
        BY <4>2, <4>4
    <3> QED
      BY <2>1, <3>3 DEF GroundingInv, GroundingResolves
  <2>2. CASE ~ (grounding # NoGrounding /\ phase' = "plan")
    BY <1>1, <2>2 DEF GroundingInv, GroundingResolves, VerifyGrounding
  <2> QED
    BY <2>1, <2>2
<1>2. CASE ~ VerifyGrounding
  <2>1. /\ grounding' = grounding
        /\ phase' \in {"validate", "verify"} => phase \in {"validate", "verify"}
        /\ phase \in {"validate", "verify", "failed"} =>
             phase' \in {"validate", "verify", "failed"}
    BY <1>2 DEF Next, ValidateOutline, PlanPages, WriteProse, AfterWriting, CritiqueProse,
                TaskFails, SafetyGate, RememberStory, vars
  <2> QED
    BY <2>1 DEF GroundingInv, GroundingResolves
<1> QED
  BY <1>1, <1>2

\* A book is grounded only in facts the corpus records, under the source it
\* records, whatever the caller claimed.
THEOREM GroundingIsReal == Spec => []GroundingResolves
<1>1. Init => GroundingInv
  BY DEF Init, GroundingInv, GroundingResolves
<1>2. GroundingInv => GroundingResolves
  BY DEF GroundingInv
<1> QED
  BY <1>1, <1>2, GroundingNext, PTL DEF Spec

-----------------------------------------------------------------------------
(* How long a run may be.  That it ends is checked (Terminates); this is   *)
(* the half of it that needs no fairness: every step uses up something     *)
(* there is a fixed amount of.                                             *)

\* Calls of tasks that are still to succeed, a rewrite being two.
TasksLeft ==
  CASE phase \in {"validate", "verify", "plan"} -> 2 * (MaxProseRevisions + 1) + 1
    [] phase = "write" -> 2 * (MaxProseRevisions + 1 - written)
    [] phase = "critique" -> 2 * (MaxProseRevisions + 1 - written) + 1
    [] OTHER -> 0

AttemptsLeft == IF TasksLeft = 0 THEN 0 ELSE MaxAttempts * TasksLeft - attempt

\* The statements around the tasks.
StatementsLeft ==
  CASE phase = "validate" -> 4
    [] phase = "verify" -> 3
    [] phase \in {"plan", "write", "critique", "gate"} -> 2
    [] phase = "remember" -> 1
    [] OTHER -> 0

StepsLeft == AttemptsLeft + StatementsLeft

\* A task less is worth every attempt at it.
LEMMA TaskIsAttempts ==
  ASSUME NEW m \in Nat, NEW n \in Nat, n < m
  PROVE  /\ MaxAttempts * n \in Nat /\ MaxAttempts * m \in Nat
         /\ MaxAttempts * n + MaxAttempts <= MaxAttempts * m
<1>1. MaxAttempts \in Nat
  BY MaxAttemptsAssumption
<1>2. PICK k \in Nat : m = n + 1 + k
  <2>1. m - (n + 1) \in Nat /\ m = n + 1 + (m - (n + 1))
    OBVIOUS
  <2> QED
    BY <2>1
<1>3. MaxAttempts * m = MaxAttempts * n + MaxAttempts + MaxAttempts * k
  BY <1>1, <1>2
<1>4. PICK x \in Nat, y \in Nat : x = MaxAttempts * n /\ y = MaxAttempts * k
  BY <1>1
<1>5. MaxAttempts * m = x + MaxAttempts + y
  BY <1>3, <1>4
<1> QED
  BY <1>1, <1>4, <1>5

\* The sums of what is left fall when one part does and the other does not rise.
LEMMA AttemptsFall ==
  ASSUME NEW x \in Nat, NEW y \in Nat, NEW m \in Nat, NEW n \in Nat,
         NEW done \in Nat, done < MaxAttempts, m + MaxAttempts <= n,
         x = n - done, y <= m
  PROVE  y < x
BY MaxAttemptsAssumption

LEMMA SumFalls ==
  ASSUME NEW a \in Nat, NEW b \in Nat, NEW c \in Nat, NEW d \in Nat,
         \/ c < a /\ d <= b
         \/ c <= a /\ d < b
  PROVE  c + d < a + b
OBVIOUS

WellCounted ==
  /\ TasksLeft \in Nat
  /\ phase \in {"validate", "verify", "plan", "write", "critique"} => TasksLeft > 0
  /\ TasksLeft > 0 => /\ MaxAttempts * TasksLeft \in Nat /\ attempt < MaxAttempts * TasksLeft
                      /\ AttemptsLeft = MaxAttempts * TasksLeft - attempt
  /\ AttemptsLeft \in Nat /\ StatementsLeft \in Nat /\ StepsLeft \in Nat
  /\ StepsLeft = 0 => Finished

LEMMA StepsAreCounted == IInv => WellCounted
<1> SUFFICES ASSUME IInv PROVE WellCounted
  OBVIOUS
<1>1. /\ MaxProseRevisions \in Nat /\ MaxAttempts \in Nat \ {0}
      /\ phase \in Phase /\ attempt \in Nat /\ attempt < MaxAttempts /\ written \in Nat
      /\ written <= MaxProseRevisions + 1 /\ (phase = "write" => written <= MaxProseRevisions)
  BY MaxProseRevisionsAssumption, MaxAttemptsAssumption DEF IInv, TypeOK, LoopPosition
<1>2. /\ TasksLeft \in Nat
      /\ phase \in {"validate", "verify", "plan", "write", "critique"} => TasksLeft > 0
  BY <1>1 DEF TasksLeft
<1>3. TasksLeft > 0 => MaxAttempts * TasksLeft \in Nat /\ MaxAttempts <= MaxAttempts * TasksLeft
  <2>1. TasksLeft > 0 => /\ MaxAttempts * 0 \in Nat /\ MaxAttempts * TasksLeft \in Nat
                         /\ MaxAttempts * 0 + MaxAttempts <= MaxAttempts * TasksLeft
    BY <1>2, TaskIsAttempts
  <2> QED
    BY <1>1, <2>1
<1>4. /\ AttemptsLeft \in Nat /\ (TasksLeft > 0 => AttemptsLeft > 0)
      /\ TasksLeft > 0 => AttemptsLeft = MaxAttempts * TasksLeft - attempt
  BY <1>1, <1>2, <1>3 DEF AttemptsLeft
<1>5. /\ StatementsLeft \in Nat
      /\ StatementsLeft = 0 => Finished
  BY <1>1 DEF StatementsLeft, Finished, Phase
<1> QED
  BY <1>1, <1>2, <1>3, <1>4, <1>5 DEF WellCounted, StepsLeft

LEMMA StepIsCounted ==
  ASSUME IInv, IInv', Next
  PROVE  StepsLeft' < StepsLeft
<1>1. /\ MaxProseRevisions \in Nat /\ MaxAttempts \in Nat \ {0}
      /\ attempt \in Nat /\ attempt < MaxAttempts /\ attempt' \in Nat /\ attempt' < MaxAttempts
      /\ written \in Nat /\ written' \in Nat
  BY MaxProseRevisionsAssumption, MaxAttemptsAssumption DEF IInv, TypeOK
<1>2. WellCounted /\ WellCounted'
  BY StepsAreCounted, PTL
<1>3. /\ TasksLeft \in Nat /\ AttemptsLeft \in Nat /\ StatementsLeft \in Nat
      /\ TasksLeft' \in Nat /\ AttemptsLeft' \in Nat /\ StatementsLeft' \in Nat
      /\ AttemptsLeft = IF TasksLeft = 0 THEN 0 ELSE MaxAttempts * TasksLeft - attempt
      /\ AttemptsLeft' = IF TasksLeft' = 0 THEN 0 ELSE MaxAttempts * TasksLeft' - attempt'
  BY <1>2 DEF WellCounted, AttemptsLeft
<1>4. CASE TasksLeft' < TasksLeft /\ attempt' = 0 /\ StatementsLeft' <= StatementsLeft
  \* A task succeeded, or the run is past them.
  <2>1. /\ MaxAttempts * TasksLeft' \in Nat /\ MaxAttempts * TasksLeft \in Nat
        /\ MaxAttempts * TasksLeft' + MaxAttempts <= MaxAttempts * TasksLeft
    BY <1>3, <1>4, TaskIsAttempts
  <2>2. PICK m \in Nat, n \in Nat : m = MaxAttempts * TasksLeft' /\ n = MaxAttempts * TasksLeft
    BY <2>1
  <2>3. m + MaxAttempts <= n /\ AttemptsLeft = n - attempt
    BY <1>3, <1>4, <2>1, <2>2
  <2>4. AttemptsLeft' <= m
    BY <1>3, <1>4, <2>1, <2>2
  <2>5. AttemptsLeft' < AttemptsLeft
    BY <1>1, <1>3, <2>3, <2>4, AttemptsFall, Zenon
  <2> QED
    BY <1>3, <1>4, <2>5, SumFalls, Zenon DEF StepsLeft
<1>5. CASE TasksLeft' = TasksLeft /\ attempt' = attempt /\ StatementsLeft' < StatementsLeft
  <2>1. AttemptsLeft' = AttemptsLeft
    BY <1>5, Zenon DEF AttemptsLeft
  <2>2. AttemptsLeft' <= AttemptsLeft
    BY <1>3, <2>1
  <2> QED
    BY <1>3, <1>5, <2>2, SumFalls, Zenon DEF StepsLeft
<1>6. CASE TasksLeft' = TasksLeft /\ TasksLeft > 0 /\ attempt' = attempt + 1
           /\ StatementsLeft' = StatementsLeft
  <2>1. PICK n \in Nat : n = MaxAttempts * TasksLeft
    BY <1>2, <1>6 DEF WellCounted
  <2> QED
    BY <1>1, <1>3, <1>6, <2>1 DEF StepsLeft
<1>7. CASE phase \notin {"failed", "book", "unsafe"} /\ phase' = "failed"
  <2>1. StepsLeft' = 0
    BY <1>7 DEF StepsLeft, AttemptsLeft, TasksLeft, StatementsLeft
  <2>2. StepsLeft \in Nat /\ StepsLeft # 0
    BY <1>2, <1>7 DEF WellCounted, Finished
  <2> QED
    BY <2>1, <2>2
<1>8. CASE ValidateOutline \/ VerifyGrounding
  BY <1>5, <1>7, <1>8 DEF ValidateOutline, VerifyGrounding, TasksLeft, StatementsLeft
<1>9. CASE PlanPages
  <2>1. TasksLeft = 2 * (MaxProseRevisions + 1) + 1 /\ written = 0
    BY <1>9 DEF PlanPages, TasksLeft, IInv, LoopPosition
  <2>2. TasksLeft' = 2 * (MaxProseRevisions + 1)
    BY <1>1, <1>9, <2>1 DEF PlanPages, TasksLeft
  <2> QED
    BY <1>1, <1>4, <1>9, <2>1, <2>2 DEF PlanPages, StatementsLeft
<1>10. ASSUME NEW drones \in BOOLEAN, WriteProse(drones) PROVE StepsLeft' < StepsLeft
  <2>1. /\ TasksLeft = 2 * (MaxProseRevisions + 1 - written)
        /\ TasksLeft' = 2 * (MaxProseRevisions + 1 - (written + 1)) + 1
    BY <1>10 DEF WriteProse, AfterWriting, TasksLeft
  <2> QED
    BY <1>1, <1>4, <1>10, <2>1 DEF WriteProse, AfterWriting, StatementsLeft
<1>11. ASSUME NEW answer \in CriticAnswer, CritiqueProse(answer) PROVE StepsLeft' < StepsLeft
  <2>1. phase = "critique" /\ phase' \in {"gate", "write"} /\ attempt' = 0 /\ written' = written
    BY <1>11 DEF CritiqueProse
  <2>2. TasksLeft = 2 * (MaxProseRevisions + 1 - written) + 1
    BY <2>1 DEF TasksLeft
  <2>3. TasksLeft' < TasksLeft
    <3>1. CASE phase' = "write"
      BY <1>1, <2>1, <2>2, <3>1 DEF TasksLeft
    <3>2. CASE phase' = "gate"
      <4>1. TasksLeft' = 0
        BY <3>2 DEF TasksLeft
      <4> QED
        BY <1>2, <2>1, <4>1 DEF WellCounted
    <3> QED
      BY <2>1, <3>1, <3>2
  <2> QED
    BY <1>4, <2>1, <2>3 DEF StatementsLeft
<1>12. ASSUME NEW transient \in BOOLEAN, TaskFails(transient) PROVE StepsLeft' < StepsLeft
  <2>1. CASE Retries(transient)
    <3>1. UNCHANGED <<phase, written>> /\ attempt' = attempt + 1 /\ phase \in {"plan", "write", "critique"}
      BY <1>12, <2>1 DEF TaskFails
    <3>2. TasksLeft' = TasksLeft /\ StatementsLeft' = StatementsLeft
      BY <3>1 DEF TasksLeft, StatementsLeft
    <3> QED
      BY <1>2, <1>6, <3>1, <3>2 DEF WellCounted
  <2>2. CASE ~ Retries(transient)
    BY <1>7, <1>12, <2>2 DEF TaskFails
  <2> QED
    BY <2>1, <2>2
<1>13. CASE SafetyGate \/ RememberStory
  <2>1. attempt' = attempt /\ StatementsLeft' < StatementsLeft
    BY <1>13 DEF SafetyGate, RememberStory, StatementsLeft
  <2>2. TasksLeft' = TasksLeft
    BY <1>13 DEF SafetyGate, RememberStory, TasksLeft
  <2> QED
    BY <1>5, <2>1, <2>2
<1> QED
  BY <1>8, <1>9, <1>10, <1>11, <1>12, <1>13 DEF Next

\* Whatever is retried and rewritten, a run of generate_story is over after
\* max_attempts attempts at the page plan and at each of the drafts and
\* critiques its settings allow, and four statements more.
THEOREM RunsAreShort ==
  Spec => /\ StepsLeft = MaxAttempts * (2 * (MaxProseRevisions + 1) + 1) + 4
          /\ [](StepsLeft \in Nat /\ (StepsLeft = 0 => Finished))
          /\ [][StepsLeft' < StepsLeft]_vars
<1>1. Init => StepsLeft = MaxAttempts * (2 * (MaxProseRevisions + 1) + 1) + 4
  <2> SUFFICES ASSUME Init PROVE StepsLeft = MaxAttempts * (2 * (MaxProseRevisions + 1) + 1) + 4
    OBVIOUS
  <2>1. TasksLeft = 2 * (MaxProseRevisions + 1) + 1 /\ StatementsLeft = 4 /\ attempt = 0
    BY DEF Init, TasksLeft, StatementsLeft
  <2>2. AttemptsLeft = MaxAttempts * TasksLeft - attempt /\ MaxAttempts * TasksLeft \in Nat
    BY <2>1, InitInv, StepsAreCounted DEF WellCounted, Init
  <2> QED
    BY <2>1, <2>2 DEF StepsLeft
<1>2. IInv => StepsLeft \in Nat /\ (StepsLeft = 0 => Finished)
  BY StepsAreCounted DEF WellCounted
<1>3. IInv /\ IInv' /\ [Next]_vars => [StepsLeft' < StepsLeft]_vars
  BY StepIsCounted
<1> QED
  BY <1>1, <1>2, <1>3, Invariance, PTL DEF Spec
=============================================================================
