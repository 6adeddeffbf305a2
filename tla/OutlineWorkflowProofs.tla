------------------------ MODULE OutlineWorkflowProofs ------------------------
(***************************************************************************)
(* Proofs about OutlineWorkflow, for any budget of attempts, revisions and *)
(* findings, any characters, corpus, ledger and claims.                    *)
(*                                                                         *)
(* The argument is that of the prose loop without its gate: where the loop *)
(* is, and that best_outline is the earliest of the best plans judged.     *)
(* What the parent reads beside the plan follows from what is fixed before *)
(* the loop starts and never touched in it.                                *)
(***************************************************************************)
EXTENDS OutlineWorkflow, FiniteSetTheorems, TLAPS

\* The loop's position, by the statement it is at.
LoopPosition ==
  /\ phase \in {"research", "memory"} =>
       judged = <<>> /\ planned = 0 /\ briefings = {}
  /\ phase = "plan" => planned = Len(judged) /\ Len(judged) <= MaxOutlineRevisions
  /\ phase = "critique" => /\ planned = Len(judged) + 1
                           /\ Len(judged) <= MaxOutlineRevisions
                           /\ outline \in Plan
                           /\ outline.rev = planned
  /\ phase \in {"finish", "returned"} => planned = Len(judged) /\ Len(judged) # 0

\* best_outline with its score.
BestSoFar ==
  IF Len(judged) = 0
    THEN best.plan = NoPlan
    ELSE /\ best.plan \in Plan
         /\ best.plan.rev \in 1..Len(judged)
         /\ best.found = judged[best.plan.rev]
         /\ Loop!IsBest(best.plan.rev, Scores)

\* Every plan was made from one briefing, and at least one plan was made.
Briefed ==
  /\ briefings \subseteq {<<grounding, remembered>>}
  /\ phase \in {"critique", "finish", "returned"} =>
       briefings = {<<grounding, remembered>>}

\* What was handed to the parent.
ReturnedIsBest ==
  phase = "returned" =>
    /\ returned.rev = best.plan.rev /\ returned.cast = best.plan.cast
    /\ grounding # NoGrounding => returned.grounding = grounding
    /\ FindConflicts(best.plan.cast, remembered) \subseteq returned.conflicts

IInv == TypeOK /\ LoopPosition /\ BestSoFar /\ Briefed /\ ReturnedIsBest

-----------------------------------------------------------------------------
(* Scores.                                                                 *)

Pair == {0, 1} \X Nat

\* The promise's order of scores is the one of the code.
LEMMA BetterIsTheSame == \A s, t : Loop!Better(s, t) <=> Better(s, t)
BY DEF Loop!Better, Better

\* The lexicographic order of scores is strict, and the draft that loses to
\* none of its rivals beats whatever they beat.
LEMMA BetterOrder ==
  ASSUME NEW s \in Pair, NEW t \in Pair, NEW u \in Pair
  PROVE  /\ ~ Better(s, s)
         /\ Better(s, t) /\ ~ Better(u, t) => Better(s, u)
         /\ Better(s, t) => ~ Better(t, s)
<1>1. /\ s[1] \in {0, 1} /\ t[1] \in {0, 1} /\ u[1] \in {0, 1}
      /\ s[2] \in Nat /\ t[2] \in Nat /\ u[2] \in Nat
  BY DEF Pair
<1> QED
  BY <1>1 DEF Better

\* A new draft is the best if it beats the best so far; otherwise the best so
\* far remains it (best_outline).
LEMMA BestAfterOneMore ==
  ASSUME NEW scores \in Seq(Pair), NEW s \in Pair
  PROVE  /\ scores = <<>> => Loop!IsBest(1, Append(scores, s))
         /\ \A i \in 1..Len(scores) : Loop!IsBest(i, scores) =>
              IF Better(s, scores[i]) THEN Loop!IsBest(Len(scores) + 1, Append(scores, s))
                                      ELSE Loop!IsBest(i, Append(scores, s))
<1>1. PICK more : more = Append(scores, s)
  OBVIOUS
<1>2. /\ Len(scores) \in Nat /\ Len(more) = Len(scores) + 1
      /\ more[Len(scores) + 1] = s
      /\ \A k \in 1..Len(scores) : more[k] = scores[k] /\ scores[k] \in Pair
  BY <1>1
<1>3. ASSUME scores = <<>>
      PROVE  Loop!IsBest(1, more)
  <2>1. Len(more) = 1 /\ more[1] = s
    BY <1>2, <1>3
  <2> QED
    BY <2>1, BetterOrder, BetterIsTheSame DEF Loop!IsBest
<1>4. ASSUME NEW i \in 1..Len(scores), Loop!IsBest(i, scores), Better(s, scores[i])
      PROVE  Loop!IsBest(Len(scores) + 1, more)
  <2>1. \A j \in 1..Len(scores) : ~ Better(scores[j], scores[i])
    BY <1>4, BetterIsTheSame DEF Loop!IsBest
  <2>2. \A j \in 1..Len(scores) : Better(s, scores[j])
    BY <1>2, <1>4, <2>1, BetterOrder
  <2>3. \A j \in 1..Len(scores) : ~ Better(scores[j], s)
    BY <1>2, <2>2, BetterOrder
  <2>4. ~ Better(s, s)
    BY BetterOrder
  <2>5. \A j \in 1..Len(more) : ~ Better(more[j], more[Len(scores) + 1])
    BY <1>2, <2>3, <2>4
  <2>6. \A j \in 1..((Len(scores) + 1) - 1) : Better(more[Len(scores) + 1], more[j])
    BY <1>2, <2>2
  <2> QED
    BY <1>2, <2>5, <2>6, BetterIsTheSame DEF Loop!IsBest
<1>5. ASSUME NEW i \in 1..Len(scores), Loop!IsBest(i, scores), ~ Better(s, scores[i])
      PROVE  Loop!IsBest(i, more)
  <2>1. /\ \A j \in 1..Len(scores) : ~ Better(scores[j], scores[i])
        /\ \A j \in 1..(i - 1) : Better(scores[i], scores[j])
    BY <1>5, BetterIsTheSame DEF Loop!IsBest
  <2>2. \A j \in 1..Len(more) : ~ Better(more[j], more[i])
    BY <1>2, <1>5, <2>1
  <2>3. \A j \in 1..(i - 1) : Better(more[i], more[j])
    BY <1>2, <2>1
  <2> QED
    BY <1>2, <2>2, <2>3, BetterIsTheSame DEF Loop!IsBest
<1> QED
  BY <1>1, <1>3, <1>4, <1>5

LEMMA ScoreOfAnswer ==
  ASSUME NEW found \in CriticAnswer
  PROVE  DraftScore(found) \in Pair /\ DraftScore(found) \in Loop!Score
<1>1. PICK n : n = Cardinality(found)
  OBVIOUS
<1>2. n \in Nat /\ n <= MaxReviews
  BY <1>1, FS_CardinalityType DEF CriticAnswer, AtMost
<1>3. n \in 0..MaxReviews
  BY <1>2, MaxReviewsAssumption
<1> QED
  BY <1>1, <1>2, <1>3 DEF DraftScore, Pair, Loop!Score

\* Dropping what cannot be routed leaves an answer of the critic's.
LEMMA RoutableIsAnswer ==
  ASSUME NEW answer \in CriticAnswer
  PROVE  Routable(answer) \in CriticAnswer
<1>1. /\ answer \in SUBSET Finding /\ IsFiniteSet(answer)
      /\ Cardinality(answer) <= MaxReviews
  BY DEF CriticAnswer, AtMost
<1>2. Routable(answer) \in SUBSET answer
  BY DEF Routable
<1>3. /\ IsFiniteSet(Routable(answer))
      /\ Cardinality(Routable(answer)) <= Cardinality(answer)
  BY <1>1, <1>2, FS_Subset
<1>4. Cardinality(Routable(answer)) \in Nat /\ Cardinality(answer) \in Nat
  BY <1>1, <1>3, FS_CardinalityType
<1>5. Cardinality(Routable(answer)) <= MaxReviews
  BY <1>1, <1>3, <1>4, MaxReviewsAssumption
<1>6. AtMost(MaxReviews, Routable(answer))
  BY <1>3, <1>5 DEF AtMost
<1> QED
  BY <1>1, <1>2, <1>6 DEF CriticAnswer

LEMMA ScoresAreScores ==
  ASSUME judged \in Seq(CriticAnswer)
  PROVE  /\ Scores \in Seq(Pair)
         /\ Len(Scores) = Len(judged)
         /\ \A i \in 1..Len(judged) : Scores[i] = DraftScore(judged[i])
<1>1. \A i \in 1..Len(judged) : judged[i] \in CriticAnswer
  OBVIOUS
<1>2. \A i \in 1..Len(judged) : DraftScore(judged[i]) \in Pair
  BY <1>1, ScoreOfAnswer
<1> QED
  BY <1>2 DEF Scores

LEMMA OneMoreScore ==
  ASSUME judged \in Seq(CriticAnswer), NEW found \in CriticAnswer,
         judged' = Append(judged, found)
  PROVE  Scores' = Append(Scores, DraftScore(found))
<1>1. /\ Len(judged) \in Nat /\ Len(judged') = Len(judged) + 1
      /\ judged'[Len(judged) + 1] = found
      /\ \A k \in 1..Len(judged) : judged'[k] = judged[k]
  OBVIOUS
<1>2. PICK score \in Pair : score = DraftScore(found)
  BY ScoreOfAnswer
<1>3. PICK scores \in Seq(Pair) : scores = Scores
  BY ScoresAreScores
<1>4. /\ Len(scores) = Len(judged)
      /\ \A i \in 1..Len(judged) : scores[i] = DraftScore(judged[i])
  BY <1>3, ScoresAreScores
<1>5. Scores' = [i \in 1..(Len(judged) + 1) |-> DraftScore(judged'[i])]
  BY <1>1 DEF Scores
<1>6. \A i \in 1..(Len(judged) + 1) : DraftScore(judged'[i]) = Append(scores, score)[i]
  BY <1>1, <1>2, <1>4
<1>7. /\ Append(scores, score) \in Seq(Pair)
      /\ Len(Append(scores, score)) = Len(judged) + 1
  BY <1>1, <1>4
<1>8. Append(scores, score) = [i \in 1..(Len(judged) + 1) |-> Append(scores, score)[i]]
  <2>1. PICK longer \in Seq(Pair) : longer = Append(scores, score)
    BY <1>7
  <2>2. longer = [i \in 1..Len(longer) |-> longer[i]]
    OBVIOUS
  <2> QED
    BY <1>7, <2>1, <2>2
<1> QED
  BY <1>2, <1>3, <1>5, <1>6, <1>8

-----------------------------------------------------------------------------
(* The invariant.                                                          *)

LEMMA InitInv == Init => IInv
<1> SUFFICES ASSUME Init PROVE IInv
  OBVIOUS
<1>1. {} \in CriticAnswer
  BY FS_EmptySet, MaxReviewsAssumption DEF CriticAnswer, AtMost
<1>2. TypeOK
  BY <1>1, MaxAttemptsAssumption, MaxOutlineRevisionsAssumption DEF Init, TypeOK
<1>3. LoopPosition /\ BestSoFar /\ Briefed /\ ReturnedIsBest
  BY DEF Init, LoopPosition, BestSoFar, Briefed, ReturnedIsBest
<1> QED
  BY <1>2, <1>3 DEF IInv

\* Every step but the critique leaves the judgements and the best plan alone.
LEMMA NoJudgement ==
  ASSUME IInv, UNCHANGED <<judged, best>>
  PROVE  BestSoFar' /\ Scores' = Scores
<1>1. Scores' = Scores
  BY DEF Scores
<1> QED
  BY <1>1 DEF IInv, BestSoFar

LEMMA EnrichmentSteps ==
  ASSUME IInv,
         \/ SkipResearch
         \/ \E claimed \in SUBSET Facts, sources \in Ledgers \cup {NoLedger} :
              Research(claimed, sources)
         \/ \E stored \in SUBSET Memory : FetchMemory(stored)
  PROVE  IInv'
<1>1. /\ UNCHANGED <<planned, outline, best, judged, returned, briefings>>
      /\ phase \in {"research", "memory"} /\ phase' \in {"memory", "plan"}
      /\ attempt' \in {attempt, 0}
  BY DEF SkipResearch, Research, FetchMemory
<1>2. ledger' \in Ledgers \cup {NoLedger} /\ remembered' \subseteq Memory
  BY DEF IInv, TypeOK, SkipResearch, Research, FetchMemory
<1>3. grounding' = NoGrounding \/ \A f \in grounding' : \E g \in Facts : f.cites = g.cites
  <2>1. CASE grounding' = grounding
    BY <2>1 DEF IInv, TypeOK
  <2>2. ASSUME NEW claimed \in SUBSET Facts, NEW sources,
               grounding' = DropUnprovenanced(claimed, Store, sources)
        PROVE  \A f \in grounding' : \E g \in Facts : f.cites = g.cites
    <3> SUFFICES ASSUME NEW f \in grounding' PROVE \E g \in Facts : f.cites = g.cites
      OBVIOUS
    <3>1. PICK g \in claimed : f = [g EXCEPT !.source = SourceOnRecord(g, Store, sources)]
      BY <2>2 DEF DropUnprovenanced
    <3>2. g \in Facts /\ g = [cites |-> g.cites, source |-> g.source]
      BY FactsAssumption
    <3>3. f.cites = g.cites
      BY <3>1, <3>2
    <3> QED
      BY <3>2, <3>3
  <2> QED
    BY <2>1, <2>2 DEF SkipResearch, Research, FetchMemory
<1>4. TypeOK'
  BY <1>1, <1>2, <1>3, MaxAttemptsAssumption DEF IInv, TypeOK
<1>5. LoopPosition' /\ Briefed' /\ ReturnedIsBest'
  BY <1>1, MaxOutlineRevisionsAssumption DEF IInv, LoopPosition, Briefed, ReturnedIsBest
<1> QED
  BY <1>1, <1>4, <1>5, NoJudgement DEF IInv

LEMMA PlanOutlineStep ==
  ASSUME IInv, NEW cast \in Cast, NEW unasked \in Unasked,
         PlanOutline(PlanOf(cast, unasked))
  PROVE  IInv'
<1>1. /\ phase = "plan" /\ phase' = "critique" /\ attempt' = 0
      /\ planned' = planned + 1 /\ outline' = PlanOf(cast, unasked)
      /\ briefings' = briefings \cup {<<grounding, remembered>>}
      /\ UNCHANGED <<ledger, grounding, remembered, best, judged, returned>>
  BY DEF PlanOutline, Briefing
<1>2. planned = Len(judged) /\ Len(judged) <= MaxOutlineRevisions /\ Len(judged) \in Nat
  BY <1>1 DEF IInv, TypeOK, LoopPosition
<1>3. outline' \in Plan /\ outline'.rev = planned'
  BY <1>1, <1>2, MaxOutlineRevisionsAssumption DEF PlanOf, Plan
<1>4. planned' \in 1..(MaxOutlineRevisions + 1)
  BY <1>1, <1>2, MaxOutlineRevisionsAssumption
<1>5. TypeOK'
  BY <1>1, <1>2, <1>3, <1>4, MaxAttemptsAssumption, MaxOutlineRevisionsAssumption
     DEF IInv, TypeOK
<1>6. LoopPosition' /\ Briefed' /\ ReturnedIsBest'
  BY <1>1, <1>2, <1>3 DEF IInv, LoopPosition, Briefed, ReturnedIsBest
<1> QED
  BY <1>1, <1>5, <1>6, NoJudgement DEF IInv

LEMMA CritiqueOutlineStep ==
  ASSUME IInv, NEW answer \in CriticAnswer, CritiqueOutline(answer)
  PROVE  /\ IInv'
         /\ \E score \in Loop!Score : Scores' = Append(Scores, score)
<1>1. PICK found \in CriticAnswer : found = Routable(answer)
  BY RoutableIsAnswer
<1>2. /\ judged \in Seq(CriticAnswer) /\ Len(judged) \in Nat
      /\ best \in [plan : Plan \cup {NoPlan}, found : CriticAnswer]
  BY DEF IInv, TypeOK
<1>3. /\ planned = Len(judged) + 1 /\ Len(judged) <= MaxOutlineRevisions
      /\ outline \in Plan /\ outline.rev = planned
  BY DEF IInv, LoopPosition, CritiqueOutline
<1>4. /\ phase = "critique" /\ attempt' = 0
      /\ judged' = Append(judged, found)
      /\ best' = IF best.plan = NoPlan \/ Better(DraftScore(found), DraftScore(best.found))
                   THEN [plan |-> outline, found |-> found] ELSE best
      /\ phase' = IF found = {} \/ Len(judged) = MaxOutlineRevisions THEN "finish" ELSE "plan"
      /\ UNCHANGED <<ledger, grounding, remembered, planned, outline, returned, briefings>>
  BY <1>1 DEF CritiqueOutline, Exhausted
<1>5. /\ judged' \in Seq(CriticAnswer) /\ Len(judged') = Len(judged) + 1
      /\ judged'[Len(judged) + 1] = found
      /\ \A k \in 1..Len(judged) : judged'[k] = judged[k]
  BY <1>1, <1>2, <1>4
<1>6. TypeOK'
  <2>1. best' \in [plan : Plan \cup {NoPlan}, found : CriticAnswer]
    BY <1>1, <1>2, <1>3, <1>4
  <2> QED
    BY <1>4, <1>5, <2>1, MaxAttemptsAssumption DEF IInv, TypeOK
<1>7. LoopPosition' /\ Briefed' /\ ReturnedIsBest'
  BY <1>2, <1>3, <1>4, <1>5, MaxOutlineRevisionsAssumption
     DEF IInv, LoopPosition, Briefed, ReturnedIsBest
<1>8. PICK scores \in Seq(Pair) : scores = Scores
  BY <1>2, ScoresAreScores
<1>9. PICK score \in Pair : score = DraftScore(found) /\ score \in Loop!Score
  BY <1>1, ScoreOfAnswer
<1>10. Scores' = Append(scores, score)
  BY <1>2, <1>4, <1>8, <1>9, OneMoreScore
<1>11. /\ Len(scores) = Len(judged)
       /\ \A i \in 1..Len(judged) : scores[i] = DraftScore(judged[i])
  BY <1>2, <1>8, ScoresAreScores
<1>12. BestSoFar'
  <2>1. CASE Len(judged) = 0
    <3>1. best' = [plan |-> outline, found |-> found]
      BY <1>4, <2>1 DEF IInv, BestSoFar
    <3>2. scores = <<>>
      BY <1>11, <2>1
    <3>3. Loop!IsBest(1, Append(scores, score))
      BY <3>2, BestAfterOneMore
    <3>4. best'.plan = outline /\ best'.plan.rev = 1 /\ best'.found = judged'[1]
      BY <1>3, <1>5, <2>1, <3>1
    <3> QED
      BY <1>3, <1>5, <1>10, <2>1, <3>3, <3>4 DEF BestSoFar
  <2>2. CASE Len(judged) # 0
    <3>1. PICK i \in 1..Len(judged) : i = best.plan.rev
      BY <2>2 DEF IInv, BestSoFar
    <3>2. best.found = judged[i] /\ Loop!IsBest(i, scores) /\ best.plan \in Plan
      BY <1>8, <2>2, <3>1 DEF IInv, BestSoFar
    <3>3. best.plan # NoPlan
      BY <3>2, NoPlanAssumption
    <3>4. scores[i] = DraftScore(best.found)
      BY <1>11, <3>2
    <3>5. CASE Better(score, scores[i])
      <4>1. best' = [plan |-> outline, found |-> found]
        BY <1>4, <1>9, <3>4, <3>5
      <4>2. Loop!IsBest(Len(judged) + 1, Append(scores, score))
        BY <1>11, <3>2, <3>5, BestAfterOneMore
      <4>3. /\ best'.plan = outline /\ best'.plan.rev = Len(judged) + 1
            /\ best'.found = judged'[Len(judged) + 1]
        BY <1>3, <1>5, <4>1
      <4> QED
        BY <1>2, <1>3, <1>5, <1>10, <4>2, <4>3 DEF BestSoFar
    <3>6. CASE ~ Better(score, scores[i])
      <4>1. best' = best
        BY <1>4, <1>9, <3>3, <3>4, <3>6
      <4>2. Loop!IsBest(i, Append(scores, score))
        BY <1>11, <3>2, <3>6, BestAfterOneMore
      <4>3. best'.plan.rev = i /\ best'.found = judged'[i] /\ i \in 1..Len(judged')
        BY <1>2, <1>5, <3>1, <3>2, <4>1
      <4> QED
        BY <1>2, <1>5, <1>10, <3>2, <4>1, <4>2, <4>3 DEF BestSoFar
    <3> QED
      BY <3>5, <3>6
  <2> QED
    BY <2>1, <2>2
<1> QED
  BY <1>6, <1>7, <1>8, <1>9, <1>10, <1>12 DEF IInv

LEMMA TaskFailsStep ==
  ASSUME IInv, NEW transient \in BOOLEAN, TaskFails(transient)
  PROVE  IInv'
<1>1. /\ phase \in {"research", "plan", "critique"}
      /\ \/ phase' = phase
         \/ phase = "research" /\ phase' = "memory"
         \/ phase' = "failed"
      /\ UNCHANGED <<ledger, grounding, remembered, planned, outline, best, judged,
                     returned, briefings>>
  BY DEF TaskFails, AfterFailedResearch
<1>2. attempt' \in 0..(MaxAttempts - 1)
  BY MaxAttemptsAssumption DEF IInv, TypeOK, TaskFails, Retries
<1>3. TypeOK'
  BY <1>1, <1>2 DEF IInv, TypeOK
<1>4. LoopPosition' /\ Briefed' /\ ReturnedIsBest'
  BY <1>1 DEF IInv, LoopPosition, Briefed, ReturnedIsBest
<1> QED
  BY <1>1, <1>3, <1>4, NoJudgement DEF IInv

LEMMA ReturnStep ==
  ASSUME IInv, Return
  PROVE  /\ IInv'
         /\ best.plan.rev \in 1..Len(judged)
         /\ Loop!IsBest(best.plan.rev, Scores)
         /\ returned'.rev = best.plan.rev
<1>1. PICK conflicts : conflicts = FindConflicts(best.plan.cast, remembered)
  OBVIOUS
<1>2. /\ phase = "finish" /\ phase' = "returned"
      /\ returned' = [best.plan EXCEPT
                        !.grounding = IF grounding # NoGrounding THEN grounding ELSE @,
                        !.conflicts = IF conflicts # {} THEN conflicts ELSE @]
      /\ UNCHANGED <<attempt, ledger, grounding, remembered, planned, outline, best,
                     judged, briefings>>
  BY <1>1 DEF Return, PlanReturned
<1>3. /\ planned = Len(judged) /\ Len(judged) # 0 /\ Len(judged) \in Nat
      /\ best.plan \in Plan /\ best.plan.rev \in 1..Len(judged)
      /\ Loop!IsBest(best.plan.rev, Scores)
  BY <1>2 DEF IInv, TypeOK, LoopPosition, BestSoFar
<1>4. /\ returned'.rev = best.plan.rev /\ returned'.cast = best.plan.cast
      /\ returned'.grounding = IF grounding # NoGrounding THEN grounding
                               ELSE best.plan.grounding
      /\ returned'.conflicts = IF conflicts # {} THEN conflicts ELSE best.plan.conflicts
  BY <1>2, <1>3 DEF Plan
<1>5. best.plan.cast \in Cast
  BY <1>3 DEF Plan
<1>6. TypeOK'
  BY <1>2, <1>3, <1>4, <1>5 DEF IInv, TypeOK
<1>7. LoopPosition' /\ Briefed'
  BY <1>2 DEF IInv, LoopPosition, Briefed
<1>8. ReturnedIsBest'
  <2>1. conflicts \subseteq returned'.conflicts
    BY <1>4
  <2>2. best' = best /\ remembered' = remembered /\ grounding' = grounding
    BY <1>2
  <2>3. FindConflicts(best'.plan.cast, remembered') = conflicts
    BY <1>1, <2>2 DEF FindConflicts
  <2> QED
    BY <1>4, <2>1, <2>2, <2>3 DEF ReturnedIsBest
<1> QED
  BY <1>2, <1>3, <1>4, <1>6, <1>7, <1>8, NoJudgement DEF IInv

LEMMA StaysInv ==
  ASSUME IInv, UNCHANGED vars
  PROVE  IInv'
<1>1. TypeOK' /\ LoopPosition' /\ Briefed' /\ ReturnedIsBest'
  BY DEF IInv, TypeOK, LoopPosition, Briefed, ReturnedIsBest, FindConflicts, vars
<1> QED
  BY <1>1, NoJudgement DEF IInv, vars

LEMMA NextInv == IInv /\ [Next]_vars => IInv'
  BY EnrichmentSteps, PlanOutlineStep, CritiqueOutlineStep, TaskFailsStep, ReturnStep,
     StaysInv DEF Next

\* The inductive invariant holds of every run.
THEOREM Invariance == Spec => []IInv
  BY InitInv, NextInv, PTL DEF Spec

-----------------------------------------------------------------------------
(* The theorems.                                                           *)

\* Every variable of a run keeps its type, whatever the planner and the
\* critic answer.
THEOREM TypeCorrect == Spec => []TypeOK
<1>1. IInv => TypeOK
  BY DEF IInv
<1> QED
  BY <1>1, Invariance, PTL

\* Every plan of a run, revisions included, was made from the same grounding
\* and the same memories, and they are those the run ends with.
THEOREM PlansAreBriefed == Spec => []EveryPlanIsBriefed
<1>1. IInv => EveryPlanIsBriefed
  <2> SUFFICES ASSUME IInv PROVE EveryPlanIsBriefed
    OBVIOUS
  <2>1. PICK b : b = <<grounding, remembered>>
    OBVIOUS
  <2>2. briefings = {} \/ briefings = {b}
    BY <2>1 DEF IInv, Briefed
  <2>3. Cardinality(briefings) <= 1
    <3>1. Cardinality({}) = 0
      BY FS_EmptySet
    <3>2. Cardinality({b}) = 1
      BY FS_Singleton
    <3> QED
      BY <2>2, <3>1, <3>2
  <2>4. phase = "returned" => briefings = {<<grounding, remembered>>}
    BY DEF IInv, Briefed
  <2> QED
    BY <2>3, <2>4 DEF EveryPlanIsBriefed
<1> QED
  BY <1>1, Invariance, PTL

\* A parent is told of every stored description the returned plan changes.
THEOREM ConflictsReachTheParent == Spec => []ConflictsAreReported
<1>1. IInv => ConflictsAreReported
  <2> SUFFICES ASSUME IInv, phase = "returned"
               PROVE  FindConflicts(returned.cast, remembered) \subseteq returned.conflicts
    BY DEF ConflictsAreReported
  <2>1. /\ returned.cast = best.plan.cast
        /\ FindConflicts(best.plan.cast, remembered) \subseteq returned.conflicts
    BY DEF IInv, ReturnedIsBest
  <2> QED
    BY <2>1
<1> QED
  BY <1>1, Invariance, PTL

\* Only planning and critique can end a run without a plan.
THEOREM OnlyTheLoopFails == Spec => EnrichmentFailsOpen
<1>1. IInv /\ [Next]_vars => [phase' = "failed" => phase \in {"failed", "plan", "critique"}]_vars
  BY DEF Next, SkipResearch, Research, FetchMemory, PlanOutline, CritiqueOutline,
         TaskFails, AfterFailedResearch, Return, vars
<1> QED
  BY <1>1, Invariance, PTL DEF Spec, EnrichmentFailsOpen

\* The workflow implements the abstract loop: each critique is a judgement,
\* returning declares the earliest best plan, and every other step is
\* invisible.
THEOREM Refinement == Spec => ReturnsBestPlan
<1>1. Init => Loop!Init
  <2> SUFFICES ASSUME Init PROVE Scores = <<>> /\ phase # "returned"
    BY DEF Loop!Init
  <2>1. Len(judged) = 0 /\ phase = "research"
    BY DEF Init
  <2>2. Scores = [i \in {} |-> DraftScore(judged[i])]
    BY <2>1 DEF Scores
  <2> QED
    BY <2>1, <2>2
<1>2. IInv /\ [Next]_vars => [Loop!Next]_(Loop!vars)
  <2> SUFFICES ASSUME IInv, [Next]_vars PROVE [Loop!Next]_(Loop!vars)
    OBVIOUS
  <2>1. ASSUME NEW answer \in CriticAnswer, CritiqueOutline(answer)
        PROVE  Loop!Next
    <3>1. PICK score \in Loop!Score : Scores' = Append(Scores, score)
      BY <2>1, CritiqueOutlineStep
    <3>2. phase # "returned" /\ phase' # "returned"
      BY <2>1 DEF CritiqueOutline
    <3>3. Loop!Judge(score)
      BY <3>1, <3>2 DEF Loop!Judge
    <3> QED
      BY <3>3 DEF Loop!Next
  <2>2. ASSUME Return
        PROVE  Loop!Next
    <3>1. phase = "finish" /\ phase' = "returned" /\ Scores' = Scores
      BY <2>2 DEF Return, Scores
    <3>2. PICK i \in 1..Len(Scores) : /\ i = best.plan.rev /\ Loop!IsBest(i, Scores)
                                      /\ returned'.rev = i
      BY <2>2, ReturnStep, ScoresAreScores DEF IInv, TypeOK
    <3>3. Loop!Choose(i)
      BY <3>1, <3>2 DEF Loop!Choose
    <3> QED
      BY <3>2, <3>3 DEF Loop!Next
  <2>3. ASSUME \/ SkipResearch
               \/ \E claimed \in SUBSET Facts, sources \in Ledgers \cup {NoLedger} :
                    Research(claimed, sources)
               \/ \E stored \in SUBSET Memory : FetchMemory(stored)
               \/ \E cast \in Cast, unasked \in Unasked :
                    PlanOutline(PlanOf(cast, unasked))
               \/ \E transient \in BOOLEAN : TaskFails(transient)
               \/ UNCHANGED vars
        PROVE  UNCHANGED Loop!vars
    <3>1. /\ UNCHANGED <<judged, returned>>
          /\ (phase = "returned") = (phase' = "returned")
      BY <2>3 DEF SkipResearch, Research, FetchMemory, PlanOutline, TaskFails,
                  AfterFailedResearch, vars
    <3> QED
      BY <3>1 DEF Loop!vars, Scores
  <2> QED
    BY <2>1, <2>2, <2>3 DEF Next
<1> QED
  BY <1>1, <1>2, Invariance, PTL DEF Spec, ReturnsBestPlan, Loop!Spec

-----------------------------------------------------------------------------
(* Grounding.                                                              *)

\* What the plan's record must say of one fact, by what vouches for it.
OnRecord(f) ==
  IF f.cites \in WebId
    THEN /\ ledger # NoLedger /\ f.cites \in DOMAIN ledger
         /\ ledger[f.cites].verified
         /\ f.source = ledger[f.cites].source
    ELSE /\ f.cites \in DOMAIN Store
         /\ Store[f.cites].kind = "fact"
         /\ f.source = Store[f.cites].source

GroundingOnRecord ==
  /\ phase = "research" => grounding = NoGrounding
  /\ grounding # NoGrounding => \A f \in grounding : OnRecord(f)

\* What is left of the agent's claims is what the store and the ledger vouch for.
LEMMA DroppedIsOnRecord ==
  ASSUME NEW claimed \in SUBSET Facts, NEW sources, ledger' = sources,
         NEW f \in DropUnprovenanced(claimed, Store, sources)
  PROVE  OnRecord(f)'
<1>1. PICK g \in claimed :
        /\ Vouched(g, Store, sources)
        /\ f = [g EXCEPT !.source = SourceOnRecord(g, Store, sources)]
  BY DEF DropUnprovenanced
<1>2. g = [cites |-> g.cites, source |-> g.source]
  BY FactsAssumption
<1>3. f.cites = g.cites /\ f.source = SourceOnRecord(g, Store, sources)
  BY <1>1, <1>2
<1> QED
  BY <1>1, <1>3 DEF OnRecord, Vouched, VouchedByWeb, VouchedByStore, SourceOnRecord

LEMMA GroundingNext == GroundingOnRecord /\ [Next]_vars => GroundingOnRecord'
<1> SUFFICES ASSUME GroundingOnRecord, [Next]_vars PROVE GroundingOnRecord'
  OBVIOUS
<1>1. ASSUME NEW claimed \in SUBSET Facts, NEW sources, Research(claimed, sources)
      PROVE  GroundingOnRecord'
  <2>1. /\ phase' = "memory" /\ ledger' = sources
        /\ grounding' = DropUnprovenanced(claimed, Store, sources)
    BY <1>1 DEF Research
  <2> QED
    BY <2>1, DroppedIsOnRecord DEF GroundingOnRecord
<1>2. ASSUME \/ SkipResearch
             \/ \E stored \in SUBSET Memory : FetchMemory(stored)
             \/ \E cast \in Cast, unasked \in Unasked :
                  PlanOutline(PlanOf(cast, unasked))
             \/ \E answer \in CriticAnswer : CritiqueOutline(answer)
             \/ \E transient \in BOOLEAN : TaskFails(transient)
             \/ Return \/ UNCHANGED vars
      PROVE  GroundingOnRecord'
  <2>1. UNCHANGED <<ledger, grounding>> /\ (phase' = "research" => phase = "research")
    BY <1>2 DEF SkipResearch, FetchMemory, PlanOutline, CritiqueOutline, TaskFails,
                AfterFailedResearch, Return, vars
  <2> QED
    BY <2>1 DEF GroundingOnRecord, OnRecord
<1> QED
  BY <1>1, <1>2 DEF Next

\* Whatever the agent claimed and the planner wrote, a plan made after
\* research returned carries only facts its corpus or its ledger vouches for,
\* under the source recorded there.
THEOREM GroundingIsVouched == Spec => []ResearchedGroundingIsVouched
<1>1. Init => GroundingOnRecord
  BY DEF Init, GroundingOnRecord
<1>2. IInv /\ GroundingOnRecord => ResearchedGroundingIsVouched
  <2> SUFFICES ASSUME IInv, GroundingOnRecord, phase = "returned", grounding # NoGrounding,
                      NEW f \in returned.grounding
               PROVE  OnRecord(f)
    BY DEF ResearchedGroundingIsVouched, OnRecord
  <2> QED
    BY DEF IInv, ReturnedIsBest, GroundingOnRecord
<1> QED
  BY <1>1, <1>2, GroundingNext, Invariance, PTL DEF Spec

-----------------------------------------------------------------------------
(* How long a run may be.  That it ends is checked (Terminates); this is   *)
(* the half of it that needs no fairness: every step uses up something     *)
(* there is a fixed amount of.                                             *)

\* Calls of tasks that are still to succeed, a revision being two.
TasksLeft ==
  CASE phase = "research" -> 2 * (MaxOutlineRevisions + 1) + 1
    [] phase = "memory" -> 2 * (MaxOutlineRevisions + 1)
    [] phase = "plan" -> 2 * (MaxOutlineRevisions + 1 - planned)
    [] phase = "critique" -> 2 * (MaxOutlineRevisions + 1 - planned) + 1
    [] OTHER -> 0

AttemptsLeft == IF TasksLeft = 0 THEN 0 ELSE MaxAttempts * TasksLeft - attempt

\* The statements around the tasks.
StatementsLeft ==
  CASE phase \in {"research", "memory"} -> 2
    [] phase \in {"plan", "critique", "finish"} -> 1
    [] OTHER -> 0

StepsLeft == AttemptsLeft + StatementsLeft

\* A task less is worth every attempt at it.
LEMMA TaskIsAttempts ==
  ASSUME NEW m \in Nat, NEW n \in Nat, n < m
  PROVE  /\ MaxAttempts * n \in Nat /\ MaxAttempts * m \in Nat
         /\ MaxAttempts * n + MaxAttempts <= MaxAttempts * m
<1>1. MaxAttempts \in Nat
  BY MaxAttemptsAssumption
<1>2. PICK k \in Nat : m = n + 1 + k
  <2>1. m - (n + 1) \in Nat /\ m = n + 1 + (m - (n + 1))
    OBVIOUS
  <2> QED
    BY <2>1
<1>3. MaxAttempts * m = MaxAttempts * n + MaxAttempts + MaxAttempts * k
  BY <1>1, <1>2
<1>4. PICK x \in Nat, y \in Nat : x = MaxAttempts * n /\ y = MaxAttempts * k
  BY <1>1
<1>5. MaxAttempts * m = x + MaxAttempts + y
  BY <1>3, <1>4
<1> QED
  BY <1>1, <1>4, <1>5

\* The sums of what is left fall when one part does and the other does not rise.
LEMMA AttemptsFall ==
  ASSUME NEW x \in Nat, NEW y \in Nat, NEW m \in Nat, NEW n \in Nat,
         NEW done \in Nat, done < MaxAttempts, m + MaxAttempts <= n,
         x = n - done, y <= m
  PROVE  y < x
BY MaxAttemptsAssumption

LEMMA SumFalls ==
  ASSUME NEW a \in Nat, NEW b \in Nat, NEW c \in Nat, NEW d \in Nat,
         \/ c < a /\ d <= b
         \/ c <= a /\ d < b
  PROVE  c + d < a + b
OBVIOUS

WellCounted ==
  /\ TasksLeft \in Nat
  /\ phase \in {"research", "memory", "plan", "critique"} => TasksLeft > 0
  /\ TasksLeft > 0 => /\ MaxAttempts * TasksLeft \in Nat /\ attempt < MaxAttempts * TasksLeft
                      /\ AttemptsLeft = MaxAttempts * TasksLeft - attempt
  /\ AttemptsLeft \in Nat /\ StatementsLeft \in Nat /\ StepsLeft \in Nat
  /\ StepsLeft = 0 => Finished

LEMMA StepsAreCounted == IInv => WellCounted
<1> SUFFICES ASSUME IInv PROVE WellCounted
  OBVIOUS
<1>1. /\ MaxOutlineRevisions \in Nat /\ MaxAttempts \in Nat \ {0}
      /\ phase \in {"research", "memory", "plan", "critique", "finish", "returned", "failed"}
      /\ attempt \in Nat /\ attempt < MaxAttempts /\ planned \in Nat
      /\ planned <= MaxOutlineRevisions + 1
      /\ phase = "plan" => planned <= MaxOutlineRevisions
  BY MaxOutlineRevisionsAssumption, MaxAttemptsAssumption DEF IInv, TypeOK, LoopPosition
<1>2. /\ TasksLeft \in Nat
      /\ phase \in {"research", "memory", "plan", "critique"} => TasksLeft > 0
  BY <1>1 DEF TasksLeft
<1>3. TasksLeft > 0 => MaxAttempts * TasksLeft \in Nat /\ MaxAttempts <= MaxAttempts * TasksLeft
  <2>1. TasksLeft > 0 => /\ MaxAttempts * 0 \in Nat /\ MaxAttempts * TasksLeft \in Nat
                         /\ MaxAttempts * 0 + MaxAttempts <= MaxAttempts * TasksLeft
    BY <1>2, TaskIsAttempts
  <2> QED
    BY <1>1, <2>1
<1>4. /\ AttemptsLeft \in Nat /\ (TasksLeft > 0 => AttemptsLeft > 0)
      /\ TasksLeft > 0 => AttemptsLeft = MaxAttempts * TasksLeft - attempt
  BY <1>1, <1>2, <1>3 DEF AttemptsLeft
<1>5. /\ StatementsLeft \in Nat
      /\ StatementsLeft = 0 => Finished
  BY <1>1 DEF StatementsLeft, Finished
<1> QED
  BY <1>1, <1>2, <1>3, <1>4, <1>5 DEF WellCounted, StepsLeft

LEMMA StepIsCounted ==
  ASSUME IInv, IInv', Next
  PROVE  StepsLeft' < StepsLeft
<1>1. /\ MaxOutlineRevisions \in Nat /\ MaxAttempts \in Nat \ {0}
      /\ attempt \in Nat /\ attempt < MaxAttempts /\ attempt' \in Nat /\ attempt' < MaxAttempts
      /\ planned \in Nat /\ planned' \in Nat
  BY MaxOutlineRevisionsAssumption, MaxAttemptsAssumption DEF IInv, TypeOK
<1>2. WellCounted /\ WellCounted'
  BY StepsAreCounted, PTL
<1>3. /\ TasksLeft \in Nat /\ AttemptsLeft \in Nat /\ StatementsLeft \in Nat
      /\ TasksLeft' \in Nat /\ AttemptsLeft' \in Nat /\ StatementsLeft' \in Nat
      /\ AttemptsLeft = IF TasksLeft = 0 THEN 0 ELSE MaxAttempts * TasksLeft - attempt
      /\ AttemptsLeft' = IF TasksLeft' = 0 THEN 0 ELSE MaxAttempts * TasksLeft' - attempt'
  BY <1>2 DEF WellCounted, AttemptsLeft
<1>4. CASE TasksLeft' < TasksLeft /\ attempt' = 0 /\ StatementsLeft' <= StatementsLeft
  \* A task succeeded, or the run is past them.
  <2>1. /\ MaxAttempts * TasksLeft' \in Nat /\ MaxAttempts * TasksLeft \in Nat
        /\ MaxAttempts * TasksLeft' + MaxAttempts <= MaxAttempts * TasksLeft
    BY <1>3, <1>4, TaskIsAttempts
  <2>2. PICK m \in Nat, n \in Nat : m = MaxAttempts * TasksLeft' /\ n = MaxAttempts * TasksLeft
    BY <2>1
  <2>3. m + MaxAttempts <= n /\ AttemptsLeft = n - attempt
    BY <1>3, <1>4, <2>1, <2>2
  <2>4. AttemptsLeft' <= m
    BY <1>3, <1>4, <2>1, <2>2
  <2>5. AttemptsLeft' < AttemptsLeft
    BY <1>1, <1>3, <2>3, <2>4, AttemptsFall, Zenon
  <2> QED
    BY <1>3, <1>4, <2>5, SumFalls, Zenon DEF StepsLeft
<1>5. CASE TasksLeft' = TasksLeft /\ attempt' = attempt /\ StatementsLeft' < StatementsLeft
  <2>1. AttemptsLeft' = AttemptsLeft
    BY <1>5, Zenon DEF AttemptsLeft
  <2>2. AttemptsLeft' <= AttemptsLeft
    BY <1>3, <2>1
  <2> QED
    BY <1>3, <1>5, <2>2, SumFalls, Zenon DEF StepsLeft
<1>6. CASE TasksLeft' = TasksLeft /\ TasksLeft > 0 /\ attempt' = attempt + 1
           /\ StatementsLeft' = StatementsLeft
  <2>1. PICK n \in Nat : n = MaxAttempts * TasksLeft
    BY <1>2, <1>6 DEF WellCounted
  <2> QED
    BY <1>1, <1>3, <1>6, <2>1 DEF StepsLeft
<1>7. CASE phase \notin {"failed", "returned"} /\ phase' = "failed"
  <2>1. StepsLeft' = 0
    BY <1>7 DEF StepsLeft, AttemptsLeft, TasksLeft, StatementsLeft
  <2>2. StepsLeft \in Nat /\ StepsLeft # 0
    BY <1>2, <1>7 DEF WellCounted, Finished
  <2> QED
    BY <2>1, <2>2
<1>8. CASE phase = "research" /\ phase' = "memory" /\ attempt' = 0
  BY <1>1, <1>4, <1>8 DEF TasksLeft, StatementsLeft
<1>9. ASSUME NEW stored \in SUBSET Memory, FetchMemory(stored) PROVE StepsLeft' < StepsLeft
  <2>1. phase = "memory" /\ phase' = "plan" /\ planned' = planned /\ attempt' = attempt
    BY <1>9 DEF FetchMemory
  <2>2. planned = 0
    BY <2>1 DEF IInv, LoopPosition
  <2> QED
    BY <1>1, <1>5, <2>1, <2>2 DEF TasksLeft, StatementsLeft
<1>10. ASSUME NEW answer, PlanOutline(answer) PROVE StepsLeft' < StepsLeft
  <2>1. /\ TasksLeft = 2 * (MaxOutlineRevisions + 1 - planned)
        /\ TasksLeft' = 2 * (MaxOutlineRevisions + 1 - (planned + 1)) + 1
    BY <1>10 DEF PlanOutline, TasksLeft
  <2> QED
    BY <1>1, <1>4, <1>10, <2>1 DEF PlanOutline, StatementsLeft
<1>11. ASSUME NEW answer \in CriticAnswer, CritiqueOutline(answer) PROVE StepsLeft' < StepsLeft
  <2>1. phase = "critique" /\ phase' \in {"finish", "plan"} /\ attempt' = 0 /\ planned' = planned
    BY <1>11 DEF CritiqueOutline
  <2>2. TasksLeft = 2 * (MaxOutlineRevisions + 1 - planned) + 1
    BY <2>1 DEF TasksLeft
  <2>3. TasksLeft' < TasksLeft
    <3>1. CASE phase' = "plan"
      BY <1>1, <2>1, <2>2, <3>1 DEF TasksLeft
    <3>2. CASE phase' = "finish"
      <4>1. TasksLeft' = 0
        BY <3>2 DEF TasksLeft
      <4> QED
        BY <1>2, <2>1, <4>1 DEF WellCounted
    <3> QED
      BY <2>1, <3>1, <3>2
  <2> QED
    BY <1>4, <2>1, <2>3 DEF StatementsLeft
<1>12. ASSUME NEW transient \in BOOLEAN, TaskFails(transient) PROVE StepsLeft' < StepsLeft
  <2>1. CASE Retries(transient)
    <3>1. /\ UNCHANGED <<phase, planned>> /\ attempt' = attempt + 1
          /\ phase \in {"research", "plan", "critique"}
      BY <1>12, <2>1 DEF TaskFails
    <3>2. TasksLeft' = TasksLeft /\ StatementsLeft' = StatementsLeft
      BY <3>1 DEF TasksLeft, StatementsLeft
    <3> QED
      BY <1>2, <1>6, <3>1, <3>2 DEF WellCounted
  <2>2. CASE ~ Retries(transient)
    BY <1>7, <1>8, <1>12, <2>2 DEF TaskFails, AfterFailedResearch
  <2> QED
    BY <2>1, <2>2
<1>13. CASE Return
  <2>1. attempt' = attempt /\ StatementsLeft' < StatementsLeft
    BY <1>13 DEF Return, StatementsLeft
  <2>2. TasksLeft' = TasksLeft
    BY <1>13 DEF Return, TasksLeft
  <2> QED
    BY <1>5, <2>1, <2>2
<1>14. CASE SkipResearch
  BY <1>8, <1>14 DEF SkipResearch
<1>15. ASSUME NEW claimed, NEW sources, Research(claimed, sources) PROVE StepsLeft' < StepsLeft
  BY <1>8, <1>15 DEF Research
<1> QED
  BY <1>9, <1>10, <1>11, <1>12, <1>13, <1>14, <1>15 DEF Next

\* Whatever is retried and revised, planning a book is over after max_attempts
\* attempts at the research and at each of the plans and critiques its settings
\* allow, and two statements more.
THEOREM RunsAreShort ==
  Spec => /\ StepsLeft = MaxAttempts * (2 * (MaxOutlineRevisions + 1) + 1) + 2
          /\ [](StepsLeft \in Nat /\ (StepsLeft = 0 => Finished))
          /\ [][StepsLeft' < StepsLeft]_vars
<1>1. Init => StepsLeft = MaxAttempts * (2 * (MaxOutlineRevisions + 1) + 1) + 2
  <2> SUFFICES ASSUME Init PROVE StepsLeft = MaxAttempts * (2 * (MaxOutlineRevisions + 1) + 1) + 2
    OBVIOUS
  <2>1. TasksLeft = 2 * (MaxOutlineRevisions + 1) + 1 /\ StatementsLeft = 2 /\ attempt = 0
    BY DEF Init, TasksLeft, StatementsLeft
  <2>2. AttemptsLeft = MaxAttempts * TasksLeft - attempt /\ MaxAttempts * TasksLeft \in Nat
    BY <2>1, InitInv, StepsAreCounted DEF WellCounted, Init
  <2> QED
    BY <2>1, <2>2 DEF StepsLeft
<1>2. IInv => StepsLeft \in Nat /\ (StepsLeft = 0 => Finished)
  BY StepsAreCounted DEF WellCounted
<1>3. IInv /\ IInv' /\ [Next]_vars => [StepsLeft' < StepsLeft]_vars
  BY StepIsCounted
<1> QED
  BY <1>1, <1>2, <1>3, Invariance, PTL DEF Spec
=============================================================================
