--------------------------- MODULE OutlineWorkflow ---------------------------
(***************************************************************************)
(* Planning one book (workflows/plan_outline.py): research what the story  *)
(* must not get wrong, read what earlier books of this child established,  *)
(* plan, then critique and revise until a critique is empty or the         *)
(* revisions are used up, and hand the best plan to a parent with its      *)
(* grounding and the memories it disagrees with.                           *)
(*                                                                         *)
(* Research and memory fail open, planning and critique do not.  A plan is *)
(* the number of the call that made it, how it describes its characters,   *)
(* and the two fields of its schema that the planner is asked to leave out.*)
(***************************************************************************)
EXTENDS Naturals, Sequences, FiniteSets

CONSTANTS
  MaxAttempts,          \* RETRY_POLICY.max_attempts
  MaxOutlineRevisions,  \* MAX_OUTLINE_REVISIONS
  MaxReviews,           \* the most findings a critic's answer may hold
  BeatCount,            \* beats of a plan; findings can cite others
  Comment,              \* what a finding may say
  Character, Look,      \* names, and what may be said of a character
  Facts,                \* what the research agent or the planner may claim
  Ledgers,              \* what a run's web ledger may have recorded
  Unasked,              \* what a planner may put in the fields it should leave
  Store,                \* the chunks the corpus really has
  WebId, NoLedger,      \* see Provenance
  NoGrounding,          \* None: research never ran, or did not return
  NoPlan                \* nothing has been returned yet

ASSUME MaxAttemptsAssumption == MaxAttempts \in Nat \ {0}
ASSUME MaxOutlineRevisionsAssumption == MaxOutlineRevisions \in Nat
ASSUME MaxReviewsAssumption == MaxReviews \in Nat
ASSUME BeatCountAssumption == BeatCount \in Nat \ {0}
ASSUME FactsAssumption == \A f \in Facts : f = [cites |-> f.cites, source |-> f.source]
ASSUME UnaskedAssumption ==
  \A u \in Unasked : u = [grounding |-> u.grounding, conflicts |-> u.conflicts]

VARIABLES
  phase,       \* the statement the workflow is at
  attempt,     \* failed attempts of the task in flight
  ledger,      \* the web ledger of the research attempt that returned
  grounding,   \* what research returned
  remembered,  \* what memory holds of the characters: [subject, text]
  planned,     \* how many plans have been made
  outline,     \* the plan being worked on
  best,        \* best_outline with its reviews
  judged,      \* the critiques so far, in order
  returned,    \* the plan the workflow returned
  briefings    \* history: the grounding and memory each plan was made from

vars == <<phase, attempt, ledger, grounding, remembered, planned, outline,
          best, judged, returned, briefings>>

INSTANCE Provenance

-----------------------------------------------------------------------------
(* Plans, memories and reviews.                                            *)

Memory == [subject : Character, text : Look]

\* The characters of a plan and how it describes them; at least one.
Cast == UNION {[names -> Look] : names \in (SUBSET Character) \ {{}}}

Plan == [rev : 1..(MaxOutlineRevisions + 1), cast : Cast,
         grounding : {u.grounding : u \in Unasked},
         conflicts : {u.conflicts : u \in Unasked}]

ASSUME NoPlanAssumption == NoPlan \notin Plan

\* A planner's answer, numbered by the call that made it.
PlanOf(cast, unasked) ==
  [rev |-> planned + 1, cast |-> cast,
   grounding |-> unasked.grounding, conflicts |-> unasked.conflicts]

WholeStory == 0                 \* beat_position is None
NoSuchBeat == BeatCount + 1     \* stands for every beat the plan lacks
Finding == [beat : 0..NoSuchBeat, comment : Comment]

AtMost(n, reviewed) == IsFiniteSet(reviewed) /\ Cardinality(reviewed) <= n
CriticAnswer == {answer \in SUBSET Finding : AtMost(MaxReviews, answer)}

\* drop_unroutable_outline_reviews
Routable(answer) == {r \in answer : r.beat # NoSuchBeat}

\* draft_score: no outline rubric is a safety rubric, so only the count tells.
DraftScore(found) == <<0, Cardinality(found)>>

\* A mutant: a later plan wins a tie.
Better_OrAsGood(s, t) == s[1] < t[1] \/ (s[1] = t[1] /\ s[2] <= t[2])

Better(s, t) == \/ s[1] < t[1]
                \/ s[1] = t[1] /\ s[2] < t[2]

\* find_conflicts: every stored description that differs from the plan's.
FindConflicts(cast, stored) ==
  {[subject |-> m.subject, stored |-> m.text, new |-> cast[m.subject]] :
     m \in {n \in stored : n.subject \in DOMAIN cast /\ n.text # cast[n.subject]}}

-----------------------------------------------------------------------------
(* Enrichment.                                                             *)

Init ==
  /\ phase = "research"
  /\ attempt = 0
  /\ ledger = NoLedger
  /\ grounding = NoGrounding
  /\ remembered = {}
  /\ planned = 0
  /\ outline = NoPlan
  /\ best = [plan |-> NoPlan, found |-> {}]
  /\ judged = <<>>
  /\ returned = NoPlan
  /\ briefings = {}

\* MAX_RESEARCH_STEPS is 0.
SkipResearch ==
  /\ phase = "research" /\ attempt = 0
  /\ phase' = "memory"
  /\ UNCHANGED <<attempt, ledger, grounding, remembered, planned, outline,
                 best, judged, returned, briefings>>

\* The agent claims what it likes; what nothing vouches for is dropped.  Each
\* attempt has a ledger of its own.
Research(claimed, sources) ==
  /\ phase = "research"
  /\ phase' = "memory"
  /\ attempt' = 0
  /\ ledger' = sources
  /\ grounding' = DropUnprovenanced(claimed, Store, sources)
  /\ UNCHANGED <<remembered, planned, outline, best, judged, returned, briefings>>

\* A mutant: the except clause of outline_workflow is missing.
AfterFailedResearch_Raises == "failed"

\* Research that fails for good is logged and costs the facts, not the book.
AfterFailedResearch == "memory"

\* fetch_memory: nothing for a child without an id, or without a database.
FetchMemory(stored) ==
  /\ phase = "memory"
  /\ phase' = "plan"
  /\ remembered' = stored
  /\ UNCHANGED <<attempt, ledger, grounding, planned, outline, best, judged,
                 returned, briefings>>

-----------------------------------------------------------------------------
(* The loop.                                                               *)

\* A mutant: a revision is made from the reviews alone.
Briefing_FirstOnly ==
  IF planned = 0 THEN <<grounding, remembered>> ELSE <<NoGrounding, remembered>>

\* What the planner is told, for a revision as for the first plan.
Briefing == <<grounding, remembered>>

PlanOutline(answer) ==
  /\ phase = "plan"
  /\ phase' = "critique"
  /\ attempt' = 0
  /\ planned' = planned + 1
  /\ outline' = answer
  /\ briefings' = briefings \cup {Briefing}
  /\ UNCHANGED <<ledger, grounding, remembered, best, judged, returned>>

\* attempt == settings.max_outline_revisions
Exhausted == Len(judged) = MaxOutlineRevisions

CritiqueOutline(answer) ==
  LET found == Routable(answer) IN
  /\ phase = "critique"
  /\ phase' = IF found = {} \/ Exhausted THEN "finish" ELSE "plan"
  /\ attempt' = 0
  /\ judged' = Append(judged, found)
  /\ best' = IF best.plan = NoPlan \/ Better(DraftScore(found), DraftScore(best.found))
               THEN [plan |-> outline, found |-> found]
               ELSE best
  /\ UNCHANGED <<ledger, grounding, remembered, planned, outline, returned, briefings>>

Retries(transient) == transient /\ attempt + 1 < MaxAttempts

\* A mutant: the count of attempts starts over.
TaskFails_ForgetsAttempts(transient) ==
  /\ phase \in {"research", "plan", "critique"}
  /\ attempt' = (attempt + 1) % MaxAttempts
  /\ UNCHANGED <<phase, ledger, grounding, remembered, planned, outline, best,
                 judged, returned, briefings>>

\* An attempt of the task in flight fails; a plan with more beats than the
\* book has pages is one way, and is not retried.
TaskFails(transient) ==
  /\ phase \in {"research", "plan", "critique"}
  /\ IF Retries(transient)
       THEN attempt' = attempt + 1 /\ UNCHANGED phase
       ELSE /\ attempt' = 0
            /\ phase' = IF phase = "research" THEN AfterFailedResearch ELSE "failed"
  /\ UNCHANGED <<ledger, grounding, remembered, planned, outline, best, judged,
                 returned, briefings>>

\* A mutant: the plan in hand, not the one that won.
PlanReturned_Last == outline

PlanReturned == best.plan

\* Grounding and conflicts are attached to the plan that won, each only when
\* there is one to attach: what the planner put there is otherwise kept.
Return ==
  LET conflicts == FindConflicts(best.plan.cast, remembered) IN
  /\ phase = "finish"
  /\ phase' = "returned"
  /\ returned' =
       [PlanReturned EXCEPT
          !.grounding = IF grounding # NoGrounding THEN grounding ELSE @,
          !.conflicts = IF conflicts # {} THEN conflicts ELSE @]
  /\ UNCHANGED <<attempt, ledger, grounding, remembered, planned, outline, best,
                 judged, briefings>>

Next ==
  \/ SkipResearch
  \/ \E claimed \in SUBSET Facts, sources \in Ledgers \cup {NoLedger} :
       Research(claimed, sources)
  \/ \E stored \in SUBSET Memory : FetchMemory(stored)
  \/ \E cast \in Cast, unasked \in Unasked : PlanOutline(PlanOf(cast, unasked))
  \/ \E answer \in CriticAnswer : CritiqueOutline(answer)
  \/ \E transient \in BOOLEAN : TaskFails(transient)
  \/ Return

Finished == phase \in {"returned", "failed"}

\* Every call returns or raises; the parent is asked only afterwards.
Spec == Init /\ [][Next]_vars /\ WF_vars(Next)

-----------------------------------------------------------------------------
(* Correctness.                                                            *)

\* A run's variables stay in range, and its plans keep their schema.
TypeOK ==
  /\ phase \in {"research", "memory", "plan", "critique", "finish", "returned", "failed"}
  /\ attempt \in 0..(MaxAttempts - 1)
  /\ ledger \in Ledgers \cup {NoLedger}
  /\ grounding = NoGrounding \/ \A f \in grounding : \E g \in Facts : f.cites = g.cites
  /\ remembered \subseteq Memory
  /\ planned \in 0..(MaxOutlineRevisions + 1)
  /\ outline \in Plan \cup {NoPlan}
  /\ best \in [plan : Plan \cup {NoPlan}, found : CriticAnswer]
  /\ judged \in Seq(CriticAnswer)
  /\ \/ returned = NoPlan
     \/ returned.rev \in 1..planned /\ returned.cast \in Cast

\* When research returned, the plan a parent sees is grounded in exactly what
\* its corpus and its ledger vouch for, under the sources they record,
\* whatever the agent and the planner claimed.
ResearchedGroundingIsVouched ==
  phase = "returned" /\ grounding # NoGrounding =>
    \A f \in returned.grounding :
      IF f.cites \in WebId
        THEN /\ ledger # NoLedger /\ f.cites \in DOMAIN ledger
             /\ ledger[f.cites].verified
             /\ f.source = ledger[f.cites].source
        ELSE /\ f.cites \in DOMAIN Store
             /\ Store[f.cites].kind = "fact"
             /\ f.source = Store[f.cites].source

\* No revision is made without the constraints the first plan had.
EveryPlanIsBriefed ==
  /\ Cardinality(briefings) <= 1
  /\ phase = "returned" => briefings = {<<grounding, remembered>>}

\* A parent is told of every memory the returned plan disagrees with, in the
\* words of that plan and not of one the loop threw away.
ConflictsAreReported ==
  phase = "returned" => FindConflicts(returned.cast, remembered) \subseteq returned.conflicts

\* Enrichment fails open: however research fails, at once or in its last attempt,
\* and whatever memory answers, only the planning loop ends a run without a plan.
EnrichmentFailsOpen ==
  [][phase' = "failed" => phase \in {"failed", "plan", "critique"}]_vars

\* Whatever fails, however often, planning ends.
Terminates == <>Finished

Scores == [i \in 1..Len(judged) |-> DraftScore(judged[i])]

Loop == INSTANCE BestDraft WITH MaxFindings <- MaxReviews,
                                judged <- Scores,
                                chosen <- IF phase = "returned" THEN returned.rev ELSE 0

\* The workflow returns the earliest of the best plans it judged, or none.
ReturnsBestPlan == Loop!Spec
=============================================================================
