---------------------------- MODULE StoryWorkflow ----------------------------
(***************************************************************************)
(* Writing one book (workflows/write_story.py): check the caller's         *)
(* outline, re-verify its grounding, plan the pages, then write and        *)
(* critique the prose until a critique is empty or the rewrites are used   *)
(* up, return the best draft unless a safety finding still stands against  *)
(* it, and last of all remember what the book established.                 *)
(*                                                                         *)
(* Every call of a model is a langgraph task retried under RETRY_POLICY.   *)
(* A draft is the number of the write that produced it and whether its     *)
(* pages open alike; a review is its rubric, the page it cites and what    *)
(* it says.                                                                *)
(***************************************************************************)
EXTENDS Naturals, Sequences, FiniteSets

CONSTANTS
  MaxAttempts,        \* RETRY_POLICY.max_attempts: how often a task is tried
  MaxProseRevisions,  \* MAX_PROSE_REVISIONS
  MaxReviews,         \* the most findings a critic's answer may hold
  PageCount,          \* pages of the book; findings can cite others
  Comment,            \* what a finding may say, so that two can cite one page
  Facts,              \* what the caller's grounding may hold
  Store,              \* the chunks the corpus really has
  WebId, NoLedger,    \* see Provenance
  NoGrounding         \* the outline carries none: research never ran

ASSUME MaxAttemptsAssumption == MaxAttempts \in Nat \ {0}
ASSUME MaxProseRevisionsAssumption == MaxProseRevisions \in Nat
ASSUME MaxReviewsAssumption == MaxReviews \in Nat
ASSUME PageCountAssumption == PageCount \in Nat \ {0}
ASSUME FactsAssumption == \A f \in Facts : f = [cites |-> f.cites, source |-> f.source]

VARIABLES
  phase,       \* the statement the workflow is at
  attempt,     \* failed attempts of the task in flight
  grounding,   \* outline.grounding
  written,     \* how many drafts have been written
  prose,       \* the draft being worked on
  reviews,     \* the last critique of it
  best,        \* best_prose with best_reviews
  judged,      \* every critique so far, as [raw, kept] in order
  memory       \* "none", "saved" or "lost": what remember_story left behind

vars == <<phase, attempt, grounding, written, prose, reviews, best, judged,
          memory>>

INSTANCE Provenance

-----------------------------------------------------------------------------
(* Reviews.                                                                *)

WholeBook == 0                   \* page_number is None
Page == 1..PageCount             \* the pages of the plan
NoSuchPage == PageCount + 1      \* stands for every page the book lacks

\* A critic judges safety and craft; the counted finding is no critic's.
Finding == [rubric : {"safety", "craft"}, page : Page \cup {WholeBook, NoSuchPage},
            comment : Comment]
RepeatedOpening == [rubric |-> "counted", page |-> WholeBook,
                    comment |-> "the pages open alike"]

AtMost(n, reviewed) == IsFiniteSet(reviewed) /\ Cardinality(reviewed) <= n

CriticAnswer == {answer \in SUBSET Finding : AtMost(MaxReviews, answer)}

\* drop_unroutable_prose_reviews
Routable(answer) == {r \in answer : r.page \in Page \cup {WholeBook}}

\* deterministic_prose_reviews
Counted(draft) == IF draft.drones THEN {RepeatedOpening} ELSE {}

Unsafe(found) == \E r \in found : r.rubric = "safety"

\* A mutant: safety does not dominate.
DraftScore_CountOnly(found) == <<0, Cardinality(found)>>

\* draft_score: Python compares the pair lexicographically.
DraftScore(found) == <<IF Unsafe(found) THEN 1 ELSE 0, Cardinality(found)>>

\* A mutant: a later draft wins a tie.
Better_OrAsGood(s, t) == s[1] < t[1] \/ (s[1] = t[1] /\ s[2] <= t[2])

Better(s, t) == \/ s[1] < t[1]
                \/ s[1] = t[1] /\ s[2] < t[2]

NoDraft == [rev |-> 0, drones |-> FALSE]
Draft == [rev : 1..(MaxProseRevisions + 1), drones : BOOLEAN]
KeptReviews ==
  {found \in SUBSET (Finding \cup {RepeatedOpening}) : AtMost(MaxReviews + 1, found)}

-----------------------------------------------------------------------------
(* The run.                                                                *)

Init ==
  /\ phase = "validate"
  /\ attempt = 0
  /\ grounding \in {NoGrounding} \cup SUBSET Facts
  /\ written = 0
  /\ prose = NoDraft
  /\ reviews = {}
  /\ best = [draft |-> NoDraft, found |-> {}]
  /\ judged = <<>>
  /\ memory = "none"

\* validate_outline raises, or lets the run go on.
ValidateOutline ==
  /\ phase = "validate"
  /\ phase' \in {"verify", "failed"}
  /\ UNCHANGED <<attempt, grounding, written, prose, reviews, best, judged, memory>>

\* The caller's facts are looked up again, with no ledger to vouch for the
\* web; without a database there is nothing to look them up in.
VerifyGrounding ==
  /\ phase = "verify"
  /\ \/ /\ grounding = NoGrounding
        /\ phase' = "plan"
        /\ UNCHANGED grounding
     \/ /\ grounding # NoGrounding
        /\ phase' = "plan"
        /\ grounding' = DropUnprovenanced(grounding, Store, NoLedger)
     \/ /\ grounding # NoGrounding
        /\ phase' = "failed"
        /\ UNCHANGED grounding
  /\ UNCHANGED <<attempt, written, prose, reviews, best, judged, memory>>

PlanPages ==
  /\ phase = "plan"
  /\ phase' = "write"
  /\ attempt' = 0
  /\ UNCHANGED <<grounding, written, prose, reviews, best, judged, memory>>

\* Every draft is judged before anything else is done with it.
AfterWriting == "critique"

\* The first draft, or a rewrite from `reviews`.
WriteProse(drones) ==
  /\ phase = "write"
  /\ phase' = AfterWriting
  /\ attempt' = 0
  /\ written' = written + 1
  /\ prose' = [rev |-> written + 1, drones |-> drones]
  /\ UNCHANGED <<grounding, reviews, best, judged, memory>>

\* The critique, and what the loop does with it before it awaits again.
CritiqueProse(answer) ==
  LET found == Routable(answer) \cup Counted(prose)
      first == best.draft = NoDraft
  IN
  /\ phase = "critique"
  /\ attempt' = 0
  /\ reviews' = found
  /\ judged' = Append(judged, [raw |-> answer, kept |-> found])
  /\ best' = IF first \/ Better(DraftScore(found), DraftScore(best.found))
               THEN [draft |-> prose, found |-> found]
               ELSE best
  /\ phase' = IF found = {} \/ Len(judged) = MaxProseRevisions
                THEN "gate" ELSE "write"
  /\ UNCHANGED <<grounding, written, prose, memory>>

\* A transient failure is retried while attempts are left; a structural or
\* configuration error is not.
Retries(transient) == transient /\ attempt + 1 < MaxAttempts

\* A mutant: the count of attempts starts over.
TaskFails_ForgetsAttempts(transient) ==
  /\ phase \in {"plan", "write", "critique"}
  /\ attempt' = (attempt + 1) % MaxAttempts
  /\ UNCHANGED <<phase, grounding, written, prose, reviews, best, judged, memory>>

\* An attempt of the task in flight fails.
TaskFails(transient) ==
  /\ phase \in {"plan", "write", "critique"}
  /\ IF Retries(transient)
       THEN attempt' = attempt + 1 /\ UNCHANGED phase
       ELSE attempt' = attempt /\ phase' = "failed"
  /\ UNCHANGED <<grounding, written, prose, reviews, best, judged, memory>>

\* A mutant: the last draft, as a loop that keeps none would return.
DraftReturned_Last == prose

DraftReturned == best.draft

\* The safety gate, on the reviews of the draft that won.
SafetyGate ==
  /\ phase = "gate"
  /\ phase' = IF Unsafe(best.found) THEN "unsafe" ELSE "remember"
  /\ prose' = DraftReturned
  /\ reviews' = best.found
  /\ UNCHANGED <<attempt, grounding, written, best, judged, memory>>

\* remember_story: skipped for a child without an id, and no failure of it
\* is a failure of the book.
RememberStory ==
  /\ phase = "remember"
  /\ phase' = "book"
  /\ memory' \in {"none", "saved", "lost"}
  /\ UNCHANGED <<attempt, grounding, written, prose, reviews, best, judged>>

Next ==
  \/ ValidateOutline
  \/ VerifyGrounding
  \/ PlanPages
  \/ \E drones \in BOOLEAN : WriteProse(drones)
  \/ \E answer \in CriticAnswer : CritiqueProse(answer)
  \/ \E transient \in BOOLEAN : TaskFails(transient)
  \/ SafetyGate
  \/ RememberStory

Finished == phase \in {"book", "unsafe", "failed"}

\* Nothing in a run waits for a person: every call returns or raises.
Spec == Init /\ [][Next]_vars /\ WF_vars(Next)

-----------------------------------------------------------------------------
(* Correctness.                                                            *)

Phase == {"validate", "verify", "plan", "write", "critique", "gate",
          "remember", "book", "unsafe", "failed"}

\* A run's variables stay in range: attempts, drafts and findings within budget.
TypeOK ==
  /\ phase \in Phase
  /\ attempt \in 0..(MaxAttempts - 1)
  /\ written \in 0..(MaxProseRevisions + 1)
  /\ prose \in Draft \cup {NoDraft}
  /\ reviews \in KeptReviews
  /\ best \in [draft : Draft \cup {NoDraft}, found : KeptReviews]
  /\ judged \in Seq([raw : CriticAnswer, kept : KeptReviews])
  /\ memory \in {"none", "saved", "lost"}

Returned == phase \in {"remember", "book"}

\* The draft a run returns was itself critiqued, and its own reviews -- not
\* those of an earlier or later draft -- hold no safety finding.
ReturnedDraftIsSafe ==
  Returned => /\ prose.rev \in 1..Len(judged)
              /\ ~ Unsafe(judged[prose.rev].kept)

\* UnsafeContentError is raised only when every rewrite the settings allow
\* was spent and a safety finding stood against every single draft.
UnsafeOnlyWhenAllDraftsAre ==
  phase = "unsafe" => /\ Len(judged) = MaxProseRevisions + 1
                      /\ \A i \in 1..Len(judged) : Unsafe(judged[i].kept)

\* The loop always ends on a critique: when the gate decides, no draft has
\* been written that nobody judged.
LoopEndsOnCritique ==
  phase \in {"gate", "remember", "book", "unsafe"} => Len(judged) = written

\* What a book is written from cites only chunks of the corpus that are
\* facts, under the source the corpus records, whatever the caller claimed.
GroundingResolves ==
  phase \notin {"validate", "verify", "failed"} /\ grounding # NoGrounding =>
    \A f \in grounding : /\ f.cites \in DOMAIN Store
                         /\ Store[f.cites].kind = "fact"
                         /\ Store[f.cites].source = f.source

\* Whatever fails, however often, a run ends.
Terminates == <>Finished

\* The scores given so far, and the draft the run has settled on, if any.
Scores == [i \in 1..Len(judged) |-> DraftScore(judged[i].kept)]

Loop == INSTANCE BestDraft WITH MaxFindings <- MaxReviews + 1,
                                judged <- Scores,
                                chosen <- IF Returned THEN best.draft.rev ELSE 0

\* The run returns the earliest of the best drafts it judged, or none.
ReturnsBestDraft == Loop!Spec

\* "still fails closed on a safety finding" (config.py:252): no critic's
\* safety finding against the returned draft goes unheeded.  The code drops
\* a finding that cites a page the book does not have before it is scored.
FailsClosedOnSafety ==
  Returned => ~ Unsafe(judged[prose.rev].raw)
=============================================================================
