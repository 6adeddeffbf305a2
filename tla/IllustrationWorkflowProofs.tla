--------------------- MODULE IllustrationWorkflowProofs ---------------------
(***************************************************************************)
(* Proofs about IllustrationWorkflow, for any book, cast and bounds.       *)
(*                                                                         *)
(* The dictionary of portraits and the records of portraits are kept       *)
(* apart, by different stages.  What the properties need is how they stay  *)
(* related: a name whose portrait was drawn is a reference unless a        *)
(* verdict against it is on record (Accounted), and never if one is        *)
(* (Rejected).                                                             *)
(***************************************************************************)
EXTENDS IllustrationWorkflow, TLAPS

BeforePages == phase \in {"direct", "draw_portraits", "check_portraits"}

\* From the plan's acceptance on, it fits the book.
Planned ==
  /\ phase = "direct" => portraits = <<>>
  /\ phase \notin {"direct", "failed"} => plan \in Plan /\ ValidPlan(plan)

\* How far the portraits and their checks have got.
Progress ==
  /\ phase = "draw_portraits" => Len(portraits) < Len(plan.characters)
  /\ phase \in {"check_portraits", "draw_pages", "check_pages", "returned"} =>
       Len(portraits) = Len(plan.characters)
  /\ phase \in {"direct", "draw_portraits"} => judged = 0
  /\ phase = "check_portraits" => judged < Len(portraits)
  /\ phase \in {"direct", "draw_portraits", "check_portraits"} =>
       \A i \in 1..Len(portraits) : i > judged => portraits[i].verdict = "none"

\* A name with a verdict against it is no reference.
Rejected ==
  \A i \in 1..Len(portraits) :
    portraits[i].verdict = "mismatch" => plan.characters[i] \notin references

\* A name with a portrait is a reference, or has a verdict against it.
Accounted ==
  \A i \in 1..Len(portraits) :
    portraits[i].status = "conditioned" =>
      \/ plan.characters[i] \in references
      \/ \E j \in 1..Len(portraits) : /\ plan.characters[j] = plan.characters[i]
                                      /\ portraits[j].verdict = "mismatch"

\* Pages are drawn from the references there are when the checks are over.
PagesFromReferences ==
  \A p \in Page :
    /\ BeforePages => pages[p].status = "waiting"
    /\ pages[p].status \in {"waiting", "drawing"} => pages[p].used = {}
    /\ pages[p].used \subseteq references
    /\ pages[p].status = "conditioned" => /\ pages[p].used = ReferencesOf(p)
                                          /\ pages[p].used # {}

IInv == TypeOK /\ Planned /\ Progress /\ Rejected /\ Accounted /\ PagesFromReferences

-----------------------------------------------------------------------------

\* A plan describes its characters in order, at least one of them.
LEMMA PlanCharacters ==
  ASSUME NEW given \in Plan
  PROVE  /\ given.characters \in Seq(Character)
         /\ Len(given.characters) \in Nat \ {0}
<1>1. PICK n \in 1..MaxCharacters : given.characters \in [1..n -> Character]
  BY DEF Plan
<1>2. n \in Nat \ {0}
  BY MaxCharactersAssumption
<1> QED
  BY <1>1, <1>2

LEMMA Initially == Init => IInv
<1> SUFFICES ASSUME Init
             PROVE  IInv
  OBVIOUS
<1>1. portraits \in Seq(PortraitItem)
  BY DEF Init
<1>2. pages \in [Page -> PageItem]
  BY DEF Init, PageItem, Verdict
<1>3. TypeOK
  <2>1. references \subseteq Character /\ faulted \in BOOLEAN
    BY DEF Init
  <2>2. attempt \in 0..(MaxAttempts - 1) /\ judged \in Nat
    BY MaxAttemptsAssumption DEF Init
  <2>3. phase = "direct" /\ plan = NoPlan
    BY DEF Init
  <2> QED
    BY <1>1, <1>2, <2>1, <2>2, <2>3 DEF TypeOK
<1>4. Planned /\ Progress /\ Rejected /\ Accounted
  BY DEF Init, Planned, Progress, Rejected, Accounted
<1>5. PagesFromReferences
  BY DEF Init, PagesFromReferences
<1> QED
  BY <1>3, <1>4, <1>5 DEF IInv

LEMMA DirectKeeps ==
  ASSUME IInv, NEW answer \in Plan, Direct(answer)
  PROVE  IInv'
<1>1. /\ phase = "direct"
      /\ plan' = answer /\ attempt' = 0
      /\ UNCHANGED <<portraits, references, pages, judged, faulted>>
  BY DEF Direct
<1>2. \/ phase' = "draw_portraits" /\ ValidPlan(plan')
      \/ phase' = "failed"
  BY DEF Direct
<1>3. Len(plan'.characters) \in Nat \ {0}
  BY <1>1, PlanCharacters
<1>4. portraits = <<>> /\ portraits' = <<>> /\ Len(portraits') = 0
  BY <1>1 DEF IInv, Planned
<1>5. phase' \in {"draw_portraits", "failed"}
  BY <1>2
<1>6. TypeOK'
  BY <1>1, <1>5, MaxAttemptsAssumption DEF IInv, TypeOK
<1>7. Planned'
  BY <1>1, <1>2 DEF Planned
<1>8. Progress'
  BY <1>1, <1>3, <1>4, <1>5 DEF IInv, Progress
<1>9. Rejected' /\ Accounted'
  BY <1>4 DEF Rejected, Accounted
<1>10. PagesFromReferences'
  BY <1>1 DEF IInv, PagesFromReferences, BeforePages
<1> QED
  BY <1>6, <1>7, <1>8, <1>9, <1>10 DEF IInv

\* A stage that fails, or will be tried again, leaves its work alone.
LEMMA FailureKeeps ==
  ASSUME IInv,
         UNCHANGED <<plan, portraits, references, pages, judged>>,
         faulted' \in BOOLEAN, attempt' \in 0..(MaxAttempts - 1),
         phase' \in {"failed", phase}
  PROVE  IInv'
<1>1. TypeOK'
  BY DEF IInv, TypeOK
<1>2. Planned'
  BY DEF IInv, Planned
<1>3. Progress'
  BY DEF IInv, Progress
<1>4. Rejected' /\ Accounted'
  BY DEF IInv, Rejected, Accounted
<1>5. PagesFromReferences'
  BY DEF IInv, PagesFromReferences, BeforePages, ReferencesOf
<1> QED
  BY <1>1, <1>2, <1>3, <1>4, <1>5 DEF IInv

LEMMA DrawPortraitKeeps ==
  ASSUME IInv, NEW drawn \in BOOLEAN, DrawPortrait(drawn)
  PROVE  IInv'
<1> DEFINE k == Len(portraits) + 1
           record == [status |-> IF drawn THEN "conditioned" ELSE "failed",
                      verdict |-> "none"]
<1>1. /\ phase = "draw_portraits"
      /\ UNCHANGED <<plan, attempt, pages, judged, faulted>>
      /\ portraits' = Append(portraits, record)
  BY DEF DrawPortrait
<1>2. /\ record \in PortraitItem
      /\ record.verdict = "none"
  BY DEF PortraitItem, Verdict
<1>3. plan \in Plan /\ ValidPlan(plan)
  BY <1>1 DEF IInv, Planned
<1>4. portraits \in Seq(PortraitItem)
  BY DEF IInv, TypeOK
<1> HIDE DEF record
<1>5. /\ Len(portraits) \in Nat
      /\ portraits' \in Seq(PortraitItem)
      /\ Len(portraits') = k
      /\ portraits'[k] = record
      /\ \A i \in 1..Len(portraits) : portraits'[i] = portraits[i]
  BY <1>1, <1>2, <1>4
<1>6. /\ Len(plan.characters) \in Nat
      /\ k \in 1..Len(plan.characters)
      /\ plan.characters[k] \in Character
  BY <1>1, <1>3, <1>5, PlanCharacters DEF IInv, Progress
<1>7. \/ phase' = "draw_portraits" /\ k # Len(plan.characters)
      \/ phase' = "check_portraits" /\ k = Len(plan.characters)
  BY <1>1 DEF DrawPortrait
<1>8. record.status = "conditioned" => drawn
  BY DEF record
<1>9. /\ references \subseteq references'
      /\ references' \subseteq references \cup {plan.characters[k]}
      /\ record.status = "conditioned" => plan.characters[k] \in references'
  BY <1>8 DEF DrawPortrait
<1>10. TypeOK'
  BY <1>1, <1>5, <1>6, <1>7, <1>9 DEF IInv, TypeOK
<1>11. Planned'
  BY <1>1, <1>3, <1>7 DEF Planned
<1>12. \A i \in 1..k : portraits'[i].verdict = "none"
  BY <1>1, <1>2, <1>5 DEF IInv, Progress
<1>13. Progress'
  BY <1>1, <1>5, <1>6, <1>7, <1>12 DEF IInv, Progress
<1>14. Rejected'
  BY <1>5, <1>12 DEF Rejected
<1>15. Accounted'
  <2> SUFFICES ASSUME NEW i \in 1..k, portraits'[i].status = "conditioned"
               PROVE  plan.characters[i] \in references'
    BY <1>1, <1>5 DEF Accounted
  <2>1. CASE i = k
    BY <2>1, <1>5, <1>9
  <2>2. CASE i \in 1..Len(portraits)
    BY <2>2, <1>1, <1>5, <1>9 DEF IInv, Progress, Accounted
  <2> QED
    BY <2>1, <2>2, <1>5
<1>16. PagesFromReferences'
  BY <1>1, <1>9 DEF IInv, PagesFromReferences, BeforePages
<1> QED
  BY <1>10, <1>11, <1>13, <1>14, <1>15, <1>16 DEF IInv

\* The verdict on portrait k is recorded, or nobody looked; either way other
\* records keep theirs and k's own was empty.
LEMMA CheckPortraitKeeps ==
  ASSUME IInv, NEW verdict \in Verdict, CheckPortrait(verdict)
  PROVE  IInv'
<1> DEFINE k == judged + 1
           name == plan.characters[k]
<1>1. /\ phase = "check_portraits"
      /\ UNCHANGED <<plan, attempt, pages, faulted>>
      /\ plan \in Plan /\ ValidPlan(plan)
      /\ portraits \in Seq(PortraitItem)
      /\ judged \in Nat
  BY DEF IInv, TypeOK, Planned, CheckPortrait
<1>2. /\ Len(portraits) \in Nat
      /\ Len(portraits) = Len(plan.characters)
      /\ k \in 1..Len(portraits)
  BY <1>1 DEF IInv, Progress
<1>3. portraits[k] \in PortraitItem /\ portraits[k].verdict = "none"
  BY <1>1, <1>2 DEF IInv, Progress
<1>4. \/ portraits' = portraits /\ name \notin Drawn
      \/ portraits' = [portraits EXCEPT ![k].verdict = verdict] /\ name \in Drawn
  BY DEF CheckPortrait
<1>5. [portraits[k] EXCEPT !.verdict = verdict] \in PortraitItem
  BY <1>3 DEF PortraitItem
<1>6. /\ portraits' \in Seq(PortraitItem)
      /\ Len(portraits') = Len(portraits)
      /\ \A i \in 1..Len(portraits) :
           /\ portraits'[i].status = portraits[i].status
           /\ i # k => portraits'[i] = portraits[i]
  BY <1>1, <1>2, <1>3, <1>4, <1>5 DEF PortraitItem
<1>7. portraits'[k].verdict \in {"none", verdict}
  BY <1>1, <1>2, <1>3, <1>4 DEF PortraitItem
<1>8. /\ references' \subseteq references
      /\ references \subseteq references' \cup {name}
  BY DEF CheckPortrait, Kept
<1>9. portraits'[k].verdict = "mismatch" => name \notin references'
  BY <1>1, <1>2, <1>3, <1>4 DEF CheckPortrait, Kept, PortraitItem
<1>10. name \notin references' =>
         name \notin references \/ portraits'[k].verdict = "mismatch"
  BY <1>1, <1>2, <1>3, <1>4 DEF CheckPortrait, Kept, PortraitItem
<1>11. \/ phase' = "draw_pages" /\ judged' = 0 /\ k = Len(plan.characters)
       \/ phase' = "check_portraits" /\ judged' = k /\ k # Len(plan.characters)
  BY <1>1 DEF CheckPortrait
<1>12. TypeOK'
  BY <1>1, <1>6, <1>8, <1>11 DEF IInv, TypeOK
<1>13. Planned'
  BY <1>1, <1>11 DEF Planned
<1>14. Progress'
  BY <1>1, <1>2, <1>6, <1>11 DEF IInv, Progress
<1>15. Rejected'
  BY <1>1, <1>2, <1>6, <1>8, <1>9 DEF IInv, Rejected
<1>16. Accounted'
  <2> SUFFICES ASSUME NEW i \in 1..Len(portraits), portraits[i].status = "conditioned"
               PROVE  \/ plan.characters[i] \in references'
                      \/ \E j \in 1..Len(portraits) :
                           /\ plan.characters[j] = plan.characters[i]
                           /\ portraits'[j].verdict = "mismatch"
    BY <1>1, <1>6 DEF Accounted
  <2>1. CASE plan.characters[i] \in references
    <3>1. CASE plan.characters[i] = name
      BY <3>1, <2>1, <1>2, <1>10
    <3>2. CASE plan.characters[i] # name
      BY <3>2, <2>1, <1>8
    <3> QED
      BY <3>1, <3>2
  <2>2. CASE \E j \in 1..Len(portraits) : /\ plan.characters[j] = plan.characters[i]
                                           /\ portraits[j].verdict = "mismatch"
    BY <2>2, <1>3, <1>6
  <2> QED
    BY <2>1, <2>2 DEF IInv, Accounted
<1>17. PagesFromReferences'
  <2>1. \A p \in Page : pages'[p].status = "waiting" /\ pages'[p].used = {}
    BY <1>1 DEF IInv, PagesFromReferences, BeforePages
  <2> QED
    BY <2>1 DEF PagesFromReferences
<1> QED
  BY <1>12, <1>13, <1>14, <1>15, <1>16, <1>17 DEF IInv

-----------------------------------------------------------------------------
(* Pages.                                                                  *)

\* What the page stages leave alone, and what they keep of a page.
PageStep ==
  /\ UNCHANGED <<plan, attempt, portraits, references>>
  /\ phase \in {"draw_pages", "check_pages", "failed"}
  /\ phase' \in {phase, "failed"} \cup
              (IF phase = "draw_pages" THEN {"check_pages"} ELSE {}) \cup
              (IF phase = "check_pages" THEN {"returned"} ELSE {})
  /\ pages' \in [Page -> PageItem]
  /\ judged' \in Nat /\ faulted' \in BOOLEAN

LEMMA PageStepKeeps ==
  ASSUME IInv, PageStep,
         \A p \in Page : \/ /\ pages'[p].used = pages[p].used
                            /\ pages'[p].status = pages[p].status
                         \/ /\ pages'[p].used = {}
                            /\ pages'[p].status # "conditioned"
                         \/ /\ pages'[p].used = ReferencesOf(p)
                            /\ pages'[p].status \notin {"waiting", "drawing"}
                            /\ pages'[p].status = "conditioned" => ReferencesOf(p) # {}
  PROVE  IInv'
<1>1. phase' \in {"draw_pages", "check_pages", "returned", "failed"}
  BY DEF PageStep
<1>2. TypeOK'
  BY <1>1 DEF IInv, TypeOK, PageStep
<1>3. Planned'
  BY <1>1 DEF IInv, Planned, PageStep
<1>4. Progress'
  BY <1>1 DEF IInv, Progress, PageStep
<1>5. Rejected' /\ Accounted'
  BY DEF IInv, Rejected, Accounted, PageStep
<1>6. PagesFromReferences'
  BY <1>1 DEF IInv, PagesFromReferences, BeforePages, ReferencesOf, PageStep
<1> QED
  BY <1>2, <1>3, <1>4, <1>5, <1>6 DEF IInv

LEMMA StartPageKeeps ==
  ASSUME IInv, NEW p \in Page, StartPage(p)
  PROVE  IInv'
<1>1. PageStep
  <2>1. phase \in {"draw_pages", "failed"} /\ phase' = phase
    BY DEF StartPage, PagesUnderWay
  <2>2. pages' \in [Page -> PageItem]
    BY DEF IInv, TypeOK, PageItem, StartPage
  <2> QED
    BY <2>1, <2>2 DEF IInv, TypeOK, StartPage, PageStep
<1>2. \A q \in Page : /\ pages'[q].used = pages[q].used
                      /\ pages'[q].status \in {pages[q].status, "drawing"}
                      /\ q # p => pages'[q].status = pages[q].status
  BY DEF IInv, TypeOK, PageItem, StartPage
<1>3. pages[p].status = "waiting" /\ pages[p].used = {}
  BY DEF IInv, PagesFromReferences, StartPage
<1> QED
  BY <1>1, <1>2, <1>3, PageStepKeeps

\* A page that is drawn, that fails or that is lost.
LEMMA DrawPageKeeps ==
  ASSUME IInv, NEW p \in Page, NEW drawn \in BOOLEAN, DrawPage(p, drawn)
  PROVE  IInv'
<1>1. PageRecord(p, drawn) \in PageItem
  BY DEF IInv, TypeOK, PageItem, Verdict, PageRecord, ReferencesOf
<1>2. PageStep
  <2>1. /\ phase \in {"draw_pages", "failed"}
        /\ phase' = phase \/ (phase = "draw_pages" /\ phase' = "check_pages")
    BY DEF DrawPage, PagesUnderWay
  <2>2. pages' \in [Page -> PageItem]
    BY <1>1 DEF IInv, TypeOK, DrawPage
  <2> QED
    BY <2>1, <2>2 DEF IInv, TypeOK, DrawPage, PageStep
<1>3. /\ pages'[p] = PageRecord(p, drawn)
      /\ \A q \in Page : q # p => pages'[q] = pages[q]
  BY DEF IInv, TypeOK, DrawPage
<1>4. \/ /\ PageRecord(p, drawn).used = {}
         /\ PageRecord(p, drawn).status # "conditioned"
      \/ /\ PageRecord(p, drawn).used = ReferencesOf(p)
         /\ PageRecord(p, drawn).status \notin {"waiting", "drawing"}
         /\ PageRecord(p, drawn).status = "conditioned" => ReferencesOf(p) # {}
  BY DEF PageRecord
<1> QED
  BY <1>2, <1>3, <1>4, PageStepKeeps

LEMMA PageFaultKeeps ==
  ASSUME IInv, NEW p \in Page, PageFault(p)
  PROVE  IInv'
<1>1. PageStep
  <2>1. phase \in {"draw_pages", "failed"} /\ phase' = "failed"
    BY DEF PageFault, PagesUnderWay
  <2>2. pages' \in [Page -> PageItem] /\ faulted' \in BOOLEAN
    BY DEF IInv, TypeOK, PageItem, PageFault
  <2> QED
    BY <2>1, <2>2 DEF IInv, TypeOK, PageFault, PageStep
<1>2. /\ pages'[p].used = pages[p].used /\ pages'[p].status = "lost"
      /\ \A q \in Page : q # p => pages'[q] = pages[q]
  BY DEF IInv, TypeOK, PageItem, PageFault
<1>3. pages[p].used = {}
  BY DEF IInv, PagesFromReferences, PageFault
<1> QED
  BY <1>1, <1>2, <1>3, PageStepKeeps

LEMMA CheckPageKeeps ==
  ASSUME IInv, NEW verdict \in Verdict, CheckPage(verdict)
  PROVE  IInv'
<1>1. pages' \in [Page -> PageItem]
  BY DEF IInv, TypeOK, PageItem, CheckPage
<1>2. PageStep
  <2>1. phase = "check_pages" /\ phase' \in {"check_pages", "returned"}
    BY DEF CheckPage
  <2>2. judged' \in Nat
    BY DEF IInv, TypeOK, CheckPage
  <2> QED
    BY <1>1, <2>1, <2>2 DEF IInv, TypeOK, CheckPage, PageStep
<1>3. \A q \in Page : /\ pages'[q].used = pages[q].used
                      /\ pages'[q].status = pages[q].status
  BY DEF IInv, TypeOK, PageItem, CheckPage
<1> QED
  BY <1>2, <1>3, PageStepKeeps

LEMMA SkipJudgingKeeps ==
  ASSUME IInv, SkipJudging
  PROVE  IInv'
<1>1. PageStep
  BY DEF IInv, TypeOK, SkipJudging, PageStep
<1> QED
  BY <1>1, PageStepKeeps DEF SkipJudging

-----------------------------------------------------------------------------
(* Theorems.                                                               *)

LEMMA StepKeeps == IInv /\ [Next]_vars => IInv'
<1> SUFFICES ASSUME IInv, [Next]_vars
             PROVE  IInv'
  OBVIOUS
<1>1. ASSUME NEW answer \in Plan, Direct(answer) PROVE IInv'
  BY <1>1, DirectKeeps
<1>2. ASSUME NEW transient \in BOOLEAN, DirectFails(transient) PROVE IInv'
  <2>1. attempt' \in 0..(MaxAttempts - 1) /\ phase' \in {"failed", phase}
    BY <1>2, MaxAttemptsAssumption DEF IInv, TypeOK, DirectFails, Retries
  <2> QED
    BY <1>2, <2>1, FailureKeeps DEF IInv, TypeOK, DirectFails
<1>3. CASE NoImageModel
  BY <1>3, FailureKeeps DEF IInv, TypeOK, NoImageModel
<1>4. ASSUME NEW drawn \in BOOLEAN, DrawPortrait(drawn) PROVE IInv'
  BY <1>4, DrawPortraitKeeps
<1>5. CASE PortraitFault
  BY <1>5, FailureKeeps DEF IInv, TypeOK, PortraitFault
<1>6. ASSUME NEW verdict \in Verdict, CheckPortrait(verdict) PROVE IInv'
  BY <1>6, CheckPortraitKeeps
<1>7. ASSUME NEW p \in Page, StartPage(p) PROVE IInv'
  BY <1>7, StartPageKeeps
<1>8. ASSUME NEW p \in Page, NEW drawn \in BOOLEAN, DrawPage(p, drawn) PROVE IInv'
  BY <1>8, DrawPageKeeps
<1>9. ASSUME NEW p \in Page, PageFault(p) PROVE IInv'
  BY <1>9, PageFaultKeeps
<1>10. ASSUME NEW verdict \in Verdict, CheckPage(verdict) PROVE IInv'
  BY <1>10, CheckPageKeeps
<1>11. CASE SkipJudging
  BY <1>11, SkipJudgingKeeps
<1>12. CASE UNCHANGED vars
  BY <1>12 DEF vars, IInv, TypeOK, Planned, Progress, Rejected, Accounted,
               PagesFromReferences, BeforePages, ReferencesOf
<1> QED
  BY <1>1, <1>2, <1>3, <1>4, <1>5, <1>6, <1>7, <1>8, <1>9, <1>10, <1>11, <1>12 DEF Next

\* The inductive invariant: the plan fits, the checks proceed in order, and the
\* portraits in use are those drawn and not found wrong.
THEOREM Invariance == Spec => []IInv
<1> QED
  BY Initially, StepKeeps, PTL DEF Spec

\* Every variable keeps its type, for any cast and book.
THEOREM TypeCorrect == Spec => []TypeOK
<1>1. IInv => TypeOK
  BY DEF IInv
<1> QED
  BY <1>1, Invariance, PTL

\* No page is ever drawn from a portrait that check_portraits found wrong.
THEOREM RejectedIsUnused == Spec => []NoRejectedReference
<1>1. IInv => NoRejectedReference
  BY DEF IInv, Rejected, PagesFromReferences, NoRejectedReference
<1> QED
  BY <1>1, Invariance, PTL

\* A StoryArt that reports fully_conditioned and fully_consistent is of a book
\* whose every page was drawn from the portrait of everyone on it.
THEOREM RecordTellsTheTruth == Spec => []RecordIsHonest
<1>1. IInv => RecordIsHonest
  <2> SUFFICES ASSUME IInv, phase = "returned", FullyConditioned, FullyConsistent,
                      NEW p \in Page
               PROVE  pages[p].used # {} /\ pages[p].used = plan.present[p]
    BY DEF RecordIsHonest
  <2>1. /\ pages[p].used = plan.present[p] \cap references
        /\ pages[p].used # {}
    BY DEF IInv, PagesFromReferences, ReferencesOf, FullyConditioned
  <2>2. /\ plan.present[p] \subseteq Described(plan)
        /\ Len(portraits) = Len(plan.characters)
    BY DEF IInv, Planned, Progress, ValidPlan
  <2>3. \A i \in 1..Len(portraits) : plan.characters[i] \in references
    BY DEF IInv, Accounted, FullyConditioned, FullyConsistent
  <2>4. Described(plan) \subseteq references
    BY <2>2, <2>3 DEF Described
  <2> QED
    BY <2>1, <2>2, <2>4
<1> QED
  BY <1>1, Invariance, PTL

\* An image that cannot be drawn or judged never ends a run.
THEOREM ImagesFailSoft == Spec => FailsSoft
<1>1. ASSUME [Next]_vars, phase' = "failed"
      PROVE  \/ phase \in {"direct", "failed"}
             \/ phase = "draw_portraits" /\ portraits = <<>>
             \/ faulted'
             \/ UNCHANGED vars
  BY <1>1 DEF Next, Direct, DirectFails, NoImageModel, DrawPortrait, PortraitFault,
              CheckPortrait, StartPage, DrawPage, PageFault, CheckPage, SkipJudging
<1> QED
  BY <1>1, PTL DEF Spec, FailsSoft
=============================================================================
