------------------------ MODULE IllustrationWorkflow ------------------------
(***************************************************************************)
(* Drawing one finished book (workflows/illustrate.py): a director decides *)
(* how it looks, each character gets a portrait, each portrait is compared *)
(* with its description, and then the pages are drawn, several at a time,  *)
(* from the portraits that survived, and compared with them.               *)
(*                                                                         *)
(* An image that cannot be drawn is recorded and costs nothing else; the   *)
(* record, StoryArt, is what says whether the book really was drawn from   *)
(* its portraits.  A plan may describe a character twice: nothing checks   *)
(* that it does not.                                                       *)
(***************************************************************************)
EXTENDS Naturals, Sequences, FiniteSets

CONSTANTS
  MaxAttempts,     \* RETRY_POLICY.max_attempts
  PageCount,       \* pages of the story
  Character,       \* names a director may describe or put in a picture
  MaxCharacters,   \* the most descriptions of one plan
  MaxReferences,   \* MAX_REFERENCE_IMAGES
  MaxConcurrent,   \* _MAX_CONCURRENT_IMAGES
  NoPlan           \* the director has not answered

ASSUME MaxAttemptsAssumption == MaxAttempts \in Nat \ {0}
ASSUME PageCountAssumption == PageCount \in Nat \ {0}
ASSUME MaxCharactersAssumption == MaxCharacters \in Nat \ {0}
ASSUME MaxConcurrentAssumption == MaxConcurrent \in Nat \ {0}

VARIABLES
  phase,       \* the stage the workflow is at
  attempt,     \* failed attempts of the director
  plan,        \* what the director decided
  portraits,   \* portrait_records: [status, verdict], in the plan's order
  references,  \* names in the dictionary of portraits pages are drawn from
  pages,       \* page -> [status, used, verdict]
  judged,      \* records the checking stage under way has been through
  faulted      \* history: an image could not be written

vars == <<phase, attempt, plan, portraits, references, pages, judged, faulted>>

Page == 1..PageCount
Verdict == {"none", "match", "mismatch"}   \* "none": nobody looked

\* Records of the images; a page's has the names it was drawn from.
PortraitItem == [status : {"conditioned", "failed"}, verdict : Verdict]

PageItem == [status : {"waiting", "drawing", "conditioned", "unconditioned", "failed", "lost"},
             used : SUBSET Character, verdict : Verdict]

\* Names in plan order, whom each picture shows, and whether the plan has one
\* picture for every page of the story.
Plan == [characters : UNION {[1..n -> Character] : n \in 1..MaxCharacters},
         present : [Page -> {s \in SUBSET Character : Cardinality(s) <= MaxReferences}],
         covers : BOOLEAN]

Described(given) == {given.characters[i] : i \in 1..Len(given.characters)}

\* validate_illustration_plan
ValidPlan(given) ==
  /\ given.covers
  /\ \A p \in Page : given.present[p] \subseteq Described(given)

\* The names whose portrait exists; a later portrait of a name replaces it.
Drawn == {plan.characters[i] : i \in {k \in 1..Len(portraits) :
                                        portraits[k].status = "conditioned"}}

-----------------------------------------------------------------------------
(* Directing.                                                              *)

Init ==
  /\ phase = "direct"
  /\ attempt = 0
  /\ plan = NoPlan
  /\ portraits = <<>>
  /\ references = {}
  /\ pages = [p \in Page |-> [status |-> "waiting", used |-> {}, verdict |-> "none"]]
  /\ judged = 0
  /\ faulted = FALSE

\* A plan that does not fit the book raises before any image is paid for.
Direct(answer) ==
  /\ phase = "direct"
  /\ phase' = IF ValidPlan(answer) THEN "draw_portraits" ELSE "failed"
  /\ attempt' = 0
  /\ plan' = answer
  /\ UNCHANGED <<portraits, references, pages, judged, faulted>>

Retries(transient) == transient /\ attempt + 1 < MaxAttempts

\* A mutant: the count of attempts starts over.
DirectFails_ForgetsAttempts(transient) ==
  /\ phase = "direct"
  /\ attempt' = (attempt + 1) % MaxAttempts
  /\ UNCHANGED <<phase, plan, portraits, references, pages, judged, faulted>>

DirectFails(transient) ==
  /\ phase = "direct"
  /\ IF Retries(transient)
       THEN attempt' = attempt + 1 /\ UNCHANGED phase
       ELSE attempt' = 0 /\ phase' = "failed"
  /\ UNCHANGED <<plan, portraits, references, pages, judged, faulted>>

-----------------------------------------------------------------------------
(* Portraits, one at a time.                                               *)

\* ImageConfigurationError: no image could be drawn at all.
NoImageModel ==
  /\ phase = "draw_portraits" /\ portraits = <<>>
  /\ phase' = "failed"
  /\ UNCHANGED <<attempt, plan, portraits, references, pages, judged, faulted>>

\* A portrait that fails is recorded, and its name is no reference.
DrawPortrait(drawn) ==
  LET k == Len(portraits) + 1 IN
  /\ phase = "draw_portraits"
  /\ phase' = IF k = Len(plan.characters) THEN "check_portraits" ELSE phase
  /\ portraits' = Append(portraits, [status |-> IF drawn THEN "conditioned" ELSE "failed",
                                     verdict |-> "none"])
  /\ references' = IF drawn THEN references \cup {plan.characters[k]} ELSE references
  /\ UNCHANGED <<attempt, plan, pages, judged, faulted>>

\* OSError lies outside every try block, and is not retried.
PortraitFault ==
  /\ phase = "draw_portraits"
  /\ phase' = "failed"
  /\ faulted' = TRUE
  /\ UNCHANGED <<attempt, plan, portraits, references, pages, judged>>

\* A mutant: a wrong portrait is recorded and used.
Kept_Regardless(name, verdict) == references

\* A portrait that does not match its description is no reference.
Kept(name, verdict) ==
  IF name \in Drawn /\ verdict = "mismatch" THEN references \ {name} ELSE references

\* A name that was never drawn is not looked at.  A record that failed is, if
\* another record of its name was drawn.
CheckPortrait(verdict) ==
  LET k == judged + 1
      name == plan.characters[k]
  IN
  /\ phase = "check_portraits"
  /\ portraits' = IF name \in Drawn THEN [portraits EXCEPT ![k].verdict = verdict]
                                    ELSE portraits
  /\ references' = Kept(name, verdict)
  /\ IF k = Len(plan.characters)
       THEN phase' = "draw_pages" /\ judged' = 0
       ELSE phase' = phase /\ judged' = k
  /\ UNCHANGED <<attempt, plan, pages, faulted>>

-----------------------------------------------------------------------------
(* Pages, MaxConcurrent at a time.                                         *)

\* gather does not cancel: when one page raises, the run has failed, and the
\* other pages are drawn all the same.
PagesUnderWay ==
  \/ phase = "draw_pages"
  \/ phase = "failed" /\ \E p \in Page : pages[p].status # "waiting"

\* The semaphore lets pages in first come, first served.
StartPage(p) ==
  /\ PagesUnderWay
  /\ pages[p].status = "waiting"
  /\ \A q \in 1..(p - 1) : pages[q].status # "waiting"
  /\ Cardinality({q \in Page : pages[q].status = "drawing"}) < MaxConcurrent
  /\ pages' = [pages EXCEPT ![p].status = "drawing"]
  /\ UNCHANGED <<phase, attempt, plan, portraits, references, judged, faulted>>

\* The portraits a page is drawn from.
ReferencesOf(p) == plan.present[p] \cap references

\* What becomes of page p when its image arrives or does not.
PageRecord(p, drawn) ==
  [status |-> IF ~ drawn THEN "failed"
              ELSE IF ReferencesOf(p) # {} THEN "conditioned" ELSE "unconditioned",
   used |-> IF drawn THEN ReferencesOf(p) ELSE {},
   verdict |-> "none"]

Ended(record) == record.status \notin {"waiting", "drawing"}

\* A mutant: an image that cannot be drawn raises.
DrawPage_Raises(p, drawn) ==
  /\ PagesUnderWay
  /\ pages[p].status = "drawing"
  /\ pages' = [pages EXCEPT ![p] = PageRecord(p, drawn)]
  /\ phase' = IF ~ drawn THEN "failed"
              ELSE IF phase = "draw_pages" /\ \A q \in Page : Ended(pages'[q])
                     THEN "check_pages" ELSE phase
  /\ UNCHANGED <<attempt, plan, portraits, references, judged, faulted>>

\* gather returns with the last of the pages.
DrawPage(p, drawn) ==
  /\ PagesUnderWay
  /\ pages[p].status = "drawing"
  /\ pages' = [pages EXCEPT ![p] = PageRecord(p, drawn)]
  /\ phase' = IF phase = "draw_pages" /\ \A q \in Page : Ended(pages'[q])
                THEN "check_pages" ELSE phase
  /\ UNCHANGED <<attempt, plan, portraits, references, judged, faulted>>

PageFault(p) ==
  /\ PagesUnderWay
  /\ pages[p].status = "drawing"
  /\ pages' = [pages EXCEPT ![p].status = "lost"]
  /\ phase' = "failed"
  /\ faulted' = TRUE
  /\ UNCHANGED <<attempt, plan, portraits, references, judged>>

\* Only a page drawn from a portrait can be compared with one.
CheckPage(verdict) ==
  LET k == judged + 1 IN
  /\ phase = "check_pages"
  /\ pages' = IF pages[k].status = "conditioned"
                THEN [pages EXCEPT ![k].verdict = verdict] ELSE pages
  /\ judged' = k
  /\ phase' = IF k = PageCount THEN "returned" ELSE phase
  /\ UNCHANGED <<attempt, plan, portraits, references, faulted>>

\* JUDGE_PAGES is off.
SkipJudging ==
  /\ phase = "check_pages" /\ judged = 0
  /\ phase' = "returned"
  /\ UNCHANGED <<attempt, plan, portraits, references, pages, judged, faulted>>

Next ==
  \/ \E answer \in Plan : Direct(answer)
  \/ \E transient \in BOOLEAN : DirectFails(transient)
  \/ NoImageModel
  \/ \E drawn \in BOOLEAN : DrawPortrait(drawn)
  \/ PortraitFault
  \/ \E verdict \in Verdict : CheckPortrait(verdict)
  \/ \E p \in Page : StartPage(p)
  \/ \E p \in Page, drawn \in BOOLEAN : DrawPage(p, drawn)
  \/ \E p \in Page : PageFault(p)
  \/ \E verdict \in Verdict : CheckPage(verdict)
  \/ SkipJudging

Finished == phase \in {"returned", "failed"}

\* Every call returns or raises.
Spec == Init /\ [][Next]_vars /\ WF_vars(Next)

-----------------------------------------------------------------------------
(* StoryArt's account of the run.                                          *)

\* A mutant: only the pages are asked.
FullyConditioned_PagesOnly == \A p \in Page : pages[p].status = "conditioned"

FullyConditioned ==
  /\ \A i \in 1..Len(portraits) : portraits[i].status = "conditioned"
  /\ \A p \in Page : pages[p].status = "conditioned"

\* What nobody looked at does not count against it.
FullyConsistent ==
  /\ \A i \in 1..Len(portraits) : portraits[i].verdict # "mismatch"
  /\ \A p \in Page : pages[p].verdict # "mismatch"

-----------------------------------------------------------------------------
(* Correctness.                                                            *)

\* Records are of their schema, and nobody is drawn that was not described.
TypeOK ==
  /\ phase \in {"direct", "draw_portraits", "check_portraits", "draw_pages",
                "check_pages", "returned", "failed"}
  /\ attempt \in 0..(MaxAttempts - 1)
  /\ plan \in Plan \cup {NoPlan}
  /\ portraits \in Seq(PortraitItem)
  /\ references \subseteq Character
  /\ pages \in [Page -> PageItem]
  /\ judged \in Nat
  /\ faulted \in BOOLEAN

\* "Was this book actually reference-conditioned?" is answered by the record:
\* a run that reports fully_conditioned and fully_consistent drew every page
\* from the portrait of every character on it, and no such portrait was found
\* wrong.  In particular a portrait that failed or was dropped, which removes
\* conditioning from pages that look fine, always shows.
RecordIsHonest ==
  phase = "returned" /\ FullyConditioned /\ FullyConsistent =>
    \A p \in Page : pages[p].used # {} /\ pages[p].used = plan.present[p]

\* No page is drawn from a portrait that was found not to match its
\* description, whichever of a name's records the verdict is on.
NoRejectedReference ==
  \A p \in Page, i \in 1..Len(portraits) :
    portraits[i].verdict = "mismatch" => plan.characters[i] \notin pages[p].used

\* Illustration fails soft: but for the disk, only a bad plan or a missing
\* image model ends a run, never an image that could not be drawn or judged.
FailsSoft ==
  [][phase' = "failed" => \/ phase \in {"direct", "failed"}
                          \/ phase = "draw_portraits" /\ portraits = <<>>
                          \/ faulted']_vars

\* Whatever the provider, the judges and the disk do, a run ends.
Terminates == <>Finished
=============================================================================
