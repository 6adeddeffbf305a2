------------------------------- MODULE WebJobs -------------------------------
(***************************************************************************)
(* The browser's way to a book (mcp/ui): an in-process registry of jobs,   *)
(* HTTP handlers on one event loop, a background task that plans, another  *)
(* that writes, and run directories on disk that outlive the process.      *)
(*                                                                         *)
(* A step of this module is what runs between two awaits.  The pipelines   *)
(* the tasks await are StoryWorkflow and its outline twin; here each one   *)
(* eventually answers or raises.                                           *)
(*                                                                         *)
(* An outline is the spawn that planned it and how many notes its brief    *)
(* had; a story is the job it was written for and its outline; a run       *)
(* directory is the second it was named in and the slug of the premise.    *)
(***************************************************************************)
EXTENDS Naturals, FiniteSets

CONSTANTS
  Job,          \* job ids: uuid4, so never used twice
  Premise,      \* what a parent may type
  Slug,         \* function from premises to slugs; several may share one
  EmptySlug,    \* what is left of a premise with no [a-z0-9] in it
  Tab,          \* browser tabs that may have a revise request in flight
  Nothing,      \* Python's None
  MaxSpawns,    \* bound on the background tasks started per job
  MaxTime,      \* bound on the wall clock, in seconds
  MaxRestarts,  \* bound on server restarts
  DiskFaults    \* whether mkdir and write_text may raise OSError

ASSUME SlugAssumption == DOMAIN Slug = Premise
ASSUME BoundsAssumption == /\ MaxSpawns \in Nat /\ MaxTime \in Nat
                           /\ MaxRestarts \in Nat /\ DiskFaults \in BOOLEAN

VARIABLES
  registry,   \* job id -> Job record; a job never created or lost is Nothing
  created,    \* job ids handed out so far, by this process or an earlier one
  tasks,      \* background tasks in flight (_running)
  spawned,    \* how many tasks each job has had
  revising,   \* revise requests awaiting their body: <<tab, job>>
  disk,       \* run directory -> what its story.json holds
  now,        \* the clock's second
  restarts,
  accepted,   \* history: notes the server has answered 202 to, per job
  approved,   \* history: the outline on record when approval was accepted
  faulted     \* history: jobs whose task the disk has killed

vars == <<registry, created, tasks, spawned, revising, disk, now, restarts,
          accepted, approved, faulted>>

Directory == (0..MaxTime) \X {Slug[p] : p \in Premise}
Stamp(dir) == dir[1]
SlugOf(dir) == dir[2]

Outline == [plan : 1..MaxSpawns, notes : 0..MaxSpawns]
Story == [job : Job, outline : Outline]
Task == [job : Job, kind : {"plan", "write"}, nth : 1..MaxSpawns,
         step : {"spawned", "running"}, outline : Outline \cup {Nothing},
         notes : 0..MaxSpawns]
File == [status : {"no_directory", "no_file", "truncated", "garbled", "book"},
         story : Story \cup {Nothing}]
JobRecord ==
  [state : {"planning", "awaiting_approval", "writing", "complete", "failed"},
   premise : Premise, notes : 0..MaxSpawns, outline : Outline \cup {Nothing},
   story : Story \cup {Nothing}, dir : Directory \cup {Nothing}]

Holding(status) == [status |-> status, story |-> Nothing]
WholeBook(story) == [status |-> "book", story |-> story]

\* What is left of a write that is cut short: text that is no JSON, or bytes
\* that end inside a character and are no text either.
CutShort == {Holding("truncated"), Holding("garbled")}

ASSUME NothingAssumption == Nothing \notin JobRecord \cup Outline \cup Story \cup Directory

Known(j) == registry[j] # Nothing
InState(j, state) == Known(j) /\ registry[j].state = state

-----------------------------------------------------------------------------
(* Background tasks.                                                       *)

\* _spawn: the coroutine has not run yet, and has read nothing.
Spawn(j, kind) ==
  /\ spawned[j] < MaxSpawns
  /\ spawned' = [spawned EXCEPT ![j] = @ + 1]
  /\ tasks' = tasks \cup {[job |-> j, kind |-> kind, nth |-> spawned[j] + 1,
                           step |-> "spawned", outline |-> Nothing, notes |-> 0]}

\* A mutant: the record is never touched.
Fail_Silently(j) == UNCHANGED registry

Fail(j) == registry' = [registry EXCEPT ![j].state = "failed"]

\* The task's own copy of the job it read when it started.
Running(t) == [t EXCEPT !.step = "running",
                        !.outline = registry[t.job].outline,
                        !.notes = registry[t.job].notes]

PlanStarts(t) ==
  /\ t.kind = "plan" /\ t.step = "spawned"
  /\ tasks' = (tasks \ {t}) \cup {Running(t)}
  /\ UNCHANGED <<registry, disk>>

PlanReturns(t) ==
  /\ t.kind = "plan" /\ t.step = "running"
  /\ registry' = [registry EXCEPT
                    ![t.job].state = "awaiting_approval",
                    ![t.job].outline = [plan |-> t.nth, notes |-> t.notes]]
  /\ tasks' = tasks \ {t}
  /\ UNCHANGED disk

\* Every exception of either pipeline fails the job.
PipelineRaises(t) ==
  /\ t.step = "running"
  /\ Fail(t.job)
  /\ tasks' = tasks \ {t}
  /\ UNCHANGED disk

RunDirectory(j) == <<now, Slug[registry[j].premise]>>

\* A mutant: a directory of that name is made anew.
WriteStarts_Clears(t) ==
  /\ t.kind = "write" /\ t.step = "spawned"
  /\ LET dir == RunDirectory(t.job) IN
       /\ disk' = [disk EXCEPT ![dir] = Holding("no_file")]
       /\ registry' = [registry EXCEPT ![t.job].dir = dir]
  /\ tasks' = (tasks \ {t}) \cup {Running(t)}

\* mkdir(exist_ok=True) leaves what a directory of that name already holds.
WriteStarts(t) ==
  /\ t.kind = "write" /\ t.step = "spawned"
  /\ LET dir == RunDirectory(t.job) IN
       /\ disk' = [disk EXCEPT ![dir] =
                     IF @ = Holding("no_directory") THEN Holding("no_file") ELSE @]
       /\ registry' = [registry EXCEPT ![t.job].dir = dir]
  /\ tasks' = (tasks \ {t}) \cup {Running(t)}

BookOf(t) == [job |-> t.job, outline |-> t.outline]

\* A mutant: complete before the book is on disk.
WriteReturns_Unsaved(t) ==
  /\ t.kind = "write" /\ t.step = "running"
  /\ registry' = [registry EXCEPT ![t.job].state = "complete",
                                  ![t.job].story = BookOf(t)]
  /\ tasks' = tasks \ {t}
  /\ UNCHANGED disk

WriteReturns(t) ==
  /\ t.kind = "write" /\ t.step = "running"
  /\ LET story == BookOf(t) IN
       /\ disk' = [disk EXCEPT ![registry[t.job].dir] = WholeBook(story)]
       /\ registry' = [registry EXCEPT ![t.job].state = "complete",
                                       ![t.job].story = story]
  /\ tasks' = tasks \ {t}

\* OSError from mkdir, or from write_text once the story exists: both lie
\* outside the task's try block, so the task ends and nothing is recorded.
DiskFault(t) ==
  /\ DiskFaults
  /\ t.kind = "write"
  /\ tasks' = tasks \ {t}
  /\ faulted' = faulted \cup {t.job}
  /\ UNCHANGED registry
  /\ \/ t.step = "spawned" /\ UNCHANGED disk
     \/ /\ t.step = "running"
        /\ \/ UNCHANGED disk
           \/ \E file \in CutShort : disk' = [disk EXCEPT ![registry[t.job].dir] = file]

TaskStep(t) ==
  /\ \/ /\ \/ PlanStarts(t) \/ PlanReturns(t)
           \/ WriteStarts(t) \/ WriteReturns(t)
           \/ PipelineRaises(t)
        /\ UNCHANGED faulted
     \/ DiskFault(t)
  /\ UNCHANGED <<created, spawned, revising, now, restarts, accepted, approved>>

-----------------------------------------------------------------------------
(* Handlers.                                                               *)

\* A mutant: any job with a plan may be approved or revised.
AwaitsApproval_HasPlan(j) == Known(j) /\ registry[j].outline # Nothing

\* JobRegistry.transition, the check both handlers make as they move a job.
AwaitsApproval(j) == InState(j, "awaiting_approval")

PostPlan(j, premise) ==
  /\ j \notin created
  /\ created' = created \cup {j}
  /\ registry' = [registry EXCEPT ![j] =
                    [state |-> "planning", premise |-> premise, notes |-> 0,
                     outline |-> Nothing, story |-> Nothing, dir |-> Nothing]]
  /\ Spawn(j, "plan")
  /\ UNCHANGED <<revising, disk, now, restarts, accepted, approved, faulted>>

\* Any state but awaiting_approval is answered 409 and changes nothing.
PostApprove(j) ==
  /\ AwaitsApproval(j)
  /\ registry' = [registry EXCEPT ![j].state = "writing"]
  /\ approved' = [approved EXCEPT ![j] = registry[j].outline]
  /\ Spawn(j, "write")
  /\ UNCHANGED <<created, revising, disk, now, restarts, accepted, faulted>>

\* post_revise looks the job up, then awaits the request's body.
ReviseArrives(tab, j) ==
  /\ Known(j)
  /\ \A r \in revising : r[1] # tab
  /\ revising' = revising \cup {<<tab, j>>}
  /\ UNCHANGED <<registry, created, tasks, spawned, disk, now, restarts,
                 accepted, approved, faulted>>

\* A mutant: a second note replaces the first.
NotesAfter_Replaced(j, note) == IF note THEN 1 ELSE registry[j].notes

\* The premise is amended, so that notes compose.
NotesAfter(j, note) == IF note THEN registry[j].notes + 1 ELSE registry[j].notes

\* A mutant: the state was checked before the body was awaited.
ReviseRuns_StaleCheck(tab, j, note) ==
  /\ <<tab, j>> \in revising
  /\ Known(j)
  /\ revising' = revising \ {<<tab, j>>}
  /\ registry' = [registry EXCEPT ![j].state = "planning", ![j].outline = Nothing]
  /\ Spawn(j, "plan")
  /\ UNCHANGED <<created, disk, now, restarts, approved, accepted, faulted>>

\* The body is here: only now is the state checked, and the job moved.
ReviseRuns(tab, j, note) ==
  /\ <<tab, j>> \in revising
  /\ revising' = revising \ {<<tab, j>>}
  /\ IF AwaitsApproval(j)
       THEN /\ registry' = [registry EXCEPT ![j].state = "planning",
                                            ![j].notes = NotesAfter(j, note),
                                            ![j].outline = Nothing]
            /\ accepted' = [accepted EXCEPT ![j] = IF note THEN @ + 1 ELSE @]
            /\ Spawn(j, "plan")
       ELSE UNCHANGED <<registry, accepted, spawned, tasks>>
  /\ UNCHANGED <<created, disk, now, restarts, approved, faulted>>

-----------------------------------------------------------------------------
(* The world around them.                                                  *)

Tick ==
  /\ now < MaxTime
  /\ now' = now + 1
  /\ UNCHANGED <<registry, created, tasks, spawned, revising, disk, restarts,
                 accepted, approved, faulted>>

\* The process dies: jobs, tasks and requests are gone, the disk is not.  It
\* may die inside write_text, before or after the file is whole.
Restart ==
  /\ restarts < MaxRestarts
  /\ restarts' = restarts + 1
  /\ registry' = [j \in Job |-> Nothing]
  /\ tasks' = {}
  /\ revising' = {}
  /\ \/ UNCHANGED disk
     \/ \E t \in {u \in tasks : u.kind = "write" /\ u.step = "running"} :
          \E file \in CutShort \cup {WholeBook(BookOf(t))} :
            disk' = [disk EXCEPT ![registry[t.job].dir] = file]
  /\ UNCHANGED <<created, spawned, now, accepted, approved, faulted>>

Init ==
  /\ registry = [j \in Job |-> Nothing]
  /\ created = {}
  /\ tasks = {}
  /\ spawned = [j \in Job |-> 0]
  /\ revising = {}
  /\ disk = [d \in Directory |-> Holding("no_directory")]
  /\ now = 0
  /\ restarts = 0
  /\ accepted = [j \in Job |-> 0]
  /\ approved = [j \in Job |-> Nothing]
  /\ faulted = {}

Next ==
  \/ \E t \in tasks : TaskStep(t)
  \/ \E j \in Job, p \in Premise : PostPlan(j, p)
  \/ \E j \in Job : PostApprove(j)
  \/ \E tab \in Tab, j \in Job : ReviseArrives(tab, j)
  \/ \E tab \in Tab, j \in Job, note \in BOOLEAN : ReviseRuns(tab, j, note)
  \/ Tick
  \/ Restart

\* The event loop resumes every task whose pipeline has answered.  Nothing
\* makes a parent approve, revise or finish sending a request.
Fairness == \A j \in Job : WF_vars(\E t \in tasks : t.job = j /\ TaskStep(t))

Spec == Init /\ [][Next]_vars /\ Fairness

-----------------------------------------------------------------------------
(* The library reads the disk and nothing else (mcp/ui/library.py).        *)

\* A directory's name must match YYYYMMDD-HHMMSS-<slug>, and a slug is not empty.
RunDirectories == {d \in Directory : /\ disk[d] # Holding("no_directory")
                                     /\ SlugOf(d) # EmptySlug}

\* read_text decodes: the error of a file that does not is none of those that
\* list_books skips, and it propagates.
ListingRaises == \E d \in RunDirectories : disk[d].status = "garbled"

\* list_books: what the library page shows, each under its timestamp; nothing if
\* one file breaks it.
ListBooks == {d \in RunDirectories : disk[d].status = "book" /\ ~ ListingRaises}

\* _directory_for: iterdir has no order, so any directory with that timestamp.
DirectoryFor(stamp) == {d \in RunDirectories : Stamp(d) = stamp}

-----------------------------------------------------------------------------
(* Correctness.                                                            *)

\* Job records, tasks and files keep their shape.
TypeOK ==
  /\ registry \in [Job -> JobRecord \cup {Nothing}]
  /\ created \subseteq Job
  /\ tasks \subseteq Task
  /\ spawned \in [Job -> 0..MaxSpawns]
  /\ revising \subseteq Tab \X Job
  /\ disk \in [Directory -> File]
  /\ now \in 0..MaxTime
  /\ restarts \in 0..MaxRestarts
  /\ accepted \in [Job -> 0..MaxSpawns]
  /\ approved \in [Job -> Outline \cup {Nothing}]
  /\ faulted \subseteq Job

\* However approvals and revisions race, a job has at most one task at work,
\* the one its state calls for, so no two writers serve one job.
OneWorkerPerJob ==
  /\ \A t \in tasks : InState(t.job, IF t.kind = "plan" THEN "planning" ELSE "writing")
  /\ \A t, u \in tasks : t.job = u.job => t = u

\* The plan shown for approval was made from a brief that holds every note the
\* parent has been told was taken, and no earlier brief's plan replaces it.
PlanShownIsCurrent ==
  \A j \in Job : InState(j, "awaiting_approval") =>
    /\ registry[j].outline # Nothing
    /\ registry[j].outline.notes = accepted[j]

\* "a modified DOM changes what the parent saw and not what gets written": a
\* story, in memory or on any disk the process left behind, was written from
\* the very outline that was on record when its job was approved.
BooksWereApproved ==
  /\ \A j \in Job : Known(j) /\ registry[j].story # Nothing =>
       registry[j].story = [job |-> j, outline |-> approved[j]]
  /\ \A d \in Directory : disk[d].status = "book" =>
       disk[d].story.outline = approved[disk[d].story.job]

SharesDirectory(j) ==
  \E k \in Job \ {j} : Known(k) /\ registry[k].dir = registry[j].dir

\* A job reported complete has its whole story on disk, unless another job
\* was given the same directory.
CompleteMeansSaved ==
  \A j \in Job : InState(j, "complete") /\ ~ SharesDirectory(j) =>
    disk[registry[j].dir] = WholeBook(registry[j].story)

\* A finished book stays on the shelf, and its story does not change, whatever
\* becomes of other jobs and of the process, as long as no job is writing into
\* its directory and no other file breaks the listing; and once its second is
\* over nothing new opens under its id.
ListedBooksStay ==
  [][\A d \in ListBooks :
       (~ \E j \in Job : InState(j, "writing") /\ registry[j].dir = d) =>
         /\ disk'[d] = disk[d]
         /\ ListingRaises' \/ d \in ListBooks'
         /\ Stamp(d) # now => DirectoryFor(Stamp(d))' = DirectoryFor(Stamp(d))]_vars

\* Whatever its parents do or leave undone, a job that is being planned or
\* written stops being so, unless the disk killed its task.
JobsSettle ==
  \A j \in Job :
    /\ InState(j, "planning") ~> ~ InState(j, "planning")
    /\ InState(j, "writing") ~> (~ InState(j, "writing") \/ j \in faulted)

\* "Every other exception fails the job with a generic sentence"
\* (handlers.py:11): a job being written does not stay so for ever.
EveryExceptionFailsTheJob ==
  \A j \in Job : InState(j, "writing") ~> ~ InState(j, "writing")
=============================================================================
