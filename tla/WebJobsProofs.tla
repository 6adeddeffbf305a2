---------------------------- MODULE WebJobsProofs ----------------------------
(***************************************************************************)
(* Proofs about WebJobs, for any jobs, premises, tabs and bounds.          *)
(*                                                                         *)
(* The handlers share the registry with the background tasks and take no   *)
(* lock.  What keeps them apart is that every handler that starts a task   *)
(* moves its job, in the same step, out of the one state that lets a       *)
(* handler start a task: a job has a task at work only while it is in      *)
(* planning or in writing, and then it has one.  That is TaskInv.  What    *)
(* a task will write is fixed by its job's record until it ends.           *)
(***************************************************************************)
EXTENDS WebJobs, TLAPS

\* What a job's record holds in each of its states.
RecordInv(j) ==
  /\ j \in created
  /\ registry[j].notes = accepted[j]
  /\ registry[j].notes < spawned[j]
  /\ registry[j].state = "planning" =>
       registry[j].dir = Nothing /\ registry[j].story = Nothing
  /\ registry[j].state = "awaiting_approval" =>
       /\ registry[j].dir = Nothing /\ registry[j].story = Nothing
       /\ registry[j].outline \in Outline
       /\ registry[j].outline.notes = accepted[j]
  /\ registry[j].state = "writing" =>
       /\ registry[j].story = Nothing
       /\ registry[j].outline \in Outline
       /\ registry[j].outline = approved[j]
  /\ registry[j].state = "complete" =>
       /\ registry[j].dir \in Directory
       /\ registry[j].story = [job |-> j, outline |-> approved[j]]
  /\ registry[j].state = "failed" => registry[j].story = Nothing

JobInv(j) == /\ Known(j) => RecordInv(j)
             /\ j \notin created => accepted[j] = 0

\* A task serves the state its job is in, with what it read of the job.
TaskInv(t) ==
  /\ InState(t.job, IF t.kind = "plan" THEN "planning" ELSE "writing")
  /\ t.kind = "plan" /\ t.step = "running" => t.notes = registry[t.job].notes
  /\ t.kind = "write" /\ t.step = "spawned" => registry[t.job].dir = Nothing
  /\ t.kind = "write" /\ t.step = "running" =>
       /\ registry[t.job].dir \in Directory
       /\ t.outline = registry[t.job].outline

OneTask == \A t, u \in tasks : t.job = u.job => t = u

\* A book on disk was approved, and its job will not be approved again.
FileInv(d) ==
  disk[d].status = "book" =>
    /\ disk[d].story \in Story
    /\ disk[d].story.job \in created
    /\ disk[d].story.outline = approved[disk[d].story.job]
    /\ Known(disk[d].story.job) => registry[disk[d].story.job].state = "complete"

IInv ==
  /\ TypeOK
  /\ \A j \in Job : JobInv(j)
  /\ \A t \in tasks : TaskInv(t)
  /\ OneTask
  /\ \A d \in Directory : FileInv(d)
  /\ CompleteMeansSaved

-----------------------------------------------------------------------------
(* What a step that serves one job keeps of the others.                    *)

\* The step leaves every record but job j's alone.
OthersKept(j) ==
  \A k \in Job \ {j} :
    /\ registry'[k] = registry[k]
    /\ accepted'[k] = accepted[k] /\ approved'[k] = approved[k]
    /\ spawned'[k] = spawned[k]

\* Job j is new, or at work: no book on disk can be its own.
Unfinished(j) == j \notin created \/ (Known(j) /\ registry[j].state # "complete")

\* A directory is as it was, new, or job j's own.
FilesOf(j) ==
  \A d \in Directory :
    \/ disk'[d] = disk[d]
    \/ disk[d] = Holding("no_directory") /\ disk'[d].status # "book"
    \/ d = registry'[j].dir /\ FileInv(d)'

LEMMA OtherFiles ==
  ASSUME IInv, NEW j \in Job, OthersKept(j), Unfinished(j), created' = created \cup {j},
         FilesOf(j)
  PROVE  \A d \in Directory : FileInv(d)'
<1> SUFFICES ASSUME NEW d \in Directory PROVE FileInv(d)'
  OBVIOUS
<1>1. FileInv(d)
  BY DEF IInv
<1>2. CASE disk'[d] = disk[d]
  <2>1. SUFFICES ASSUME disk[d].status = "book"
                 PROVE  /\ disk[d].story.outline = approved'[disk[d].story.job]
                        /\ Known(disk[d].story.job)' =>
                             registry'[disk[d].story.job].state = "complete"
    BY <1>1, <1>2 DEF FileInv
  <2>2. disk[d].story.job # j
    BY <1>1, <2>1 DEF FileInv, Unfinished
  <2>3. disk[d].story.job \in Job
    BY <1>1, <2>1 DEF FileInv, Story
  <2> QED
    BY <1>1, <1>2, <2>1, <2>2, <2>3 DEF FileInv, OthersKept, Known
<1>3. CASE disk'[d].status # "book"
  BY <1>3 DEF FileInv
<1>4. CASE FileInv(d)'
  BY <1>4
<1>5. \/ disk'[d] = disk[d]
      \/ disk'[d].status # "book"
      \/ FileInv(d)'
  BY DEF FilesOf
<1> QED
  BY <1>2, <1>3, <1>4, <1>5

\* A complete job keeps its book: the step's own job has another directory, or
\* shares this one.
LEMMA OtherBooks ==
  ASSUME IInv, NEW j \in Job, OthersKept(j), Unfinished(j), created' = created \cup {j},
         FilesOf(j), Known(j)',
         Known(j) => registry[j].dir \in {Nothing, registry'[j].dir},
         InState(j, "complete")' => disk'[registry'[j].dir] = WholeBook(registry'[j].story)
  PROVE  CompleteMeansSaved'
<1> SUFFICES ASSUME NEW k \in Job, InState(k, "complete")', ~ SharesDirectory(k)'
             PROVE  disk'[registry'[k].dir] = WholeBook(registry'[k].story)
  BY DEF CompleteMeansSaved
<1>1. CASE k = j
  BY <1>1
<1>2. CASE k # j
  <2>1. registry'[k] = registry[k] /\ InState(k, "complete")
    BY <1>2 DEF OthersKept, InState, Known
  <2>2. registry[k].dir \in Directory
    BY <2>1 DEF IInv, JobInv, RecordInv, InState
  <2>3. registry'[j].dir # registry[k].dir
    BY <1>2, <2>1 DEF SharesDirectory
  <2>4. ~ SharesDirectory(k)
    <3> SUFFICES ASSUME NEW m \in Job \ {k}, Known(m), registry[m].dir = registry[k].dir
                 PROVE  FALSE
      BY DEF SharesDirectory
    <3>1. CASE m = j
      BY <2>2, <2>3, <3>1, NothingAssumption
    <3>2. CASE m # j
      BY <2>1, <3>2 DEF OthersKept, SharesDirectory, Known
    <3> QED
      BY <3>1, <3>2
  <2>5. disk[registry[k].dir] = WholeBook(registry[k].story)
    BY <2>1, <2>4 DEF IInv, CompleteMeansSaved
  <2>6. disk[registry[k].dir] # Holding("no_directory")
    BY <2>5 DEF WholeBook, Holding
  <2>7. disk'[registry[k].dir] = disk[registry[k].dir]
    BY <2>2, <2>3, <2>6 DEF FilesOf
  <2> QED
    BY <2>1, <2>5, <2>7
<1> QED
  BY <1>1, <1>2

\* A step that serves one job keeps the invariant if it keeps it for that job.
LEMMA OneJobSteps ==
  ASSUME IInv, TypeOK', NEW j \in Job, OthersKept(j), Unfinished(j),
         created' = created \cup {j}, FilesOf(j), Known(j)', JobInv(j)',
         Known(j) => registry[j].dir \in {Nothing, registry'[j].dir},
         InState(j, "complete")' => disk'[registry'[j].dir] = WholeBook(registry'[j].story),
         \A t \in tasks' : t.job # j => t \in tasks,
         \A t \in tasks' : t.job = j => TaskInv(t)',
         \A t, u \in tasks' : t.job = j /\ u.job = j => t = u
  PROVE  IInv'
<1>1. \A k \in Job : JobInv(k)'
  <2> SUFFICES ASSUME NEW k \in Job, k # j PROVE JobInv(k)'
    OBVIOUS
  <2>1. JobInv(k)
    BY DEF IInv
  <2> QED
    BY <2>1 DEF JobInv, RecordInv, OthersKept, Known
<1>2. \A t \in tasks' : TaskInv(t)'
  <2> SUFFICES ASSUME NEW t \in tasks', t.job # j PROVE TaskInv(t)'
    OBVIOUS
  <2>1. t \in tasks /\ TaskInv(t) /\ t.job \in Job
    BY DEF IInv, TypeOK, Task
  <2> QED
    BY <2>1 DEF TaskInv, OthersKept, InState, Known
<1>3. OneTask'
  BY DEF IInv, OneTask
<1> QED
  BY <1>1, <1>2, <1>3, OtherFiles, OtherBooks DEF IInv

\* Steps that touch no job, no task and no file.
LEMMA QuietSteps ==
  ASSUME IInv, TypeOK',
         UNCHANGED <<registry, created, tasks, spawned, disk, accepted, approved>>
  PROVE  IInv'
<1>1. \A j \in Job : JobInv(j)'
  BY DEF IInv, JobInv, RecordInv, Known
<1>2. \A t \in tasks' : TaskInv(t)'
  BY DEF IInv, TaskInv, InState, Known
<1>3. \A d \in Directory : FileInv(d)'
  BY DEF IInv, FileInv, Known
<1>4. OneTask' /\ CompleteMeansSaved'
  BY DEF IInv, OneTask, CompleteMeansSaved, SharesDirectory, InState, Known
<1> QED
  BY <1>1, <1>2, <1>3, <1>4 DEF IInv
-----------------------------------------------------------------------------
(* What the background tasks do.                                           *)

\* A task's job is known, at work, and has no other task.
LEMMA AtWork ==
  ASSUME IInv, NEW t \in tasks
  PROVE  /\ t \in Task /\ t.job \in Job
         /\ Known(t.job) /\ registry[t.job] \in JobRecord /\ RecordInv(t.job)
         /\ registry[t.job].state = (IF t.kind = "plan" THEN "planning" ELSE "writing")
         /\ Unfinished(t.job) /\ t.job \in created
         /\ \A u \in tasks : u.job = t.job => u = t
<1>1. t \in Task /\ t.job \in Job
  BY DEF IInv, TypeOK, Task
<1>2. /\ Known(t.job)
      /\ registry[t.job].state = (IF t.kind = "plan" THEN "planning" ELSE "writing")
  BY DEF IInv, TaskInv, InState
<1>3. registry[t.job] \in JobRecord
  BY <1>1, <1>2 DEF IInv, TypeOK, Known
<1>4. RecordInv(t.job)
  BY <1>1, <1>2 DEF IInv, JobInv
<1>5. \A u \in tasks : u.job = t.job => u = t
  BY DEF IInv, OneTask
<1> QED
  BY <1>1, <1>2, <1>3, <1>4, <1>5 DEF Unfinished, RecordInv

LEMMA PlanStartsKeeps ==
  ASSUME IInv, NEW t \in tasks, PlanStarts(t),
         UNCHANGED <<created, spawned, revising, now, restarts, accepted, approved, faulted>>
  PROVE  IInv'
<1> DEFINE j == t.job
<1> USE DEF PlanStarts
<1>1. /\ t \in Task /\ j \in Job /\ Known(j) /\ registry[j] \in JobRecord /\ RecordInv(j)
      /\ registry[j].state = "planning" /\ Unfinished(j) /\ j \in created
      /\ \A u \in tasks : u.job = j => u = t
  BY AtWork
<1>2. /\ Running(t) \in Task /\ Running(t).job = j /\ Running(t).kind = "plan"
      /\ Running(t).step = "running" /\ Running(t).notes = registry[j].notes
  BY <1>1 DEF Running, Task, JobRecord
<1>3. TypeOK'
  BY <1>2 DEF IInv, TypeOK
<1>4. OthersKept(j) /\ FilesOf(j)
  BY DEF OthersKept, FilesOf
<1>5. JobInv(j)' /\ Known(j)'
  BY <1>1 DEF JobInv, RecordInv, Known
<1>6. \A u \in tasks' : u.job = j => u = Running(t)
  BY <1>1
<1>7. \A u \in tasks' : u.job = j => TaskInv(u)'
  BY <1>1, <1>2, <1>6 DEF TaskInv, InState, Known
<1>8. ~ InState(j, "complete")'
  BY <1>1 DEF InState
<1>9. \A u \in tasks' : u.job # j => u \in tasks
  BY <1>2
<1>10. created' = created \cup {j} /\ registry'[j] = registry[j]
  BY <1>1
<1> HIDE DEF j, PlanStarts
<1> QED
  BY <1>1, <1>3, <1>4, <1>5, <1>6, <1>7, <1>8, <1>9, <1>10, OneJobSteps

LEMMA PlanReturnsKeeps ==
  ASSUME IInv, NEW t \in tasks, PlanReturns(t),
         UNCHANGED <<created, spawned, revising, now, restarts, accepted, approved, faulted>>
  PROVE  IInv'
<1> DEFINE j == t.job
           plan == [plan |-> t.nth, notes |-> t.notes]
<1>1. /\ t \in Task /\ j \in Job /\ Known(j) /\ registry[j] \in JobRecord /\ RecordInv(j)
      /\ registry[j].state = "planning" /\ Unfinished(j) /\ j \in created
      /\ \A u \in tasks : u.job = j => u = t
  BY AtWork DEF PlanReturns
<1>2. plan \in Outline /\ plan.notes = registry[j].notes
  <2>1. plan \in Outline
    BY <1>1 DEF Task, Outline
  <2>2. plan.notes = registry[j].notes
    BY DEF IInv, TaskInv, PlanReturns
  <2> QED
    BY <2>1, <2>2
<1> HIDE DEF plan
<1>3. registry' = [registry EXCEPT ![j] = [registry[j] EXCEPT !.state = "awaiting_approval",
                                                              !.outline = plan]]
  BY <1>1 DEF PlanReturns, plan, JobRecord, IInv, TypeOK
<1>4. /\ registry'[j] = [registry[j] EXCEPT !.state = "awaiting_approval", !.outline = plan]
      /\ \A k \in Job \ {j} : registry'[k] = registry[k]
  BY <1>1, <1>3 DEF IInv, TypeOK
<1>5. /\ registry'[j] \in JobRecord /\ registry'[j] # Nothing
      /\ registry'[j].state = "awaiting_approval" /\ registry'[j].outline = plan
      /\ registry'[j].dir = registry[j].dir /\ registry'[j].story = registry[j].story
      /\ registry'[j].notes = registry[j].notes
  <2>1. registry'[j] \in JobRecord
    BY <1>1, <1>2, <1>4 DEF JobRecord
  <2> QED
    BY <1>1, <1>4, <2>1, NothingAssumption DEF JobRecord
<1>6. tasks' = tasks \ {t} /\ disk' = disk
  BY DEF PlanReturns
<1>7. TypeOK'
  BY <1>1, <1>3, <1>5, <1>6 DEF IInv, TypeOK
<1>8. OthersKept(j) /\ FilesOf(j)
  BY <1>4, <1>6 DEF OthersKept, FilesOf
<1>9. JobInv(j)' /\ Known(j)'
  BY <1>1, <1>2, <1>5 DEF JobInv, RecordInv, Known
<1>10. /\ \A u \in tasks' : u.job # j /\ u \in tasks
       /\ created' = created \cup {j}
  BY <1>1, <1>6
<1>11. ~ InState(j, "complete")' /\ registry[j].dir \in {Nothing, registry'[j].dir}
  BY <1>5 DEF InState
<1> HIDE DEF j
<1> QED
  BY <1>1, <1>7, <1>8, <1>9, <1>10, <1>11, OneJobSteps

LEMMA PipelineRaisesKeeps ==
  ASSUME IInv, NEW t \in tasks, PipelineRaises(t),
         UNCHANGED <<created, spawned, revising, now, restarts, accepted, approved, faulted>>
  PROVE  IInv'
<1> DEFINE j == t.job
<1>1. /\ t \in Task /\ j \in Job /\ Known(j) /\ registry[j] \in JobRecord /\ RecordInv(j)
      /\ registry[j].state \in {"planning", "writing"} /\ Unfinished(j) /\ j \in created
      /\ \A u \in tasks : u.job = j => u = t
  BY AtWork
<1>2. /\ registry' = [registry EXCEPT ![j] = [registry[j] EXCEPT !.state = "failed"]]
      /\ tasks' = tasks \ {t} /\ disk' = disk
  BY <1>1 DEF PipelineRaises, Fail, IInv, TypeOK
<1>3. /\ registry'[j] = [registry[j] EXCEPT !.state = "failed"]
      /\ \A k \in Job \ {j} : registry'[k] = registry[k]
  BY <1>1, <1>2 DEF IInv, TypeOK
<1>4. /\ registry'[j] \in JobRecord /\ registry'[j] # Nothing
      /\ registry'[j].state = "failed" /\ registry'[j].story = Nothing
      /\ registry'[j].dir = registry[j].dir /\ registry'[j].notes = registry[j].notes
  <2>1. registry'[j] \in JobRecord
    BY <1>1, <1>3 DEF JobRecord
  <2> QED
    BY <1>1, <1>3, <2>1, NothingAssumption DEF JobRecord, RecordInv
<1>5. TypeOK'
  BY <1>1, <1>2, <1>4 DEF IInv, TypeOK
<1>6. OthersKept(j) /\ FilesOf(j)
  BY <1>2, <1>3 DEF OthersKept, FilesOf
<1>7. JobInv(j)' /\ Known(j)'
  BY <1>1, <1>4 DEF JobInv, RecordInv, Known
<1>8. /\ \A u \in tasks' : u.job # j /\ u \in tasks
      /\ created' = created \cup {j}
  BY <1>1, <1>2
<1>9. ~ InState(j, "complete")' /\ registry[j].dir \in {Nothing, registry'[j].dir}
  BY <1>4 DEF InState
<1> HIDE DEF j
<1> QED
  BY <1>1, <1>5, <1>6, <1>7, <1>8, <1>9, OneJobSteps

LEMMA WriteStartsKeeps ==
  ASSUME IInv, NEW t \in tasks, WriteStarts(t),
         UNCHANGED <<created, spawned, revising, now, restarts, accepted, approved, faulted>>
  PROVE  IInv'
<1> DEFINE j == t.job
           dir == RunDirectory(j)
<1>1. /\ t \in Task /\ j \in Job /\ Known(j) /\ registry[j] \in JobRecord /\ RecordInv(j)
      /\ registry[j].state = "writing" /\ Unfinished(j) /\ j \in created
      /\ \A u \in tasks : u.job = j => u = t
  BY AtWork DEF WriteStarts
<1>2. dir \in Directory /\ registry[j].dir = Nothing
  <2>1. registry[j].premise \in Premise /\ now \in 0..MaxTime
    BY <1>1 DEF JobRecord, IInv, TypeOK
  <2>2. registry[j].dir = Nothing
    BY DEF IInv, TaskInv, WriteStarts
  <2> QED
    BY <2>1, <2>2 DEF RunDirectory, Directory
<1>3. /\ registry' = [registry EXCEPT ![j] = [registry[j] EXCEPT !.dir = dir]]
      /\ tasks' = (tasks \ {t}) \cup {Running(t)}
  BY <1>1 DEF WriteStarts, IInv, TypeOK
<1>4. disk' = [disk EXCEPT ![dir] = IF @ = Holding("no_directory") THEN Holding("no_file") ELSE @]
  BY DEF WriteStarts
<1> HIDE DEF dir
<1>5. /\ registry'[j] = [registry[j] EXCEPT !.dir = dir]
      /\ \A k \in Job \ {j} : registry'[k] = registry[k]
  BY <1>1, <1>3 DEF IInv, TypeOK
<1>6. /\ registry'[j] \in JobRecord /\ registry'[j] # Nothing
      /\ registry'[j].state = "writing" /\ registry'[j].dir = dir
      /\ registry'[j].story = registry[j].story /\ registry'[j].notes = registry[j].notes
      /\ registry'[j].outline = registry[j].outline
  <2>1. registry'[j] \in JobRecord
    BY <1>1, <1>2, <1>5 DEF JobRecord
  <2> QED
    BY <1>1, <1>5, <2>1, NothingAssumption DEF JobRecord
<1>7. /\ Running(t) \in Task /\ Running(t).job = j /\ Running(t).kind = "write"
      /\ Running(t).step = "running" /\ Running(t).outline = registry[j].outline
  BY <1>1 DEF Running, Task, JobRecord, WriteStarts
<1>8. /\ \A d \in Directory : disk'[d] = disk[d] \/ (disk[d] = Holding("no_directory")
                                                    /\ disk'[d] = Holding("no_file"))
      /\ disk' \in [Directory -> File]
  <2>1. Holding("no_file") \in File
    BY DEF Holding, File
  <2> QED
    BY <1>2, <1>4, <2>1 DEF IInv, TypeOK
<1>9. TypeOK'
  BY <1>1, <1>3, <1>6, <1>7, <1>8 DEF IInv, TypeOK
<1>10. OthersKept(j) /\ FilesOf(j)
  <2>1. Holding("no_file").status # "book"
    BY DEF Holding
  <2> QED
    BY <1>5, <1>8, <2>1 DEF OthersKept, FilesOf
<1>11. JobInv(j)' /\ Known(j)'
  BY <1>1, <1>6 DEF JobInv, RecordInv, Known
<1>12. \A u \in tasks' : u.job = j => u = Running(t)
  BY <1>1, <1>3
<1>13. \A u \in tasks' : u.job = j => TaskInv(u)'
  <2> SUFFICES ASSUME NEW u \in tasks', u.job = j PROVE TaskInv(u)'
    OBVIOUS
  <2>1. u = Running(t)
    BY <1>12
  <2>2. /\ u.job = j /\ u.kind = "write" /\ u.step = "running"
        /\ u.outline = registry[j].outline
    BY <1>7, <2>1
  <2> QED
    BY <1>2, <1>6, <2>2 DEF TaskInv, InState, Known
<1>14. /\ \A u \in tasks' : u.job # j => u \in tasks
       /\ created' = created \cup {j}
       /\ ~ InState(j, "complete")' /\ registry[j].dir \in {Nothing, registry'[j].dir}
  BY <1>1, <1>2, <1>3, <1>6, <1>7 DEF InState
<1> HIDE DEF j
<1> QED
  BY <1>1, <1>9, <1>10, <1>11, <1>12, <1>13, <1>14, OneJobSteps

LEMMA WriteReturnsKeeps ==
  ASSUME IInv, NEW t \in tasks, WriteReturns(t),
         UNCHANGED <<created, spawned, revising, now, restarts, accepted, approved, faulted>>
  PROVE  IInv'
<1> DEFINE j == t.job
           story == BookOf(t)
           dir == registry[j].dir
<1>1. /\ t \in Task /\ j \in Job /\ Known(j) /\ registry[j] \in JobRecord /\ RecordInv(j)
      /\ registry[j].state = "writing" /\ Unfinished(j) /\ j \in created
      /\ \A u \in tasks : u.job = j => u = t
  BY AtWork DEF WriteReturns
<1>2. dir \in Directory /\ t.outline = approved[j] /\ t.outline \in Outline
  <2>1. dir \in Directory /\ t.outline = registry[j].outline
    BY DEF IInv, TaskInv, WriteReturns
  <2> QED
    BY <1>1, <2>1 DEF RecordInv
<1>3. story = [job |-> j, outline |-> approved[j]] /\ story \in Story
  BY <1>1, <1>2 DEF BookOf, Story
<1>4. /\ registry' = [registry EXCEPT ![j] = [registry[j] EXCEPT !.state = "complete",
                                                                 !.story = story]]
      /\ tasks' = tasks \ {t}
  BY <1>1 DEF WriteReturns, IInv, TypeOK
<1>5. disk' = [disk EXCEPT ![dir] = WholeBook(story)]
  BY DEF WriteReturns
<1> HIDE DEF dir, story
<1>6. /\ registry'[j] = [registry[j] EXCEPT !.state = "complete", !.story = story]
      /\ \A k \in Job \ {j} : registry'[k] = registry[k]
  BY <1>1, <1>4 DEF IInv, TypeOK
<1>7. /\ registry'[j] \in JobRecord /\ registry'[j] # Nothing
      /\ registry'[j].state = "complete" /\ registry'[j].dir = registry[j].dir
      /\ registry'[j].story = story /\ registry'[j].notes = registry[j].notes
  <2>1. registry'[j] \in JobRecord
    BY <1>1, <1>3, <1>6 DEF JobRecord
  <2> QED
    BY <1>1, <1>6, <2>1, NothingAssumption DEF JobRecord
<1>8. /\ disk' \in [Directory -> File] /\ disk'[dir] = WholeBook(story)
      /\ \A d \in Directory : d # dir => disk'[d] = disk[d]
  <2>1. WholeBook(story) \in File
    BY <1>3 DEF WholeBook, File
  <2> QED
    BY <1>2, <1>5, <2>1 DEF IInv, TypeOK
<1>9. TypeOK'
  BY <1>1, <1>4, <1>7, <1>8 DEF IInv, TypeOK
<1>10. \A d \in Directory : d = dir => FileInv(d)'
  <2> SUFFICES ASSUME NEW d \in Directory, d = dir PROVE FileInv(d)'
    OBVIOUS
  <2>1. /\ disk'[d].story \in Story /\ disk'[d].story.job = j
        /\ disk'[d].story.outline = approved[j]
    BY <1>3, <1>8 DEF WholeBook
  <2> QED
    BY <1>1, <1>7, <2>1 DEF FileInv
<1>11. OthersKept(j) /\ FilesOf(j)
  <2>1. registry'[j].dir = dir
    BY <1>7 DEF dir
  <2> QED
    BY <1>6, <1>8, <1>10, <2>1 DEF OthersKept, FilesOf
<1>12. JobInv(j)' /\ Known(j)'
  BY <1>1, <1>2, <1>3, <1>7 DEF JobInv, RecordInv, Known, dir
<1>13. /\ \A u \in tasks' : u.job # j /\ u \in tasks
       /\ created' = created \cup {j}
       /\ registry[j].dir = registry'[j].dir
       /\ disk'[registry'[j].dir] = WholeBook(registry'[j].story)
  BY <1>1, <1>4, <1>7, <1>8 DEF dir
<1> HIDE DEF j
<1> QED
  BY <1>1, <1>9, <1>11, <1>12, <1>13, OneJobSteps

LEMMA DiskFaultKeeps ==
  ASSUME IInv, NEW t \in tasks, DiskFault(t),
         UNCHANGED <<created, spawned, revising, now, restarts, accepted, approved>>
  PROVE  IInv'
<1> DEFINE j == t.job
<1>1. /\ t \in Task /\ j \in Job /\ Known(j) /\ registry[j] \in JobRecord /\ RecordInv(j)
      /\ registry[j].state = "writing" /\ Unfinished(j) /\ j \in created
      /\ \A u \in tasks : u.job = j => u = t
  BY AtWork DEF DiskFault
<1>2. registry' = registry /\ tasks' = tasks \ {t} /\ faulted' \subseteq Job
  BY <1>1 DEF DiskFault, IInv, TypeOK
<1>3. \/ disk' = disk
      \/ /\ registry[j].dir \in Directory
         /\ \E file \in CutShort : disk' = [disk EXCEPT ![registry[j].dir] = file]
  <2>1. t.step = "running" => registry[j].dir \in Directory
    BY DEF IInv, TaskInv, DiskFault
  <2> QED
    BY <2>1 DEF DiskFault
<1>4. \A file \in CutShort : file \in File /\ file.status # "book"
  BY DEF CutShort, Holding, File
<1>5. /\ disk' \in [Directory -> File]
      /\ \A d \in Directory : disk'[d] = disk[d] \/ (d = registry[j].dir /\ disk'[d].status # "book")
  BY <1>3, <1>4 DEF IInv, TypeOK
<1>6. TypeOK'
  BY <1>2, <1>5 DEF IInv, TypeOK
<1>7. OthersKept(j) /\ FilesOf(j)
  BY <1>2, <1>5 DEF OthersKept, FilesOf, FileInv
<1>8. JobInv(j)' /\ Known(j)'
  BY <1>1, <1>2 DEF JobInv, RecordInv, Known
<1>9. /\ \A u \in tasks' : u.job # j /\ u \in tasks
      /\ created' = created \cup {j}
      /\ registry[j].dir = registry'[j].dir
      /\ ~ InState(j, "complete")'
  BY <1>1, <1>2 DEF InState
<1> HIDE DEF j
<1> QED
  BY <1>1, <1>6, <1>7, <1>8, <1>9, OneJobSteps

-----------------------------------------------------------------------------
(* What the handlers do.                                                   *)

\* What a spawn adds: one task that has read nothing, the job's next.
Spawned(j, kind) ==
  [job |-> j, kind |-> kind, nth |-> spawned[j] + 1,
   step |-> "spawned", outline |-> Nothing, notes |-> 0]

LEMMA SpawnAdds ==
  ASSUME IInv, NEW j \in Job, NEW kind \in {"plan", "write"}, Spawn(j, kind)
  PROVE  /\ Spawned(j, kind) \in Task /\ tasks' = tasks \cup {Spawned(j, kind)}
         /\ tasks' \subseteq Task /\ spawned' \in [Job -> 0..MaxSpawns]
         /\ spawned'[j] = spawned[j] + 1 /\ spawned[j] \in Nat
         /\ \A k \in Job \ {j} : spawned'[k] = spawned[k]
         /\ \A u \in tasks' : u.job # j => u \in tasks
<1>1. spawned[j] \in 0..MaxSpawns /\ MaxSpawns \in Nat /\ spawned[j] + 1 \in 1..MaxSpawns
  BY BoundsAssumption DEF IInv, TypeOK, Spawn
<1>2. Spawned(j, kind) \in Task /\ Spawned(j, kind).job = j
  BY <1>1 DEF Spawned, Task
<1>3. tasks' = tasks \cup {Spawned(j, kind)} /\ spawned' = [spawned EXCEPT ![j] = @ + 1]
  BY DEF Spawn, Spawned
<1> QED
  BY <1>1, <1>2, <1>3 DEF IInv, TypeOK

\* A job that is in neither of the two working states has no task.
LEMMA Idle ==
  ASSUME IInv, NEW j \in Job, ~ InState(j, "planning"), ~ InState(j, "writing")
  PROVE  \A t \in tasks : t.job # j
BY DEF IInv, TaskInv

LEMMA PostPlanKeeps ==
  ASSUME IInv, NEW j \in Job, NEW premise \in Premise, PostPlan(j, premise)
  PROVE  IInv'
<1> DEFINE record == [state |-> "planning", premise |-> premise, notes |-> 0,
                      outline |-> Nothing, story |-> Nothing, dir |-> Nothing]
           task == Spawned(j, "plan")
<1>1. j \notin created /\ ~ Known(j) /\ accepted[j] = 0 /\ Unfinished(j)
  BY DEF PostPlan, IInv, JobInv, RecordInv, Unfinished
<1>2. Spawn(j, "plan")
  BY DEF PostPlan
<1>3. /\ task \in Task /\ tasks' = tasks \cup {task} /\ tasks' \subseteq Task
      /\ spawned' \in [Job -> 0..MaxSpawns] /\ spawned'[j] > 0
      /\ \A k \in Job \ {j} : spawned'[k] = spawned[k]
      /\ \A u \in tasks' : u.job # j => u \in tasks
  BY <1>2, SpawnAdds
<1>4. record \in JobRecord /\ record # Nothing
  <2>1. record \in JobRecord
    BY BoundsAssumption DEF JobRecord
  <2> QED
    BY <2>1, NothingAssumption
<1>5. record.state = "planning" /\ record.notes = 0 /\ record.dir = Nothing /\ record.story = Nothing
  OBVIOUS
<1> HIDE DEF record
<1>6. /\ registry' \in [Job -> JobRecord \cup {Nothing}] /\ registry'[j] = record
      /\ \A k \in Job \ {j} : registry'[k] = registry[k]
  BY <1>4 DEF PostPlan, record, IInv, TypeOK
<1>7. /\ UNCHANGED <<revising, disk, now, restarts, accepted, approved, faulted>>
      /\ created' = created \cup {j}
  BY DEF PostPlan
<1>8. TypeOK'
  BY <1>3, <1>6, <1>7 DEF IInv, TypeOK
<1>9. OthersKept(j) /\ FilesOf(j)
  BY <1>3, <1>6, <1>7 DEF OthersKept, FilesOf
<1>10. JobInv(j)' /\ Known(j)'
  BY <1>1, <1>3, <1>4, <1>5, <1>6, <1>7 DEF JobInv, RecordInv, Known
<1>11. \A u \in tasks' : u.job = j => u = task
  BY <1>1, <1>3, Idle DEF InState
<1>12. task.job = j /\ task.kind = "plan" /\ task.step = "spawned"
  BY DEF Spawned
<1> HIDE DEF task
<1>13. \A u \in tasks' : u.job = j => TaskInv(u)'
  BY <1>4, <1>5, <1>6, <1>11, <1>12 DEF TaskInv, InState, Known
<1>14. ~ InState(j, "complete")'
  BY <1>5, <1>6 DEF InState
<1> QED
  BY <1>1, <1>3, <1>7, <1>8, <1>9, <1>10, <1>11, <1>13, <1>14, OneJobSteps

LEMMA PostApproveKeeps ==
  ASSUME IInv, NEW j \in Job, PostApprove(j)
  PROVE  IInv'
<1> DEFINE task == Spawned(j, "write")
<1>1. Known(j) /\ registry[j].state = "awaiting_approval" /\ Spawn(j, "write")
  BY DEF PostApprove, AwaitsApproval, InState
<1>2. registry[j] \in JobRecord /\ RecordInv(j) /\ Unfinished(j) /\ j \in created
  BY <1>1 DEF IInv, TypeOK, JobInv, RecordInv, Known, Unfinished
<1>3. /\ task \in Task /\ tasks' = tasks \cup {task} /\ tasks' \subseteq Task
      /\ spawned' \in [Job -> 0..MaxSpawns] /\ spawned'[j] = spawned[j] + 1
      /\ spawned[j] \in Nat
      /\ \A k \in Job \ {j} : spawned'[k] = spawned[k]
      /\ \A u \in tasks' : u.job # j => u \in tasks
  BY <1>1, SpawnAdds
<1>4. registry' = [registry EXCEPT ![j] = [registry[j] EXCEPT !.state = "writing"]]
  BY <1>2 DEF PostApprove, IInv, TypeOK
<1>5. /\ registry'[j] = [registry[j] EXCEPT !.state = "writing"]
      /\ \A k \in Job \ {j} : registry'[k] = registry[k]
  BY <1>4 DEF IInv, TypeOK
<1>6. /\ registry'[j] \in JobRecord /\ registry'[j] # Nothing
      /\ registry'[j].state = "writing" /\ registry'[j].dir = Nothing
      /\ registry'[j].story = Nothing /\ registry'[j].notes = registry[j].notes
      /\ registry'[j].outline = registry[j].outline /\ registry[j].outline \in Outline
      /\ registry[j].dir = Nothing
  <2>1. registry'[j] \in JobRecord
    BY <1>2, <1>5 DEF JobRecord
  <2> QED
    BY <1>1, <1>2, <1>5, <2>1, NothingAssumption DEF JobRecord, RecordInv
<1>7. /\ UNCHANGED <<created, revising, disk, now, restarts, accepted, faulted>>
      /\ approved' = [approved EXCEPT ![j] = registry[j].outline]
  BY DEF PostApprove
<1>8. /\ approved' \in [Job -> Outline \cup {Nothing}] /\ approved'[j] = registry[j].outline
      /\ \A k \in Job \ {j} : approved'[k] = approved[k]
  BY <1>6, <1>7 DEF IInv, TypeOK
<1>9. TypeOK'
  BY <1>3, <1>4, <1>6, <1>7, <1>8 DEF IInv, TypeOK
<1>10. OthersKept(j) /\ FilesOf(j)
  BY <1>3, <1>5, <1>7, <1>8 DEF OthersKept, FilesOf
<1>11. registry'[j].notes < spawned'[j]
  BY <1>2, <1>3, <1>6 DEF RecordInv, JobRecord
<1>12. JobInv(j)' /\ Known(j)'
  BY <1>2, <1>6, <1>7, <1>8, <1>11 DEF JobInv, RecordInv, Known
<1>13. \A u \in tasks' : u.job = j => u = task
  BY <1>1, <1>3, Idle DEF InState
<1>14. task.job = j /\ task.kind = "write" /\ task.step = "spawned"
  BY DEF Spawned
<1> HIDE DEF task
<1>15. \A u \in tasks' : u.job = j => TaskInv(u)'
  BY <1>6, <1>13, <1>14 DEF TaskInv, InState, Known
<1>16. ~ InState(j, "complete")' /\ created' = created \cup {j}
  BY <1>2, <1>6, <1>7 DEF InState
<1> QED
  BY <1>2, <1>3, <1>6, <1>9, <1>10, <1>12, <1>13, <1>15, <1>16, OneJobSteps

LEMMA ReviseArrivesKeeps ==
  ASSUME IInv, NEW tab \in Tab, NEW j \in Job, ReviseArrives(tab, j)
  PROVE  IInv'
<1>1. TypeOK'
  BY DEF IInv, TypeOK, ReviseArrives
<1> QED
  BY <1>1, QuietSteps DEF ReviseArrives

LEMMA ReviseRunsKeeps ==
  ASSUME IInv, NEW tab \in Tab, NEW j \in Job, NEW note \in BOOLEAN, ReviseRuns(tab, j, note)
  PROVE  IInv'
<1> DEFINE task == Spawned(j, "plan")
           notes == NotesAfter(j, note)
<1>1. CASE ~ AwaitsApproval(j)
  <2>1. UNCHANGED <<registry, created, tasks, spawned, disk, accepted, approved>>
    BY <1>1 DEF ReviseRuns
  <2>2. TypeOK'
    BY <2>1 DEF IInv, TypeOK, ReviseRuns
  <2> QED
    BY <2>1, <2>2, QuietSteps
<1>2. CASE AwaitsApproval(j)
  <2>1. Known(j) /\ registry[j].state = "awaiting_approval" /\ Spawn(j, "plan")
    BY <1>2 DEF ReviseRuns, AwaitsApproval, InState
  <2>2. registry[j] \in JobRecord /\ RecordInv(j) /\ Unfinished(j) /\ j \in created
    BY <2>1 DEF IInv, TypeOK, JobInv, RecordInv, Known, Unfinished
  <2>3. /\ task \in Task /\ tasks' = tasks \cup {task} /\ tasks' \subseteq Task
        /\ spawned' \in [Job -> 0..MaxSpawns] /\ spawned'[j] = spawned[j] + 1
        /\ spawned[j] \in Nat
        /\ \A k \in Job \ {j} : spawned'[k] = spawned[k]
        /\ \A u \in tasks' : u.job # j => u \in tasks
    BY <2>1, SpawnAdds
  <2>4. /\ notes \in 0..MaxSpawns /\ notes < spawned'[j]
        /\ notes = (IF note THEN accepted[j] + 1 ELSE accepted[j])
    <3>1. /\ registry[j].notes \in 0..MaxSpawns /\ registry[j].notes < spawned[j]
          /\ registry[j].notes = accepted[j] /\ spawned'[j] \in 0..MaxSpawns
      BY <2>2, <2>3 DEF JobRecord, RecordInv
    <3> QED
      BY <3>1, <2>3, BoundsAssumption DEF NotesAfter
  <2> HIDE DEF notes
  <2>5. registry' = [registry EXCEPT ![j] = [registry[j] EXCEPT !.state = "planning",
                                                                !.notes = notes,
                                                                !.outline = Nothing]]
    BY <1>2, <2>2 DEF ReviseRuns, notes, IInv, TypeOK
  <2>6. /\ registry'[j] = [registry[j] EXCEPT !.state = "planning", !.notes = notes,
                                              !.outline = Nothing]
        /\ \A k \in Job \ {j} : registry'[k] = registry[k]
    BY <2>5 DEF IInv, TypeOK
  <2>7. /\ registry'[j] \in JobRecord /\ registry'[j] # Nothing
        /\ registry'[j].state = "planning" /\ registry'[j].dir = Nothing
        /\ registry'[j].story = Nothing /\ registry'[j].notes = notes
        /\ registry[j].dir = Nothing
    <3>1. registry'[j] \in JobRecord
      BY <2>2, <2>4, <2>6 DEF JobRecord
    <3> QED
      BY <2>1, <2>2, <2>6, <3>1, NothingAssumption DEF JobRecord, RecordInv
  <2>8. /\ UNCHANGED <<created, disk, now, restarts, approved, faulted>>
        /\ revising' \subseteq revising
        /\ accepted' = [accepted EXCEPT ![j] = IF note THEN @ + 1 ELSE @]
    BY <1>2 DEF ReviseRuns
  <2>9. /\ accepted' \in [Job -> 0..MaxSpawns] /\ accepted'[j] = notes
        /\ \A k \in Job \ {j} : accepted'[k] = accepted[k]
    BY <2>4, <2>8 DEF IInv, TypeOK
  <2>10. TypeOK'
    BY <2>3, <2>5, <2>7, <2>8, <2>9 DEF IInv, TypeOK
  <2>11. OthersKept(j) /\ FilesOf(j)
    BY <2>3, <2>6, <2>8, <2>9 DEF OthersKept, FilesOf
  <2>12. JobInv(j)' /\ Known(j)'
    BY <2>2, <2>4, <2>7, <2>8, <2>9 DEF JobInv, RecordInv, Known
  <2>13. \A u \in tasks' : u.job = j => u = task
    BY <2>1, <2>3, Idle DEF InState
  <2>14. task.job = j /\ task.kind = "plan" /\ task.step = "spawned"
    BY DEF Spawned
  <2> HIDE DEF task
  <2>15. \A u \in tasks' : u.job = j => TaskInv(u)'
    BY <2>7, <2>13, <2>14 DEF TaskInv, InState, Known
  <2>16. ~ InState(j, "complete")' /\ created' = created \cup {j}
    BY <2>2, <2>7, <2>8 DEF InState
  <2> QED
    BY <2>2, <2>3, <2>7, <2>10, <2>11, <2>12, <2>13, <2>15, <2>16, OneJobSteps
<1> QED
  BY <1>1, <1>2

-----------------------------------------------------------------------------
(* The clock, a restart, and the invariant.                                *)

LEMMA TickKeeps ==
  ASSUME IInv, Tick
  PROVE  IInv'
<1>1. now' \in 0..MaxTime
  BY BoundsAssumption DEF Tick, IInv, TypeOK
<1>2. TypeOK'
  BY <1>1 DEF IInv, TypeOK, Tick
<1> QED
  BY <1>2, QuietSteps DEF Tick

\* What the process leaves behind is of jobs it can no longer move.
LEMMA RestartKeeps ==
  ASSUME IInv, Restart
  PROVE  IInv'
<1>1. /\ registry' = [j \in Job |-> Nothing] /\ tasks' = {} /\ revising' = {}
      /\ UNCHANGED <<created, spawned, now, accepted, approved, faulted>>
      /\ restarts' \in 0..MaxRestarts
  BY BoundsAssumption DEF Restart, IInv, TypeOK
<1>2. /\ disk' \in [Directory -> File]
      /\ \A d \in Directory : FileInv(d)'
  <2>1. CASE UNCHANGED disk
    <3>1. ASSUME NEW d \in Directory PROVE FileInv(d)'
      <4>1. FileInv(d)
        BY DEF IInv
      <4>2. disk[d].status = "book" => disk[d].story.job \in Job
        BY <4>1 DEF FileInv, Story
      <4> QED
        BY <1>1, <2>1, <4>1, <4>2 DEF FileInv, Known
    <3> QED
      BY <2>1, <3>1 DEF IInv, TypeOK
  <2>2. CASE \E t \in {u \in tasks : u.kind = "write" /\ u.step = "running"} :
               \E file \in CutShort \cup {WholeBook(BookOf(t))} :
                 disk' = [disk EXCEPT ![registry[t.job].dir] = file]
    <3>0. PICK t \in tasks :
            /\ t.kind = "write" /\ t.step = "running"
            /\ \E file \in CutShort \cup {WholeBook(BookOf(t))} :
                 disk' = [disk EXCEPT ![registry[t.job].dir] = file]
      BY <2>2
    <3>1. PICK file \in CutShort \cup {WholeBook(BookOf(t))} :
            disk' = [disk EXCEPT ![registry[t.job].dir] = file]
      BY <3>0
    <3>2. /\ t.job \in Job /\ RecordInv(t.job) /\ registry[t.job].state = "writing"
          /\ t.job \in created
      BY <3>0, AtWork
    <3>3. registry[t.job].dir \in Directory /\ t.outline = registry[t.job].outline
      BY <3>0 DEF IInv, TaskInv
    <3>4. /\ BookOf(t) \in Story /\ BookOf(t).job = t.job
          /\ BookOf(t).outline = approved[t.job]
      BY <3>2, <3>3 DEF BookOf, Story, RecordInv
    <3>5. \/ file \in File /\ file.status # "book"
          \/ file = WholeBook(BookOf(t))
      BY DEF CutShort, Holding, File
    <3>6. WholeBook(BookOf(t)) \in File /\ WholeBook(BookOf(t)).story = BookOf(t)
      BY <3>4 DEF WholeBook, File
    <3>7. disk' \in [Directory -> File]
      BY <3>1, <3>5, <3>6 DEF IInv, TypeOK
    <3>8. ASSUME NEW d \in Directory PROVE FileInv(d)'
      <4>1. CASE d = registry[t.job].dir
        <5>1. disk'[d] = file
          BY <3>1, <4>1 DEF IInv, TypeOK
        <5> QED
          BY <1>1, <3>2, <3>4, <3>5, <3>6, <5>1 DEF FileInv, Known
      <4>2. CASE d # registry[t.job].dir
        <5>1. disk'[d] = disk[d] /\ FileInv(d)
          BY <3>1, <4>2 DEF IInv, TypeOK
        <5>2. disk[d].status = "book" => disk[d].story.job \in Job
          BY <5>1 DEF FileInv, Story
        <5> QED
          BY <1>1, <5>1, <5>2 DEF FileInv, Known
      <4> QED
        BY <4>1, <4>2
    <3> QED
      BY <3>7, <3>8
  <2> QED
    BY <2>1, <2>2 DEF Restart
<1>3. TypeOK'
  BY <1>1, <1>2 DEF IInv, TypeOK
<1>4. \A j \in Job : JobInv(j)'
  BY <1>1 DEF IInv, JobInv, Known
<1>5. CompleteMeansSaved'
  BY <1>1 DEF CompleteMeansSaved, InState, Known
<1> QED
  BY <1>1, <1>2, <1>3, <1>4, <1>5 DEF IInv, OneTask

LEMMA InitEstablishes == Init => IInv
<1> SUFFICES ASSUME Init PROVE IInv
  OBVIOUS
<1>1. \A d \in Directory : disk[d] \in File /\ disk[d].status # "book"
  BY DEF Init, Holding, File
<1>2. TypeOK
  BY <1>1, BoundsAssumption DEF Init, TypeOK
<1> QED
  BY <1>1, <1>2 DEF Init, IInv, JobInv, OneTask, FileInv, CompleteMeansSaved, InState, Known

LEMMA NextKeeps == IInv /\ [Next]_vars => IInv'
<1> SUFFICES ASSUME IInv, [Next]_vars PROVE IInv'
  OBVIOUS
<1>1. CASE UNCHANGED vars
  BY <1>1, QuietSteps DEF vars, IInv, TypeOK
<1>2. ASSUME NEW t \in tasks, TaskStep(t) PROVE IInv'
  BY <1>2, PlanStartsKeeps, PlanReturnsKeeps, WriteStartsKeeps, WriteReturnsKeeps,
     PipelineRaisesKeeps, DiskFaultKeeps DEF TaskStep
<1> QED
  BY <1>1, <1>2, PostPlanKeeps, PostApproveKeeps, ReviseArrivesKeeps, ReviseRunsKeeps,
     TickKeeps, RestartKeeps DEF Next

\* The inductive invariant holds however handlers, tasks and restarts interleave.
THEOREM Invariance == Spec => []IInv
BY InitEstablishes, NextKeeps, PTL DEF Spec

\* Whatever the handlers, the tasks, the disk and a restart do, the job records,
\* the tasks and the files keep their shape, and no brief outgrows its bound.
THEOREM TypeCorrect == Spec => []TypeOK
<1>1. IInv => TypeOK
  BY DEF IInv
<1> QED
  BY <1>1, Invariance, PTL

\* No interleaving of approvals, revisions and tasks gives one job two workers.
THEOREM OneWorker == Spec => []OneWorkerPerJob
<1>1. IInv => OneWorkerPerJob
  BY DEF IInv, TaskInv, OneTask, OneWorkerPerJob
<1> QED
  BY <1>1, Invariance, PTL

\* The plan on the page holds every note the server has accepted.
THEOREM PlanIsCurrent == Spec => []PlanShownIsCurrent
<1>1. IInv => PlanShownIsCurrent
  BY NothingAssumption DEF IInv, JobInv, RecordInv, InState, PlanShownIsCurrent
<1> QED
  BY <1>1, Invariance, PTL

\* What was written, in memory and on every disk left behind, is what was
\* approved.
THEOREM Approved == Spec => []BooksWereApproved
<1>1. ASSUME IInv PROVE BooksWereApproved
  <2>1. ASSUME NEW j \in Job, Known(j), registry[j].story # Nothing
        PROVE  registry[j].story = [job |-> j, outline |-> approved[j]]
    <3>1. RecordInv(j) /\ registry[j] \in JobRecord
      BY <1>1, <2>1 DEF IInv, TypeOK, JobInv, Known
    <3>2. registry[j].state = "complete"
      BY <2>1, <3>1 DEF RecordInv, JobRecord
    <3> QED
      BY <3>1, <3>2 DEF RecordInv
  <2> QED
    BY <1>1, <2>1 DEF IInv, FileInv, BooksWereApproved
<1> QED
  BY <1>1, Invariance, PTL

\* A job is complete only once its book is on disk.
THEOREM Saved == Spec => []CompleteMeansSaved
<1>1. IInv => CompleteMeansSaved
  BY DEF IInv
<1> QED
  BY <1>1, Invariance, PTL

-----------------------------------------------------------------------------
(* What a step may do to a directory.                                      *)

\* A directory a job has been given has been made.
DirInv ==
  \A j \in Job : Known(j) /\ registry[j].dir # Nothing =>
    disk[registry[j].dir] # Holding("no_directory")

\* A step changes a directory only to make it, under its own second, or for a
\* job that is writing into it.
FileStep(d) ==
  \/ disk'[d] = disk[d]
  \/ /\ disk[d] = Holding("no_directory") /\ disk'[d] = Holding("no_file")
     /\ Stamp(d) = now
  \/ /\ disk'[d] # Holding("no_directory")
     /\ \E j \in Job : InState(j, "writing") /\ registry[j].dir = d

LEMMA FilesStep ==
  ASSUME IInv, [Next]_vars
  PROVE  \A d \in Directory : FileStep(d)
<1>1. ASSUME NEW t \in tasks, WriteStarts(t), NEW d \in Directory PROVE FileStep(d)
  <2>1. t.job \in Job /\ registry[t.job] \in JobRecord
    BY AtWork
  <2>2. RunDirectory(t.job) \in Directory /\ Stamp(RunDirectory(t.job)) = now
    <3>1. registry[t.job].premise \in Premise /\ now \in 0..MaxTime
      BY <2>1 DEF JobRecord, IInv, TypeOK
    <3> QED
      BY <3>1 DEF RunDirectory, Directory, Stamp
  <2>3. disk' = [disk EXCEPT ![RunDirectory(t.job)] =
                   IF @ = Holding("no_directory") THEN Holding("no_file") ELSE @]
    BY <1>1 DEF WriteStarts
  <2> QED
    BY <2>2, <2>3 DEF FileStep, IInv, TypeOK
<1>2. \A file \in CutShort : file # Holding("no_directory")
  BY DEF CutShort, Holding
<1>3. \A story : WholeBook(story) # Holding("no_directory")
  BY DEF WholeBook, Holding
<1>4. ASSUME NEW t \in tasks, WriteReturns(t) \/ DiskFault(t), NEW d \in Directory
      PROVE  FileStep(d)
  <2>1. t.job \in Job /\ t.kind = "write" /\ InState(t.job, "writing")
    BY <1>4, AtWork DEF WriteReturns, DiskFault, InState
  <2>2. \/ disk' = disk
        \/ \E file : /\ file # Holding("no_directory")
                     /\ disk' = [disk EXCEPT ![registry[t.job].dir] = file]
    BY <1>2, <1>3, <1>4 DEF WriteReturns, DiskFault
  <2> QED
    BY <2>1, <2>2 DEF FileStep, IInv, TypeOK
<1>5. ASSUME Restart, NEW d \in Directory PROVE FileStep(d)
  <2>1. CASE UNCHANGED disk
    BY <2>1 DEF FileStep
  <2>2. CASE \E t \in {u \in tasks : u.kind = "write" /\ u.step = "running"} :
               \E file \in CutShort \cup {WholeBook(BookOf(t))} :
                 disk' = [disk EXCEPT ![registry[t.job].dir] = file]
    <3>1. PICK t \in tasks :
            /\ t.kind = "write"
            /\ \E file \in CutShort \cup {WholeBook(BookOf(t))} :
                 disk' = [disk EXCEPT ![registry[t.job].dir] = file]
      BY <2>2
    <3>2. \E file : /\ file # Holding("no_directory")
                    /\ disk' = [disk EXCEPT ![registry[t.job].dir] = file]
      BY <1>2, <1>3, <3>1
    <3>3. t.job \in Job /\ InState(t.job, "writing")
      BY <3>1, AtWork DEF InState
    <3> QED
      BY <3>2, <3>3 DEF FileStep, IInv, TypeOK
  <2> QED
    BY <1>5, <2>1, <2>2 DEF Restart
<1>6. ASSUME UNCHANGED disk PROVE \A d \in Directory : FileStep(d)
  BY <1>6 DEF FileStep
<1>7. ASSUME NEW t \in tasks, TaskStep(t) PROVE \A d \in Directory : FileStep(d)
  BY <1>1, <1>4, <1>6, <1>7 DEF TaskStep, PlanStarts, PlanReturns, PipelineRaises
<1> QED
  BY <1>5, <1>6, <1>7 DEF Next, vars, PostPlan, PostApprove, ReviseArrives, ReviseRuns, Tick

\* A job keeps the directory it has; one it is given is there.
DirStep(j) ==
  Known(j)' /\ registry'[j].dir # Nothing =>
    \/ Known(j) /\ registry[j].dir = registry'[j].dir
    \/ /\ registry'[j].dir \in Directory
       /\ disk'[registry'[j].dir] # Holding("no_directory")

LEMMA DirsStep ==
  ASSUME IInv, [Next]_vars
  PROVE  \A j \in Job : DirStep(j)
<1>1. ASSUME UNCHANGED registry PROVE \A j \in Job : DirStep(j)
  BY <1>1 DEF DirStep, Known
<1>2. ASSUME NEW t \in tasks, PlanReturns(t) \/ PipelineRaises(t) \/ WriteReturns(t)
      PROVE  \A j \in Job : DirStep(j)
  <2>1. t.job \in Job /\ Known(t.job) /\ registry[t.job] \in JobRecord
    BY AtWork
  <2>2. /\ \A j \in Job \ {t.job} : registry'[j] = registry[j]
        /\ registry'[t.job].dir = registry[t.job].dir
    BY <1>2, <2>1 DEF PlanReturns, PipelineRaises, WriteReturns, Fail, IInv, TypeOK, JobRecord
  <2> QED
    BY <2>1, <2>2 DEF DirStep, Known
<1>3. ASSUME NEW t \in tasks, WriteStarts(t) PROVE \A j \in Job : DirStep(j)
  <2>1. t.job \in Job /\ registry[t.job] \in JobRecord
    BY AtWork
  <2>2. RunDirectory(t.job) \in Directory
    <3>1. registry[t.job].premise \in Premise /\ now \in 0..MaxTime
      BY <2>1 DEF JobRecord, IInv, TypeOK
    <3> QED
      BY <3>1 DEF RunDirectory, Directory
  <2>3. /\ \A j \in Job \ {t.job} : registry'[j] = registry[j]
        /\ registry'[t.job].dir = RunDirectory(t.job)
    BY <1>3, <2>1 DEF WriteStarts, IInv, TypeOK, JobRecord
  <2>4. disk' = [disk EXCEPT ![RunDirectory(t.job)] =
                   IF @ = Holding("no_directory") THEN Holding("no_file") ELSE @]
    BY <1>3 DEF WriteStarts
  <2>5. disk'[RunDirectory(t.job)] # Holding("no_directory")
    BY <2>2, <2>4 DEF IInv, TypeOK, Holding
  <2> QED
    BY <2>2, <2>3, <2>5 DEF DirStep, Known
<1>4. ASSUME NEW t \in tasks, TaskStep(t) PROVE \A j \in Job : DirStep(j)
  BY <1>1, <1>2, <1>3, <1>4 DEF TaskStep, PlanStarts, DiskFault
<1>5. ASSUME NEW j \in Job, NEW premise \in Premise, PostPlan(j, premise)
      PROVE  \A k \in Job : DirStep(k)
  <2>1. /\ \A k \in Job \ {j} : registry'[k] = registry[k]
        /\ registry'[j].dir = Nothing
    BY <1>5 DEF PostPlan, IInv, TypeOK
  <2> QED
    BY <2>1 DEF DirStep, Known
<1>6. ASSUME NEW j \in Job, AwaitsApproval(j),
             NEW tab, NEW note, PostApprove(j) \/ ReviseRuns(tab, j, note)
      PROVE  \A k \in Job : DirStep(k)
  <2>1. Known(j) /\ registry[j] \in JobRecord
    BY <1>6 DEF AwaitsApproval, InState, Known, IInv, TypeOK
  <2>2. /\ \A k \in Job \ {j} : registry'[k] = registry[k]
        /\ registry'[j].dir = registry[j].dir
    BY <1>6, <2>1 DEF PostApprove, ReviseRuns, IInv, TypeOK, JobRecord
  <2> QED
    BY <2>1, <2>2 DEF DirStep, Known
<1>7. ASSUME NEW j \in Job, PostApprove(j) PROVE \A k \in Job : DirStep(k)
  BY <1>6, <1>7 DEF PostApprove
<1>8. ASSUME NEW tab \in Tab, NEW j \in Job, NEW note \in BOOLEAN, ReviseRuns(tab, j, note)
      PROVE  \A k \in Job : DirStep(k)
  BY <1>1, <1>6, <1>8 DEF ReviseRuns
<1>9. ASSUME Restart PROVE \A k \in Job : DirStep(k)
  BY <1>9 DEF Restart, DirStep, Known
<1> QED
  BY <1>1, <1>4, <1>5, <1>7, <1>8, <1>9 DEF Next, vars, ReviseArrives, Tick

LEMMA DirInvKeeps == IInv /\ DirInv /\ [Next]_vars => DirInv'
<1> SUFFICES ASSUME IInv, DirInv, [Next]_vars, NEW j \in Job, Known(j)', registry'[j].dir # Nothing
             PROVE  disk'[registry'[j].dir] # Holding("no_directory")
  BY DEF DirInv
<1>1. CASE Known(j) /\ registry[j].dir = registry'[j].dir
  <2>1. disk[registry[j].dir] # Holding("no_directory")
    BY <1>1 DEF DirInv
  <2>2. registry[j].dir \in Directory
    <3>1. registry[j] \in JobRecord
      BY <1>1 DEF IInv, TypeOK, Known
    <3> QED
      BY <1>1, <3>1 DEF JobRecord
  <2>3. FileStep(registry[j].dir)
    BY <2>2, FilesStep
  <2> QED
    BY <1>1, <2>1, <2>3 DEF FileStep
<1> QED
  BY <1>1, DirsStep DEF DirStep

LEMMA DirectoriesMade == Spec => []DirInv
<1>1. Init => DirInv
  BY DEF Init, DirInv, Known
<1> QED
  BY <1>1, DirInvKeeps, Invariance, PTL DEF Spec

\* A finished book stays on the shelf, with its story, through every step that
\* is not a write into its directory; and nothing new opens under its id.
THEOREM BooksStay == Spec => ListedBooksStay
<1> DEFINE Stays(d) ==
      (~ \E j \in Job : InState(j, "writing") /\ registry[j].dir = d) =>
         /\ disk'[d] = disk[d]
         /\ ListingRaises' \/ d \in ListBooks'
         /\ Stamp(d) # now => DirectoryFor(Stamp(d))' = DirectoryFor(Stamp(d))
<1>1. ASSUME IInv, DirInv, [Next]_vars, NEW d \in ListBooks PROVE Stays(d)
  <2> SUFFICES ASSUME ~ \E j \in Job : InState(j, "writing") /\ registry[j].dir = d
               PROVE  /\ disk'[d] = disk[d]
                      /\ ListingRaises' \/ d \in ListBooks'
                      /\ Stamp(d) # now => DirectoryFor(Stamp(d))' = DirectoryFor(Stamp(d))
    OBVIOUS
  <2>1. /\ d \in Directory /\ disk[d] # Holding("no_directory") /\ SlugOf(d) # EmptySlug
        /\ disk[d].status = "book"
    BY DEF ListBooks, RunDirectories
  <2>2. disk'[d] = disk[d]
    BY <1>1, <2>1, FilesStep DEF FileStep
  <2>3. ListingRaises' \/ d \in ListBooks'
    BY <2>1, <2>2 DEF ListBooks, RunDirectories
  <2>4. ASSUME Stamp(d) # now, NEW e \in Directory, Stamp(e) = Stamp(d)
        PROVE  e \in RunDirectories' <=> e \in RunDirectories
    <3>1. FileStep(e)
      BY <1>1, FilesStep
    <3>2. (\E j \in Job : InState(j, "writing") /\ registry[j].dir = e) =>
            disk[e] # Holding("no_directory")
      BY <1>1, NothingAssumption DEF DirInv, InState
    <3> QED
      BY <2>4, <3>1, <3>2 DEF FileStep, RunDirectories
  <2> QED
    BY <2>2, <2>3, <2>4 DEF DirectoryFor, RunDirectories
<1>2. IInv /\ DirInv /\ [Next]_vars => [\A d \in ListBooks : Stays(d)]_vars
  BY <1>1
<1> QED
  BY <1>2, Invariance, DirectoriesMade, PTL DEF Spec, ListedBooksStay
=============================================================================
