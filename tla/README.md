# SparkStory in TLA+

SparkStory turns a parent's premise into an illustrated book: it researches,
plans, lets the parent approve or revise the plan, writes, judges and rewrites
the prose behind a safety gate, and then draws, narrates and films it. These
modules model its control: what is done in which order, what a failure at each
step costs, what a crash leaves behind and what concurrent callers see. What a language model answers is
never computed; it is a nondeterministic choice over every answer its schema
allows.

Paths below are relative to `src/sparkstory/` of the repository, except those
that begin with `scripts/` or `tests/`. The
command-line tools are `tlasany M.tla`, `tlc -workers 2 -config X.cfg M` and
`tlapm M.tla`.

## Inventory

| Component | State it keeps | Operations | What is hard | What makes it correct |
|---|---|---|---|---|
| Story pipeline (`workflows/write_story.py`, `reviews.py`, `retries.py`) | locals of one run: draft, reviews, best draft with its reviews, grounding, retry count | validate, verify grounding, plan pages, write, critique, gate, remember | retries of each task; a loop with one critique more than rewrites; a gate that must judge the draft it returns; memory that fails open | a returned draft was judged and found safe; it is the best judged; a book is grounded only in what the corpus records; every run ends |
| Outline pipeline (`workflows/plan_outline.py`) | the same for plans, plus grounding, web ledger and memory of the child | research, fetch memory, plan, critique, return | enrichment that fails open around a loop that does not; what is attached to the plan after the loop | one briefing for every plan; grounding vouched for by this run's ledger or the corpus; conflicts of the returned plan and no other |
| Provenance (`retrieval/provenance.py`) | none | `drop_unprovenanced` | a model asserts its own sources | the source shown is the one on record |
| Web interface (`mcp/ui/jobs.py`, `handlers.py`, `library.py`) | job registry in memory, background tasks, run directories on disk | post plan, approve, revise, plan and write in background, list and open books | handlers that await between look-up and use; double clicks; restarts; disk faults; names to the second | one worker per job; what is written is what was approved; complete means saved; no job hangs |
| Serial store (`serial/store.py`, `db/models.py`, `entities/serial.py`) | tables of worlds, seasons, chapters | create, approve, retire a world; open a season; queue, advance, withdraw a chapter | several transactions per call, no lock; late and repeated calls of workers | contiguous numbering; no chapter in an unapproved world, by its own word or by its season's; a number refused only to a race |
| Memory (`memory/`) | the `memories` table: records of a child, never deleted | extract, save, fetch | calls of several children at once; an extractor or a database that fails when the book is already written | a book is remembered whole or not at all, and only if it was finished; a plan is told its own child's past and all of it; memory never costs a book |
| Web research (`retrieval/web/`, `retrieval/tools.py`, `nodes/researcher.py`) | one ledger per attempt, one set of tool calls per step | search with one of two providers, verify, mint an id, answer | calls of one step run at once and share the ledger; a search model may invent an address; each of three services may be down | an id stands for the page the agent was shown; no book is grounded in an address without a page |
| Corpus retrieval (`retrieval/pg_store.py`, `ingest.py`, `chunks.py`, `embed.py`) | chunks with embeddings in Postgres | ingest, rank by meaning and by words, fuse, read | a search is two statements and provenance a third, and an ingestion may renumber the rows between them; ties and absent ranks | what was shown and is cited are whole rows that stood under their ids; fusion keeps what both rankings agree on |
| Illustration (`workflows/illustrate.py`) | portraits, pages and judgements of one run directory | direct, draw portraits, check them, draw pages, check pages | up to four drawings at once; portraits and pages that fail one by one; a wrong portrait poisons every page drawn from it | the record says truly how each page was drawn; no page is drawn from a portrait found wrong; an image never costs the run |
| Narration (`workflows/narrate.py`), animation (`workflows/animate.py`, `video/`) | audio, clips, the joined sound, the film and their manifests in one directory | speak pages, join; select, encode, assemble | pages several at a time; files left by an earlier run, cut short by a failed write or gone before they are read; rounding to frames | what is joined is what the manifest says, in the book's order; picture and voice do not drift apart |
| Terminal client (`mcp/client/`) | the history of a conversation | send a message, take turns, run, refuse or withhold tool calls | a call left without an answer poisons the history; a model that never stops or says nothing | the model is handed no open call; inspecting spends nothing; every send returns |
| MCP tools, server (`mcp/tools/`, `mcp/routers/`), runner (`scripts/write_one_story.py`) | run directories | adapt the pipelines; take a book through its stages | runs that stop early, fail halfway, fail again in telling of it, are killed, or go to a directory already used | `meta.json` tells a whole run from one that died |
| Settings, models, pages, evaluation, observability | none that outlives a call | — | — | — |

How they interact: every front end (web, MCP tools, script) calls the outline
pipeline, shows the plan, and calls the story pipeline with it. Both pipelines
call provenance: planning on what research claims, writing on what the caller
hands back. The story pipeline writes memory, the outline pipeline of the
child's next book reads it. Illustration, narration and animation meet only in
the run directory, which the library reads. The terminal client plays the part
of an MCP client and calls the same tools as any other. The serial store shares
the database and nothing else with the rest, and its callers are so far its
tests.

## Modules

| Module | Models | Correspondence |
|---|---|---|
| `BestDraft` | what both critique loops promise | abstract: scores judged so far, and the draft declared |
| `Provenance` | `retrieval/provenance.py` | `DropUnprovenanced` is `drop_unprovenanced`; a chunk is its kind and source, a ledger record is whether it was verified and its source. Three modules instantiate it |
| `StoryWorkflow` | `workflows/write_story.py` with `reviews.py`, `retries.py` | `phase` is the statement the workflow is at; `attempt` the failed attempts of the task in flight; `prose`, `reviews`, `best` the locals of those names; `judged` a history of critiques |
| `OutlineWorkflow` | `workflows/plan_outline.py` with `memory/conflicts.py` | the same shape; `ledger` is that of the research attempt that returned; `briefings` a history of what each plan was made from |
| `WebJobs` | `mcp/ui/jobs.py`, `handlers.py`, `library.py` | a step is what runs between two awaits; `registry` is `JobRegistry`, `tasks` is `_running`, `disk` maps a run directory to what its `story.json` holds |
| `SerialStore` | `serial/store.py` over `db/models.py` | a step is one transaction; `op[c]` is what a caller remembers between the transactions of its call |
| `IllustrationWorkflow` | `workflows/illustrate.py` with `entities/illustration.py`, `validate_illustration_plan` | `phase` is the task under way; `portraits` and `pages` are the records of `StoryArt`; `references` the names in the dictionary of portraits; `used` a history of what a page was drawn from |
| `Corpus` | `retrieval/ingest.py`, `chunks.py`, the SQL of `pg_store.py` | pure operators: `LoadCorpus` turns files into numbered rows, `Fused` is the statement of a search over two rankings, with `Score` in exact fractions |
| `Research` | one research task: `plan_outline.py` (`research`), `nodes/researcher.py`, `retrieval/tools.py`, `web/` | `calls[i]` is where the i-th tool call of a step is; `ledger` the attempt's `WebLedger`; `corpus` the table, which `Ingest` replaces; `shown` and `rows` are histories of one attempt: what the agent was given, and what the table has held |
| `BookMedia` | `workflows/narrate.py`, `workflows/animate.py`, `video/` | `stage` is the statement reached; `image`, `audio`, `storyAudio`, `manifest` (`narration.json`), `movie` are the files of the directory and who wrote them, or that a write was cut short; `speech` and `clip` the fate of each page |
| `BookRun` | `scripts/write_one_story.py` and the tools that write, illustrate and narrate (`mcp/tools/`) | extends `BookMedia`: `caller` and `flags` say who runs which stages, `meta` is `meta.json`'s outcome, `pdf` the `story.pdf` there; a run is over when it has `ended`, `raised` or been `killed` |
| `ChildMemory` | `memory/`, and `plan_story` and `write_story` as calls of the server | `call[c]` is what a caller waits for; `memory` is the table; `extracted` and `finished` are histories |
| `ClientSession` | `mcp/client/` | extends `ChildMemory`: `turn` and `nudges` are the counters of `send`, `batch` and `ran` its loop over calls, `open` the calls of the history without an answer |
| `MC...` | small instances of the eight state machines | values of the constants |
| `StoryWorkflowProofs`, `OutlineWorkflowProofs`, `SerialStoreProofs`, `IllustrationWorkflowProofs`, `WebJobsProofs`, `ClientSessionProofs`, `ResearchProofs`, `BookRunProofs` | — | the theorems |

`StoryWorkflow` and `OutlineWorkflow` instantiate `Provenance` and are each
shown to implement `BestDraft` under a refinement mapping (`Loop`): `judged` is
the sequence of scores, `chosen` the draft returned. `OutlineWorkflow` takes
research as one step, which returns what provenance leaves of any claims or
fails; `Research` is that step from inside.

Definitions named `Op_SomeSlip` beside a definition `Op` are seeded bugs: put in
the place of `Op`, each breaks the property it is listed with in
`PROJECT.json`. They show that the property tells this code from a slightly
wrong one. No specification uses them.

Abstractions worth knowing:

- A draft is the number of the writer's call that made it, and whether a
  counted check would object to it. A plan is the number of the planner's call,
  how it describes its characters, and the two fields its schema has but the
  planner is asked to leave out. A finding is its rubric, the page or beat it
  cites and a comment; every number the book lacks is one value.
- `TaskFails` stands for every way an attempt of a task may fail: a transient
  error is retried while attempts are left, any other raises. Where only the
  raising matters (`ValidateOutline`, the database of `VerifyGrounding`), the
  failure is a disjunct of the action.
- Duplicate reviews in one answer are one: a critic's answer is a set. The
  score counts reviews, so this matters only to how high a score may be, and
  the scores of the instances reach every order of three drafts.
- An image is whether it was drawn and from whom. A verdict is `match`,
  `mismatch` or `none`, which is a judge that was not asked, failed, or could
  not read the file. Characters are in the plan's order, because a plan may
  describe one twice and the later portrait then replaces the earlier; the order
  of names on a page is left out, since it decides only which of a page's
  portraits the judge looks at.
- A process restart loses the registry, the tasks and the requests in flight
  and keeps the disk; it may leave a write of `story.json` undone, cut short at
  a character, cut short inside one, or whole.
- `SerialStore` keeps no timestamps. `approved_at` and `ready_at` are
  written, and no code decides anything by them; what their docstrings promise
  is below, under what was met while modelling.
- In `Research` a chunk id is a pair of file and position and a web id a pair
  that begins with 0. Pairs compare as their strings do in files of fewer than
  ten chunks (`moon#10` is before `moon#2` in Postgres), and the comparison only
  breaks ties. The source of a row is its file's front matter, which may be
  edited between ingestions. An address is a
  model value; whether a page is behind it is a constant, and whether a
  provider's address came from an API or from a model is kept with the result.
  Ranking by meaning is any order of all rows, ranking by words any order of
  any of them: what an embedding is near to is a choice, fusion is not. The
  half that ranks by words has a `LIMIT` and no `ORDER BY` of its own; the model
  cuts it where its ranking does, which is the order the one window function
  sorts it in, and SQL does not promise that.
- Of `MAX_WEB_SEARCHES` a run knows only whether it is above zero, as the code
  does; errors that are not retried end a research attempt as those that have
  used up their retries do.
- In `BookMedia` time is counted in ticks, some to a frame, so that a reading
  may fall between frames. A file is who wrote it, this run or an earlier one,
  or is cut short. A tool may be sent to a directory where an earlier narration
  got as far as some pages, as `story.mp3`, or as `narration.json`; a kill in
  the middle of a write leaves what a fault of that write does.
  `Vanish` is somebody who tidies the directory: the code tests `exists()` for
  it, and the tests are then older than the reads.
- In `ClientSession` the history is reduced to its calls without an answer,
  which is what providers refuse. A reply of text, of nothing, or of calls is a
  choice, and so is a model call that raises, with or without such a history.


## Runs

| Run | Instance | Question |
|---|---|---|
| `story_workflow` | 3 attempts, 2 rewrites, 1 finding per critic (the counted one comes on top), 2 pages, four claimed facts; 72,598 states | does a run end, with the best draft, safe by its own critique, grounded in the corpus? |
| `outline_workflow` | 3 attempts, 2 revisions, 2 findings, 1 character with 2 looks, 2 claims, 3 ledgers; 98,398 states | does planning end, and fail only in its loop, with the best plan, one briefing, grounding vouched for and every conflict told? |
| `web_jobs` | 2 jobs, 1 tab, 3 tasks per job, 2 seconds of clock, 1 restart, disk faults; 225,346 states | do handlers, tasks, restarts and disk faults keep jobs, plans and books consistent, does a listed book stay, and do jobs settle? |
| `serial` | 2 worlds, 2 callers, calls begun only while there is no season, or no chapter, and 1 worker call; 2,768,080 states up to symmetry | do overlapping and dying callers number rows right, and is every row of an approved world, whatever season and world a caller names together? |
| `illustration` | 3 attempts, 2 pages drawn 2 at a time, 1 or 2 descriptions of 2 characters; 30,324 states | does a run end whatever fails, is the record of it true, and is a wrong portrait never used? |
| `book_run` | 4 callers, every flag, 2 pages, readings of 4 lengths at 4 ticks a frame, 2 attempts, 1 vanished file, writes that fail, an earlier run that came three distances; 486,499 states | do `meta.json`, the joined sound with its record, and the film tell the truth about a run that fails, fails to say so, is killed, or finds files in its directory, and does the film keep pace? |
| `research` | 2 attempts, 1 step of 2 calls, 2 results per search, 2 addresses of which one is real, 4 files of 3 sources, at most 2 rows of each ranking, 1 ingestion; 456,480 states | is what research returns real, shown, and whole as it stood on record, whichever service is down and whatever is ingested meanwhile, does fusion respect both rankings, and does research end? |
| `session` | 2 callers, 2 children and none, 1 good and 1 blank fact, 2 calls to the server, 2 turns of at most 2 calls, 1 nudge, 2 lines; 936,100 states | is the history always answered, does inspecting spend nothing, is memory whole, the child's own and never fatal, and does every send return? |
| `story_misrouted` | as `story_workflow` | finding 1 |
| `web_disk_fault` | one job | finding 2 |
| `serial_withdrawn` | one world | finding 3 |
| `research_budget` | as `research`, with a budget of 1 | finding 4 |

Type invariants (`TypeOK`) are theorems rather than runs.

Why the bounds are enough:

- Three drafts let a best draft be the first, a middle or the last one, be tied
  or beaten, and let a safe draft with more findings meet an unsafe one with
  fewer. Three attempts give a task that fails, fails again and succeeds, and
  one that is given up.
- In the outline instance the character has two looks, so a plan may agree with
  memory, differ from it, and change its mind between revisions; memory may
  itself hold both looks (two books disagreed). A ledger may lack the page, hold
  it unchecked, or hold it checked.
- Two web jobs are what a clash of directories or timestamps takes, three tasks
  per job a plan, a revision and a book. One browser tab suffices: a revise
  request in flight carries the job and nothing it read, so a second tab's
  request for the same job is the same request; the race is between one such
  request and everything else the handlers do. The second premise's slug is
  empty, which is also the directory clash of one premise with itself.
- Two callers are what a race for a number takes. The limits of one season and
  one chapter are looked at when a call begins, so two calls that overlap make
  two rows of either kind: a number may be free, taken by a rival, or freed in
  appearance by a withdrawn row. Two worlds, of which any may be retired or
  never approved, let a chapter name another world than its season's.
- Two calls of one step are what an interleaving in the ledger takes, and two
  results each let one search mint ids on both sides of the other's. Two
  attempts let a ledger be thrown away. One of two addresses has no page, which
  is what an invented one is. Two of the four files are versions of
  one, with different sources, and put one text in another place, so an
  ingestion gives an id another text and another source; one file is malformed;
  over up to three rows the two of each ranking that `Candidates` lets through
  are every choice and order, and neither half sees all rows.
- Two pages let answers arrive in either order, one page fail and one succeed,
  and a film hold one page or both. Readings of 1, 5, 6 and 7 ticks at 4
  to a frame are rounded up to the single frame every page gets, down, up from
  the half, and up, so rounding errs to either side, truncation adds up to more
  than half a frame a page, and the floor of one frame is met.
- Two calls of the server let two books be written at once, or a plan be made
  while a book is being remembered. A blank fact is the one that makes a record
  refuse to be built. Two lines let a withheld call be left open and the next
  message meet it; two turns let the budget run out by calls, by nudges or by
  one of each.
- Two descriptions let a plan describe two characters or one of them twice. Two
  pages, each with nobody, one or both of the cast, let a page lose one portrait
  of two, lose all, or need none, and let one page fail on the disk while the
  other is being drawn.
- Every counter that would grow without limit (tasks per job, clock, restarts,
  rows, calls) has a bound that is a constant of its module and a conjunct of
  the guard of the action that counts. The proofs do not depend on their values.

`CHECK_DEADLOCK FALSE` is set everywhere because all of the systems may stop:
a run ends, and a parent or a caller need never come back.

## Fairness

- `StoryWorkflow`, `OutlineWorkflow`, `IllustrationWorkflow`: weak fairness of
  `Next`. A run is one computation; each call it awaits returns or raises (image
  requests carry a timeout; chat clients are taken to have one), and then it
  continues. The pages an illustration draws at once are finitely many, so
  fairness of them together ends them all. Nothing is assumed about success:
  every attempt may fail.
- `WebJobs`: weak fairness of each job's task steps. The event loop resumes a
  coroutine whose pipeline has answered, and the pipelines end by the two
  results above. No fairness for approvals, revisions, the arrival of a
  request's body, the clock or restarts: parents owe nothing.
- `Research`: weak fairness of the run's own steps. Providers answer or time
  out, a call of a step that has answered is gone on with, and the agent's steps
  are limited. An ingestion owes nothing, and there are finitely many of them.
- `BookRun`: weak fairness of the run's own steps, for the same reason; ffmpeg
  is taken to end. Nobody has to kill a run or tidy a directory.
- `ClientSession`: weak fairness of the client's steps and of the server's
  answer to this client, which is what `SendReturns` needs: a call of another
  client may hang for ever. A person need not type, but the model answers or
  raises.
- `SerialStore`: none, and no liveness is claimed. Nothing in the repository
  schedules its callers.

## Findings

1. **A safety finding with a wrong page number is dropped before the gate**
   (`story_misrouted`). `critique_prose` filters out reviews that cite a page
   the book lacks, safety reviews too, before it scores the draft, and the gate
   never sees them; `config.py:252` says the run "still fails closed on a safety
   finding".
2. **A disk fault leaves a job in writing for ever** (`web_disk_fault`):
   `mkdir` and `write_text` lie outside the task's try block.
3. **A late worker brings a withdrawn chapter back** (`serial_withdrawn`):
   `advance_chapter` updates whatever state the row is in.
4. **The budget of web searches is no budget** (`research_budget`).
   `MAX_WEB_SEARCHES` switches the tool on when it is above zero and is counted
   nowhere; `config.py:438` describes it as "How many web searches research may
   run".

Each is quoted with its lines under "findings" in `PROJECT.json`. These were met
while modelling too. The models have the behaviour where they reach it, and no
run is about it:

- The planner's schema is the whole `StoryOutline`. `grounding` and
  `memory_conflicts` are overwritten only when there is something to overwrite
  them with, and `entities/stories.py:389` says "Filled by code after planning,
  never by the planner". The story pipeline looks grounding up again before it
  writes, so invented facts reach the parent and not the book.
- Two jobs approved in one second share a public id, and the library opens one
  of them for both; `mcp/ui/library.py:42` calls the timestamp "unique across
  every run on disk". `ListedBooksStay` claims what is left of this: once a
  second is over, nothing new opens under it.
- A premise without a latin letter or digit has an empty slug, and its
  directory does not match the library's pattern: the book is never listed.
- A `story.json` cut inside a multi-byte character raises `UnicodeDecodeError`,
  which `list_books` does not skip (`mcp/ui/library.py:84`), and no book is
  listed until it is gone (`ListingRaises` in `WebJobs`).
- An image, and likewise a page's audio or clip, is never retried: the errors
  `workflows/retries.py:47-76` calls retried are caught inside the tasks the
  policy wraps. Only the assembly of a film raises far enough.
- Two overlapping approvals of a world both stamp `approved_at`, and
  `serial/store.py:114` says that approving again returns the world "unchanged
  rather than re-stamping" (`ApproveReads` and `ApproveWrites`). A chapter whose
  state becomes ready twice is stamped twice; `serial/store.py:244` says
  "when the chapter first becomes readable, and only then". The stamps are not
  in the model, the steps that write them are.
- `queue_chapter` takes a season and a world apart and checks the world only
  (`serial/store.py:210-234`), and `db/models.py:261` calls the column
  "Denormalised from the season on purpose". A season of a world since retired
  can get chapters under another, approved world's id, and so can a season that
  is not there. `ChaptersInApprovedWorlds` claims what is left: both worlds have
  been approved.
- `main`'s handler of a failed run writes `meta.json` on the disk that may just
  have failed (`scripts/write_one_story.py:499`), and the first writes lie before
  its `try` (`:490`). A run that is over and was not killed then says "running",
  or leaves a piece of a file (`Begin`, `Fail`).
- A kill or a fault between `workflows/narrate.py:291` and `:414` leaves a new
  `story.mp3` beside the `narration.json` of an earlier run.
- A book is remembered before its saving is tried, so a book lost to an unusable
  `output_directory` is remembered all the same; `workflows/write_story.py:277`
  calls memory "a record of what the child actually received".
- `story.mp3` of an earlier run in the same directory stays when this one
  narrates nothing; `mcp/routers/tools.py:117` promises that then "there is no
  `story.mp3` rather than a silent one".
- `scripts/write_one_story.py:675` says narration comes "After the PDF rather
  than before it", and the PDF is rendered last: a failed narration costs it.
- `mcp/routers/tools.py:116` tells a client that `detail` says what happened to
  a page's narration; `NarrationItem` has no such field.
- The terminal reports withheld calls by the difference of names
  (`mcp/client/repl.py:124`), so one withheld after another of its name has run
  is not reported.
- `db/models.py:103` calls `moon#1` the third chunk; ids count from one.

## What is proved

For every value of the constants, under the assumptions each module names
(bounds are naturals, those of attempts, steps and pages positive; there is a
world and a caller; every premise has a slug; pages are among the addresses;
the values that stand for "none" are not values of their kind; the corpus has
finitely many files, each a sequence of pieces, their names numbered from one):

**StoryWorkflow.** `TypeCorrect`, `ReturnedIsSafe`, `RefusedOnlyIfAllUnsafe`,
`EndsOnCritique`, `GroundingIsReal`, `Refinement` (it implements
`BestDraft`) and `RunsAreShort`. The invariant is `IInv == TypeOK /\ LoopPosition /\ BestSoFar /\
GateDecision`. No property is inductive alone. That the returned draft is safe
needs to know that the reviews the gate read are those of the draft it
returns, which is `BestSoFar`: the best draft's findings are what the critique
of that very draft kept, and no judged draft scores better. That a run is
refused only when every draft was unsafe needs `LoopPosition` too: the loop is
left with its last critique empty or its rewrites spent, and since safety
dominates the score, an unsafe best means an unsafe all. The step of the
argument that takes work is what one more judgement does to the earliest best
draft; it is `BestAfterOneMore`, from the order of scores.
Grounding has an invariant of its own: before the look-up it holds anything the
caller claimed, after it only what the store records. `RunsAreShort` is the
half of `Terminates` that needs no fairness: `StepsLeft`, the attempts the
settings still allow and the statements around them, is a natural number that
every step makes smaller, and a run is over when it is zero. A retry does not
restart it and a rewrite does not, which is what a loop inside a retry policy
could get wrong.

**OutlineWorkflow.** `TypeCorrect`, `PlansAreBriefed`,
`ConflictsReachTheParent`, `OnlyTheLoopFails`, `GroundingIsVouched`,
`Refinement` and `RunsAreShort`, with a `StepsLeft` of its own.
`OnlyTheLoopFails` is the property `EnrichmentFailsOpen`: research and memory
never end a run. The invariant has the same `LoopPosition` and `BestSoFar` and, in
place of the gate, `Briefed` (all plans were made from one grounding and one
memory) and `ReturnedIsBest` (what was attached was attached to the plan that
won). `ReturnedIsBest` says that the conflicts found are among those returned,
not that they are all of them: the planner may have written some of its own, the
first of what was met while modelling.

**SerialStore.** `TypeCorrect`, `Contiguous`, `Approved` and `OnlyRacesRefuse`,
for any number of worlds, callers and rows. The store
takes no lock between counting and inserting. `IInv` therefore says what a
caller holds between its transactions: a number one past numbers that are all
taken, and itself free if no row was inserted since. Rows are never removed, so
the first half survives every other caller's step; the unique constraint
settles the second. A row on its way has `PendingPlace`: its own world has been
approved, and its season, if there is one, is in the table; `approvals` and the
table only grow, and `RowsInApprovedWorlds` says the same of rows that are in.
A chapter's two worlds are thus approved on separate grounds, the one by the
call that queued it, the other by the call that opened its season: nothing ties
them together.

**IllustrationWorkflow.** `TypeCorrect`, `RejectedIsUnused`,
`RecordTellsTheTruth` and `ImagesFailSoft`, for any cast, book and number of
images at once. Records of portraits and the dictionary pages are drawn from
are kept by different stages, and the invariant is how they stay related:
`Accounted`, a name with a portrait is in the dictionary or has a verdict
against it, and `Rejected`, a name with a verdict against it is not. Both need
`Progress`, that records beyond the one being judged have no verdict, because a
name described twice is judged twice and the second verdict must not bring it
back. `PagesFromReferences` carries this over to the pages.

**WebJobs.** `TypeCorrect`, `OneWorker`, `PlanIsCurrent`, `Approved`, `Saved`
and `BooksStay`, for any jobs, tabs, premises and seconds. Handlers and tasks
share the registry without a lock. What keeps them apart is that each handler
that starts a task moves its job, in the same step, out of the only state that
lets a handler start one. In the invariant this is `TaskInv`, a task serves the
state its job is in and agrees with its record, with `OneTask`; `RecordInv` says
what a record holds in each state, and `FileInv` that a book on disk belongs to
a job that will not be approved again. `BooksStay` is an action property: it
needs to know what a step may do to a directory (`FilesStep`), and that only
the second that is running can make a new one (`DirsStep`).

**ClientSession with ChildMemory.** `TypeCorrect`, `Answers`,
`InspectionIsFree`, `WholeBooks`, `OwnPast` and `BooksSurviveMemory`, for any
callers, children and limits. The server's half rests on books being numbered
by the calls that write them: no two calls under way serve one book, so between
the look at what a book has taught and the insert no other call can step. The
client's half says where a call may be open: in the batch being run, behind the
place it has come to, or, without `--execute`, in a line that is over.

**Research with Corpus.** `TypeCorrect`, `WebFactsShown`, `PagesAreReal`,
`CitationsHold` and `FusionIsFair`, for any width, corpus and number of ingestions. The agent may
claim anything, so the invariant says nothing of claims and everything of the
record they are looked up in: an entry of the ledger was shown under the id its
place gives it, and was let in on the evidence the settings call for; a chunk
that was shown is, source and text together, a row that stood under its id in
this attempt (`Held`). `CitationsHold` says more of a citation than that it was
shown: provenance looks the id up in a third statement, so its source may be
that of a later row than the one shown, but only if two different rows have
stood under the id. The calls of a step append in any order, and since an
id is minted from the length of the ledger in the step that appends, an entry
never moves.

`FusionIsFair` is about a computation and holds of any two rankings in any
state. A vote is a positive fraction, and an earlier place in a ranking has a
larger one. From the order of fractions, `Ahead` (a larger sum of votes, ties
by id) is a strict total order of the rows ranked; a place is one more than the
number of rows ahead, so by cardinalities places are a bijection from the rows
to an initial segment of the naturals, and the merged ranking follows the
order. Cutting a ranking keeps the order of what is left. That the ids of a
corpus are finitely many pairs of numbers is by induction on the pieces of a
file.

**BookRun with BookMedia.** `TypeCorrect`, `MetaIsTrue`, `SoundIsTrue`,
`FilmIsTrue` and `PaceIsKept`, for any number of pages, any readings, attempts
and vanished files. The invariant is `IInv == TypeOK /\ MetaInv /\ SoundInv /\
FilmInv`. A record is written stages before `meta.json` concludes from it, so
`MetaInv` says of each stage which records lie behind it. It claims nothing of
a run that `raised` or was `killed` except that "ok" is not there too early:
such a run may leave "running", or a file cut short, and those are the only
ways to. `SoundInv` says who can leave new sound without its record
(`Unrecorded`): a run between the two writes, or one that was `Stopped`
between them. `SoundInv` and
`FilmInv` fix the joined sound and the film as functions of the fates of the
pages from the moment they are made, and say that nothing touches those fates
afterwards: pages are selected from speech that was heard, clips are made for
pages selected, and answers of either kind have all come when the files are
joined. `PaceIsKept` bounds one page by the rounding of its frames and a film
by induction. Its first attempt failed for a good reason: the bound it started
from, half a frame a page to either side, is false of a page that is over
before half a frame is, because no page is shown for less than one. The bound
and the instance were corrected.

Induction over data is not out of reach where a set of naturals will do:
`LeastNatural`, from the well-foundedness of `<`, gives `InductiveSetIsNat`, a
set that has zero and the successor of each of its members is all of them, and
with it that the recursive functions of the models (`InOrder`, `SoFar`,
`Texts`) exist and what they return.

**Only model-checked.** Every invariant and every action property of the
passing runs, and both refinements, is stated by a theorem. Liveness
(`Terminates` of five modules, `JobsSettle`, `SendReturns`) is beyond the
prover, which has no rule for fairness and `ENABLED`; of the two pipelines the
decreasing measure is proved and only the fairness is left to TLC.

## Not modelled

Rendering (web pages, the layout of a PDF, what the terminal prints), logging
and tracing change no state the properties could be about. Prompts, and what
models answer to them, are choices. Evaluation is arithmetic over finished runs,
in one process and without anything kept. The bytes of image, audio and video
are abstracted to who made them and how long they last. `PROJECT.json` lists
every component with its status.

In the modelled parts, these are left out:

- checkpointing: a run is not resumed after a crash, since no checkpointer is
  configured anywhere;
- `supersede` of the memory store and the rerankers of retrieval, which nothing
  but their tests calls;
- text lengths. Some are hazards (a chapter's premise that a `StoryBrief`
  refuses, a source longer than its field), at boundaries that no interleaving
  reaches and a unit test does;
- two script runs that begin in one second with one premise, which share a
  directory (`make_run_dir` takes one that exists);
- the server's prompts and resources, which only read;
- replies of a model that hold only `invalid_tool_calls`, to the terminal's
  session;
- an image response of a shape that raises `AttributeError`, which the
  illustration's handlers do not catch;
- pages of a narration that go on and may be written after another page's
  `OSError` has failed the call (`gather` does not cancel them).
