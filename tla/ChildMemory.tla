----------------------------- MODULE ChildMemory -----------------------------
(***************************************************************************)
(* What one book teaches the next one for the same child (memory/), and    *)
(* the two calls that touch it: plan_story reads what earlier books        *)
(* established, and write_story records what its own book did, once the    *)
(* book is finished and before it is saved for the client                  *)
(* (workflows/write_story.py, run_story_pipeline; mcp/tools/).             *)
(*                                                                         *)
(* Calls of several callers interleave.  A book is the number of the call  *)
(* that wrote it; a record is [child, book, says], and the episode that    *)
(* sums a book up is a record like its facts.                              *)
(***************************************************************************)
EXTENDS Naturals, Sequences, FiniteSets

CONSTANTS
  Caller,      \* who may call the server at once
  Child,       \* the children with a child_id
  NoChild,     \* a brief without one
  Fact,        \* what a book may establish; Blank among them is an empty text
  Blank,
  MaxCalls     \* bound: calls to the server

ASSUME CallersAssumption == Caller # {} /\ NoChild \notin Child /\ MaxCalls \in Nat

VARIABLES
  call,      \* caller -> the call it is waiting for
  calls,     \* how many calls were made
  memory,    \* the memories table
  extracted, \* history: what was extracted from each book
  finished   \* history: books the pipeline returned

server == <<call, calls, memory, extracted, finished>>

Book == 1..MaxCalls
Tool == {"plan_story", "write_story"}
Scope == Child \cup {NoChild}
Episode == "episode"
Record == [child : Child, book : Book, says : Fact \cup {Episode}]

NoCall == [at |-> "none"]
Waiting(c) == call[c].at \notin {"none", "answered"}

ServerInit ==
  /\ call = [c \in Caller |-> NoCall]
  /\ calls = 0
  /\ memory = {}
  /\ extracted = [b \in Book |-> {}]
  /\ finished = {}

RecordsOf(child) == {r \in memory : r.child = child}

\* known: what the memory held of the child when the call came in.
Begin(c, tool, child) ==
  /\ ~Waiting(c)
  /\ calls < MaxCalls
  /\ calls' = calls + 1
  /\ call' = [call EXCEPT ![c] =
       [at |-> IF tool = "plan_story" THEN "fetch" ELSE "write", book |-> calls + 1,
        child |-> child, known |-> RecordsOf(child), seen |-> {}]]
  /\ UNCHANGED <<memory, extracted, finished>>

Go(c, at) == call' = [call EXCEPT ![c].at = at]

Answer(c, outcome) ==
  call' = [call EXCEPT ![c] = [at |-> "answered", outcome |-> outcome]]

-----------------------------------------------------------------------------
(* plan_story.                                                             *)

\* A mutant: the scope is forgotten.
Fetch_Everyone(child) == memory

\* PgMemoryStore.fetch: the child's records, of both tiers.
Fetch(child) == RecordsOf(child)

\* fetch_memory: it fails open, and a child without an id has none.
FetchMemory(c, reachable) ==
  /\ call[c].at = "fetch"
  /\ call' = [call EXCEPT ![c].at = IF reachable /\ call[c].child # NoChild
                                      THEN "briefed" ELSE "unbriefed",
                          ![c].seen = IF reachable /\ call[c].child # NoChild
                                        THEN Fetch(call[c].child) ELSE {}]
  /\ UNCHANGED <<calls, memory, extracted, finished>>

\* See OutlineWorkflow.
PlanStory(c, outcome) ==
  /\ call[c].at \in {"briefed", "unbriefed"}
  /\ Answer(c, outcome)
  /\ UNCHANGED <<calls, memory, extracted, finished>>

-----------------------------------------------------------------------------
(* write_story.                                                            *)

\* The outline does not fit, or the pipeline raises: see StoryWorkflow.
WriteFails(c) ==
  /\ call[c].at = "write"
  /\ Answer(c, "error")
  /\ UNCHANGED <<calls, memory, extracted, finished>>

WriteStory(c) ==
  /\ call[c].at = "write"
  /\ Go(c, IF call[c].child = NoChild THEN "save" ELSE "extract")
  /\ finished' = finished \cup {call[c].book}
  /\ UNCHANGED <<calls, memory, extracted>>

\* to_records, for an answer without a blank fact.
Records(child, book, facts, episode) ==
  {[child |-> child, book |-> book, says |-> s] :
     s \in facts \cup (IF episode THEN {Episode} ELSE {})}

\* One blank fact fails the validation of them all; nothing is remembered of
\* a book that taught nothing.
Extract(c, facts, episode) ==
  LET records == Records(call[c].child, call[c].book, facts, episode) IN
  /\ call[c].at = "extract"
  /\ IF Blank \in facts \/ records = {}
       THEN Go(c, "save") /\ UNCHANGED extracted
       ELSE /\ Go(c, "remember")
            /\ extracted' = [extracted EXCEPT ![call[c].book] = records]
  /\ UNCHANGED <<calls, memory, finished>>

\* A mutant: rows are inserted one by one, and the first may be all.
Saved_OneByOne(b) == {CHOOSE r \in extracted[b] : TRUE}

\* One transaction of all rows.
Saved(b) == extracted[b]

Remember(c) ==
  /\ call[c].at = "remember"
  /\ memory' = memory \cup Saved(call[c].book)
  /\ Go(c, "save")
  /\ UNCHANGED <<calls, extracted, finished>>

\* A mutant: the book is lost with its memory.
AfterMemoryFailed_Raises(c) == Answer(c, "error")

\* remember_story fails open: the book goes on.
AfterMemoryFailed(c) == Go(c, "save")

\* The extractor's model or the database fails.
MemoryFails(c) ==
  /\ call[c].at \in {"extract", "remember"}
  /\ AfterMemoryFailed(c)
  /\ UNCHANGED <<calls, memory, extracted, finished>>

\* The destination is resolved only now; a bad one, or the disk, loses the
\* book, and its memory stays.
SaveBook(c, saved) ==
  /\ call[c].at = "save"
  /\ Answer(c, IF saved THEN "ok" ELSE "error")
  /\ UNCHANGED <<calls, memory, extracted, finished>>

Serve(c) ==
  \/ \E ok \in BOOLEAN : FetchMemory(c, ok) \/ SaveBook(c, ok)
  \/ \E outcome \in {"ok", "error"} : PlanStory(c, outcome)
  \/ WriteFails(c) \/ WriteStory(c)
  \/ \E facts \in SUBSET Fact, episode \in BOOLEAN : Extract(c, facts, episode)
  \/ Remember(c) \/ MemoryFails(c)

-----------------------------------------------------------------------------
(* Properties.                                                             *)

ServerTypeOK ==
  /\ calls \in 0..MaxCalls
  /\ memory \subseteq Record
  /\ finished \subseteq Book
  /\ DOMAIN call = Caller

\* remember_story: memory is a record of finished books.  It holds of a book
\* all that was extracted from it or nothing, under the child it was written
\* for; and of a book that was not finished, nothing.
MemoryIsOfWholeBooks ==
  \A r \in memory :
    /\ r.book \in finished
    /\ extracted[r.book] \subseteq memory
    /\ r \in extracted[r.book]

\* A plan is briefed by its own child's past and by all of it: nothing of
\* another child's, and everything that was there when the call came in,
\* however many books are being written meanwhile.
BriefedByOwnPast ==
  \A c \in Caller : call[c].at = "briefed" =>
    /\ call[c].known \subseteq call[c].seen
    /\ \A r \in call[c].seen : r.child = call[c].child

\* Memory is enrichment: what fails in it, from the extractor to the database,
\* never fails the call of a finished book before its saving was tried.
MemoryNeverCostsABook ==
  [][\A c \in Caller :
       call[c].at \in {"extract", "remember"} => call'[c].at # "answered"]_server
=============================================================================
