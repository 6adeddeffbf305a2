------------------------- MODULE ClientSessionProofs -------------------------
(***************************************************************************)
(* Proofs about ClientSession and the ChildMemory under it, for any        *)
(* callers, children and facts, and any limits.                            *)
(*                                                                         *)
(* The server's half rests on books being numbered by the calls that wrote *)
(* them: two calls under way never serve one book, so between the check    *)
(* that a book has no memory and the insert that gives it one no other     *)
(* call can step.  The client's half rests on where a call can be open:    *)
(* in the batch being run, behind the place it has come to; or in a turn   *)
(* of an earlier line that was withheld.                                   *)
(***************************************************************************)
EXTENDS ClientSession, TLAPS

ActiveCall ==
  [at : {"fetch", "briefed", "unbriefed", "write", "extract", "remember", "save"},
   book : Book, child : Scope, known : SUBSET Record, seen : SUBSET Record]

AnsweredCall == [at : {"answered"}, outcome : {"ok", "error"}]

ServerTypes ==
  /\ call \in [Caller -> {NoCall} \cup AnsweredCall \cup ActiveCall]
  /\ calls \in 0..MaxCalls
  /\ memory \subseteq Record
  /\ extracted \in [Book -> SUBSET Record]
  /\ finished \subseteq 1..calls

\* What a call that is under way may rely on.
CallInv(c) ==
  Waiting(c) =>
    /\ call[c] \in ActiveCall
    /\ call[c].book \in 1..calls
    /\ call[c].at \in {"extract", "remember", "save"} => call[c].book \in finished
    /\ call[c].at \in {"extract", "remember"} => call[c].child \in Child
    /\ call[c].at # "save" => \A r \in memory : r.book # call[c].book
    /\ \A r \in call[c].known : r \in memory /\ r.child = call[c].child
    /\ call[c].at = "briefed" => /\ call[c].known \subseteq call[c].seen
                                 /\ \A r \in call[c].seen : r.child = call[c].child

OneCallPerBook ==
  \A c, d \in Caller : Waiting(c) /\ Waiting(d) /\ call[c].book = call[d].book => c = d

ExtractedInv == \A b \in Book : \A r \in extracted[b] : r.book = b

ServerInv ==
  /\ ServerTypes
  /\ \A c \in Caller : CallInv(c)
  /\ OneCallPerBook
  /\ ExtractedInv
  /\ MemoryIsOfWholeBooks

-----------------------------------------------------------------------------
(* The server.                                                             *)

\* A step of one call that leaves the others alone.
OneCall(c) ==
  /\ calls' \in Nat /\ calls <= calls'
  /\ \A d \in Caller \ {c} : call'[d] = call[d]
  /\ Waiting(c)' => /\ CallInv(c)'
                    /\ \A d \in Caller \ {c} : Waiting(d) => call'[c].book # call[d].book
  /\ memory \subseteq memory' /\ finished \subseteq finished'
  /\ \A r \in memory' \ memory : Waiting(c) /\ r.book = call[c].book

LEMMA OneCallSteps ==
  ASSUME ServerInv, ServerTypes', NEW c \in Caller, OneCall(c), ExtractedInv',
         MemoryIsOfWholeBooks'
  PROVE  ServerInv'
<1>1. ASSUME NEW d \in Caller PROVE CallInv(d)'
  <2>1. CASE d = c
    BY <2>1 DEF OneCall, CallInv
  <2>2. CASE d # c /\ Waiting(d)
    <3>1. call'[d] = call[d] /\ CallInv(d) /\ calls \in Nat
      BY <2>2 DEF OneCall, ServerInv, ServerTypes
    <3>2. \A r \in memory' \ memory : r.book # call[d].book
      BY <2>2 DEF OneCall, ServerInv, OneCallPerBook
    <3>3. call[d].book \in 1..calls'
      BY <2>2, <3>1 DEF CallInv, OneCall
    <3> QED
      BY <2>2, <3>1, <3>2, <3>3 DEF CallInv, OneCall, Waiting
  <2>3. CASE d # c /\ ~ Waiting(d)
    BY <2>3 DEF CallInv, OneCall, Waiting
  <2> QED
    BY <2>1, <2>2, <2>3
<1>2. OneCallPerBook'
  BY DEF OneCallPerBook, OneCall, ServerInv, Waiting
<1> QED
  BY <1>1, <1>2 DEF ServerInv

\* The step changes only where call c is, and says nothing else about it.
Moved(c, place) ==
  /\ call' = [call EXCEPT ![c].at = place]
  /\ place \in {"fetch", "briefed", "unbriefed", "write", "extract", "remember", "save"}

LEMMA MovedCall ==
  ASSUME ServerInv, NEW c \in Caller, Waiting(c), NEW place, Moved(c, place)
  PROVE  /\ call' \in [Caller -> {NoCall} \cup AnsweredCall \cup ActiveCall]
         /\ call'[c] \in ActiveCall /\ Waiting(c)' /\ call'[c].at = place
         /\ call'[c].book = call[c].book /\ call'[c].child = call[c].child
         /\ call'[c].known = call[c].known /\ call'[c].seen = call[c].seen
         /\ \A d \in Caller \ {c} : call'[d] = call[d]
         /\ \A d \in Caller \ {c} : Waiting(d) => call'[c].book # call[d].book
<1>1. call[c] \in ActiveCall
  BY DEF ServerInv, CallInv
<1>2. call'[c] = [call[c] EXCEPT !.at = place] /\ \A d \in Caller \ {c} : call'[d] = call[d]
  BY DEF Moved, ServerInv, ServerTypes
<1>3. /\ call'[c] \in ActiveCall /\ call'[c].at = place
      /\ call'[c].book = call[c].book /\ call'[c].child = call[c].child
      /\ call'[c].known = call[c].known /\ call'[c].seen = call[c].seen
  BY <1>1, <1>2 DEF Moved, ActiveCall
<1>4. call' \in [Caller -> {NoCall} \cup AnsweredCall \cup ActiveCall]
  BY <1>2, <1>3 DEF Moved, ServerInv, ServerTypes
<1>5. Waiting(c)'
  BY <1>3 DEF Waiting, Moved
<1>6. \A d \in Caller \ {c} : Waiting(d) => call'[c].book # call[d].book
  BY <1>3 DEF ServerInv, OneCallPerBook
<1> QED
  BY <1>2, <1>3, <1>4, <1>5, <1>6

\* A call that is answered, or that ends.
LEMMA AnsweredStep ==
  ASSUME ServerInv, NEW c \in Caller, NEW outcome \in {"ok", "error"}, Answer(c, outcome),
         UNCHANGED <<calls, memory, extracted, finished>>
  PROVE  ServerInv'
<1> DEFINE answer == [at |-> "answered", outcome |-> outcome]
<1>1. answer \in AnsweredCall /\ answer.at = "answered"
  BY DEF AnsweredCall
<1>2. /\ call' = [call EXCEPT ![c] = answer]
      /\ call'[c] = answer /\ \A d \in Caller \ {c} : call'[d] = call[d]
  BY DEF Answer, ServerInv, ServerTypes
<1> HIDE DEF answer
<1>3. ServerTypes'
  BY <1>1, <1>2 DEF ServerInv, ServerTypes
<1>4. ~ Waiting(c)'
  BY <1>1, <1>2 DEF Waiting
<1>5. OneCall(c)
  BY <1>2, <1>4 DEF OneCall, ServerInv, ServerTypes
<1>6. ExtractedInv' /\ MemoryIsOfWholeBooks'
  BY DEF ServerInv, ExtractedInv, MemoryIsOfWholeBooks
<1> QED
  BY <1>3, <1>5, <1>6, OneCallSteps

LEMMA BeginKeeps ==
  ASSUME ServerInv, NEW c \in Caller, NEW tool \in Tool, NEW child \in Scope,
         Begin(c, tool, child)
  PROVE  ServerInv'
<1> DEFINE place == IF tool = "plan_story" THEN "fetch" ELSE "write"
           new == [at |-> place, book |-> calls + 1, child |-> child,
                   known |-> RecordsOf(child), seen |-> {}]
<1>1. calls + 1 \in Book /\ calls \in Nat /\ MaxCalls \in Nat
  BY CallersAssumption DEF Begin, ServerInv, ServerTypes, Book
<1>2. new \in ActiveCall /\ \A r \in RecordsOf(child) : r \in memory /\ r.child = child
  BY <1>1 DEF ActiveCall, RecordsOf, ServerInv, ServerTypes
<1>3. /\ new.at \in {"fetch", "write"} /\ new.book = calls + 1 /\ new.child = child
      /\ new.known = RecordsOf(child)
  OBVIOUS
<1>4. call' = [call EXCEPT ![c] = new] /\ calls' = calls + 1
  BY DEF Begin
<1> HIDE DEF new
<1>5. call'[c] = new /\ \A d \in Caller \ {c} : call'[d] = call[d]
  BY <1>4 DEF ServerInv, ServerTypes
<1>6. UNCHANGED <<memory, extracted, finished>>
  BY DEF Begin
<1>7. ServerTypes'
  <2>1. call' \in [Caller -> {NoCall} \cup AnsweredCall \cup ActiveCall]
    BY <1>2, <1>4 DEF ServerInv, ServerTypes
  <2>2. calls' \in 0..MaxCalls /\ finished' \subseteq 1..calls'
    BY <1>1, <1>4, <1>6 DEF Begin, ServerInv, ServerTypes
  <2> QED
    BY <1>6, <2>1, <2>2 DEF ServerInv, ServerTypes
<1>8. \A r \in memory : r.book # calls + 1
  <2>1. \A r \in memory : r.book \in 1..calls
    BY DEF ServerInv, ServerTypes, MemoryIsOfWholeBooks
  <2> QED
    BY <1>1, <2>1
<1>9. CallInv(c)'
  BY <1>1, <1>2, <1>3, <1>4, <1>5, <1>6, <1>8 DEF CallInv
<1>10. \A d \in Caller \ {c} : Waiting(d) => call'[c].book # call[d].book
  BY <1>1, <1>3, <1>5 DEF ServerInv, CallInv
<1>11. OneCall(c)
  BY <1>1, <1>4, <1>5, <1>6, <1>9, <1>10 DEF OneCall
<1>12. ExtractedInv' /\ MemoryIsOfWholeBooks'
  BY <1>6 DEF ServerInv, ExtractedInv, MemoryIsOfWholeBooks
<1> QED
  BY <1>7, <1>11, <1>12, OneCallSteps

LEMMA FetchMemoryKeeps ==
  ASSUME ServerInv, NEW c \in Caller, NEW reachable \in BOOLEAN, FetchMemory(c, reachable)
  PROVE  ServerInv'
<1> DEFINE had == reachable /\ call[c].child # NoChild
           place == IF had THEN "briefed" ELSE "unbriefed"
           seen == IF had THEN Fetch(call[c].child) ELSE {}
<1>1. Waiting(c) /\ call[c] \in ActiveCall /\ call[c].at = "fetch"
  BY DEF FetchMemory, Waiting, ServerInv, CallInv
<1>2. /\ call' = [call EXCEPT ![c] = [call[c] EXCEPT !.at = place, !.seen = seen]]
      /\ UNCHANGED <<calls, memory, extracted, finished>>
  BY <1>1 DEF FetchMemory, ServerInv, ServerTypes
<1>3. seen \subseteq memory /\ seen \in SUBSET Record /\ place \in {"briefed", "unbriefed"}
  BY DEF Fetch, RecordsOf, ServerInv, ServerTypes
<1>4. place = "briefed" => seen = {r \in memory : r.child = call[c].child}
  BY DEF Fetch, RecordsOf
<1> HIDE DEF place, seen
<1>5. /\ call'[c] = [call[c] EXCEPT !.at = place, !.seen = seen]
      /\ \A d \in Caller \ {c} : call'[d] = call[d]
  BY <1>2 DEF ServerInv, ServerTypes
<1>6. /\ call'[c] \in ActiveCall /\ call'[c].at = place /\ call'[c].seen = seen
      /\ call'[c].book = call[c].book /\ call'[c].child = call[c].child
      /\ call'[c].known = call[c].known
  BY <1>1, <1>3, <1>5 DEF ActiveCall
<1>7. ServerTypes'
  BY <1>2, <1>6 DEF ServerInv, ServerTypes
<1>8. CallInv(c)'
  BY <1>1, <1>2, <1>3, <1>4, <1>6 DEF CallInv, ServerInv
<1>9. \A d \in Caller \ {c} : Waiting(d) => call'[c].book # call[d].book
  BY <1>1, <1>6 DEF ServerInv, OneCallPerBook
<1>10. OneCall(c)
  BY <1>2, <1>5, <1>8, <1>9 DEF OneCall, ServerInv, ServerTypes
<1>11. ExtractedInv' /\ MemoryIsOfWholeBooks'
  BY <1>2 DEF ServerInv, ExtractedInv, MemoryIsOfWholeBooks
<1> QED
  BY <1>7, <1>10, <1>11, OneCallSteps

\* A call that goes on to another statement, and nothing else.
LEMMA GoKeeps ==
  ASSUME ServerInv, NEW c \in Caller, call[c].at \in {"extract", "remember"}, Go(c, "save"),
         UNCHANGED <<calls, memory, extracted, finished>>
  PROVE  ServerInv'
<1>1. Waiting(c)
  BY DEF Waiting
<1>2. Moved(c, "save")
  BY DEF Go, Moved
<1>3. /\ call' \in [Caller -> {NoCall} \cup AnsweredCall \cup ActiveCall]
      /\ call'[c] \in ActiveCall /\ call'[c].at = "save"
      /\ call'[c].book = call[c].book /\ call'[c].child = call[c].child
      /\ call'[c].known = call[c].known
      /\ \A d \in Caller \ {c} : call'[d] = call[d]
      /\ \A d \in Caller \ {c} : Waiting(d) => call'[c].book # call[d].book
  BY <1>1, <1>2, MovedCall
<1>4. CallInv(c)'
  BY <1>1, <1>3 DEF CallInv, ServerInv
<1>5. ServerTypes' /\ OneCall(c)
  BY <1>3, <1>4 DEF ServerInv, ServerTypes, OneCall
<1>6. ExtractedInv' /\ MemoryIsOfWholeBooks'
  BY DEF ServerInv, ExtractedInv, MemoryIsOfWholeBooks
<1> QED
  BY <1>5, <1>6, OneCallSteps

LEMMA WriteStoryKeeps ==
  ASSUME ServerInv, NEW c \in Caller, WriteStory(c)
  PROVE  ServerInv'
<1> DEFINE place == IF call[c].child = NoChild THEN "save" ELSE "extract"
<1>1. Waiting(c) /\ call[c].at = "write" /\ CallInv(c)
  BY DEF WriteStory, Waiting, ServerInv
<1>2. Moved(c, place) /\ place \in {"save", "extract"} /\ (place = "extract" => call[c].child # NoChild)
  BY DEF WriteStory, Go, Moved
<1>3. /\ finished' = finished \cup {call[c].book}
      /\ UNCHANGED <<calls, memory, extracted>>
  BY DEF WriteStory
<1> HIDE DEF place
<1>4. /\ call' \in [Caller -> {NoCall} \cup AnsweredCall \cup ActiveCall]
      /\ call'[c] \in ActiveCall /\ call'[c].at = place
      /\ call'[c].book = call[c].book /\ call'[c].child = call[c].child
      /\ call'[c].known = call[c].known
      /\ \A d \in Caller \ {c} : call'[d] = call[d]
      /\ \A d \in Caller \ {c} : Waiting(d) => call'[c].book # call[d].book
  BY <1>1, <1>2, MovedCall
<1>5. place = "extract" => call[c].child \in Child
  BY <1>1, <1>2 DEF CallInv, ActiveCall, Scope
<1>6. CallInv(c)'
  BY <1>1, <1>2, <1>3, <1>4, <1>5 DEF CallInv
<1>7. ServerTypes'
  BY <1>1, <1>3, <1>4 DEF ServerInv, ServerTypes, CallInv
<1>8. OneCall(c)
  BY <1>3, <1>4, <1>6 DEF ServerInv, ServerTypes, OneCall
<1>9. ExtractedInv' /\ MemoryIsOfWholeBooks'
  BY <1>3 DEF ServerInv, ExtractedInv, MemoryIsOfWholeBooks
<1> QED
  BY <1>7, <1>8, <1>9, OneCallSteps

\* Nothing is in memory of the book yet: what was extracted may replace it.
LEMMA ExtractKeeps ==
  ASSUME ServerInv, NEW c \in Caller, NEW facts \in SUBSET Fact, NEW episode \in BOOLEAN,
         Extract(c, facts, episode)
  PROVE  ServerInv'
<1> DEFINE records == Records(call[c].child, call[c].book, facts, episode)
           b == call[c].book
<1>1. /\ Waiting(c) /\ call[c].at = "extract" /\ CallInv(c)
      /\ UNCHANGED <<calls, memory, finished>>
  BY DEF Extract, Waiting, ServerInv
<1>2. CASE Go(c, "save") /\ UNCHANGED extracted
  BY <1>1, <1>2, GoKeeps
<1>3. CASE Go(c, "remember") /\ extracted' = [extracted EXCEPT ![b] = records]
  <2>1. Moved(c, "remember")
    BY <1>3 DEF Go, Moved
  <2>2. /\ call' \in [Caller -> {NoCall} \cup AnsweredCall \cup ActiveCall]
        /\ call'[c] \in ActiveCall /\ call'[c].at = "remember"
        /\ call'[c].book = call[c].book /\ call'[c].child = call[c].child
        /\ call'[c].known = call[c].known
        /\ \A d \in Caller \ {c} : call'[d] = call[d]
        /\ \A d \in Caller \ {c} : Waiting(d) => call'[c].book # call[d].book
    BY <1>1, <2>1, MovedCall
  <2>3. CallInv(c)'
    BY <1>1, <2>2 DEF CallInv
  <2>4. call[c].child \in Child /\ b \in Book
    BY <1>1 DEF CallInv, ActiveCall
  <2>5. records \subseteq Record /\ \A r \in records : r.book = b
    BY <2>4 DEF Records, Record
  <2> HIDE DEF records
  <2>6. ServerTypes'
    BY <1>1, <1>3, <2>2, <2>5 DEF ServerInv, ServerTypes
  <2>7. OneCall(c)
    BY <1>1, <2>2, <2>3 DEF ServerInv, ServerTypes, OneCall
  <2>8. ExtractedInv'
    BY <1>3, <2>4, <2>5 DEF ServerInv, ServerTypes, ExtractedInv
  <2>9. \A r \in memory : r.book # b /\ r.book \in Book
    BY <1>1 DEF CallInv, ServerInv, ServerTypes, Record
  <2>10. \A r \in memory : extracted'[r.book] = extracted[r.book]
    BY <1>3, <2>4, <2>9 DEF ServerInv, ServerTypes
  <2>11. MemoryIsOfWholeBooks'
    BY <1>1, <2>10 DEF ServerInv, MemoryIsOfWholeBooks
  <2> QED
    BY <2>6, <2>7, <2>8, <2>11, OneCallSteps
<1> QED
  BY <1>2, <1>3 DEF Extract

LEMMA RememberKeeps ==
  ASSUME ServerInv, NEW c \in Caller, Remember(c)
  PROVE  ServerInv'
<1> DEFINE b == call[c].book
<1>1. Waiting(c) /\ call[c].at = "remember" /\ CallInv(c)
  BY DEF Remember, Waiting, ServerInv
<1>2. /\ Moved(c, "save") /\ memory' = memory \cup extracted[b]
      /\ UNCHANGED <<calls, extracted, finished>>
  BY DEF Remember, Go, Moved, Saved
<1>3. /\ call' \in [Caller -> {NoCall} \cup AnsweredCall \cup ActiveCall]
      /\ call'[c] \in ActiveCall /\ call'[c].at = "save"
      /\ call'[c].book = call[c].book /\ call'[c].child = call[c].child
      /\ call'[c].known = call[c].known
      /\ \A d \in Caller \ {c} : call'[d] = call[d]
      /\ \A d \in Caller \ {c} : Waiting(d) => call'[c].book # call[d].book
  BY <1>1, <1>2, MovedCall
<1>4. CallInv(c)'
  BY <1>1, <1>2, <1>3 DEF CallInv
<1>5. /\ b \in Book /\ b \in finished /\ extracted[b] \subseteq Record
      /\ \A r \in extracted[b] : r.book = b
  BY <1>1 DEF CallInv, ActiveCall, ServerInv, ServerTypes, ExtractedInv
<1>6. ServerTypes'
  BY <1>2, <1>3, <1>5 DEF ServerInv, ServerTypes
<1>7. OneCall(c)
  BY <1>1, <1>2, <1>3, <1>4, <1>5 DEF ServerInv, ServerTypes, OneCall
<1>8. ExtractedInv' /\ MemoryIsOfWholeBooks'
  BY <1>2, <1>5 DEF ServerInv, ExtractedInv, MemoryIsOfWholeBooks
<1> QED
  BY <1>6, <1>7, <1>8, OneCallSteps

LEMMA ServeKeeps ==
  ASSUME ServerInv, NEW c \in Caller, Serve(c)
  PROVE  ServerInv'
<1>1. ASSUME NEW saved \in BOOLEAN, SaveBook(c, saved) PROVE ServerInv'
  BY <1>1, AnsweredStep DEF SaveBook
<1>2. ASSUME NEW outcome \in {"ok", "error"}, PlanStory(c, outcome) PROVE ServerInv'
  BY <1>2, AnsweredStep DEF PlanStory
<1>3. CASE WriteFails(c)
  BY <1>3, AnsweredStep DEF WriteFails
<1>4. CASE MemoryFails(c)
  BY <1>4, GoKeeps DEF MemoryFails, AfterMemoryFailed
<1> QED
  BY <1>1, <1>2, <1>3, <1>4, FetchMemoryKeeps, WriteStoryKeeps, ExtractKeeps, RememberKeeps
     DEF Serve

-----------------------------------------------------------------------------
(* The client.                                                             *)

Opened == (1..MaxLines) \X (0..MaxToolTurns) \X (1..MaxBatch)

ClientTypes ==
  /\ execute \in BOOLEAN
  /\ at \in {"prompt", "model", "execute", "waiting", "quit"}
  /\ lines \in 0..MaxLines /\ turn \in 0..(MaxToolTurns - 1)
  /\ nudges \in 0..MaxEmptyRetries
  /\ batch \in Batches \cup {<<>>} /\ ran \in 0..Len(batch)
  /\ open \subseteq Opened
  /\ said \in Said
  /\ at \in {"model", "execute", "waiting"} => lines > 0
  /\ at = "waiting" => ran < Len(batch)

\* Where an open call can be.
OpenInv(o) ==
  \/ ~execute /\ o[1] < lines
  \/ at \in {"prompt", "quit"} /\ ~execute /\ o[1] <= lines
  \/ at \in {"execute", "waiting"} /\ \E i \in (ran + 1)..Len(batch) : o = <<lines, turn, i>>

ClientInv ==
  /\ ClientTypes
  /\ \A o \in open : OpenInv(o)
  /\ InspectingSpendsNothing

LEMMA BatchTypes ==
  ASSUME NEW b \in Batches
  PROVE  /\ b \in Seq(Tool) /\ Len(b) \in 1..MaxBatch /\ DOMAIN b = 1..Len(b)
         /\ \A i \in 1..Len(b) : b[i] \in Tool
<1>1. PICK n \in 1..MaxBatch : b \in [1..n -> Tool]
  BY DEF Batches
<1>2. n \in Nat
  BY <1>1, BatchAssumption
<1> QED
  BY <1>1, <1>2

LEMMA ClientSteps ==
  ASSUME ClientInv, Step
  PROVE  ClientInv'
<1> USE TurnsAssumption, BatchAssumption
<1>0. Len(<<>>) = 0
  OBVIOUS
<1>1. /\ execute' = execute /\ lines' = lines
      /\ execute \in BOOLEAN /\ lines \in 1..MaxLines /\ lines \in Nat
  BY DEF ClientInv, ClientTypes, Step, ModelRaises, ReplyText, ReplyNothing, ReplyCalls,
     CallTool, CallRefused, RecordCall, BatchDone
\* The send is over, or its next turn begins, with the history in order.
<1>2. ASSUME NEW what \in Said, Returns(what), open' = open,
             \A o \in open : ~execute /\ o[1] < lines
      PROVE  ClientInv'
  <2>1. ClientTypes'
    BY <1>0, <1>1, <1>2 DEF Returns, ClientInv, ClientTypes
  <2>2. \A o \in open' : OpenInv(o)'
    BY <1>1, <1>2 DEF OpenInv
  <2> QED
    BY <1>2, <2>1, <2>2 DEF ClientInv, Returns, InspectingSpendsNothing
<1>3. ASSUME NEW nudged \in {0, 1}, nudges + nudged \in 0..MaxEmptyRetries,
             NextTurn(nudged), open' = open, \A o \in open : ~execute /\ o[1] < lines
      PROVE  ClientInv'
  <2>1. CASE turn + 1 = MaxToolTurns
    BY <1>2, <1>3, <2>1 DEF NextTurn, Said
  <2>2. CASE turn + 1 # MaxToolTurns
    <3>1. /\ at' = "model" /\ turn' = turn + 1 /\ nudges' = nudges + nudged
          /\ batch' = <<>> /\ ran' = 0 /\ said' = said
      BY <1>3, <2>2 DEF NextTurn
    <3>2. turn + 1 \in 0..(MaxToolTurns - 1)
      BY <2>2 DEF ClientInv, ClientTypes
    <3>3. ClientTypes'
      BY <1>0, <1>1, <1>3, <3>1, <3>2 DEF ClientInv, ClientTypes
    <3>4. \A o \in open' : OpenInv(o)'
      BY <1>1, <1>3 DEF OpenInv
    <3> QED
      BY <3>1, <3>3, <3>4 DEF ClientInv, InspectingSpendsNothing
  <2> QED
    BY <2>1, <2>2
<1>4. at = "model" => \A o \in open : ~execute /\ o[1] < lines
  BY DEF ClientInv, OpenInv
<1>5. CASE ModelRaises \/ ReplyText
  <2>1. at = "model" /\ open' = open /\ (Returns("raised") \/ Returns("text"))
    BY <1>5 DEF ModelRaises, ReplyText
  <2>2. "raised" \in Said /\ "text" \in Said
    BY DEF Said
  <2> QED
    BY <1>2, <1>4, <2>1, <2>2
<1>6. CASE ReplyNothing
  <2>1. /\ at = "model" /\ open' = open
        /\ (nudges < MaxEmptyRetries /\ NextTurn(1)) \/ Returns("said_nothing")
    BY <1>6 DEF ReplyNothing
  <2>2. "said_nothing" \in Said /\ nudges \in 0..MaxEmptyRetries
    BY DEF Said, ClientInv, ClientTypes
  <2> QED
    BY <1>2, <1>3, <1>4, <2>1, <2>2
<1>7. ASSUME NEW asked \in Batches, ReplyCalls(asked) PROVE ClientInv'
  <2>1. /\ at = "model" /\ open' = open \cup {<<lines, turn, i>> : i \in DOMAIN asked}
        /\ DOMAIN asked = 1..Len(asked) /\ Len(asked) \in 1..MaxBatch
    BY <1>7, BatchTypes DEF ReplyCalls
  <2>2. open' \subseteq Opened
    BY <1>1, <2>1 DEF Opened, ClientInv, ClientTypes
  <2>3. CASE Withheld(asked)
    <3>1. ~ execute /\ Returns("withheld")
      BY <1>7, <2>3 DEF Withheld, ReplyCalls
    <3>2. ClientTypes'
      BY <1>0, <1>1, <2>2, <3>1 DEF Returns, ClientInv, ClientTypes, Said
    <3>3. \A o \in open' : o[1] <= lines
      BY <1>1, <1>4, <2>1, <3>1 DEF ClientInv, ClientTypes, Opened
    <3>4. \A o \in open' : OpenInv(o)'
      BY <1>1, <3>1, <3>3 DEF OpenInv, Returns
    <3> QED
      BY <3>1, <3>2, <3>4 DEF ClientInv, Returns, InspectingSpendsNothing
  <2>4. CASE ~ Withheld(asked)
    <3>1. at' = "execute" /\ batch' = asked /\ ran' = 0 /\ UNCHANGED <<turn, nudges, said>>
      BY <1>7, <2>4 DEF ReplyCalls
    <3>2. ClientTypes'
      BY <1>1, <2>1, <2>2, <3>1 DEF ClientInv, ClientTypes
    <3>3. \A o \in open' : OpenInv(o)'
      BY <1>1, <1>4, <2>1, <3>1 DEF OpenInv
    <3>4. InspectingSpendsNothing'
      BY <1>1, <2>4, <3>1 DEF InspectingSpendsNothing, Withheld
    <3> QED
      BY <3>2, <3>3, <3>4 DEF ClientInv
  <2> QED
    BY <2>3, <2>4
<1>8. ASSUME NEW child \in Scope, CallTool(child) PROVE ClientInv'
  <2>1. /\ at = "execute" /\ at' = "waiting" /\ ran < Len(batch)
        /\ UNCHANGED <<lines, turn, nudges, batch, ran, open, said>>
    BY <1>8 DEF CallTool
  <2>2. ClientTypes'
    BY <1>1, <2>1 DEF ClientInv, ClientTypes
  <2>3. \A o \in open' : OpenInv(o)'
    BY <1>1, <2>1 DEF ClientInv, OpenInv
  <2> QED
    BY <1>1, <2>1, <2>2, <2>3 DEF ClientInv, InspectingSpendsNothing
<1>9. CASE CallRefused \/ RecordCall
  <2>1. /\ at \in {"execute", "waiting"} /\ at' = "execute" /\ ran < Len(batch) /\ ran' = ran + 1
        /\ open' = open \ {<<lines, turn, ran + 1>>}
        /\ UNCHANGED <<turn, nudges, batch, said>>
    BY <1>9 DEF CallRefused, RecordCall, Answered, ClientInv, ClientTypes
  <2>2. Len(batch) \in Nat /\ ran \in Nat
    BY <1>0, BatchTypes DEF ClientInv, ClientTypes
  <2>3. ClientTypes'
    BY <1>1, <2>1, <2>2 DEF ClientInv, ClientTypes
  <2>4. ASSUME NEW o \in open' PROVE OpenInv(o)'
    <3>1. o \in open /\ o # <<lines, turn, ran + 1>> /\ OpenInv(o)
      BY <2>1 DEF ClientInv
    <3>2. CASE ~execute /\ o[1] < lines
      BY <1>1, <3>2 DEF OpenInv
    <3>3. CASE \E i \in (ran + 1)..Len(batch) : o = <<lines, turn, i>>
      <4>1. PICK i \in (ran + 1)..Len(batch) : o = <<lines, turn, i>>
        BY <3>3
      <4>2. i \in (ran' + 1)..Len(batch)
        BY <2>1, <2>2, <3>1, <4>1
      <4> QED
        BY <1>1, <2>1, <4>1, <4>2 DEF OpenInv
    <3> QED
      BY <2>1, <3>1, <3>2, <3>3 DEF OpenInv
  <2> QED
    BY <1>1, <2>1, <2>3, <2>4 DEF ClientInv, InspectingSpendsNothing
<1>10. CASE BatchDone
  <2>1. at = "execute" /\ ran = Len(batch) /\ NextTurn(0) /\ open' = open
    BY <1>10 DEF BatchDone
  <2>2. Len(batch) \in Nat /\ nudges + 0 \in 0..MaxEmptyRetries
    BY <1>0, BatchTypes DEF ClientInv, ClientTypes
  <2>3. \A o \in open : ~execute /\ o[1] < lines
    BY <2>1, <2>2 DEF ClientInv, OpenInv
  <2> QED
    BY <1>3, <2>1, <2>2, <2>3
<1> QED
  BY <1>5, <1>6, <1>7, <1>8, <1>9, <1>10 DEF Step

LEMMA ClientNext == ClientInv /\ [Next]_vars => ClientInv'
<1> SUFFICES ASSUME ClientInv, [Next]_vars PROVE ClientInv'
  OBVIOUS
<1>1. CASE UNCHANGED client
  BY <1>1 DEF client, ClientInv, ClientTypes, OpenInv, InspectingSpendsNothing
<1>2. CASE Type
  <2>1. /\ at = "prompt" /\ at' = "model" /\ lines' = lines + 1 /\ lines' \in 1..MaxLines
        /\ said' \in Said /\ UNCHANGED <<execute, turn, nudges, batch, ran, open>>
    BY <1>2, BatchAssumption DEF Type, ClientInv, ClientTypes, Said
  <2>2. ClientTypes'
    BY <2>1 DEF ClientInv, ClientTypes
  <2>3. \A o \in open : o[1] \in Nat
    BY BatchAssumption DEF ClientInv, ClientTypes, Opened
  <2>4. \A o \in open' : OpenInv(o)'
    BY <2>1, <2>3 DEF ClientInv, ClientTypes, OpenInv
  <2> QED
    BY <2>1, <2>2, <2>4 DEF ClientInv, InspectingSpendsNothing
<1>3. CASE Quit
  <2>1. /\ at = "prompt" /\ at' = "quit" /\ said' \in Said
        /\ UNCHANGED <<execute, lines, turn, nudges, batch, ran, open>>
    BY <1>3 DEF Quit, Said
  <2> QED
    BY <2>1 DEF ClientInv, ClientTypes, OpenInv, InspectingSpendsNothing
<1> QED
  BY <1>1, <1>2, <1>3, ClientSteps DEF Next, vars, OtherCalls

LEMMA ServerNext == ServerInv /\ ClientInv /\ [Next]_vars => ServerInv'
<1> SUFFICES ASSUME ServerInv, ClientInv, [Next]_vars PROVE ServerInv'
  OBVIOUS
<1>1. CASE UNCHANGED server
  BY <1>1 DEF server, ServerInv, ServerTypes, CallInv, Waiting, OneCallPerBook, ExtractedInv,
     MemoryIsOfWholeBooks
<1>2. ASSUME NEW child \in Scope, CallTool(child) PROVE ServerInv'
  <2>1. Begin(Repl, batch[ran + 1], child) /\ ran < Len(batch)
    BY <1>2 DEF CallTool
  <2>2. batch[ran + 1] \in Tool
    <3>1. Len(<<>>) = 0
      OBVIOUS
    <3>2. batch \in Batches
      BY <2>1, <3>1 DEF ClientInv, ClientTypes
    <3> QED
      BY <2>1, <3>2, BatchTypes DEF ClientInv, ClientTypes
  <2> QED
    BY <2>1, <2>2, BeginKeeps, ReplAssumption
<1>3. CASE Step
  BY <1>1, <1>2, <1>3 DEF Step, ModelRaises, ReplyText, ReplyNothing, ReplyCalls, CallRefused,
     RecordCall, BatchDone
<1> QED
  BY <1>1, <1>3, ServeKeeps, BeginKeeps DEF Next, vars, Type, Quit, OtherCalls

IInv == ServerInv /\ ClientInv

\* The inductive invariant holds of every session, whatever other callers do.
THEOREM Invariance == Spec => []IInv
<1>1. Init => ServerInv
  <2> SUFFICES ASSUME ServerInit PROVE ServerInv
    BY DEF Init
  <2>1. \A c \in Caller : ~ Waiting(c)
    BY DEF ServerInit, Waiting, NoCall
  <2>2. ServerTypes
    BY CallersAssumption DEF ServerInit, ServerTypes
  <2> QED
    BY <2>1, <2>2 DEF ServerInit, ServerInv, CallInv, OneCallPerBook, ExtractedInv,
       MemoryIsOfWholeBooks
<1>2. Init => ClientInv
  <2>1. Len(<<>>) = 0
    OBVIOUS
  <2> QED
    BY <2>1, TurnsAssumption, BatchAssumption
       DEF Init, ClientInv, ClientTypes, InspectingSpendsNothing, Said
<1>3. IInv /\ [Next]_vars => IInv'
  BY ClientNext, ServerNext DEF IInv
<1> QED
  BY <1>1, <1>2, <1>3, PTL DEF Spec, IInv

\* The client, the calls under way and the memory keep their shape.
THEOREM TypeCorrect == Spec => []TypeOK
<1>1. ASSUME IInv PROVE TypeOK
  <2>1. ServerTypeOK
    BY <1>1, CallersAssumption DEF IInv, ServerInv, ServerTypes, ServerTypeOK, Book
  <2> QED
    BY <1>1, <2>1, TurnsAssumption DEF IInv, ClientInv, ClientTypes, TypeOK, Opened
<1> QED
  BY <1>1, Invariance, PTL

\* With --execute no reply of the model, no failing tool and no limit leaves a
\* call of the history without its answer when the model is next asked.
THEOREM Answers == Spec => []HistoryIsAnswered
<1>1. IInv => HistoryIsAnswered
  BY DEF IInv, ClientInv, OpenInv, HistoryIsAnswered
<1> QED
  BY <1>1, Invariance, PTL

\* Inspection starts nothing expensive, and nothing that stood beside it.
THEOREM InspectionIsFree == Spec => []InspectingSpendsNothing
<1>1. IInv => InspectingSpendsNothing
  BY DEF IInv, ClientInv
<1> QED
  BY <1>1, Invariance, PTL

\* However many calls are under way, memory holds finished books whole.
THEOREM WholeBooks == Spec => []MemoryIsOfWholeBooks
<1>1. IInv => MemoryIsOfWholeBooks
  BY DEF IInv, ServerInv
<1> QED
  BY <1>1, Invariance, PTL

\* No plan is briefed by another child's past, or by less than its own.
THEOREM OwnPast == Spec => []BriefedByOwnPast
<1>1. IInv => BriefedByOwnPast
  BY DEF IInv, ServerInv, CallInv, Waiting, BriefedByOwnPast
<1> QED
  BY <1>1, Invariance, PTL

\* A call whose book is finished goes on to save it, whatever its memory does.
THEOREM BooksSurviveMemory == Spec => MemoryNeverCostsABook
<1> DEFINE Kept == \A c \in Caller :
                     call[c].at \in {"extract", "remember"} => call'[c].at # "answered"
<1>1. ASSUME ServerInv, NEW c \in Caller, call[c].at \in {"extract", "remember"},
             NEW d \in Caller,
             Serve(d) \/ (\E tool \in Tool, child \in Scope : Begin(d, tool, child))
      PROVE  call'[c].at # "answered"
  <2>1. Waiting(c) /\ call[c] \in ActiveCall
    BY <1>1 DEF Waiting, ServerInv, CallInv
  <2>2. CASE d = c
    <3>1. Moved(c, "save") \/ Moved(c, "remember")
      BY <1>1, <2>1, <2>2 DEF Serve, Begin, FetchMemory, PlanStory, WriteFails, WriteStory,
         Extract, Remember, MemoryFails, AfterMemoryFailed, SaveBook, Go, Moved
    <3> QED
      BY <1>1, <2>1, <3>1, MovedCall
  <2>3. CASE d # c
    <3>1. call'[c] = call[c]
      BY <1>1, <2>3 DEF Serve, Begin, FetchMemory, PlanStory, WriteFails, WriteStory, Extract,
         Remember, MemoryFails, AfterMemoryFailed, SaveBook, Go, Answer, ServerInv, ServerTypes
    <3> QED
      BY <1>1, <3>1
  <2> QED
    BY <2>2, <2>3
<1>2. IInv /\ [Next]_vars => [Kept]_server
  <2> SUFFICES ASSUME IInv, [Next]_vars, ~ UNCHANGED server,
                      NEW c \in Caller, call[c].at \in {"extract", "remember"}
               PROVE  call'[c].at # "answered"
    OBVIOUS
  <2>1. ASSUME NEW child \in Scope, CallTool(child) PROVE call'[c].at # "answered"
    <3>1. Begin(Repl, batch[ran + 1], child) /\ ran < Len(batch)
      BY <2>1 DEF CallTool
    <3>2. batch[ran + 1] \in Tool
      <4>1. Len(<<>>) = 0
        OBVIOUS
      <4>2. batch \in Batches
        BY <3>1, <4>1 DEF IInv, ClientInv, ClientTypes
      <4> QED
        BY <3>1, <4>2, BatchTypes DEF IInv, ClientInv, ClientTypes
    <3> QED
      BY <1>1, <3>1, <3>2, ReplAssumption DEF IInv
  <2>2. CASE Step
    BY <2>1, <2>2 DEF Step, ModelRaises, ReplyText, ReplyNothing, ReplyCalls, CallRefused,
       RecordCall, BatchDone
  <2> QED
    BY <1>1, <2>2 DEF Next, vars, Type, Quit, OtherCalls, IInv
<1> QED
  BY <1>2, Invariance, PTL DEF Spec, MemoryNeverCostsABook
=============================================================================
