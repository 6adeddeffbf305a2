----------------------------- MODULE SerialStore -----------------------------
(***************************************************************************)
(* A child's shows: worlds a parent approves, their seasons, and the       *)
(* chapters in them (serial/store.py over the tables of db/models.py).     *)
(*                                                                         *)
(* Every method of the store is one or more transactions of one statement. *)
(* A step here is one transaction, so calls of different clients overlap   *)
(* between the transactions of each.  The store has no callers in the      *)
(* repository but its tests: the clients below call it as the tests do,    *)
(* and the worker that produces a chapter runs as a retried langgraph task,*)
(* as the store's own documentation says of its callers.                   *)
(***************************************************************************)
EXTENDS Naturals, Sequences, FiniteSets

CONSTANTS
  World,        \* world ids
  Client,       \* concurrent callers of the store
  MaxSeasons,   \* bound on the rows of the seasons table
  MaxChapters,  \* bound on the rows of the chapters table
  MaxCalls      \* bound on the advance_chapter calls under way

ASSUME BoundsAssumption == MaxSeasons \in Nat /\ MaxChapters \in Nat /\ MaxCalls \in Nat
ASSUME WorldAssumption == World # {}   \* ids are strings

VARIABLES
  worlds,    \* world id -> its status; "absent" is no row
  seasons,   \* the rows of the seasons table, in order of insertion
  chapters,  \* the rows of the chapters table, in order of insertion
  op,        \* the call each client is in the middle of
  calls,     \* advance_chapter calls under way: [chapter, state, try]
  approvals  \* history: worlds that have at some time been approved

vars == <<worlds, seasons, chapters, op, calls, approvals>>

WorldStatus == {"absent", "draft", "approved", "retired"}
ChapterState == {"queued", "generating", "ready", "narrated", "failed", "withdrawn"}

SeasonRow == [world : World, ordinal : Nat \ {0}]
\* A chapter's season is the place of its row in the seasons table; NoSeason
\* stands for an id that no row has ("any-season" in tests/test_serial_store.py:43).
NoSeason == 0
ChapterRow == [season : Nat, world : World, ordinal : Nat \ {0},
               state : ChapterState]

\* What a client remembers between two transactions of its call.
Call == [name : {"none", "approve", "retire", "season", "chapter"},
         step : {"none", "number", "write"},
         world : World, season : Nat, ordinal : Nat, rows : Nat]

AnyWorld == CHOOSE w \in World : TRUE
Idle == [name |-> "none", step |-> "none", world |-> AnyWorld, season |-> NoSeason,
         ordinal |-> 0, rows |-> 0]

Ready(c, name, step) == op[c].name = name /\ op[c].step = step

\* A mutant: only a retired world is closed.
AcceptsChapters_NotRetired(w) == worlds[w] # "retired"

AcceptsChapters(w) == worlds[w] = "approved"

-----------------------------------------------------------------------------
(* Worlds.                                                                 *)

\* create_world stores what it is given, approved or not.
CreateWorld(w, status) ==
  /\ worlds[w] = "absent"
  /\ worlds' = [worlds EXCEPT ![w] = status]
  /\ approvals' = IF status = "approved" THEN approvals \cup {w} ELSE approvals
  /\ UNCHANGED <<seasons, chapters, op, calls>>

\* approve_world reads the row in one transaction; it returns here when the
\* world it read is approved.
ApproveReads(c, w) ==
  /\ op[c] = Idle
  /\ worlds[w] \in {"draft", "retired"}
  /\ op' = [op EXCEPT ![c] = [Idle EXCEPT !.name = "approve", !.step = "write",
                                          !.world = w]]
  /\ UNCHANGED <<worlds, seasons, chapters, calls, approvals>>

ApproveWrites(c) ==
  /\ Ready(c, "approve", "write")
  /\ worlds' = [worlds EXCEPT ![op[c].world] = "approved"]
  /\ approvals' = approvals \cup {op[c].world}
  /\ op' = [op EXCEPT ![c] = Idle]
  /\ UNCHANGED <<seasons, chapters, calls>>

RetireReads(c, w) ==
  /\ op[c] = Idle
  /\ worlds[w] # "absent"
  /\ op' = [op EXCEPT ![c] = [Idle EXCEPT !.name = "retire", !.step = "write",
                                          !.world = w]]
  /\ UNCHANGED <<worlds, seasons, chapters, calls, approvals>>

RetireWrites(c) ==
  /\ Ready(c, "retire", "write")
  /\ worlds' = [worlds EXCEPT ![op[c].world] = "retired"]
  /\ op' = [op EXCEPT ![c] = Idle]
  /\ UNCHANGED <<seasons, chapters, calls, approvals>>

-----------------------------------------------------------------------------
(* Seasons and chapters: check the world, number the row, insert it.       *)

\* _next_ordinal: one past the highest ordinal there is, or 1.
IsNextOrdinal(n, ordinals) ==
  IF ordinals = {} THEN n = 1
  ELSE n - 1 \in ordinals /\ \A m \in ordinals : m <= n - 1

SeasonOrdinals(w) ==
  {seasons[i].ordinal : i \in {k \in 1..Len(seasons) : seasons[k].world = w}}

ChapterOrdinals(s) ==
  {chapters[i].ordinal : i \in {k \in 1..Len(chapters) : chapters[k].season = s}}

\* Both refuse a world that is not approved when they look.
SeasonChecksWorld(c, w) ==
  /\ op[c] = Idle
  /\ AcceptsChapters(w)
  /\ Len(seasons) < MaxSeasons
  /\ op' = [op EXCEPT ![c] = [Idle EXCEPT !.name = "season", !.step = "number",
                                          !.world = w]]
  /\ UNCHANGED <<worlds, seasons, chapters, calls, approvals>>

\* queue_chapter is given the season and the world and looks at the world only:
\* the season may be one of another world, or of no row, and the tables have no
\* foreign key to refuse it.
QueueChecksWorld(c, s, w) ==
  /\ op[c] = Idle
  /\ AcceptsChapters(w)
  /\ Len(chapters) < MaxChapters
  /\ op' = [op EXCEPT ![c] = [Idle EXCEPT !.name = "chapter", !.step = "number",
                                          !.world = w, !.season = s]]
  /\ UNCHANGED <<worlds, seasons, chapters, calls, approvals>>

\* `rows` only records, for RefusedOnlyByRace, how full the table was.
Numbers(c, name, ordinals, rows) ==
  /\ Ready(c, name, "number")
  /\ \E n \in {1} \cup {m + 1 : m \in ordinals} :
       /\ IsNextOrdinal(n, ordinals)
       /\ op' = [op EXCEPT ![c].step = "write", ![c].ordinal = n, ![c].rows = rows]
  /\ UNCHANGED <<worlds, seasons, chapters, calls, approvals>>

NumberSeason(c) == Numbers(c, "season", SeasonOrdinals(op[c].world), Len(seasons))

\* A mutant: the number of a withdrawn chapter is used again.
NumberChapter_SkipsWithdrawn(c) ==
  Numbers(c, "chapter",
          {chapters[i].ordinal : i \in {k \in 1..Len(chapters) :
             chapters[k].season = op[c].season /\ chapters[k].state # "withdrawn"}},
          Len(chapters))

NumberChapter(c) == Numbers(c, "chapter", ChapterOrdinals(op[c].season), Len(chapters))

\* uq_seasons_world_ordinal and uq_chapters_season_ordinal refuse a second
\* row of the same number: the call raises IntegrityError.
\* A mutant: a table without its constraint.
ChapterTaken_Unconstrained(c) == FALSE

SeasonTaken(c) == op[c].ordinal \in SeasonOrdinals(op[c].world)
ChapterTaken(c) == op[c].ordinal \in ChapterOrdinals(op[c].season)

SeasonRowOf(call) == [world |-> call.world, ordinal |-> call.ordinal]

InsertSeason(c) ==
  /\ Ready(c, "season", "write")
  /\ seasons' = IF SeasonTaken(c) THEN seasons
                ELSE Append(seasons, SeasonRowOf(op[c]))
  /\ op' = [op EXCEPT ![c] = Idle]
  /\ UNCHANGED <<worlds, chapters, calls, approvals>>

InsertChapter(c) ==
  /\ Ready(c, "chapter", "write")
  /\ chapters' = IF ChapterTaken(c) THEN chapters
                 ELSE Append(chapters, [season |-> op[c].season,
                                        world |-> op[c].world,
                                        ordinal |-> op[c].ordinal,
                                        state |-> "queued"])
  /\ op' = [op EXCEPT ![c] = Idle]
  /\ UNCHANGED <<worlds, seasons, calls, approvals>>

\* The process dies, or the database is gone, between two transactions.
CallDies(c) ==
  /\ op[c] # Idle
  /\ op' = [op EXCEPT ![c] = Idle]
  /\ UNCHANGED <<worlds, seasons, chapters, calls, approvals>>

-----------------------------------------------------------------------------
(* What becomes of a chapter.                                              *)

Chapter == 1..Len(chapters)

\* advance_chapter: one blind update.
Advance(k, state) == chapters' = [chapters EXCEPT ![k].state = state]

Asking(k, state) == [chapter |-> k, state |-> state, try |-> 1]

\* A worker finds a queued chapter and is about to say it has started.
PickUp(k) ==
  /\ chapters[k].state = "queued"
  /\ \A call \in calls : call.chapter # k
  /\ Cardinality(calls) < MaxCalls
  /\ calls' = calls \cup {Asking(k, "generating")}
  /\ UNCHANGED <<worlds, seasons, chapters, op, approvals>>

\* A child who sees a readable chapter has recorded it.
Narrate(k) ==
  /\ chapters[k].state = "ready"
  /\ Asking(k, "narrated") \notin calls
  /\ Cardinality(calls) < MaxCalls
  /\ calls' = calls \cup {Asking(k, "narrated")}
  /\ UNCHANGED <<worlds, seasons, chapters, op, approvals>>

\* The call commits.  A worker that has started goes on to finish or fail; a
\* call whose answer is lost after the commit is made again.
AdvanceCommits(call) ==
  /\ Advance(call.chapter, call.state)
  /\ LET rest == calls \ {call} IN
       \/ /\ call.state = "generating"
          /\ \E outcome \in {"ready", "failed"} :
               calls' = rest \cup {Asking(call.chapter, outcome)}
       \/ /\ call.state # "generating"
          /\ calls' = rest
       \/ /\ call.try = 1
          /\ calls' = rest \cup {[call EXCEPT !.try = 2]}
  /\ UNCHANGED <<worlds, seasons, op, approvals>>

\* withdraw_chapter: the parent may pull a chapter at any time.
Withdraw(k) ==
  /\ chapters[k].state # "withdrawn"
  /\ Advance(k, "withdrawn")
  /\ UNCHANGED <<worlds, seasons, op, calls, approvals>>

-----------------------------------------------------------------------------
Init ==
  /\ worlds = [w \in World |-> "absent"]
  /\ seasons = <<>>
  /\ chapters = <<>>
  /\ op = [c \in Client |-> Idle]
  /\ calls = {}
  /\ approvals = {}

WorldNext ==
  \/ \E w \in World, status \in WorldStatus \ {"absent"} : CreateWorld(w, status)
  \/ \E c \in Client, w \in World : ApproveReads(c, w) \/ RetireReads(c, w)
  \/ \E c \in Client : ApproveWrites(c) \/ RetireWrites(c)

RowNext ==
  \/ \E c \in Client, w \in World : SeasonChecksWorld(c, w)
  \/ \E c \in Client, s \in NoSeason..Len(seasons), w \in World :
       QueueChecksWorld(c, s, w)
  \/ \E c \in Client : \/ NumberSeason(c) \/ InsertSeason(c)
                       \/ NumberChapter(c) \/ InsertChapter(c)
                       \/ CallDies(c)

ChapterNext ==
  \/ \E k \in Chapter : PickUp(k) \/ Narrate(k) \/ Withdraw(k)
  \/ \E call \in calls : AdvanceCommits(call)

Next == WorldNext \/ RowNext \/ ChapterNext

Spec == Init /\ [][Next]_vars

-----------------------------------------------------------------------------
(* Correctness.                                                            *)

\* The tables hold rows of their schema; calls are those of known chapters.
TypeOK ==
  /\ worlds \in [World -> WorldStatus]
  /\ seasons \in Seq(SeasonRow)
  /\ chapters \in Seq(ChapterRow)
  /\ op \in [Client -> Call]
  /\ calls \subseteq [chapter : Chapter, state : ChapterState, try : {1, 2}]
  /\ approvals \subseteq World

\* "Two chapter fours is a defect": however calls overlap or die, the chapters
\* of a season are numbered 1, 2, 3, ... with no number missing or used twice.
ChaptersAreContiguous ==
  \A i \in Chapter :
    /\ \A j \in Chapter \ {i} : chapters[i].season = chapters[j].season =>
                                  chapters[i].ordinal # chapters[j].ordinal
    /\ 1..chapters[i].ordinal \subseteq ChapterOrdinals(chapters[i].season)

\* The same of the seasons of a world.
SeasonsAreContiguous ==
  \A i \in 1..Len(seasons) :
    /\ \A j \in 1..Len(seasons) \ {i} : seasons[i].world = seasons[j].world =>
                                         seasons[i].ordinal # seasons[j].ordinal
    /\ 1..seasons[i].ordinal \subseteq SeasonOrdinals(seasons[i].world)

\* What a reader of a shelf relies on: neither list ever skips or repeats.
RowsAreContiguous == ChaptersAreContiguous /\ SeasonsAreContiguous

\* "A chapter cannot exist in a world nobody approved", neither in the world it
\* names nor in that of the season it is in (they may differ), whatever happens
\* to either world between a check and an insert.  (A world approved once may
\* have been retired since.)
ChaptersInApprovedWorlds ==
  \A i \in Chapter :
    /\ chapters[i].world \in approvals
    /\ chapters[i].season # NoSeason =>
         /\ chapters[i].season \in 1..Len(seasons)
         /\ seasons[chapters[i].season].world \in approvals

\* A number a client holds is taken only if a chapter was inserted since the
\* client counted; in particular a withdrawn chapter frees no number that the
\* unique constraint would then refuse to every later call.
RefusedOnlyByRace ==
  \A c \in Client :
    Ready(c, "chapter", "write") /\ op[c].ordinal \in ChapterOrdinals(op[c].season)
      => op[c].rows < Len(chapters)

\* WITHDRAWN is one of the "States from which nothing further happens"
\* (entities/serial.py:87).
WithdrawnStaysWithdrawn ==
  [][\A k \in Chapter : chapters[k].state = "withdrawn" =>
       chapters'[k].state = "withdrawn"]_vars
=============================================================================
