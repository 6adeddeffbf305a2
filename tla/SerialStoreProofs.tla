-------------------------- MODULE SerialStoreProofs --------------------------
(***************************************************************************)
(* Proofs about SerialStore, for any worlds, clients and bounds.           *)
(*                                                                         *)
(* The store takes no lock between counting the rows and inserting the     *)
(* next one.  What makes the numbering right all the same is that rows are *)
(* only ever appended, so that the numbers below the one a client holds    *)
(* are still there when it inserts, and that the unique constraint refuses *)
(* the insert if the number itself has been taken meanwhile.  That is      *)
(* PendingSeason and PendingChapter.                                       *)
(***************************************************************************)
EXTENDS SerialStore, TLAPS

\* A season's number is one past numbers that are all taken.
PendingSeason(c) ==
  Ready(c, "season", "write") =>
    /\ op[c].ordinal # 0
    /\ 1..(op[c].ordinal - 1) \subseteq SeasonOrdinals(op[c].world)

\* A season and a chapter are on their way into a world that has been approved,
\* the chapter into any season there is, of that world or not, or into none.
PendingPlace(c) ==
  /\ op[c].name \in {"season", "chapter"} => op[c].world \in approvals
  /\ op[c].name = "chapter" => op[c].season \in NoSeason..Len(seasons)

\* A chapter's number is one past numbers that are all taken, and is itself
\* free for as long as no chapter has been inserted since it was computed.
PendingChapter(c) ==
  Ready(c, "chapter", "write") =>
    /\ op[c].ordinal # 0
    /\ 1..(op[c].ordinal - 1) \subseteq ChapterOrdinals(op[c].season)
    /\ op[c].rows <= Len(chapters)
    /\ op[c].rows = Len(chapters) => op[c].ordinal \notin ChapterOrdinals(op[c].season)

ApprovalsRecorded == \A w \in World : AcceptsChapters(w) => w \in approvals

\* Every row names a world that has been approved; a chapter names a season
\* that is there, or none that is.
RowsInApprovedWorlds ==
  /\ \A i \in 1..Len(seasons) : seasons[i].world \in approvals
  /\ \A i \in Chapter : /\ chapters[i].world \in approvals
                        /\ chapters[i].season \in NoSeason..Len(seasons)

IInv ==
  /\ TypeOK
  /\ ApprovalsRecorded
  /\ ChaptersAreContiguous
  /\ SeasonsAreContiguous
  /\ RowsInApprovedWorlds
  /\ \A c \in Client : PendingSeason(c) /\ PendingPlace(c) /\ PendingChapter(c)

-----------------------------------------------------------------------------
(* The rows of the chapters table.                                         *)

\* What advance_chapter leaves alone in every row.
ChaptersKept ==
  /\ Len(chapters') = Len(chapters)
  /\ \A k \in Chapter : /\ chapters'[k].season = chapters[k].season
                        /\ chapters'[k].world = chapters[k].world
                        /\ chapters'[k].ordinal = chapters[k].ordinal

LEMMA KeptOrdinals ==
  ASSUME chapters \in Seq(ChapterRow), ChaptersKept
  PROVE  \A s : ChapterOrdinals(s)' = ChapterOrdinals(s)
  BY DEF ChaptersKept, ChapterOrdinals, Chapter

LEMMA AppendedOrdinals ==
  ASSUME chapters \in Seq(ChapterRow), NEW row \in ChapterRow,
         chapters' = Append(chapters, row)
  PROVE  /\ ChapterOrdinals(row.season)' = ChapterOrdinals(row.season) \cup {row.ordinal}
         /\ \A s : s # row.season => ChapterOrdinals(s)' = ChapterOrdinals(s)
<1>1. /\ Len(chapters') = Len(chapters) + 1
      /\ chapters'[Len(chapters) + 1] = row
      /\ \A k \in 1..Len(chapters) : chapters'[k] = chapters[k]
      /\ Len(chapters) \in Nat
  OBVIOUS
<1>2. 1..Len(chapters') = 1..Len(chapters) \cup {Len(chapters) + 1}
  BY <1>1
<1> QED
  BY <1>1, <1>2 DEF ChapterOrdinals

LEMMA AppendedSeasonOrdinals ==
  ASSUME seasons \in Seq(SeasonRow), NEW row \in SeasonRow,
         seasons' = Append(seasons, row)
  PROVE  /\ SeasonOrdinals(row.world)' = SeasonOrdinals(row.world) \cup {row.ordinal}
         /\ \A w : w # row.world => SeasonOrdinals(w)' = SeasonOrdinals(w)
<1>1. /\ Len(seasons') = Len(seasons) + 1
      /\ seasons'[Len(seasons) + 1] = row
      /\ \A k \in 1..Len(seasons) : seasons'[k] = seasons[k]
      /\ Len(seasons) \in Nat
  OBVIOUS
<1>2. 1..Len(seasons') = 1..Len(seasons) \cup {Len(seasons) + 1}
  BY <1>1
<1> QED
  BY <1>1, <1>2 DEF SeasonOrdinals

-----------------------------------------------------------------------------
(* What each group of steps does to the rows and to the clients' calls.    *)

\* Steps that touch neither table nor any client's call.
LEMMA QuietSteps ==
  ASSUME IInv, UNCHANGED <<seasons, op>>, ChaptersKept,
         chapters' \in Seq(ChapterRow), approvals \subseteq approvals'
  PROVE  /\ ChaptersAreContiguous'
         /\ SeasonsAreContiguous'
         /\ RowsInApprovedWorlds'
         /\ \A c \in Client : PendingSeason(c)' /\ PendingPlace(c)' /\ PendingChapter(c)'
<1>1. \A s : ChapterOrdinals(s)' = ChapterOrdinals(s)
  BY KeptOrdinals DEF IInv, TypeOK
<1>2. \A w : SeasonOrdinals(w)' = SeasonOrdinals(w)
  BY DEF SeasonOrdinals
<1>3. Chapter' = Chapter
  BY DEF ChaptersKept, Chapter
<1>4. ChaptersAreContiguous'
  BY <1>1, <1>3 DEF IInv, ChaptersAreContiguous, ChaptersKept
<1>5. SeasonsAreContiguous'
  BY <1>2 DEF IInv, SeasonsAreContiguous
<1>6. RowsInApprovedWorlds'
  BY <1>3 DEF IInv, RowsInApprovedWorlds, ChaptersKept
<1>7. ASSUME NEW c \in Client
      PROVE  PendingSeason(c)' /\ PendingPlace(c)' /\ PendingChapter(c)'
  BY <1>1, <1>2 DEF IInv, PendingSeason, PendingPlace, PendingChapter, Ready, ChaptersKept
<1> QED
  BY <1>4, <1>5, <1>6, <1>7

\* Steps of a client's call that insert nothing.
LEMMA CallSteps ==
  ASSUME IInv, NEW c \in Client, NEW call, UNCHANGED <<seasons, chapters>>,
         approvals \subseteq approvals', op' = [op EXCEPT ![c] = call],
         PendingSeason(c)', PendingPlace(c)', PendingChapter(c)'
  PROVE  /\ ChaptersAreContiguous'
         /\ SeasonsAreContiguous'
         /\ RowsInApprovedWorlds'
         /\ \A d \in Client : PendingSeason(d)' /\ PendingPlace(d)' /\ PendingChapter(d)'
<1>1. (\A s : ChapterOrdinals(s)' = ChapterOrdinals(s))
      /\ (\A w : SeasonOrdinals(w)' = SeasonOrdinals(w)) /\ Chapter' = Chapter
  BY DEF ChapterOrdinals, SeasonOrdinals, Chapter
<1>2. ChaptersAreContiguous' /\ SeasonsAreContiguous' /\ RowsInApprovedWorlds'
  BY <1>1 DEF IInv, ChaptersAreContiguous, SeasonsAreContiguous, RowsInApprovedWorlds
<1>3. ASSUME NEW d \in Client, d # c
      PROVE  PendingSeason(d)' /\ PendingPlace(d)' /\ PendingChapter(d)'
  <2>1. op'[d] = op[d]
    BY <1>3 DEF IInv, TypeOK
  <2> QED
    BY <1>1, <2>1 DEF IInv, PendingSeason, PendingPlace, PendingChapter, Ready
<1> QED
  BY <1>2, <1>3

\* A call that is over has nothing pending.
LEMMA IdleHasNothingPending ==
  ASSUME TypeOK, NEW c \in Client, NEW call, call.name \notin {"season", "chapter"},
         op' = [op EXCEPT ![c] = call]
  PROVE  PendingSeason(c)' /\ PendingPlace(c)' /\ PendingChapter(c)'
<1>1. op'[c] = call
  BY DEF TypeOK
<1> QED
  BY <1>1 DEF PendingSeason, PendingPlace, PendingChapter, Ready

-----------------------------------------------------------------------------
(* The two inserts.                                                        *)

LEMMA InsertSeasonSteps ==
  ASSUME IInv, NEW c \in Client, InsertSeason(c)
  PROVE  /\ seasons' \in Seq(SeasonRow)
         /\ SeasonsAreContiguous'
         /\ ChaptersAreContiguous'
         /\ RowsInApprovedWorlds'
         /\ \A d \in Client : PendingSeason(d)' /\ PendingPlace(d)' /\ PendingChapter(d)'
<1>0. PICK row : row = [world |-> op[c].world, ordinal |-> op[c].ordinal]
  OBVIOUS
<1>1. op[c] \in Call /\ op[c].ordinal \in Nat \ {0} /\ row \in SeasonRow
      /\ 1..(op[c].ordinal - 1) \subseteq SeasonOrdinals(row.world)
      /\ row.world \in approvals
  <2>1. op[c] \in Call
    BY DEF IInv, TypeOK
  <2>2. PendingSeason(c) /\ PendingPlace(c) /\ Ready(c, "season", "write")
    BY DEF IInv, InsertSeason
  <2>3. op[c].ordinal \in Nat /\ op[c].world \in World
    BY <2>1 DEF Call
  <2> QED
    BY <1>0, <2>1, <2>2, <2>3 DEF PendingSeason, PendingPlace, Ready, SeasonRow
<1>2. \A d \in Client : IF d = c THEN op'[d] = Idle ELSE op'[d] = op[d]
  BY DEF IInv, TypeOK, InsertSeason
<1>3. /\ chapters' = chapters /\ approvals' = approvals /\ Chapter' = Chapter
      /\ \A s : ChapterOrdinals(s)' = ChapterOrdinals(s)
  BY DEF InsertSeason, ChapterOrdinals, Chapter
<1>4. seasons \in Seq(SeasonRow) /\ Len(seasons) \in Nat
  BY DEF IInv, TypeOK
<1>5. ChaptersAreContiguous'
  BY <1>3 DEF IInv, ChaptersAreContiguous
<1>6. CASE op[c].ordinal \in SeasonOrdinals(op[c].world)
  <2>1. seasons' = seasons
    BY <1>6 DEF InsertSeason, SeasonTaken
  <2>2. \A w : SeasonOrdinals(w)' = SeasonOrdinals(w)
    BY <2>1 DEF SeasonOrdinals
  <2>3. SeasonsAreContiguous' /\ RowsInApprovedWorlds'
    BY <1>3, <2>1, <2>2 DEF IInv, SeasonsAreContiguous, RowsInApprovedWorlds
  <2>4. ASSUME NEW d \in Client
        PROVE  PendingSeason(d)' /\ PendingPlace(d)' /\ PendingChapter(d)'
    BY <1>2, <1>3, <2>1, <2>2
       DEF IInv, PendingSeason, PendingPlace, PendingChapter, Ready, Idle
  <2> QED
    BY <1>4, <1>5, <2>1, <2>3, <2>4
<1>7. CASE op[c].ordinal \notin SeasonOrdinals(op[c].world)
  <2>1. seasons' = Append(seasons, row)
    BY <1>0, <1>7 DEF InsertSeason, SeasonTaken, SeasonRowOf
  <2>2. /\ seasons' \in Seq(SeasonRow) /\ Len(seasons') = Len(seasons) + 1
        /\ seasons'[Len(seasons) + 1] = row
        /\ \A k \in 1..Len(seasons) : seasons'[k] = seasons[k]
    BY <1>1, <1>4, <2>1
  <2>3. /\ SeasonOrdinals(row.world)' = SeasonOrdinals(row.world) \cup {row.ordinal}
        /\ \A w : w # row.world => SeasonOrdinals(w)' = SeasonOrdinals(w)
    BY <1>1, <1>4, <2>1, AppendedSeasonOrdinals
  <2>4. \A w : SeasonOrdinals(w) \subseteq SeasonOrdinals(w)'
    BY <2>3
  <2>5. ASSUME NEW i \in 1..Len(seasons')
        PROVE  (1..seasons[i].ordinal \subseteq SeasonOrdinals(seasons[i].world))'
    <3>1. CASE i \in 1..Len(seasons)
      <4>1. 1..seasons[i].ordinal \subseteq SeasonOrdinals(seasons[i].world)
        BY <3>1 DEF IInv, SeasonsAreContiguous
      <4>2. seasons'[i] = seasons[i]
        BY <2>2, <3>1
      <4> QED
        BY <2>4, <4>1, <4>2
    <3>2. CASE i = Len(seasons) + 1
      <4>1. seasons'[i] = row /\ row.ordinal = op[c].ordinal
        BY <1>0, <2>2, <3>2
      <4>2. 1..row.ordinal = 1..(op[c].ordinal - 1) \cup {row.ordinal}
        BY <1>1, <4>1
      <4> QED
        BY <1>1, <2>3, <4>1, <4>2
    <3> QED
      BY <1>4, <2>2, <3>1, <3>2
  <2>6. ASSUME NEW i \in 1..Len(seasons'), NEW j \in 1..Len(seasons') \ {i},
               seasons'[i].world = seasons'[j].world
        PROVE  seasons'[i].ordinal # seasons'[j].ordinal
    <3>1. \A k \in 1..Len(seasons) :
            seasons[k].world = row.world => seasons[k].ordinal # row.ordinal
      BY <1>0, <1>7 DEF SeasonOrdinals
    <3>2. CASE i \in 1..Len(seasons) /\ j \in 1..Len(seasons)
      BY <2>2, <2>6, <3>2 DEF IInv, SeasonsAreContiguous
    <3>3. CASE i = Len(seasons) + 1 /\ j \in 1..Len(seasons)
      BY <2>2, <2>6, <3>1, <3>3
    <3>4. CASE j = Len(seasons) + 1 /\ i \in 1..Len(seasons)
      BY <2>2, <2>6, <3>1, <3>4
    <3> QED
      BY <1>4, <2>2, <3>2, <3>3, <3>4
  <2>7. SeasonsAreContiguous'
    BY <2>5, <2>6 DEF SeasonsAreContiguous
  <2>8. RowsInApprovedWorlds'
    <3>1. ASSUME NEW i \in Chapter
          PROVE  /\ chapters'[i].world \in approvals'
                 /\ chapters'[i].season \in NoSeason..Len(seasons')
      BY <1>3, <1>4, <2>2 DEF IInv, RowsInApprovedWorlds, NoSeason
    <3>2. ASSUME NEW i \in 1..Len(seasons')
          PROVE  seasons'[i].world \in approvals'
      <4>1. CASE i \in 1..Len(seasons)
        BY <1>3, <2>2, <4>1 DEF IInv, RowsInApprovedWorlds
      <4>2. CASE i = Len(seasons) + 1
        BY <1>1, <1>3, <2>2, <4>2
      <4> QED
        BY <1>4, <2>2, <4>1, <4>2
    <3> QED
      BY <1>3, <3>1, <3>2 DEF RowsInApprovedWorlds
  <2>9. ASSUME NEW d \in Client
        PROVE  PendingSeason(d)' /\ PendingPlace(d)' /\ PendingChapter(d)'
    <3>1. CASE d = c
      BY <1>2, <3>1 DEF PendingSeason, PendingPlace, PendingChapter, Ready, Idle
    <3>2. CASE d # c
      <4>1. PendingSeason(d)'
        BY <1>2, <2>4, <3>2 DEF IInv, PendingSeason, Ready
      <4>2. PendingPlace(d)'
        BY <1>2, <1>3, <1>4, <2>2, <3>2 DEF IInv, PendingPlace, NoSeason
      <4>3. PendingChapter(d)'
        BY <1>2, <1>3, <3>2 DEF IInv, PendingChapter, Ready
      <4> QED
        BY <4>1, <4>2, <4>3
    <3> QED
      BY <3>1, <3>2
  <2> QED
    BY <1>5, <2>2, <2>7, <2>8, <2>9
<1> QED
  BY <1>6, <1>7

LEMMA InsertChapterSteps ==
  ASSUME IInv, NEW c \in Client, InsertChapter(c)
  PROVE  /\ chapters' \in Seq(ChapterRow)
         /\ Chapter \subseteq Chapter'
         /\ ChaptersAreContiguous'
         /\ SeasonsAreContiguous'
         /\ RowsInApprovedWorlds'
         /\ \A d \in Client : PendingSeason(d)' /\ PendingPlace(d)' /\ PendingChapter(d)'
<1>0. PICK row : row = [season |-> op[c].season, world |-> op[c].world,
                        ordinal |-> op[c].ordinal, state |-> "queued"]
  OBVIOUS
<1>1. /\ op[c].ordinal \in Nat \ {0} /\ row \in ChapterRow
      /\ 1..(op[c].ordinal - 1) \subseteq ChapterOrdinals(row.season)
      /\ row.world \in approvals /\ row.season \in NoSeason..Len(seasons)
  <2>1. op[c] \in Call
    BY DEF IInv, TypeOK
  <2>2. PendingChapter(c) /\ PendingPlace(c) /\ Ready(c, "chapter", "write")
    BY DEF IInv, InsertChapter
  <2>3. op[c].ordinal \in Nat /\ op[c].world \in World /\ op[c].season \in Nat
    BY <2>1 DEF Call
  <2> QED
    BY <1>0, <2>2, <2>3
       DEF PendingChapter, PendingPlace, Ready, ChapterRow, ChapterState
<1>2. \A d \in Client : IF d = c THEN op'[d] = Idle ELSE op'[d] = op[d]
  BY DEF IInv, TypeOK, InsertChapter
<1>3. /\ seasons' = seasons /\ approvals' = approvals
      /\ \A w : SeasonOrdinals(w)' = SeasonOrdinals(w)
  BY DEF InsertChapter, SeasonOrdinals
<1>4. chapters \in Seq(ChapterRow) /\ Len(chapters) \in Nat
  BY DEF IInv, TypeOK
<1>5. SeasonsAreContiguous'
  BY <1>3 DEF IInv, SeasonsAreContiguous
<1>6. ASSUME NEW d \in Client
      PROVE  PendingSeason(d)' /\ PendingPlace(d)'
  BY <1>2, <1>3 DEF IInv, PendingSeason, PendingPlace, Ready, Idle
<1>7. CASE op[c].ordinal \in ChapterOrdinals(op[c].season)
  <2>1. chapters' = chapters
    BY <1>7 DEF InsertChapter, ChapterTaken
  <2>2. Chapter' = Chapter /\ \A s : ChapterOrdinals(s)' = ChapterOrdinals(s)
    BY <2>1 DEF ChapterOrdinals, Chapter
  <2>3. ChaptersAreContiguous' /\ RowsInApprovedWorlds'
    BY <1>3, <2>1, <2>2 DEF IInv, ChaptersAreContiguous, RowsInApprovedWorlds
  <2>4. ASSUME NEW d \in Client
        PROVE  PendingChapter(d)'
    BY <1>2, <2>1, <2>2 DEF IInv, PendingChapter, Ready, Idle
  <2> QED
    BY <1>4, <1>5, <1>6, <2>1, <2>2, <2>3, <2>4
<1>8. CASE op[c].ordinal \notin ChapterOrdinals(op[c].season)
  <2>1. chapters' = Append(chapters, row)
    BY <1>0, <1>8 DEF InsertChapter, ChapterTaken
  <2>2. /\ chapters' \in Seq(ChapterRow) /\ Len(chapters') = Len(chapters) + 1
        /\ chapters'[Len(chapters) + 1] = row
        /\ \A k \in 1..Len(chapters) : chapters'[k] = chapters[k]
    BY <1>1, <1>4, <2>1
  <2>3. /\ ChapterOrdinals(row.season)' = ChapterOrdinals(row.season) \cup {row.ordinal}
        /\ \A s : s # row.season => ChapterOrdinals(s)' = ChapterOrdinals(s)
    BY <1>1, <1>4, <2>1, AppendedOrdinals
  <2>4. \A s : ChapterOrdinals(s) \subseteq ChapterOrdinals(s)'
    BY <2>3
  <2>5. ASSUME NEW i \in 1..Len(chapters')
        PROVE  (1..chapters[i].ordinal \subseteq ChapterOrdinals(chapters[i].season))'
    <3>1. CASE i \in 1..Len(chapters)
      <4>1. 1..chapters[i].ordinal \subseteq ChapterOrdinals(chapters[i].season)
        BY <3>1 DEF IInv, ChaptersAreContiguous, Chapter
      <4>2. chapters'[i] = chapters[i]
        BY <2>2, <3>1
      <4> QED
        BY <2>4, <4>1, <4>2
    <3>2. CASE i = Len(chapters) + 1
      <4>1. chapters'[i] = row /\ row.ordinal = op[c].ordinal
        BY <1>0, <2>2, <3>2
      <4>2. 1..row.ordinal = 1..(op[c].ordinal - 1) \cup {row.ordinal}
        BY <1>1, <4>1
      <4> QED
        BY <1>1, <2>3, <4>1, <4>2
    <3> QED
      BY <1>4, <2>2, <3>1, <3>2
  <2>6. ASSUME NEW i \in 1..Len(chapters'), NEW j \in 1..Len(chapters') \ {i},
               chapters'[i].season = chapters'[j].season
        PROVE  chapters'[i].ordinal # chapters'[j].ordinal
    <3>1. \A k \in 1..Len(chapters) :
            chapters[k].season = row.season => chapters[k].ordinal # row.ordinal
      BY <1>0, <1>8 DEF ChapterOrdinals
    <3>2. CASE i \in 1..Len(chapters) /\ j \in 1..Len(chapters)
      BY <2>2, <2>6, <3>2 DEF IInv, ChaptersAreContiguous, Chapter
    <3>3. CASE i = Len(chapters) + 1 /\ j \in 1..Len(chapters)
      BY <2>2, <2>6, <3>1, <3>3
    <3>4. CASE j = Len(chapters) + 1 /\ i \in 1..Len(chapters)
      BY <2>2, <2>6, <3>1, <3>4
    <3> QED
      BY <1>4, <2>2, <3>2, <3>3, <3>4
  <2>7. ChaptersAreContiguous'
    BY <2>5, <2>6 DEF ChaptersAreContiguous, Chapter
  <2>8. RowsInApprovedWorlds'
    <3>1. ASSUME NEW i \in 1..Len(chapters')
          PROVE  /\ chapters'[i].world \in approvals
                 /\ chapters'[i].season \in NoSeason..Len(seasons)
      <4>1. CASE i \in 1..Len(chapters)
        BY <2>2, <4>1 DEF IInv, RowsInApprovedWorlds, Chapter
      <4>2. CASE i = Len(chapters) + 1
        BY <1>1, <2>2, <4>2
      <4> QED
        BY <1>4, <2>2, <4>1, <4>2
    <3> QED
      BY <1>3, <3>1 DEF IInv, RowsInApprovedWorlds, Chapter
  <2>9. ASSUME NEW d \in Client
        PROVE  PendingChapter(d)'
    <3>1. CASE d = c
      BY <1>2, <3>1 DEF PendingChapter, Ready, Idle
    <3>2. CASE d # c
      <4>1. op'[d] = op[d] /\ op[d] \in Call
        BY <1>2, <3>2 DEF IInv, TypeOK
      <4>2. ASSUME Ready(d, "chapter", "write")
            PROVE  op[d].rows < Len(chapters')
        BY <1>4, <2>2, <4>1, <4>2 DEF IInv, PendingChapter, Call
      <4>3. op[d].rows \in Nat
        BY <4>1 DEF Call
      <4> QED
        BY <1>4, <2>2, <2>4, <4>1, <4>2, <4>3 DEF IInv, PendingChapter, Ready
    <3> QED
      BY <3>1, <3>2
  <2>10. Chapter \subseteq Chapter'
    BY <1>4, <2>2 DEF Chapter
  <2> QED
    BY <1>5, <1>6, <2>2, <2>7, <2>8, <2>9, <2>10
<1> QED
  BY <1>7, <1>8

-----------------------------------------------------------------------------
(* The other steps.                                                        *)

LEMMA StaysInv ==
  ASSUME IInv, UNCHANGED vars
  PROVE  IInv'
<1>1. TypeOK' /\ ApprovalsRecorded' /\ approvals \subseteq approvals'
  BY DEF IInv, TypeOK, ApprovalsRecorded, AcceptsChapters, vars, Chapter
<1>2. ChaptersKept /\ chapters' \in Seq(ChapterRow)
  BY DEF IInv, TypeOK, ChaptersKept, vars
<1> QED
  BY <1>1, <1>2, QuietSteps DEF IInv, vars

LEMMA CreateWorldStep ==
  ASSUME IInv, NEW w \in World, NEW status \in WorldStatus \ {"absent"},
         CreateWorld(w, status)
  PROVE  IInv'
<1>1. TypeOK'
  BY DEF IInv, TypeOK, CreateWorld, Chapter
<1>2. ApprovalsRecorded'
  BY DEF IInv, TypeOK, ApprovalsRecorded, AcceptsChapters, CreateWorld
<1>3. ChaptersKept /\ chapters' \in Seq(ChapterRow)
  BY DEF IInv, TypeOK, ChaptersKept, CreateWorld
<1> QED
  BY <1>1, <1>2, <1>3, QuietSteps DEF IInv, CreateWorld

LEMMA IdleIsACall ==
  ASSUME NEW w \in World
  PROVE  /\ Idle \in Call
         /\ [Idle EXCEPT !.name = "approve", !.step = "write", !.world = w] \in Call
         /\ [Idle EXCEPT !.name = "retire", !.step = "write", !.world = w] \in Call
<1>1. AnyWorld \in World
  BY DEF AnyWorld
<1> QED
  BY <1>1 DEF Idle, Call, NoSeason

LEMMA ApproveReadsStep ==
  ASSUME IInv, NEW c \in Client, NEW w \in World, ApproveReads(c, w)
  PROVE  IInv'
<1>1. PICK call : call = [Idle EXCEPT !.name = "approve", !.step = "write", !.world = w]
  OBVIOUS
<1>2. call \in Call /\ call.name = "approve"
  BY <1>1, IdleIsACall DEF Idle
<1>3. op' = [op EXCEPT ![c] = call]
  BY <1>1 DEF ApproveReads
<1>4. TypeOK'
  BY <1>2, <1>3 DEF IInv, TypeOK, ApproveReads, Chapter
<1>5. ApprovalsRecorded' /\ approvals \subseteq approvals'
  BY DEF IInv, ApprovalsRecorded, AcceptsChapters, ApproveReads
<1>6. PendingSeason(c)' /\ PendingPlace(c)' /\ PendingChapter(c)'
  BY <1>2, <1>3, IdleHasNothingPending DEF IInv
<1> QED
  BY <1>3, <1>4, <1>5, <1>6, CallSteps DEF IInv, ApproveReads

LEMMA RetireReadsStep ==
  ASSUME IInv, NEW c \in Client, NEW w \in World, RetireReads(c, w)
  PROVE  IInv'
<1>1. PICK call : call = [Idle EXCEPT !.name = "retire", !.step = "write", !.world = w]
  OBVIOUS
<1>2. call \in Call /\ call.name = "retire"
  BY <1>1, IdleIsACall DEF Idle
<1>3. op' = [op EXCEPT ![c] = call]
  BY <1>1 DEF RetireReads
<1>4. TypeOK'
  BY <1>2, <1>3 DEF IInv, TypeOK, RetireReads, Chapter
<1>5. ApprovalsRecorded' /\ approvals \subseteq approvals'
  BY DEF IInv, ApprovalsRecorded, AcceptsChapters, RetireReads
<1>6. PendingSeason(c)' /\ PendingPlace(c)' /\ PendingChapter(c)'
  BY <1>2, <1>3, IdleHasNothingPending DEF IInv
<1> QED
  BY <1>3, <1>4, <1>5, <1>6, CallSteps DEF IInv, RetireReads

\* The end of a call that inserts nothing, however it ends.
LEMMA CallEnds ==
  ASSUME IInv, NEW c \in Client, op' = [op EXCEPT ![c] = Idle],
         UNCHANGED <<seasons, chapters, calls>>,
         worlds' \in [World -> WorldStatus],
         approvals' \subseteq World, approvals \subseteq approvals',
         ApprovalsRecorded'
  PROVE  IInv'
<1>1. op[c].world \in World
  BY DEF IInv, TypeOK, Call
<1>2. TypeOK'
  BY <1>1, IdleIsACall DEF IInv, TypeOK, Chapter
<1>3. PendingSeason(c)' /\ PendingPlace(c)' /\ PendingChapter(c)'
  BY IdleHasNothingPending DEF IInv, Idle
<1> QED
  BY <1>2, <1>3, CallSteps DEF IInv

LEMMA ApproveWritesStep ==
  ASSUME IInv, NEW c \in Client, ApproveWrites(c)
  PROVE  IInv'
<1>1. op[c].world \in World
  BY DEF IInv, TypeOK, Call
<1>2. /\ worlds' \in [World -> WorldStatus]
      /\ approvals' \subseteq World /\ approvals \subseteq approvals'
  BY <1>1 DEF IInv, TypeOK, ApproveWrites, WorldStatus
<1>3. ApprovalsRecorded'
  BY <1>1 DEF IInv, TypeOK, ApprovalsRecorded, AcceptsChapters, ApproveWrites
<1> QED
  BY <1>2, <1>3, CallEnds DEF ApproveWrites

LEMMA RetireWritesStep ==
  ASSUME IInv, NEW c \in Client, RetireWrites(c)
  PROVE  IInv'
<1>1. op[c].world \in World
  BY DEF IInv, TypeOK, Call
<1>2. /\ worlds' \in [World -> WorldStatus]
      /\ approvals' \subseteq World /\ approvals \subseteq approvals'
  BY <1>1 DEF IInv, TypeOK, RetireWrites, WorldStatus
<1>3. ApprovalsRecorded'
  BY <1>1 DEF IInv, TypeOK, ApprovalsRecorded, AcceptsChapters, RetireWrites
<1> QED
  BY <1>2, <1>3, CallEnds DEF RetireWrites

LEMMA CallDiesStep ==
  ASSUME IInv, NEW c \in Client, CallDies(c)
  PROVE  IInv'
<1>1. /\ worlds' \in [World -> WorldStatus]
      /\ approvals' \subseteq World /\ approvals \subseteq approvals'
      /\ ApprovalsRecorded'
  BY DEF IInv, TypeOK, ApprovalsRecorded, AcceptsChapters, CallDies
<1> QED
  BY <1>1, CallEnds DEF CallDies

\* A step of a call between its transactions.
LEMMA CallGoesOn ==
  ASSUME IInv, NEW c \in Client, NEW call \in Call, op' = [op EXCEPT ![c] = call],
         UNCHANGED <<worlds, seasons, chapters, calls, approvals>>,
         PendingSeason(c)', PendingPlace(c)', PendingChapter(c)'
  PROVE  IInv'
<1>1. TypeOK'
  BY DEF IInv, TypeOK, Chapter
<1>2. ApprovalsRecorded' /\ approvals \subseteq approvals'
  BY DEF IInv, ApprovalsRecorded, AcceptsChapters
<1> QED
  BY <1>1, <1>2, CallSteps DEF IInv

LEMMA SeasonChecksWorldStep ==
  ASSUME IInv, NEW c \in Client, NEW w \in World, SeasonChecksWorld(c, w)
  PROVE  IInv'
<1>1. PICK call : call = [Idle EXCEPT !.name = "season", !.step = "number", !.world = w]
  OBVIOUS
<1>2. op' = [op EXCEPT ![c] = call] /\ op'[c] = call
  BY <1>1 DEF IInv, TypeOK, SeasonChecksWorld
<1>3. call \in Call
  BY <1>1, IdleIsACall DEF Idle, Call
<1>4. call.name = "season" /\ call.step = "number" /\ call.world = w
  BY <1>1 DEF Idle
<1>5. w \in approvals'
  BY DEF IInv, ApprovalsRecorded, SeasonChecksWorld
<1>6. PendingSeason(c)' /\ PendingPlace(c)' /\ PendingChapter(c)'
  BY <1>2, <1>4, <1>5 DEF PendingSeason, PendingPlace, PendingChapter, Ready
<1> QED
  BY <1>2, <1>3, <1>6, CallGoesOn DEF SeasonChecksWorld

LEMMA QueueChecksWorldStep ==
  ASSUME IInv, NEW c \in Client, NEW s \in NoSeason..Len(seasons), NEW w \in World,
         QueueChecksWorld(c, s, w)
  PROVE  IInv'
<1>1. PICK call : call = [Idle EXCEPT !.name = "chapter", !.step = "number",
                                      !.world = w, !.season = s]
  OBVIOUS
<1>2. op' = [op EXCEPT ![c] = call] /\ op'[c] = call
  BY <1>1 DEF IInv, TypeOK, QueueChecksWorld
<1>3. s \in Nat
  BY DEF IInv, TypeOK, NoSeason
<1>4. call \in Call
  BY <1>1, <1>3, IdleIsACall DEF Idle, Call
<1>5. w \in approvals
  BY DEF IInv, ApprovalsRecorded, QueueChecksWorld
<1>6. call.name = "chapter" /\ call.step = "number" /\ call.season = s /\ call.world = w
  BY <1>1 DEF Idle
<1>7. seasons' = seasons /\ approvals' = approvals
  BY DEF QueueChecksWorld
<1>8. PendingSeason(c)' /\ PendingChapter(c)'
  BY <1>2, <1>6 DEF PendingSeason, PendingChapter, Ready
<1>9. PendingPlace(c)'
  BY <1>2, <1>5, <1>6, <1>7 DEF PendingPlace
<1> QED
  BY <1>2, <1>4, <1>8, <1>9, CallGoesOn DEF QueueChecksWorld

\* One past the highest is one past numbers that are all taken, and is free.
LEMMA NextOrdinal ==
  ASSUME NEW ordinals, ordinals \subseteq Nat \ {0}, NEW n,
         n \in {1} \cup {m + 1 : m \in ordinals}, IsNextOrdinal(n, ordinals),
         \A m \in ordinals : 1..m \subseteq ordinals
  PROVE  n \in Nat \ {0} /\ 1..(n - 1) \subseteq ordinals /\ n \notin ordinals
<1>1. CASE ordinals = {}
  BY <1>1 DEF IsNextOrdinal
<1>2. CASE ordinals # {}
  BY <1>2 DEF IsNextOrdinal
<1> QED
  BY <1>1, <1>2

LEMMA NumberSeasonStep ==
  ASSUME IInv, NEW c \in Client, NumberSeason(c)
  PROVE  IInv'
<1>1. PICK n \in {1} \cup {m + 1 : m \in SeasonOrdinals(op[c].world)} :
        /\ IsNextOrdinal(n, SeasonOrdinals(op[c].world))
        /\ op' = [op EXCEPT ![c].step = "write", ![c].ordinal = n,
                            ![c].rows = Len(seasons)]
  BY DEF NumberSeason, Numbers
<1>2. PICK call : call = [op[c] EXCEPT !.step = "write", !.ordinal = n,
                                       !.rows = Len(seasons)]
  OBVIOUS
<1>3. op[c] \in Call /\ seasons \in Seq(SeasonRow) /\ Ready(c, "season", "number")
  BY DEF IInv, TypeOK, NumberSeason, Numbers
<1>4. op' = [op EXCEPT ![c] = call] /\ op'[c] = call
  BY <1>1, <1>2 DEF IInv, TypeOK
<1>5. /\ SeasonOrdinals(op[c].world) \subseteq Nat \ {0}
      /\ \A m \in SeasonOrdinals(op[c].world) : 1..m \subseteq SeasonOrdinals(op[c].world)
  <2>1. ASSUME NEW m \in SeasonOrdinals(op[c].world)
        PROVE  m \in Nat \ {0} /\ 1..m \subseteq SeasonOrdinals(op[c].world)
    <3>1. PICK i \in 1..Len(seasons) : seasons[i].world = op[c].world /\ seasons[i].ordinal = m
      BY <2>1 DEF SeasonOrdinals
    <3>2. seasons[i] \in SeasonRow
      BY <1>3
    <3> QED
      BY <3>1, <3>2 DEF SeasonRow, IInv, SeasonsAreContiguous
  <2> QED
    BY <2>1
<1>6. n \in Nat \ {0} /\ 1..(n - 1) \subseteq SeasonOrdinals(op[c].world)
  BY <1>1, <1>5, NextOrdinal
<1>7. call \in Call /\ call.name = "season" /\ call.ordinal = n
      /\ call.world = op[c].world
  <2>1. Len(seasons) \in Nat /\ n \in Nat
    BY <1>3, <1>6
  <2> QED
    BY <1>2, <1>3, <2>1 DEF Call, Ready
<1>8. \A w : SeasonOrdinals(w)' = SeasonOrdinals(w)
  BY DEF NumberSeason, Numbers, SeasonOrdinals
<1>9. PendingSeason(c)'
  BY <1>4, <1>6, <1>7, <1>8 DEF PendingSeason
<1>10. PendingPlace(c)' /\ PendingChapter(c)'
  BY <1>3, <1>4, <1>7 DEF IInv, PendingPlace, PendingChapter, Ready, NumberSeason, Numbers
<1> QED
  BY <1>4, <1>7, <1>9, <1>10, CallGoesOn DEF NumberSeason, Numbers

LEMMA NumberChapterStep ==
  ASSUME IInv, NEW c \in Client, NumberChapter(c)
  PROVE  IInv'
<1>1. PICK n \in {1} \cup {m + 1 : m \in ChapterOrdinals(op[c].season)} :
        /\ IsNextOrdinal(n, ChapterOrdinals(op[c].season))
        /\ op' = [op EXCEPT ![c].step = "write", ![c].ordinal = n,
                            ![c].rows = Len(chapters)]
  BY DEF NumberChapter, Numbers
<1>2. PICK call : call = [op[c] EXCEPT !.step = "write", !.ordinal = n,
                                       !.rows = Len(chapters)]
  OBVIOUS
<1>3. op[c] \in Call /\ chapters \in Seq(ChapterRow) /\ Ready(c, "chapter", "number")
  BY DEF IInv, TypeOK, NumberChapter, Numbers
<1>4. op' = [op EXCEPT ![c] = call] /\ op'[c] = call
  BY <1>1, <1>2 DEF IInv, TypeOK
<1>5. /\ ChapterOrdinals(op[c].season) \subseteq Nat \ {0}
      /\ \A m \in ChapterOrdinals(op[c].season) : 1..m \subseteq ChapterOrdinals(op[c].season)
  <2>1. ASSUME NEW m \in ChapterOrdinals(op[c].season)
        PROVE  m \in Nat \ {0} /\ 1..m \subseteq ChapterOrdinals(op[c].season)
    <3>1. PICK i \in 1..Len(chapters) : chapters[i].season = op[c].season /\ chapters[i].ordinal = m
      BY <2>1 DEF ChapterOrdinals
    <3>2. chapters[i] \in ChapterRow
      BY <1>3
    <3> QED
      BY <3>1, <3>2 DEF ChapterRow, IInv, ChaptersAreContiguous, Chapter
  <2> QED
    BY <2>1
<1>6. n \in Nat \ {0} /\ 1..(n - 1) \subseteq ChapterOrdinals(op[c].season)
      /\ n \notin ChapterOrdinals(op[c].season)
  BY <1>1, <1>5, NextOrdinal
<1>7. call \in Call /\ call.name = "chapter" /\ call.ordinal = n /\ call.rows = Len(chapters)
      /\ call.world = op[c].world /\ call.season = op[c].season
  <2>1. Len(chapters) \in Nat /\ n \in Nat
    BY <1>3, <1>6
  <2> QED
    BY <1>2, <1>3, <2>1 DEF Call, Ready
<1>8. /\ \A s : ChapterOrdinals(s)' = ChapterOrdinals(s)
      /\ UNCHANGED <<seasons, chapters, approvals>>
  BY DEF NumberChapter, Numbers, ChapterOrdinals
<1>9. PendingSeason(c)'
  BY <1>4, <1>7 DEF PendingSeason, Ready
<1>10. PendingPlace(c)'
  BY <1>3, <1>4, <1>7, <1>8 DEF IInv, PendingPlace, Ready
<1>11. PendingChapter(c)'
  BY <1>3, <1>4, <1>6, <1>7, <1>8 DEF PendingChapter
<1> QED
  BY <1>4, <1>7, <1>9, <1>10, <1>11, CallGoesOn DEF NumberChapter, Numbers

LEMMA InsertSeasonStep ==
  ASSUME IInv, NEW c \in Client, InsertSeason(c)
  PROVE  IInv'
<1>1. seasons' \in Seq(SeasonRow) /\ Idle \in Call
  <2>1. op[c].world \in World
    BY DEF IInv, TypeOK, Call
  <2> QED
    BY <2>1, InsertSeasonSteps, IdleIsACall
<1>2. TypeOK'
  BY <1>1 DEF IInv, TypeOK, InsertSeason, Chapter
<1>3. ApprovalsRecorded'
  BY DEF IInv, ApprovalsRecorded, AcceptsChapters, InsertSeason
<1> QED
  BY <1>2, <1>3, InsertSeasonSteps DEF IInv

LEMMA InsertChapterStep ==
  ASSUME IInv, NEW c \in Client, InsertChapter(c)
  PROVE  IInv'
<1>1. chapters' \in Seq(ChapterRow) /\ Chapter \subseteq Chapter' /\ Idle \in Call
  <2>1. op[c].world \in World
    BY DEF IInv, TypeOK, Call
  <2> QED
    BY <2>1, InsertChapterSteps, IdleIsACall
<1>2. TypeOK'
  BY <1>1 DEF IInv, TypeOK, InsertChapter
<1>3. ApprovalsRecorded'
  BY DEF IInv, ApprovalsRecorded, AcceptsChapters, InsertChapter
<1> QED
  BY <1>2, <1>3, InsertChapterSteps DEF IInv

-----------------------------------------------------------------------------
(* What becomes of a chapter.                                              *)

LEMMA AdvanceKeeps ==
  ASSUME TypeOK, NEW k \in Chapter, NEW state \in ChapterState, Advance(k, state)
  PROVE  ChaptersKept /\ chapters' \in Seq(ChapterRow)
<1>1. chapters \in Seq(ChapterRow) /\ chapters[k] \in ChapterRow
  BY DEF TypeOK, Chapter
<1>2. PICK row : row = [chapters[k] EXCEPT !.state = state]
  OBVIOUS
<1>3. chapters' = [chapters EXCEPT ![k] = row]
  BY <1>1, <1>2 DEF Advance, Chapter
<1>4. /\ row \in ChapterRow
      /\ row.season = chapters[k].season /\ row.world = chapters[k].world
      /\ row.ordinal = chapters[k].ordinal
  BY <1>1, <1>2 DEF ChapterRow
<1> QED
  BY <1>1, <1>3, <1>4 DEF ChaptersKept, Chapter

\* Steps that change at most what advance_chapter changes, and its callers.
LEMMA ChapterSteps ==
  ASSUME IInv, ChaptersKept, chapters' \in Seq(ChapterRow),
         UNCHANGED <<worlds, seasons, op, approvals>>,
         calls' \subseteq [chapter : Chapter, state : ChapterState, try : {1, 2}]
  PROVE  IInv'
<1>1. TypeOK'
  BY DEF IInv, TypeOK, ChaptersKept, Chapter
<1>2. ApprovalsRecorded' /\ approvals \subseteq approvals'
  BY DEF IInv, ApprovalsRecorded, AcceptsChapters
<1> QED
  BY <1>1, <1>2, QuietSteps DEF IInv

LEMMA AskStep ==
  ASSUME IInv, NEW k \in Chapter, PickUp(k) \/ Narrate(k)
  PROVE  IInv'
<1>1. ChaptersKept /\ chapters' \in Seq(ChapterRow)
  BY DEF IInv, TypeOK, ChaptersKept, PickUp, Narrate
<1>2. calls' \subseteq [chapter : Chapter, state : ChapterState, try : {1, 2}]
  BY DEF IInv, TypeOK, PickUp, Narrate, Asking, ChapterState
<1> QED
  BY <1>1, <1>2, ChapterSteps DEF PickUp, Narrate

LEMMA WithdrawStep ==
  ASSUME IInv, NEW k \in Chapter, Withdraw(k)
  PROVE  IInv'
<1>1. "withdrawn" \in ChapterState
  BY DEF ChapterState
<1>2. ChaptersKept /\ chapters' \in Seq(ChapterRow)
  BY <1>1, AdvanceKeeps DEF IInv, Withdraw
<1>3. calls' \subseteq [chapter : Chapter, state : ChapterState, try : {1, 2}]
  BY DEF IInv, TypeOK, Withdraw
<1> QED
  BY <1>2, <1>3, ChapterSteps DEF Withdraw

LEMMA AdvanceCommitsStep ==
  ASSUME IInv, NEW call \in calls, AdvanceCommits(call)
  PROVE  IInv'
<1>1. call \in [chapter : Chapter, state : ChapterState, try : {1, 2}]
      /\ call.chapter \in Chapter /\ call.state \in ChapterState
  BY DEF IInv, TypeOK
<1>2. ChaptersKept /\ chapters' \in Seq(ChapterRow)
  BY <1>1, AdvanceKeeps DEF IInv, AdvanceCommits
<1>3. calls' \subseteq [chapter : Chapter, state : ChapterState, try : {1, 2}]
  BY <1>1 DEF IInv, TypeOK, AdvanceCommits, Asking, ChapterState
<1> QED
  BY <1>2, <1>3, ChapterSteps DEF AdvanceCommits

-----------------------------------------------------------------------------
(* The theorems.                                                           *)

LEMMA InitInv == Init => IInv
<1> SUFFICES ASSUME Init PROVE IInv
  OBVIOUS
<1>1. AnyWorld \in World
  BY WorldAssumption DEF AnyWorld
<1>2. Idle \in Call
  BY <1>1, IdleIsACall
<1>3. Len(seasons) = 0 /\ Len(chapters) = 0 /\ Chapter = {}
  BY DEF Init, Chapter
<1>4. TypeOK
  BY <1>1, <1>2 DEF Init, TypeOK, WorldStatus
<1>5. ApprovalsRecorded
  BY DEF Init, ApprovalsRecorded, AcceptsChapters
<1>6. ChaptersAreContiguous /\ SeasonsAreContiguous /\ RowsInApprovedWorlds
  BY <1>3 DEF ChaptersAreContiguous, SeasonsAreContiguous, RowsInApprovedWorlds
<1>7. ASSUME NEW c \in Client
      PROVE  PendingSeason(c) /\ PendingPlace(c) /\ PendingChapter(c)
  BY DEF Init, PendingSeason, PendingPlace, PendingChapter, Ready, Idle
<1> QED
  BY <1>4, <1>5, <1>6, <1>7 DEF IInv

LEMMA NextInv == IInv /\ [Next]_vars => IInv'
<1> SUFFICES ASSUME IInv, [Next]_vars PROVE IInv'
  OBVIOUS
<1>1. CASE WorldNext
  <2>1. ASSUME NEW w \in World, NEW status \in WorldStatus \ {"absent"},
               CreateWorld(w, status)
        PROVE  IInv'
    BY <2>1, CreateWorldStep
  <2>2. ASSUME NEW c \in Client, NEW w \in World, ApproveReads(c, w) \/ RetireReads(c, w)
        PROVE  IInv'
    BY <2>2, ApproveReadsStep, RetireReadsStep
  <2>3. ASSUME NEW c \in Client, ApproveWrites(c) \/ RetireWrites(c)
        PROVE  IInv'
    BY <2>3, ApproveWritesStep, RetireWritesStep
  <2> QED
    BY <1>1, <2>1, <2>2, <2>3 DEF WorldNext
<1>2. CASE RowNext
  <2>1. ASSUME NEW c \in Client, NEW w \in World, SeasonChecksWorld(c, w)
        PROVE  IInv'
    BY <2>1, SeasonChecksWorldStep
  <2>2. ASSUME NEW c \in Client, NEW s \in NoSeason..Len(seasons), NEW w \in World,
               QueueChecksWorld(c, s, w)
        PROVE  IInv'
    BY <2>2, QueueChecksWorldStep
  <2>3. ASSUME NEW c \in Client, NumberSeason(c) \/ NumberChapter(c)
        PROVE  IInv'
    BY <2>3, NumberSeasonStep, NumberChapterStep
  <2>4. ASSUME NEW c \in Client, InsertSeason(c) \/ InsertChapter(c) \/ CallDies(c)
        PROVE  IInv'
    BY <2>4, InsertSeasonStep, InsertChapterStep, CallDiesStep
  <2> QED
    BY <1>2, <2>1, <2>2, <2>3, <2>4 DEF RowNext
<1>3. CASE ChapterNext
  <2>1. ASSUME NEW k \in Chapter, PickUp(k) \/ Narrate(k) \/ Withdraw(k)
        PROVE  IInv'
    BY <2>1, AskStep, WithdrawStep
  <2>2. ASSUME NEW call \in calls, AdvanceCommits(call)
        PROVE  IInv'
    BY <2>2, AdvanceCommitsStep
  <2> QED
    BY <1>3, <2>1, <2>2 DEF ChapterNext
<1>4. CASE UNCHANGED vars
  BY <1>4, StaysInv
<1> QED
  BY <1>1, <1>2, <1>3, <1>4 DEF Next

\* Every reachable state of the store, whatever its callers do, satisfies the
\* inductive invariant.
THEOREM Invariance == Spec => []IInv
  BY InitInv, NextInv, PTL DEF Spec

\* The rows and the calls under way are well formed.
THEOREM TypeCorrect == Spec => []TypeOK
<1>1. IInv => TypeOK
  BY DEF IInv
<1> QED
  BY <1>1, Invariance, PTL

\* However many callers race, the chapters of a season and the seasons of a
\* world are numbered 1, 2, 3, ...
THEOREM Contiguous == Spec => []RowsAreContiguous
<1>1. IInv => RowsAreContiguous
  BY DEF IInv, RowsAreContiguous
<1> QED
  BY <1>1, Invariance, PTL

\* No chapter ever names a world that no parent approved, nor is in a season of
\* one, though nothing ties the two worlds to each other.
THEOREM Approved == Spec => []ChaptersInApprovedWorlds
<1>1. IInv => ChaptersInApprovedWorlds
  <2> SUFFICES ASSUME IInv, NEW i \in Chapter
               PROVE  /\ chapters[i].world \in approvals
                      /\ chapters[i].season # NoSeason =>
                           /\ chapters[i].season \in 1..Len(seasons)
                           /\ seasons[chapters[i].season].world \in approvals
    BY DEF ChaptersInApprovedWorlds
  <2>1. chapters[i].world \in approvals /\ chapters[i].season \in NoSeason..Len(seasons)
    BY DEF IInv, RowsInApprovedWorlds
  <2>2. \A k \in 1..Len(seasons) : seasons[k].world \in approvals
    BY DEF IInv, RowsInApprovedWorlds
  <2> QED
    BY <2>1, <2>2 DEF NoSeason
<1> QED
  BY <1>1, Invariance, PTL

\* queue_chapter is refused by the unique constraint only if another chapter
\* was inserted while it was under way.
THEOREM OnlyRacesRefuse == Spec => []RefusedOnlyByRace
<1>1. IInv => RefusedOnlyByRace
  <2> SUFFICES ASSUME IInv, NEW c \in Client, Ready(c, "chapter", "write"),
                      op[c].ordinal \in ChapterOrdinals(op[c].season)
               PROVE  op[c].rows < Len(chapters)
    BY DEF RefusedOnlyByRace
  <2>1. op[c].rows \in Nat /\ Len(chapters) \in Nat
    BY DEF IInv, TypeOK, Call
  <2>2. op[c].rows <= Len(chapters) /\ op[c].rows # Len(chapters)
    BY DEF IInv, PendingChapter
  <2> QED
    BY <2>1, <2>2
<1> QED
  BY <1>1, Invariance, PTL
=============================================================================
