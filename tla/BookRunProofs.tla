---------------------------- MODULE BookRunProofs ----------------------------
(***************************************************************************)
(* Proofs about BookRun, for any book, any lengths of reading and anything *)
(* that vanishes: what the records of a directory say of it is true.       *)
(***************************************************************************)
EXTENDS BookRun, FiniteSetTheorems, WellFoundedInduction, TLAPS

\* What no stage of narration and animation touches.
kept == <<caller, flags, meta, pdf>>

\* The sound and the film of a set of pages.
Sound(pages) == [i \in DOMAIN InOrder(pages) |-> <<InOrder(pages)[i], "run">>]
Film(pages) == [i \in DOMAIN InOrder(pages) |-> Shot(InOrder(pages)[i])]

\* The stages after each of the script's.
AfterSpeech == {"animate", "select", "encode", "record_video", "render"}
AfterPictures == AfterSpeech \cup {"narrate", "speak", "record_narration"}
AfterText == AfterPictures \cup {"illustrate"}
AfterPlan == AfterText \cup {"write"}

\* The script has recorded every stage it is past, and says how it ended only
\* at its end.
MetaInv ==
  (caller = "script" /\ flags.save) =>
    /\ stage = "ended" => meta \in {"ok", "failed"}
    /\ meta = "ok" => /\ stage = "ended" /\ Asked \subseteq Recorded
                      /\ (flags.until = "all" /\ WantsPdf) => pdf = Rendered
    /\ stage \in AfterPlan => flags.until = "all" /\ "plan_outline.json" \in records
    /\ stage \in AfterText => "story.json" \in records
    /\ stage \in AfterPictures /\ WantsPictures => "art.json" \in records
    /\ stage \in AfterSpeech /\ WantsSpeech => manifest.by = "run"
    /\ stage = "render" /\ WantsFilm => "video.json" \in records

\* Sound of this run, beside the record of an earlier one or none.
Unrecorded == manifest.by # "run" /\ \E i \in DOMAIN storyAudio : storyAudio[i][2] = "run"

Stopped == {"failed", "raised", "killed"}

\* Once the pages are spoken, story.mp3 holds those that were; only what stops
\* a run keeps narration.json from being written next.
SoundInv ==
  /\ manifest.by = "run" => /\ stage \in AfterSpeech \cup Stopped \cup {"ended"}
                            /\ manifest.pages = How("narrated", speech)
  /\ (stage = "record_narration" \/ manifest.by = "run")
       /\ How("narrated", speech) # {} => storyAudio = Sound(How("narrated", speech))
  /\ stage \in {"speak", "record_narration"} => Saving
  /\ Unrecorded => /\ Saving
                   /\ \/ stage \in Stopped \cup {"record_narration"}
                      \/ stage = "ended" /\ meta = "failed"
  /\ vanished = 0 => \A p \in Page : speech[p] = "narrated" => audio[p] = "run"

FilmRecorded == "video.json" \in records

\* A page is excluded, or it has a length and somebody read it.
Selected(p) == IF clip[p] = "excluded" THEN length[p] = 0
                                       ELSE length[p] > 0 /\ speech[p] = "narrated"

\* A film is made of the pages that were selected and encoded, and nothing
\* touches those once it is.
FilmInv ==
  /\ FilmRecorded => stage \in {"render", "ended"} \cup Stopped
  /\ movie # <<>> => stage \in {"record_video", "render", "ended"} \cup Stopped
  /\ stage \in {"select", "encode", "record_video"} \/ FilmRecorded =>
       pictured \subseteq drawn
  /\ stage = "select" =>
       \A p \in Page : IF p < selecting
                         THEN Selected(p) /\ clip[p] \in {"waiting", "excluded"}
                         ELSE clip[p] = "waiting" /\ length[p] = 0
  /\ stage \in {"encode", "record_video"} \/ FilmRecorded =>
       \A p \in Page : Selected(p) /\ (clip[p] = "animated" => p \in pictured)
  /\ stage = "record_video" \/ FilmRecorded => Encoded /\ movie = Film(OnTheTimeline)

IInv == TypeOK /\ MetaInv /\ SoundInv /\ FilmInv

-----------------------------------------------------------------------------
(* Induction, for sets of naturals.                                        *)

LEMMA LeastNatural ==
  ASSUME NEW S \in SUBSET Nat, S # {}
  PROVE  \E n \in S : \A m \in S : ~ (m < n)
<1>1. PICK n \in S : \A m \in S : ~ (<<m, n>> \in OpToRel(<, Nat))
  BY NatLessThanWellFounded, WFMin
<1>2. ASSUME NEW m \in S, m < n PROVE <<m, n>> \in OpToRel(<, Nat)
  BY <1>2, Zenon DEF OpToRel
<1> QED
  BY <1>1, <1>2

LEMMA InductiveSetIsNat ==
  ASSUME NEW S \in SUBSET Nat, 0 \in S, \A n \in S : n + 1 \in S
  PROVE  S = Nat
<1>1. CASE Nat \ S = {}
  BY <1>1
<1>2. CASE Nat \ S # {}
  <2>1. PICK n \in Nat \ S : \A m \in Nat \ S : ~ (m < n)
    BY <1>2, LeastNatural
  <2>2. n - 1 \in Nat /\ n - 1 < n
    BY <2>1
  <2>3. (n - 1) + 1 \in S
    BY <2>1, <2>2
  <2> QED
    BY <2>1, <2>3
<1> QED
  BY <1>1, <1>2

-----------------------------------------------------------------------------
(* The pages of a set, in order.                                           *)

\* The recursion of InOrder, up to the n-th page.
UpTo(upTo, n, pages) ==
  upTo = [p \in 0..n |->
            IF p = 0 THEN <<>>
            ELSE IF p \in pages THEN Append(upTo[p - 1], p) ELSE upTo[p - 1]]

LEMMA UpToExists ==
  ASSUME NEW pages
  PROVE  \A n \in Nat : \E upTo : UpTo(upTo, n, pages)
<1> DEFINE S == {n \in Nat : \E upTo : UpTo(upTo, n, pages)}
<1>1. 0 \in S
  <2>1. UpTo([p \in 0..0 |-> <<>>], 0, pages)
    BY DEF UpTo
  <2> QED
    BY <2>1
<1>2. ASSUME NEW n \in S PROVE n + 1 \in S
  <2>1. PICK f : UpTo(f, n, pages)
    OBVIOUS
  <2> DEFINE last == IF n + 1 \in pages THEN Append(f[n], n + 1) ELSE f[n]
             g == [p \in 0..(n + 1) |-> IF p = n + 1 THEN last ELSE f[p]]
             h == [p \in 0..(n + 1) |->
                    IF p = 0 THEN <<>>
                    ELSE IF p \in pages THEN Append(g[p - 1], p) ELSE g[p - 1]]
  <2>2. ASSUME NEW p \in 0..(n + 1) PROVE g[p] = h[p]
    <3>1. CASE p = n + 1
      BY <3>1
    <3>2. CASE p # n + 1
      <4>1. p \in 0..n /\ (p # 0 => p - 1 \in 0..n /\ p - 1 \in 0..(n + 1) /\ p - 1 # n + 1)
        BY <3>2
      <4>2. g[p] = f[p] /\ (p # 0 => g[p - 1] = f[p - 1])
        BY <3>2, <4>1
      <4>3. f[p] = IF p = 0 THEN <<>>
                   ELSE IF p \in pages THEN Append(f[p - 1], p) ELSE f[p - 1]
        BY <2>1, <4>1 DEF UpTo
      <4> HIDE DEF g
      <4> QED
        BY <4>2, <4>3
    <3> QED
      BY <3>1, <3>2
  <2>3. g = h
    BY <2>2
  <2>4. UpTo(g, n + 1, pages)
    <3> HIDE DEF g
    <3> QED
      BY <2>3 DEF UpTo
  <2> QED
    BY <2>4
<1>3. S = Nat
  <2> HIDE DEF S
  <2>1. S \in SUBSET Nat
    BY DEF S
  <2> QED
    BY <1>1, <1>2, <2>1, InductiveSetIsNat
<1> QED
  BY <1>3

\* A sequence of just these pages, going up.
Ascending(s, pages) ==
  /\ s \in Seq(pages)
  /\ {s[i] : i \in DOMAIN s} = pages
  /\ \A i, j \in DOMAIN s : i < j => s[i] < s[j]

LEMMA AscendingAppend ==
  ASSUME NEW pages \in SUBSET Nat, NEW p \in Nat, NEW s,
         Ascending(s, pages), \A q \in pages : q < p
  PROVE  Ascending(Append(s, p), pages \cup {p})
<1> DEFINE t == Append(s, p)
<1>1. /\ s \in Seq(Nat) /\ t \in Seq(pages \cup {p})
      /\ Len(t) = Len(s) + 1 /\ t[Len(s) + 1] = p
      /\ \A i \in 1..Len(s) : t[i] = s[i] /\ s[i] \in pages
      /\ DOMAIN t = 1..(Len(s) + 1) /\ DOMAIN s = 1..Len(s) /\ Len(s) \in Nat
  BY DEF Ascending
<1> HIDE DEF t
<1>2. {t[i] : i \in DOMAIN t} = pages \cup {p}
  BY <1>1 DEF Ascending
<1>3. ASSUME NEW i \in DOMAIN t, NEW j \in DOMAIN t, i < j PROVE t[i] < t[j]
  <2>1. CASE j = Len(s) + 1
    <3>1. i \in 1..Len(s)
      BY <1>1, <1>3, <2>1
    <3> QED
      BY <1>1, <2>1, <3>1
  <2>2. CASE j # Len(s) + 1
    <3>1. i \in 1..Len(s) /\ j \in 1..Len(s)
      BY <1>1, <1>3, <2>2
    <3>2. s[i] < s[j]
      BY <1>1, <1>3, <3>1 DEF Ascending
    <3> QED
      BY <1>1, <3>1, <3>2
  <2> QED
    BY <2>1, <2>2
<1>4. Ascending(t, pages \cup {p})
  BY <1>1, <1>2, <1>3 DEF Ascending
<1> QED
  BY <1>4 DEF t

LEMMA InOrderIsAscending ==
  ASSUME NEW pages \in SUBSET Page
  PROVE  Ascending(InOrder(pages), pages)
<1>1. PageCount \in Nat
  BY PageCountAssumption
<1> DEFINE f == CHOOSE upTo : UpTo(upTo, PageCount, pages)
<1>2. UpTo(f, PageCount, pages)
  <2>1. \E upTo : UpTo(upTo, PageCount, pages)
    BY <1>1, UpToExists
  <2> QED
    BY <2>1
<1>3. InOrder(pages) = f[PageCount]
  BY DEF InOrder, UpTo
<1> HIDE DEF f
<1> DEFINE S == {n \in Nat : n <= PageCount => Ascending(f[n], pages \cap 1..n)}
<1>4. 0 \in S
  <2>1. f[0] = <<>> /\ pages \cap 1..0 = {}
    BY <1>1, <1>2 DEF UpTo
  <2>2. Ascending(<<>>, {})
    BY DEF Ascending
  <2> QED
    BY <2>1, <2>2
<1>5. ASSUME NEW n \in S PROVE n + 1 \in S
  <2>1. SUFFICES ASSUME n + 1 <= PageCount PROVE Ascending(f[n + 1], pages \cap 1..(n + 1))
    OBVIOUS
  <2>2. Ascending(f[n], pages \cap 1..n) /\ n \in Nat /\ n \in 0..PageCount
    BY <1>1, <2>1
  <2>3. f[n + 1] = IF n + 1 \in pages THEN Append(f[n], n + 1) ELSE f[n]
    <3>1. n + 1 \in 0..PageCount /\ n + 1 # 0 /\ (n + 1) - 1 = n
      BY <1>1, <2>1
    <3> QED
      BY <1>2, <3>1 DEF UpTo
  <2>4. pages \cap 1..(n + 1) = IF n + 1 \in pages THEN (pages \cap 1..n) \cup {n + 1}
                                ELSE pages \cap 1..n
    BY <2>2
  <2>5. pages \cap 1..n \in SUBSET Nat /\ \A q \in pages \cap 1..n : q < n + 1
    BY <2>2
  <2>6. Ascending(Append(f[n], n + 1), (pages \cap 1..n) \cup {n + 1})
    BY <2>2, <2>5, AscendingAppend
  <2> QED
    BY <2>2, <2>3, <2>4, <2>6
<1>6. S = Nat
  <2> HIDE DEF S
  <2>1. S \in SUBSET Nat
    BY DEF S
  <2> QED
    BY <1>4, <1>5, <2>1, InductiveSetIsNat
<1>7. pages \cap 1..PageCount = pages
  BY DEF Page
<1> QED
  BY <1>1, <1>3, <1>6, <1>7
-----------------------------------------------------------------------------
(* Frames and readings.                                                    *)

\* A page's clip is never empty, lags its reading by at most half a frame and
\* leads it by no more, or by less than one if half a frame is too long for it.
LEMMA FramesFillReading ==
  ASSUME NEW ticks \in Nat
  PROVE  /\ Frames(ticks) \in Nat \ {0}
         /\ 2 * ticks <= 2 * FrameTicks * Frames(ticks) + FrameTicks
         /\ 2 * FrameTicks * Frames(ticks)
              <= 2 * ticks + FrameTicks * (IF 2 * ticks < FrameTicks THEN 2 ELSE 1)
<1>1. FrameTicks \in Nat \ {0}
  BY FrameTicksAssumption
<1> DEFINE whole == ticks \div FrameTicks
           left == ticks % FrameTicks
           product == FrameTicks * whole
<1>2. /\ whole \in Nat /\ left \in Nat /\ left < FrameTicks
      /\ ticks = FrameTicks * whole + left
  BY <1>1
<1>3. \/ Frames(ticks) = whole + 1 /\ 2 * left >= FrameTicks
      \/ Frames(ticks) = whole /\ whole # 0 /\ 2 * left <= FrameTicks
      \/ Frames(ticks) = 1 /\ whole = 0 /\ 2 * left <= FrameTicks
  BY <1>1, <1>2 DEF Frames
<1> HIDE DEF whole, left
<1>4. product \in Nat /\ FrameTicks * (whole + 1) = product + FrameTicks
  BY <1>1, <1>2
<1>5. CASE Frames(ticks) = whole + 1 /\ 2 * left >= FrameTicks
  <2>1. 2 * FrameTicks * Frames(ticks) = 2 * product + 2 * FrameTicks
    BY <1>1, <1>2, <1>4, <1>5
  <2> HIDE DEF product
  <2> QED
    BY <1>1, <1>2, <1>4, <1>5, <2>1 DEF product
<1>6. CASE Frames(ticks) = whole /\ whole # 0 /\ 2 * left <= FrameTicks
  <2>1. 2 * FrameTicks * Frames(ticks) = 2 * product
    BY <1>1, <1>2, <1>4, <1>6
  <2> QED
    BY <1>1, <1>2, <1>4, <1>6, <2>1
<1>7. CASE whole = 0 /\ Frames(ticks) = 1 /\ 2 * left <= FrameTicks
  <2>1. ticks = left
    BY <1>1, <1>2, <1>7
  <2> QED
    BY <1>1, <1>2, <1>7, <2>1
<1> QED
  BY <1>1, <1>2, <1>3, <1>5, <1>6, <1>7
-----------------------------------------------------------------------------
(* Sounds and films.                                                       *)

LEMMA PagesJoined ==
  ASSUME NEW pages \in SUBSET Page
  PROVE  /\ InOrder(pages) \in Seq(Page)
         /\ DOMAIN InOrder(pages) = 1..Len(InOrder(pages)) /\ Len(InOrder(pages)) \in Nat
         /\ \A i \in DOMAIN InOrder(pages) : InOrder(pages)[i] \in pages
         /\ InOrder(pages) = <<>> <=> pages = {}
<1>1. Ascending(InOrder(pages), pages)
  BY InOrderIsAscending
<1> DEFINE s == InOrder(pages)
<1> HIDE DEF s
<1>2. s \in Seq(pages) /\ {s[i] : i \in DOMAIN s} = pages
  BY <1>1 DEF Ascending, s
<1>3. s = <<>> <=> pages = {}
  BY <1>2
<1>4. s \in Seq(Page)
  BY <1>2
<1> QED
  BY <1>2, <1>3, <1>4 DEF s

LEMMA SoundType ==
  ASSUME NEW pages \in SUBSET Page
  PROVE  Sound(pages) \in Seq(Page \X {"run"})
  BY PagesJoined DEF Sound

LEMMA JoinedIsSound ==
  Joined(Len(Parts)) = Sound(How("narrated", speech))
  BY PagesJoined DEF Joined, Parts, Sound, How

LEMMA FilmType ==
  ASSUME NEW pages \in SUBSET Page, \A p \in Page : length[p] \in Nat
  PROVE  /\ Film(pages) \in Seq([page : Page, frames : Nat \ {0}])
         /\ Len(Film(pages)) = Len(InOrder(pages))
         /\ pages = {} => Film(pages) = <<>>
<1>1. ASSUME NEW p \in Page PROVE Shot(p) \in [page : Page, frames : Nat \ {0}]
  BY FramesFillReading DEF Shot
<1> DEFINE s == InOrder(pages)
<1>2. /\ s \in Seq(Page) /\ DOMAIN s = 1..Len(s) /\ Len(s) \in Nat
      /\ \A i \in 1..Len(s) : s[i] \in Page
      /\ s = <<>> <=> pages = {}
  BY PagesJoined
<1> HIDE DEF s
<1>3. Film(pages) = [i \in 1..Len(s) |-> Shot(s[i])]
  BY <1>2 DEF Film, s
<1>4. Film(pages) \in [1..Len(s) -> [page : Page, frames : Nat \ {0}]]
  BY <1>1, <1>2, <1>3
<1>5. Len(Film(pages)) = Len(s) /\ Film(pages) \in Seq([page : Page, frames : Nat \ {0}])
  BY <1>2, <1>3, <1>4
<1>6. pages = {} => Len(s) = 0
  BY <1>2
<1> QED
  BY <1>5, <1>6 DEF s

-----------------------------------------------------------------------------
(* Types.                                                                  *)

LEMMA LengthType ==
  ASSUME TypeOK
  PROVE  \A p \in Page : length[p] \in Nat
<1>1. Measured \subseteq Nat
  BY DurationAssumption DEF Measured
<1> QED
  BY <1>1 DEF TypeOK

LEMMA StepTypes ==
  ASSUME TypeOK, [Next]_vars
  PROVE  TypeOK'
<1>1. ASSUME NEW raises \in BOOLEAN, Plan(raises) PROVE TypeOK'
  BY <1>1 DEF TypeOK, Stage, Speech, Clip, Writer, kept, Plan, PlanRecords, MetaSpoilt,
     Adds, Elsewhere, files, narrating, animating
<1>2. ASSUME NEW raises \in BOOLEAN, Write(raises) PROVE TypeOK'
  BY <1>2 DEF TypeOK, Stage, Speech, Clip, Writer, kept, Write, Adds, Concludes, Elsewhere,
     files, narrating, animating
<1>3. ASSUME NEW pages \in SUBSET Page, NEW raises \in BOOLEAN, Illustrate(pages, raises)
      PROVE  TypeOK'
  BY <1>3 DEF TypeOK, Stage, Speech, Clip, Writer, kept, Illustrate, animating, narrating,
     files
<1>4. ASSUME Skip PROVE TypeOK'
  BY <1>4 DEF TypeOK, Stage, Speech, Clip, Writer, kept, Skip, Elsewhere, files, narrating,
     animating
<1>5. ASSUME WantsSpeech, NEW configured \in BOOLEAN, StartNarrating(configured), UNCHANGED kept
      PROVE  TypeOK'
  BY <1>5 DEF TypeOK, Stage, Speech, Clip, Writer, kept, StartNarrating, files, narrating,
     animating
<1>6. ASSUME NEW p \in Page, Ask(p), UNCHANGED kept PROVE TypeOK'
  BY <1>6 DEF TypeOK, Stage, Speech, Clip, Writer, kept, Ask, files, animating, narrating
<1>7. ASSUME NEW p \in Page, NEW spoken \in BOOLEAN, Answer(p, spoken), UNCHANGED kept PROVE TypeOK'
  BY <1>7 DEF TypeOK, Stage, Speech, Clip, Writer, kept, Answer, animating, files, narrating
<1>8. ASSUME Stitch, UNCHANGED kept PROVE TypeOK'
  <2>1. How("narrated", speech) \in SUBSET Page
    BY DEF How
  <2>2. storyAudio' \in Seq(Page \X {"earlier", "run"})
    <3>1. Sound(How("narrated", speech)) \in Seq(Page \X {"earlier", "run"})
      BY <2>1, SoundType
    <3> QED
      BY <1>8, <3>1, JoinedIsSound DEF Stitch, TypeOK
  <2> QED
    BY <1>8, <2>2 DEF TypeOK, Stage, kept, Stitch, narrating, animating
<1>9. ASSUME WantsSpeech, RecordNarration(Then("animate")), UNCHANGED kept PROVE TypeOK'
  BY <1>9 DEF TypeOK, Stage, Writer, Manifest, kept, How, RecordNarration, Then, narrating,
     animating
<1>10. ASSUME WantsFilm, NEW installed \in BOOLEAN, StartAnimating(installed), UNCHANGED kept
       PROVE  TypeOK'
  BY <1>10, PageCountAssumption DEF TypeOK, Stage, Speech, Clip, Writer, kept,
     StartAnimating, Measured, Page, files, narrating
<1>11. ASSUME NEW measured \in Measured, SelectPage(measured), UNCHANGED kept PROVE TypeOK'
  BY <1>11, PageCountAssumption DEF TypeOK, Stage, Speech, Clip, Writer, kept, SelectPage,
     Measured, Page, files, narrating
<1>12. ASSUME NEW p \in Page, Encode(p), UNCHANGED kept PROVE TypeOK'
  BY <1>12 DEF TypeOK, Stage, Speech, Clip, Writer, kept, Encode, files, narrating,
     animating
<1>13. ASSUME NEW p \in Page, NEW made \in BOOLEAN, EncodeEnds(p, made), UNCHANGED kept
       PROVE  TypeOK'
  BY <1>13 DEF TypeOK, Stage, Speech, Clip, Writer, kept, EncodeEnds, files, narrating,
     animating
<1>14. ASSUME NEW works \in BOOLEAN, Assemble(works), UNCHANGED kept PROVE TypeOK'
  <2>1. movie' \in Seq([page : Page, frames : Nat \ {0}])
    <3>1. OnTheTimeline \in SUBSET Page
      BY DEF OnTheTimeline, How
    <3>2. \A p \in Page : length[p] \in Nat
      BY LengthType
    <3>3. Film(OnTheTimeline) \in Seq([page : Page, frames : Nat \ {0}])
      BY <3>1, <3>2, FilmType
    <3>4. movie' = movie \/ movie' = Film(OnTheTimeline)
      BY <1>14 DEF Assemble, AssemblyFails, Film
    <3> QED
      BY <3>3, <3>4 DEF TypeOK
  <2>2. stage' \in Stage /\ attempt' \in 0..(MaxAttempts - 1)
    BY <1>14, MaxAttemptsAssumption DEF Assemble, AssemblyFails, Stage, TypeOK
  <2> QED
    BY <1>14, <2>1, <2>2 DEF TypeOK, kept, Assemble, narrating
<1>15. ASSUME WantsFilm, RecordVideo("render"), UNCHANGED kept PROVE TypeOK'
  BY <1>15 DEF TypeOK, Stage, Speech, Clip, Writer, kept, RecordVideo, narrating, animating,
     files
<1>16. ASSUME NEW fault \in {"none", "text", "pdf", "meta"}, RenderBook(fault) PROVE TypeOK'
  BY <1>16 DEF TypeOK, Stage, RenderBook, Rendered, MetaSpoilt, Adds, Concludes, Elsewhere,
     narrating, animating
<1>17. ASSUME NEW fits \in BOOLEAN, RenderBeside(fits) PROVE TypeOK'
  BY <1>17 DEF TypeOK, Stage, Speech, Clip, Writer, kept, RenderBeside, Rendered, Elsewhere,
     narrating, animating
<1>18. ASSUME WriteFault, UNCHANGED kept PROVE TypeOK'
  <2>1. audio' \in [Page -> Writer]
    BY <1>18 DEF WriteFault, TypeOK, Writer
  <2>2. storyAudio' \in Seq(Page \X {"earlier", "run"})
    <3>1. ASSUME NEW n \in 0..(Len(Parts) - 1)
          PROVE  Joined(n) \in Seq(Page \X {"earlier", "run"})
      <4>1. /\ Parts \in Seq(Page) /\ Len(Parts) \in Nat /\ DOMAIN Parts = 1..Len(Parts)
            /\ \A i \in DOMAIN Parts : Parts[i] \in Page
        BY PagesJoined DEF Parts, How
      <4>2. n \in Nat /\ \A i \in 1..n : <<Parts[i], "run">> \in Page \X {"earlier", "run"}
        BY <3>1, <4>1
      <4> QED
        BY <4>2 DEF Joined
    <3> QED
      BY <1>18, <3>1 DEF WriteFault, TypeOK
  <2>3. manifest' \in Manifest
    BY <1>18 DEF WriteFault, TypeOK, Manifest, Writer
  <2>4. stage' \in Stage
    BY <1>18 DEF WriteFault, Stage
  <2> QED
    BY <1>18, <2>1, <2>2, <2>3, <2>4 DEF WriteFault, TypeOK, kept, narrating, animating
<1>19. ASSUME NEW fault \in BOOLEAN, Fail(fault) PROVE TypeOK'
  BY <1>19 DEF TypeOK, Stage, Fail, MetaSpoilt, Elsewhere, narrating, animating
<1>20. ASSUME NEW p \in Page, Vanish(p), UNCHANGED kept PROVE TypeOK'
  <2>1. image' \in [Page -> Writer] /\ audio' \in [Page -> Writer]
    BY <1>20 DEF TypeOK, Vanish, Writer
  <2>2. vanished' \in 0..MaxVanished
    BY <1>20, MaxVanishedAssumption DEF TypeOK, Vanish
  <2> QED
    BY <1>20, <2>1, <2>2 DEF TypeOK, kept, Vanish, narrating, animating
<1>21. ASSUME Kill PROVE TypeOK'
  BY <1>21 DEF TypeOK, Stage, Kill, MetaSpoilt, Elsewhere, narrating, animating
<1>22. ASSUME UNCHANGED vars PROVE TypeOK'
  BY <1>22 DEF TypeOK, Stage, Speech, Clip, Writer, kept, vars, media, files, narrating,
     animating
<1>23. ASSUME NEW fault \in BOOLEAN, Begin(fault) PROVE TypeOK'
  BY <1>23 DEF TypeOK, Stage, Begin, MetaSpoilt, Elsewhere, narrating, animating
<1>24. ASSUME ToolRaises PROVE TypeOK'
  BY <1>24 DEF TypeOK, Stage, ToolRaises, Elsewhere, narrating, animating
<1> QED
  BY <1>1, <1>2, <1>3, <1>4, <1>5, <1>6, <1>7, <1>8, <1>9, <1>10, <1>11, <1>12, <1>13,
     <1>14, <1>15, <1>16, <1>17, <1>18, <1>19, <1>20, <1>21, <1>22, <1>23, <1>24
  DEF Next, Step, Narrate, Animate, kept

-----------------------------------------------------------------------------
(* meta.json.                                                              *)

LEMMA AskedIs ==
  /\ flags.until = "research" => Asked = {"research.json"}
  /\ flags.until = "plan" => Asked = {"plan_outline.json"}
  /\ flags.until = "plot" => Asked = {"plan_outline.json", "page_plan.json"}
  /\ flags.until = "all" =>
       \A name \in Asked :
         \/ name \in {"plan_outline.json", "story.json", "story.md"}
         \/ name = "art.json" /\ WantsPictures
         \/ name = "narration.json" /\ WantsSpeech
         \/ name = "video.json" /\ WantsFilm
<1>1. flags.until = "research" => Asked = {"research.json"}
  BY DEF Asked
<1>2. flags.until = "plan" => Asked = {"plan_outline.json"}
  BY DEF Asked
<1>3. flags.until = "plot" => Asked = {"plan_outline.json", "page_plan.json"}
  BY DEF Asked
<1>4. ASSUME flags.until = "all", NEW name \in Asked
      PROVE  \/ name \in {"plan_outline.json", "story.json", "story.md"}
             \/ name = "art.json" /\ WantsPictures
             \/ name = "narration.json" /\ WantsSpeech
             \/ name = "video.json" /\ WantsFilm
  BY <1>4 DEF Asked
<1> QED
  BY <1>1, <1>2, <1>3, <1>4

LEMMA AskKept ==
  ASSUME caller' = caller, flags' = flags
  PROVE  /\ Asked' = Asked /\ WantsPdf' = WantsPdf /\ WantsPictures' = WantsPictures
         /\ WantsSpeech' = WantsSpeech /\ WantsFilm' = WantsFilm
  BY DEF Asked, WantsPdf, WantsPictures, WantsSpeech, WantsFilm

\* A step in the middle of a run: it does not end a run of the script, spoils
\* no record while the run goes on, and leaves no stage without the record it
\* owes.
QuietStep ==
  /\ UNCHANGED kept
  /\ stage # "ended"
  /\ stage' \in AfterPlan => /\ records \subseteq records'
                             /\ manifest.by = "run" => manifest'.by = "run"
  /\ caller = "script" =>
       /\ stage' # "ended"
       /\ stage' \in AfterPlan => stage \in AfterPlan
       /\ stage' \in AfterText => stage \in AfterText
       /\ stage' \in AfterPictures =>
            stage \in AfterPictures \/ (WantsPictures => "art.json" \in records')
       /\ stage' \in AfterSpeech =>
            stage \in AfterSpeech \/ (WantsSpeech => manifest'.by = "run")
       /\ stage' = "render" =>
            stage = "render" \/ (WantsFilm => "video.json" \in records')

LEMMA QuietMeta ==
  ASSUME MetaInv, QuietStep
  PROVE  MetaInv'
<1>1. caller' = caller /\ flags' = flags /\ meta' = meta /\ pdf' = pdf
  BY DEF QuietStep, kept
<1>2. /\ WantsPictures' = WantsPictures /\ WantsSpeech' = WantsSpeech /\ WantsFilm' = WantsFilm
  BY <1>1, AskKept
<1>3. SUFFICES ASSUME caller = "script", flags.save PROVE MetaInv'
  BY <1>1 DEF MetaInv
<1>4. meta' # "ok" /\ stage' # "ended"
  BY <1>1, <1>3 DEF MetaInv, QuietStep
<1> QED
  BY <1>1, <1>2, <1>3, <1>4 DEF MetaInv, QuietStep, AfterPlan, AfterText, AfterPictures,
     AfterSpeech

LEMMA StepMeta ==
  ASSUME TypeOK, MetaInv, [Next]_vars
  PROVE  MetaInv'
<1>1. ASSUME NEW raises \in BOOLEAN, Plan(raises) PROVE MetaInv'
  <2>1. /\ caller' = caller /\ flags' = flags /\ flags.until \in {"research", "plan", "plot", "all"}
        /\ stage = "plan"
    BY <1>1 DEF Plan, TypeOK, Flags
  <2>2. SUFFICES ASSUME caller = "script", flags.save PROVE MetaInv'
    BY <2>1 DEF MetaInv
  <2>3. CASE raises
    BY <1>1, <2>1, <2>2, <2>3 DEF Plan, MetaSpoilt, MetaInv, AfterPlan, AfterText,
       AfterPictures, AfterSpeech
  <2>4. CASE ~raises /\ flags.until = "all"
    BY <1>1, <2>1, <2>2, <2>4 DEF Plan, PlanRecords, Adds, Saving, MetaInv, AfterPlan,
       AfterText, AfterPictures, AfterSpeech
  <2>5. CASE ~raises /\ flags.until # "all"
    <3>1. Asked' = Asked /\ Asked \subseteq records'
      BY <1>1, <2>1, <2>2, <2>5, AskKept, AskedIs DEF Plan, PlanRecords, Adds, Saving
    <3> QED
      BY <1>1, <2>1, <2>2, <2>5, <3>1 DEF Plan, Recorded, MetaInv, AfterPlan, AfterText,
         AfterPictures, AfterSpeech
  <2> QED
    BY <2>3, <2>4, <2>5
<1>2. ASSUME NEW raises \in BOOLEAN, Write(raises) PROVE MetaInv'
  <2>1. /\ caller' = caller /\ flags' = flags /\ meta' = meta /\ stage = "write"
        /\ Saving => records \subseteq records'
    BY <1>2 DEF Write, Concludes, OutcomeAt, Adds
  <2>2. SUFFICES ASSUME caller = "script", flags.save PROVE MetaInv'
    BY <2>1 DEF MetaInv
  <2> QED
    BY <1>2, <2>1, <2>2 DEF Write, Adds, Saving, MetaInv, AfterPlan, AfterText,
       AfterPictures, AfterSpeech
<1>3. ASSUME NEW pages \in SUBSET Page, NEW raises \in BOOLEAN, Illustrate(pages, raises)
      PROVE  MetaInv'
  <2>1. QuietStep
    BY <1>3 DEF QuietStep, kept, Illustrate, AfterPlan, AfterText, AfterPictures, AfterSpeech
  <2> QED
    BY <2>1, QuietMeta
<1>4. ASSUME Skip PROVE MetaInv'
  <2>1. QuietStep
    BY <1>4 DEF QuietStep, kept, Skip, Elsewhere, AfterPlan, AfterText, AfterPictures,
       AfterSpeech
  <2> QED
    BY <2>1, QuietMeta
<1>5. ASSUME WantsSpeech, NEW configured \in BOOLEAN, StartNarrating(configured), UNCHANGED kept
      PROVE  MetaInv'
  <2>1. QuietStep
    BY <1>5 DEF QuietStep, kept, StartNarrating, files, AfterPlan, AfterText, AfterPictures,
       AfterSpeech
  <2> QED
    BY <2>1, QuietMeta
<1>6. ASSUME NEW p \in Page, Ask(p), UNCHANGED kept PROVE MetaInv'
  <2>1. QuietStep
    BY <1>6 DEF QuietStep, kept, Ask, files, AfterPlan, AfterText, AfterPictures, AfterSpeech
  <2> QED
    BY <2>1, QuietMeta
<1>7. ASSUME NEW p \in Page, NEW spoken \in BOOLEAN, Answer(p, spoken), UNCHANGED kept
      PROVE  MetaInv'
  <2>1. QuietStep
    BY <1>7 DEF QuietStep, kept, Answer, AfterPlan, AfterText, AfterPictures, AfterSpeech
  <2> QED
    BY <2>1, QuietMeta
<1>8. ASSUME Stitch, UNCHANGED kept PROVE MetaInv'
  <2>1. QuietStep
    BY <1>8 DEF QuietStep, kept, Stitch, AfterPlan, AfterText, AfterPictures, AfterSpeech
  <2> QED
    BY <2>1, QuietMeta
<1>9. ASSUME WantsSpeech, RecordNarration(Then("animate")), UNCHANGED kept PROVE MetaInv'
  <2>1. QuietStep
    BY <1>9 DEF QuietStep, kept, RecordNarration, Then, AfterPlan, AfterText, AfterPictures,
       AfterSpeech
  <2> QED
    BY <2>1, QuietMeta
<1>10. ASSUME WantsFilm, NEW installed \in BOOLEAN, StartAnimating(installed), UNCHANGED kept
       PROVE  MetaInv'
  <2>1. QuietStep
    BY <1>10 DEF QuietStep, kept, StartAnimating, files, AfterPlan, AfterText,
       AfterPictures, AfterSpeech
  <2> QED
    BY <2>1, QuietMeta
<1>11. ASSUME NEW measured \in Measured, SelectPage(measured), UNCHANGED kept PROVE MetaInv'
  <2>1. QuietStep
    BY <1>11 DEF QuietStep, kept, SelectPage, files, AfterPlan, AfterText, AfterPictures,
       AfterSpeech
  <2> QED
    BY <2>1, QuietMeta
<1>12. ASSUME NEW p \in Page, Encode(p), UNCHANGED kept PROVE MetaInv'
  <2>1. QuietStep
    BY <1>12 DEF QuietStep, kept, Encode, files, AfterPlan, AfterText, AfterPictures,
       AfterSpeech
  <2> QED
    BY <2>1, QuietMeta
<1>13. ASSUME NEW p \in Page, NEW made \in BOOLEAN, EncodeEnds(p, made), UNCHANGED kept
       PROVE  MetaInv'
  <2>1. QuietStep
    BY <1>13 DEF QuietStep, kept, EncodeEnds, files, AfterPlan, AfterText, AfterPictures,
       AfterSpeech
  <2> QED
    BY <2>1, QuietMeta
<1>14. ASSUME NEW works \in BOOLEAN, Assemble(works), UNCHANGED kept PROVE MetaInv'
  <2>1. QuietStep
    BY <1>14 DEF QuietStep, kept, Assemble, AssemblyFails, AfterPlan, AfterText,
       AfterPictures, AfterSpeech
  <2> QED
    BY <2>1, QuietMeta
<1>15. ASSUME WantsFilm, RecordVideo("render"), UNCHANGED kept PROVE MetaInv'
  <2>1. QuietStep
    BY <1>15 DEF QuietStep, kept, RecordVideo, AfterPlan, AfterText, AfterPictures,
       AfterSpeech
  <2> QED
    BY <2>1, QuietMeta
<1>16. ASSUME NEW fault \in {"none", "text", "pdf", "meta"}, RenderBook(fault) PROVE MetaInv'
  <2>1. /\ caller' = caller /\ flags' = flags /\ stage = "render" /\ drawn' = drawn
        /\ manifest' = manifest
    BY <1>16 DEF RenderBook, Elsewhere
  <2>2. SUFFICES ASSUME caller = "script", flags.save PROVE MetaInv'
    BY <2>1 DEF MetaInv
  <2>3. CASE fault # "none"
    <3>1. stage' = "failed" /\ meta' \in {meta, "cut"}
      BY <1>16, <2>3 DEF RenderBook, MetaSpoilt
    <3> QED
      BY <2>1, <2>2, <3>1 DEF MetaInv, AfterPlan, AfterText, AfterPictures, AfterSpeech
  <2>4. CASE fault = "none"
    <3>1. /\ stage' = "ended" /\ meta' = "ok" /\ records' = records \cup {"story.md"}
          /\ WantsPdf => pdf' = Rendered
      BY <1>16, <2>2, <2>4 DEF RenderBook, Adds, Saving, Concludes, OutcomeAt
    <3>2. /\ flags.until = "all" /\ {"plan_outline.json", "story.json"} \subseteq records
          /\ WantsPictures => "art.json" \in records
          /\ WantsSpeech => manifest.by = "run"
          /\ WantsFilm => "video.json" \in records
      BY <2>1, <2>2 DEF MetaInv, AfterPlan, AfterText, AfterPictures, AfterSpeech
    <3>3. Asked \subseteq Recorded'
      BY <2>1, <3>1, <3>2, AskedIs DEF Recorded
    <3>4. Asked' = Asked /\ WantsPdf' = WantsPdf /\ Rendered' = Rendered
      BY <2>1, AskKept DEF Rendered
    <3> QED
      BY <2>1, <3>1, <3>3, <3>4 DEF MetaInv, AfterPlan, AfterText, AfterPictures, AfterSpeech
  <2> QED
    BY <2>3, <2>4
<1>17. ASSUME NEW fits \in BOOLEAN, RenderBeside(fits) PROVE MetaInv'
  BY <1>17 DEF RenderBeside, MetaInv
<1>18. ASSUME WriteFault, UNCHANGED kept PROVE MetaInv'
  <2>1. QuietStep
    BY <1>18 DEF QuietStep, kept, WriteFault, files, AfterPlan, AfterText, AfterPictures,
       AfterSpeech
  <2> QED
    BY <2>1, QuietMeta
<1>19. ASSUME NEW fault \in BOOLEAN, Fail(fault) PROVE MetaInv'
  <2>1. /\ stage = "failed" /\ stage' = IF fault THEN "raised" ELSE "ended"
        /\ caller' = caller /\ flags' = flags
        /\ flags.save => IF fault THEN meta' \in {meta, "cut"} ELSE meta' = "failed"
    BY <1>19 DEF Fail, MetaSpoilt
  <2> QED
    BY <2>1 DEF MetaInv, AfterPlan, AfterText, AfterPictures, AfterSpeech
<1>20. ASSUME ~Over, NEW p \in Page, Vanish(p), UNCHANGED kept PROVE MetaInv'
  <2>1. QuietStep
    BY <1>20 DEF QuietStep, kept, Vanish, Over, AfterPlan, AfterText, AfterPictures,
       AfterSpeech
  <2> QED
    BY <2>1, QuietMeta
<1>21. ASSUME Kill PROVE MetaInv'
  <2>1. /\ stage # "ended" /\ stage' = "killed" /\ caller' = caller /\ flags' = flags
        /\ meta' \in {meta, "cut"}
    BY <1>21 DEF Kill, Over, MetaSpoilt
  <2> QED
    BY <2>1 DEF MetaInv, AfterPlan, AfterText, AfterPictures, AfterSpeech
<1>22. ASSUME UNCHANGED vars PROVE MetaInv'
  <2>1. /\ caller' = caller /\ flags' = flags /\ meta' = meta /\ pdf' = pdf
        /\ stage' = stage /\ records' = records /\ drawn' = drawn /\ manifest' = manifest
    BY <1>22 DEF vars, media, files
  <2>2. Rendered' = Rendered /\ Recorded' = Recorded
    BY <2>1 DEF Rendered, Recorded
  <2> QED
    BY <2>1, <2>2, AskKept DEF MetaInv
<1>23. ASSUME NEW fault \in BOOLEAN, Begin(fault) PROVE MetaInv'
  <2>1. /\ stage = "begin" /\ stage' \in {"plan", "raised"} /\ caller' = caller /\ flags' = flags
        /\ meta' \in {meta, "cut", "running"}
    BY <1>23 DEF Begin, MetaSpoilt
  <2> QED
    BY <2>1 DEF MetaInv, AfterPlan, AfterText, AfterPictures, AfterSpeech
<1>24. ASSUME ToolRaises PROVE MetaInv'
  BY <1>24 DEF ToolRaises, MetaInv
<1> QED
  BY <1>1, <1>2, <1>3, <1>4, <1>5, <1>6, <1>7, <1>8, <1>9, <1>10, <1>11, <1>12, <1>13,
     <1>14, <1>15, <1>16, <1>17, <1>18, <1>19, <1>20, <1>21, <1>22, <1>23, <1>24
  DEF Next, Step, Narrate, Animate, kept
-----------------------------------------------------------------------------
(* The sound.                                                              *)

\* A step that has nothing to do with narration.
SoundIsKept ==
  /\ UNCHANGED <<speech, storyAudio, manifest, caller, flags>>
  /\ vanished' = 0 => vanished = 0 /\ audio' = audio
  /\ manifest.by = "run" => stage' \in AfterSpeech \cup Stopped \cup {"ended"}
  /\ stage' = "record_narration" => stage = "record_narration"
  /\ stage' = "speak" => Saving
  /\ Unrecorded => \/ stage' \in Stopped \cup {"record_narration"}
                   \/ stage' = "ended" /\ meta' = "failed"

LEMMA KeptSound ==
  ASSUME SoundInv, SoundIsKept
  PROVE  SoundInv'
<1>1. /\ How("narrated", speech)' = How("narrated", speech)
      /\ Unrecorded' = Unrecorded /\ Saving' = Saving
  BY DEF How, Unrecorded, Saving, SoundIsKept
<1>2. Sound(How("narrated", speech))' = Sound(How("narrated", speech))
  BY <1>1 DEF Sound
<1> QED
  BY <1>1, <1>2 DEF SoundInv, SoundIsKept

LEMMA StepSound ==
  ASSUME TypeOK, SoundInv, [Next]_vars
  PROVE  SoundInv'
<1>1. ASSUME NEW raises \in BOOLEAN, Plan(raises) PROVE SoundInv'
  <2>1. SoundIsKept
    BY <1>1 DEF SoundIsKept, SoundInv, AfterSpeech, Stopped, kept, Plan, Adds, Elsewhere,
       narrating, animating
  <2> QED
    BY <2>1, KeptSound
<1>2. ASSUME NEW raises \in BOOLEAN, Write(raises) PROVE SoundInv'
  <2>1. SoundIsKept
    BY <1>2 DEF SoundIsKept, SoundInv, AfterSpeech, Stopped, kept, Write, Adds, Elsewhere,
       narrating, animating
  <2> QED
    BY <2>1, KeptSound
<1>3. ASSUME NEW pages \in SUBSET Page, NEW raises \in BOOLEAN, Illustrate(pages, raises)
      PROVE  SoundInv'
  <2>1. SoundIsKept
    BY <1>3 DEF SoundIsKept, SoundInv, AfterSpeech, Stopped, kept, Illustrate, narrating,
       animating
  <2> QED
    BY <2>1, KeptSound
<1>4. ASSUME Skip PROVE SoundInv'
  <2>1. SoundIsKept
    BY <1>4 DEF SoundIsKept, SoundInv, AfterSpeech, Stopped, kept, Skip, Elsewhere,
       narrating, animating
  <2> QED
    BY <2>1, KeptSound
<1>5. ASSUME WantsSpeech, NEW configured \in BOOLEAN, StartNarrating(configured), UNCHANGED kept
      PROVE  SoundInv'
  <2>1. SoundIsKept
    BY <1>5 DEF SoundIsKept, SoundInv, AfterSpeech, Stopped, kept, StartNarrating,
       WantsSpeech, Saving, files, narrating, animating
  <2> QED
    BY <2>1, KeptSound
<1>6. ASSUME NEW p \in Page, Ask(p), UNCHANGED kept PROVE SoundInv'
  <2>1. ~ Unrecorded' /\ (Saving' <=> Saving)
    BY <1>6 DEF Ask, SoundInv, Unrecorded, Stopped, Saving, kept, files
  <2> QED
    BY <1>6, <2>1 DEF Ask, SoundInv, AfterSpeech, Stopped, files, animating
<1>7. ASSUME NEW p \in Page, NEW spoken \in BOOLEAN, Answer(p, spoken), UNCHANGED kept
      PROVE  SoundInv'
  <2>1. ~ Unrecorded' /\ (Saving' <=> Saving)
    BY <1>7 DEF Answer, SoundInv, Unrecorded, Stopped, Saving, kept
  <2> QED
    BY <1>7, <2>1 DEF Answer, SoundInv, AfterSpeech, Stopped, TypeOK, animating
<1>8. ASSUME Stitch, UNCHANGED kept PROVE SoundInv'
  <2>1. How("narrated", speech) # {} => Parts # <<>>
    BY PagesJoined DEF Parts, How
  <2>2. /\ How("narrated", speech) # {} => storyAudio' = Sound(How("narrated", speech))
        /\ stage = "speak" /\ stage' = "record_narration" /\ speech' = speech
        /\ audio' = audio /\ vanished' = vanished /\ manifest' = manifest
        /\ (Saving' <=> Saving)
    BY <1>8, <2>1, JoinedIsSound DEF Stitch, kept, Saving, narrating, animating
  <2>3. How("narrated", speech)' = How("narrated", speech)
    BY <2>2 DEF How
  <2>4. Sound(How("narrated", speech))' = Sound(How("narrated", speech))
    BY <2>3 DEF Sound
  <2> QED
    BY <2>2, <2>3, <2>4 DEF SoundInv, AfterSpeech, Stopped
<1>9. ASSUME WantsSpeech, RecordNarration(Then("animate")), UNCHANGED kept PROVE SoundInv'
  <2>1. /\ stage = "record_narration" /\ stage' \in {"animate", "ended"} /\ speech' = speech
        /\ storyAudio' = storyAudio /\ audio' = audio /\ vanished' = vanished
        /\ manifest'.by = "run" /\ manifest'.pages = How("narrated", speech)
    BY <1>9 DEF RecordNarration, Then, narrating, animating
  <2>2. How("narrated", speech)' = How("narrated", speech) /\ ~ Unrecorded'
    BY <2>1 DEF How, Unrecorded
  <2>3. Sound(How("narrated", speech))' = Sound(How("narrated", speech))
    BY <2>2 DEF Sound
  <2> QED
    BY <2>1, <2>2, <2>3 DEF SoundInv, AfterSpeech
<1>10. ASSUME WantsFilm, NEW installed \in BOOLEAN, StartAnimating(installed), UNCHANGED kept
       PROVE  SoundInv'
  <2>1. SoundIsKept
    BY <1>10 DEF SoundIsKept, SoundInv, AfterSpeech, Stopped, kept, StartAnimating, files,
       narrating
  <2> QED
    BY <2>1, KeptSound
<1>11. ASSUME NEW measured \in Measured, SelectPage(measured), UNCHANGED kept PROVE SoundInv'
  <2>1. SoundIsKept
    BY <1>11 DEF SoundIsKept, SoundInv, AfterSpeech, Stopped, kept, SelectPage, files,
       narrating
  <2> QED
    BY <2>1, KeptSound
<1>12. ASSUME NEW p \in Page, Encode(p), UNCHANGED kept PROVE SoundInv'
  <2>1. SoundIsKept
    BY <1>12 DEF SoundIsKept, SoundInv, AfterSpeech, Stopped, kept, Encode, files, narrating
  <2> QED
    BY <2>1, KeptSound
<1>13. ASSUME NEW p \in Page, NEW made \in BOOLEAN, EncodeEnds(p, made), UNCHANGED kept
       PROVE  SoundInv'
  <2>1. SoundIsKept
    BY <1>13 DEF SoundIsKept, SoundInv, AfterSpeech, Stopped, kept, EncodeEnds, files,
       narrating
  <2> QED
    BY <2>1, KeptSound
<1>14. ASSUME NEW works \in BOOLEAN, Assemble(works), UNCHANGED kept PROVE SoundInv'
  <2>1. SoundIsKept
    BY <1>14 DEF SoundIsKept, SoundInv, AfterSpeech, Stopped, kept, Assemble, AssemblyFails,
       narrating
  <2> QED
    BY <2>1, KeptSound
<1>15. ASSUME WantsFilm, RecordVideo("render"), UNCHANGED kept PROVE SoundInv'
  <2>1. SoundIsKept
    BY <1>15 DEF SoundIsKept, SoundInv, AfterSpeech, Stopped, kept, RecordVideo, narrating,
       animating
  <2> QED
    BY <2>1, KeptSound
<1>16. ASSUME NEW fault \in {"none", "text", "pdf", "meta"}, RenderBook(fault) PROVE SoundInv'
  <2>1. SoundIsKept
    BY <1>16 DEF SoundIsKept, SoundInv, AfterSpeech, Stopped, kept, RenderBook, Adds,
       Elsewhere, narrating, animating
  <2> QED
    BY <2>1, KeptSound
<1>17. ASSUME NEW fits \in BOOLEAN, RenderBeside(fits) PROVE SoundInv'
  <2>1. SoundIsKept
    BY <1>17 DEF SoundIsKept, SoundInv, AfterSpeech, Stopped, kept, RenderBeside, Elsewhere,
       narrating, animating
  <2> QED
    BY <2>1, KeptSound
<1>18. ASSUME WriteFault, UNCHANGED kept PROVE SoundInv'
  <2>1. /\ stage' = "failed" /\ speech' = speech /\ vanished' = vanished
        /\ (Saving' <=> Saving)
        /\ \A p \in Page : speech[p] = "narrated" => audio'[p] = audio[p]
    BY <1>18 DEF WriteFault, kept, Saving, How, TypeOK, narrating, animating
  <2>2. CASE stage \in {"speak", "record_narration"}
    <3>1. manifest.by # "run" /\ manifest'.by # "run" /\ Saving
      BY <1>18, <2>2 DEF WriteFault, SoundInv, AfterSpeech, Stopped
    <3> QED
      BY <2>1, <3>1 DEF SoundInv, Stopped
  <2>3. CASE stage \notin {"speak", "record_narration"}
    <3>1. audio' = audio /\ storyAudio' = storyAudio /\ manifest' = manifest
      BY <1>18, <2>3 DEF WriteFault
    <3>2. SoundIsKept
      BY <1>18, <2>1, <3>1 DEF SoundIsKept, Stopped, kept
    <3> QED
      BY <3>2, KeptSound
  <2> QED
    BY <2>2, <2>3
<1>19. ASSUME NEW fault \in BOOLEAN, Fail(fault) PROVE SoundInv'
  <2>1. SoundIsKept
    BY <1>19 DEF SoundIsKept, SoundInv, AfterSpeech, Stopped, Fail, Saving, Elsewhere,
       narrating, animating
  <2> QED
    BY <2>1, KeptSound
<1>20. ASSUME ~Over, NEW p \in Page, Vanish(p), UNCHANGED kept PROVE SoundInv'
  <2>1. SoundIsKept
    BY <1>20, MaxVanishedAssumption
    DEF SoundIsKept, SoundInv, AfterSpeech, Stopped, kept, Vanish, narrating, animating,
       TypeOK
  <2> QED
    BY <2>1, KeptSound
<1>21. ASSUME Kill PROVE SoundInv'
  <2>1. SoundIsKept
    BY <1>21 DEF SoundIsKept, SoundInv, AfterSpeech, Stopped, kept, Kill, Over, Elsewhere,
       narrating, animating
  <2> QED
    BY <2>1, KeptSound
<1>22. ASSUME UNCHANGED vars PROVE SoundInv'
  <2>1. SoundIsKept
    BY <1>22 DEF SoundIsKept, SoundInv, AfterSpeech, Stopped, kept, vars, media, files,
       narrating, animating
  <2> QED
    BY <2>1, KeptSound
<1>23. ASSUME NEW fault \in BOOLEAN, Begin(fault) PROVE SoundInv'
  <2>1. SoundIsKept
    BY <1>23 DEF SoundIsKept, SoundInv, AfterSpeech, Stopped, Begin, Elsewhere, narrating,
       animating
  <2> QED
    BY <2>1, KeptSound
<1>24. ASSUME ToolRaises PROVE SoundInv'
  <2>1. SoundIsKept
    BY <1>24 DEF SoundIsKept, SoundInv, AfterSpeech, Stopped, ToolRaises, Elsewhere,
       narrating, animating
  <2> QED
    BY <2>1, KeptSound
<1> QED
  BY <1>1, <1>2, <1>3, <1>4, <1>5, <1>6, <1>7, <1>8, <1>9, <1>10, <1>11, <1>12, <1>13,
     <1>14, <1>15, <1>16, <1>17, <1>18, <1>19, <1>20, <1>21, <1>22, <1>23, <1>24
  DEF Next, Step, Narrate, Animate, kept
-----------------------------------------------------------------------------
(* The film.                                                               *)

\* A step before there is anything of a film.
NotFilming ==
  /\ movie' = <<>> /\ ~FilmRecorded'
  /\ stage' \notin {"select", "encode", "record_video"}

LEMMA FilmLater ==
  ASSUME NotFilming
  PROVE  FilmInv'
  BY DEF NotFilming, FilmInv

\* A step that has nothing to do with the film.
FilmIsKept ==
  /\ speech' = speech /\ drawn' = drawn /\ movie' = movie
  /\ clip' = clip /\ length' = length /\ pictured' = pictured /\ selecting' = selecting
  /\ FilmRecorded' => FilmRecorded
  /\ FilmRecorded => stage' \in {"render", "ended"} \cup Stopped
  /\ movie # <<>> => stage' \in {"record_video", "render", "ended"} \cup Stopped
  /\ stage' \in {"select", "encode", "record_video"} => stage' = stage

LEMMA KeptFilm ==
  ASSUME FilmInv, FilmIsKept
  PROVE  FilmInv'
<1>1. OnTheTimeline' = OnTheTimeline
  BY DEF OnTheTimeline, How, FilmIsKept
<1>2. Film(OnTheTimeline)' = Film(OnTheTimeline) /\ (Encoded' <=> Encoded)
  BY <1>1 DEF Film, Shot, Encoded, FilmIsKept
<1>3. \A p \in Page : Selected(p)' <=> Selected(p)
  BY DEF Selected, FilmIsKept
<1> QED
  BY <1>1, <1>2, <1>3 DEF FilmInv, FilmIsKept

LEMMA StepFilm ==
  ASSUME TypeOK, FilmInv, [Next]_vars
  PROVE  FilmInv'
<1>1. ASSUME NEW raises \in BOOLEAN, Plan(raises) PROVE FilmInv'
  <2>1. NotFilming
    BY <1>1 DEF NotFilming, FilmInv, FilmRecorded, Stopped, Plan, PlanRecords, Adds,
       Elsewhere, narrating, animating
  <2> QED
    BY <2>1, FilmLater
<1>2. ASSUME NEW raises \in BOOLEAN, Write(raises) PROVE FilmInv'
  <2>1. NotFilming
    BY <1>2 DEF NotFilming, FilmInv, FilmRecorded, Stopped, Write, Adds, Elsewhere,
       narrating, animating
  <2> QED
    BY <2>1, FilmLater
<1>3. ASSUME NEW pages \in SUBSET Page, NEW raises \in BOOLEAN, Illustrate(pages, raises)
      PROVE  FilmInv'
  <2>1. NotFilming
    BY <1>3 DEF NotFilming, FilmInv, FilmRecorded, Stopped, Illustrate, narrating, animating
  <2> QED
    BY <2>1, FilmLater
<1>4. ASSUME Skip PROVE FilmInv'
  <2>1. FilmIsKept
    BY <1>4 DEF FilmIsKept, FilmInv, FilmRecorded, Stopped, Skip, Elsewhere, narrating,
       animating
  <2> QED
    BY <2>1, KeptFilm
<1>5. ASSUME WantsSpeech, NEW configured \in BOOLEAN, StartNarrating(configured), UNCHANGED kept
      PROVE  FilmInv'
  <2>1. NotFilming
    BY <1>5 DEF NotFilming, FilmInv, FilmRecorded, Stopped, StartNarrating, files,
       narrating, animating
  <2> QED
    BY <2>1, FilmLater
<1>6. ASSUME NEW p \in Page, Ask(p), UNCHANGED kept PROVE FilmInv'
  <2>1. NotFilming
    BY <1>6 DEF NotFilming, FilmInv, FilmRecorded, Stopped, Ask, files, animating
  <2> QED
    BY <2>1, FilmLater
<1>7. ASSUME NEW p \in Page, NEW spoken \in BOOLEAN, Answer(p, spoken), UNCHANGED kept
      PROVE  FilmInv'
  <2>1. NotFilming
    BY <1>7 DEF NotFilming, FilmInv, FilmRecorded, Stopped, Answer, animating
  <2> QED
    BY <2>1, FilmLater
<1>8. ASSUME Stitch, UNCHANGED kept PROVE FilmInv'
  <2>1. NotFilming
    BY <1>8 DEF NotFilming, FilmInv, FilmRecorded, Stopped, Stitch, narrating, animating
  <2> QED
    BY <2>1, FilmLater
<1>9. ASSUME WantsSpeech, RecordNarration(Then("animate")), UNCHANGED kept PROVE FilmInv'
  <2>1. NotFilming
    BY <1>9 DEF NotFilming, FilmInv, FilmRecorded, Stopped, RecordNarration, Then,
       narrating, animating
  <2> QED
    BY <2>1, FilmLater
<1>10. ASSUME WantsFilm, NEW installed \in BOOLEAN, StartAnimating(installed), UNCHANGED kept
       PROVE  FilmInv'
  <2>1. /\ stage = "animate" /\ stage' \in {"select", "failed"} /\ movie' = movie
        /\ records' = records /\ drawn' = drawn /\ pictured' = {} /\ selecting' = 1
        /\ clip' = [p \in Page |-> "waiting"] /\ length' = [p \in Page |-> 0]
    BY <1>10 DEF StartAnimating, files, narrating
  <2>2. \A p \in Page : ~ (p < 1)
    BY DEF Page
  <2> QED
    BY <2>1, <2>2 DEF FilmInv, FilmRecorded, Stopped
<1>11. ASSUME NEW measured \in Measured, SelectPage(measured), UNCHANGED kept PROVE FilmInv'
  <2>1. /\ stage = "select" /\ movie' = movie /\ records' = records /\ drawn' = drawn
        /\ speech' = speech /\ movie = <<>> /\ ~FilmRecorded /\ ~FilmRecorded'
    BY <1>11 DEF SelectPage, files, narrating, FilmInv, FilmRecorded, Stopped
  <2>2. pictured' \subseteq drawn
    BY <1>11, <2>1 DEF SelectPage, FilmInv
  <2>3. \A p \in Page : p # selecting => clip'[p] = clip[p] /\ length'[p] = length[p]
    BY <1>11 DEF SelectPage, TypeOK
  <2>4. selecting \in Page /\ clip[selecting] = "waiting" /\ length[selecting] = 0
    BY <2>1 DEF FilmInv, TypeOK, Page
  <2>5. ASSUME NEW p \in Page, p = selecting
        PROVE  Selected(p)' /\ clip'[p] \in {"waiting", "excluded"}
    <3>1. measured \in Nat
      BY <1>11, DurationAssumption DEF Measured
    <3>2. CASE Readable(selecting) /\ measured # 0
      <4>1. clip' = clip /\ length' = [length EXCEPT ![selecting] = measured]
        BY <1>11, <3>2 DEF SelectPage
      <4>2. length'[selecting] = measured
        BY <2>4, <4>1 DEF TypeOK
      <4> QED
        BY <2>1, <2>4, <2>5, <3>1, <3>2, <4>1, <4>2 DEF Selected, Readable
    <3>3. CASE ~ (Readable(selecting) /\ measured # 0)
      <4>1. clip' = [clip EXCEPT ![selecting] = "excluded"] /\ length' = length
        BY <1>11, <3>3 DEF SelectPage
      <4>2. clip'[selecting] = "excluded"
        BY <2>4, <4>1 DEF TypeOK
      <4> QED
        BY <2>4, <2>5, <4>1, <4>2 DEF Selected
    <3> QED
      BY <3>2, <3>3
  <2>6. \A p \in Page : p # selecting => (Selected(p)' <=> Selected(p))
    BY <2>1, <2>3 DEF Selected
    <2>7. \A p \in Page : IF p < selecting
                       THEN Selected(p) /\ clip[p] \in {"waiting", "excluded"}
                       ELSE clip[p] = "waiting" /\ length[p] = 0
    BY <2>1 DEF FilmInv
<2>8. CASE selecting = PageCount
    <3>1. stage' = "encode"
      BY <1>11, <2>8 DEF SelectPage
    <3>2. \A p \in Page : Selected(p)' /\ clip'[p] \in {"waiting", "excluded"}
      <4>1. \A p \in Page : p # selecting => p < selecting
        BY <2>8, PageCountAssumption DEF Page
      <4> QED
        BY <2>3, <2>5, <2>6, <2>7, <4>1
    <3> QED
      BY <2>1, <2>2, <3>1, <3>2 DEF FilmInv
  <2>9. CASE selecting # PageCount
    <3>1. stage' = "select" /\ selecting' = selecting + 1
      BY <1>11, <2>9 DEF SelectPage
    <3>2. ASSUME NEW p \in Page
          PROVE  IF p < selecting + 1
                   THEN Selected(p)' /\ clip'[p] \in {"waiting", "excluded"}
                   ELSE clip'[p] = "waiting" /\ length'[p] = 0
      <4>1. p < selecting + 1 => p < selecting \/ p = selecting
        BY <2>4 DEF Page
      <4>2. ~ (p < selecting + 1) => ~ (p < selecting) /\ p # selecting
        BY <2>4 DEF Page
      <4> QED
        BY <2>3, <2>5, <2>6, <2>7, <4>1, <4>2
    <3> QED
      BY <2>1, <2>2, <3>1, <3>2 DEF FilmInv
  <2> QED
    BY <2>8, <2>9
<1>12. ASSUME NEW p \in Page, Encode(p), UNCHANGED kept PROVE FilmInv'
  <2>1. /\ stage = "encode" /\ movie' = movie /\ records' = records /\ drawn' = drawn
        /\ speech' = speech /\ length' = length /\ pictured' = pictured
        /\ movie = <<>> /\ ~FilmRecorded /\ ~FilmRecorded'
        /\ \/ stage' = "failed"
           \/ stage' = "encode" /\ clip[p] = "waiting" /\ clip' = [clip EXCEPT ![p] = "encoding"]
    BY <1>12 DEF Encode, files, narrating, FilmInv, FilmRecorded, Stopped
  <2> QED
    BY <1>12, <2>1 DEF FilmInv, Selected, TypeOK
<1>13. ASSUME NEW p \in Page, NEW made \in BOOLEAN, EncodeEnds(p, made), UNCHANGED kept
       PROVE  FilmInv'
  <2>1. /\ stage = "encode" /\ movie' = movie /\ records' = records /\ drawn' = drawn
        /\ speech' = speech /\ length' = length /\ pictured' = pictured
        /\ movie = <<>> /\ ~FilmRecorded /\ ~FilmRecorded' /\ stage' = "encode"
        /\ clip[p] = "encoding"
        /\ \/ clip' = [clip EXCEPT ![p] = "failed"] \/ clip' = [clip EXCEPT ![p] = "held"]
           \/ clip' = [clip EXCEPT ![p] = "animated"] /\ p \in pictured
    BY <1>13 DEF EncodeEnds, files, narrating, FilmInv, FilmRecorded, Stopped
  <2> QED
    BY <1>13, <2>1 DEF FilmInv, Selected, TypeOK
<1>14. ASSUME NEW works \in BOOLEAN, Assemble(works), UNCHANGED kept PROVE FilmInv'
  <2>1. /\ stage = "encode" /\ records' = records /\ drawn' = drawn
        /\ speech' = speech /\ length' = length /\ pictured' = pictured /\ clip' = clip
        /\ movie = <<>> /\ ~FilmRecorded /\ ~FilmRecorded' /\ Encoded
    BY <1>14 DEF Assemble, narrating, FilmInv, FilmRecorded, Stopped
  <2>2. OnTheTimeline' = OnTheTimeline /\ OnTheTimeline \in SUBSET Page
    BY <2>1 DEF OnTheTimeline, How
  <2>3. Film(OnTheTimeline)' = Film(OnTheTimeline)
    BY <2>1, <2>2 DEF Film, Shot
  <2>4. \/ stage' \in {"animate", "failed"} /\ movie' = movie
        \/ stage' = "record_video" /\ movie' = Film(OnTheTimeline)
    <3>1. OnTheTimeline = {} => Film(OnTheTimeline) = <<>>
      BY <2>2, LengthType, FilmType
    <3> QED
      BY <1>14, <2>1, <3>1 DEF Assemble, AssemblyFails, Film
  <2>5. Encoded' /\ \A p \in Page : Selected(p)' <=> Selected(p)
    BY <2>1 DEF Encoded, Selected
  <2>6. CASE stage' = "record_video" /\ movie' = Film(OnTheTimeline)
    BY <2>1, <2>2, <2>3, <2>5, <2>6 DEF FilmInv
  <2>7. CASE stage' \in {"animate", "failed"} /\ movie' = movie
    BY <2>1, <2>7 DEF FilmInv
  <2> QED
    BY <2>4, <2>6, <2>7
<1>15. ASSUME WantsFilm, RecordVideo("render"), UNCHANGED kept PROVE FilmInv'
  <2>1. /\ stage = "record_video" /\ stage' = "render" /\ drawn' = drawn /\ movie' = movie
        /\ speech' = speech /\ length' = length /\ pictured' = pictured /\ clip' = clip
    BY <1>15 DEF RecordVideo, narrating, animating
  <2>2. OnTheTimeline' = OnTheTimeline
    BY <2>1 DEF OnTheTimeline, How
  <2>3. Film(OnTheTimeline)' = Film(OnTheTimeline) /\ (Encoded' <=> Encoded)
    BY <2>1, <2>2 DEF Film, Shot, Encoded
  <2> QED
    BY <2>1, <2>2, <2>3 DEF FilmInv, Selected
<1>16. ASSUME NEW fault \in {"none", "text", "pdf", "meta"}, RenderBook(fault) PROVE FilmInv'
  <2>1. FilmIsKept
    BY <1>16 DEF FilmIsKept, FilmInv, FilmRecorded, Stopped, RenderBook, Adds, Elsewhere,
       narrating, animating
  <2> QED
    BY <2>1, KeptFilm
<1>17. ASSUME NEW fits \in BOOLEAN, RenderBeside(fits) PROVE FilmInv'
  <2>1. FilmIsKept
    BY <1>17 DEF FilmIsKept, FilmInv, FilmRecorded, Stopped, RenderBeside, Elsewhere,
       narrating, animating
  <2> QED
    BY <2>1, KeptFilm
<1>18. ASSUME WriteFault, UNCHANGED kept PROVE FilmInv'
  <2>1. FilmIsKept
    BY <1>18 DEF FilmIsKept, FilmInv, FilmRecorded, Stopped, WriteFault, files, narrating,
       animating
  <2> QED
    BY <2>1, KeptFilm
<1>19. ASSUME NEW fault \in BOOLEAN, Fail(fault) PROVE FilmInv'
  <2>1. FilmIsKept
    BY <1>19 DEF FilmIsKept, FilmInv, FilmRecorded, Stopped, Fail, Elsewhere, narrating,
       animating
  <2> QED
    BY <2>1, KeptFilm
<1>20. ASSUME ~Over, NEW p \in Page, Vanish(p), UNCHANGED kept PROVE FilmInv'
  <2>1. FilmIsKept
    BY <1>20 DEF FilmIsKept, FilmInv, FilmRecorded, Stopped, Vanish, Over, narrating,
       animating
  <2> QED
    BY <2>1, KeptFilm
<1>21. ASSUME Kill PROVE FilmInv'
  <2>1. FilmIsKept
    BY <1>21 DEF FilmIsKept, FilmInv, FilmRecorded, Stopped, Kill, Over, Elsewhere,
       narrating, animating
  <2> QED
    BY <2>1, KeptFilm
<1>22. ASSUME UNCHANGED vars PROVE FilmInv'
  <2>1. FilmIsKept
    BY <1>22 DEF FilmIsKept, FilmInv, FilmRecorded, Stopped, vars, media, files, narrating,
       animating
  <2> QED
    BY <2>1, KeptFilm
<1>23. ASSUME NEW fault \in BOOLEAN, Begin(fault) PROVE FilmInv'
  <2>1. NotFilming
    BY <1>23 DEF NotFilming, FilmInv, FilmRecorded, Stopped, Begin, Elsewhere
  <2> QED
    BY <2>1, FilmLater
<1>24. ASSUME ToolRaises PROVE FilmInv'
  <2>1. FilmIsKept
    BY <1>24 DEF FilmIsKept, FilmInv, FilmRecorded, Stopped, ToolRaises, Elsewhere, narrating,
       animating
  <2> QED
    BY <2>1, KeptFilm
<1> QED
  BY <1>1, <1>2, <1>3, <1>4, <1>5, <1>6, <1>7, <1>8, <1>9, <1>10, <1>11, <1>12, <1>13,
     <1>14, <1>15, <1>16, <1>17, <1>18, <1>19, <1>20, <1>21, <1>22, <1>23, <1>24
  DEF Next, Step, Narrate, Animate, kept
-----------------------------------------------------------------------------
(* How picture and voice keep pace.                                        *)

\* What SoFar adds for the i-th page of the film.
Plus(sum, i) ==
  LET said == length[movie[i].page] IN
  [frames |-> sum.frames + movie[i].frames,
   sound |-> sum.sound + said,
   ahead |-> sum.ahead + IF 2 * said < FrameTicks THEN 2 ELSE 1]

Nothing == [frames |-> 0, sound |-> 0, ahead |-> 0]

\* The recursion of SoFar, up to the n-th page.
Totals(sum, n) ==
  sum = [i \in 0..n |-> IF i = 0 THEN Nothing ELSE Plus(sum[i - 1], i)]

LEMMA TotalsExist == \A n \in Nat : \E sum : Totals(sum, n)
<1> DEFINE S == {n \in Nat : \E sum : Totals(sum, n)}
<1>1. 0 \in S
  <2>1. Totals([i \in 0..0 |-> Nothing], 0)
    BY DEF Totals
  <2> QED
    BY <2>1
<1>2. ASSUME NEW n \in S PROVE n + 1 \in S
  <2>1. PICK f : Totals(f, n)
    OBVIOUS
  <2> DEFINE g == [i \in 0..(n + 1) |-> IF i = n + 1 THEN Plus(f[n], n + 1) ELSE f[i]]
             h == [i \in 0..(n + 1) |-> IF i = 0 THEN Nothing ELSE Plus(g[i - 1], i)]
  <2>2. ASSUME NEW i \in 0..(n + 1) PROVE g[i] = h[i]
    <3>1. CASE i = n + 1
      BY <3>1
    <3>2. CASE i # n + 1
      <4>1. i \in 0..n /\ (i # 0 => i - 1 \in 0..n /\ i - 1 \in 0..(n + 1) /\ i - 1 # n + 1)
        BY <3>2
      <4>2. g[i] = f[i] /\ (i # 0 => g[i - 1] = f[i - 1])
        BY <3>2, <4>1
      <4>3. f[i] = IF i = 0 THEN Nothing ELSE Plus(f[i - 1], i)
        BY <2>1, <4>1 DEF Totals
      <4> HIDE DEF g
      <4> QED
        BY <4>2, <4>3
    <3> QED
      BY <3>1, <3>2
  <2>3. g = h
    BY <2>2
  <2>4. Totals(g, n + 1)
    <3> HIDE DEF g
    <3> QED
      BY <2>3 DEF Totals
  <2> QED
    BY <2>4
<1>3. S = Nat
  <2> HIDE DEF S
  <2>1. S \in SUBSET Nat
    BY DEF S
  <2> QED
    BY <1>1, <1>2, <2>1, InductiveSetIsNat
<1> QED
  BY <1>3

LEMMA SoFarIs ==
  ASSUME Len(movie) \in Nat
  PROVE  Totals(SoFar, Len(movie))
<1>1. \E sum : Totals(sum, Len(movie))
  BY TotalsExist
<1>2. SoFar = CHOOSE sum : Totals(sum, Len(movie))
  BY DEF SoFar, Totals, Plus, Nothing
<1> QED
  BY <1>1, <1>2

\* After i pages, from what every single one may add.
InPace(i) ==
  /\ SoFar[i].frames \in Nat /\ SoFar[i].sound \in Nat /\ SoFar[i].ahead \in Nat
  /\ 2 * FrameTicks * SoFar[i].frames <= 2 * SoFar[i].sound + FrameTicks * SoFar[i].ahead
  /\ 2 * SoFar[i].sound <= 2 * FrameTicks * SoFar[i].frames + FrameTicks * i

\* A page that keeps pace by itself, after pages that do.
LEMMA OnePageMore ==
  ASSUME NEW ticks \in Nat, NEW frames \in Nat, NEW sound \in Nat, NEW ahead \in Nat,
         NEW pages \in Nat, NEW shown \in Nat, NEW said \in Nat, NEW more \in Nat,
         2 * ticks * frames <= 2 * sound + ticks * ahead,
         2 * sound <= 2 * ticks * frames + ticks * pages,
         2 * said <= 2 * ticks * shown + ticks,
         2 * ticks * shown <= 2 * said + ticks * more
  PROVE  /\ 2 * ticks * (frames + shown) <= 2 * (sound + said) + ticks * (ahead + more)
         /\ 2 * (sound + said) <= 2 * ticks * (frames + shown) + ticks * (pages + 1)
<1>1. /\ 2 * ticks * (frames + shown) = 2 * ticks * frames + 2 * ticks * shown
      /\ ticks * (ahead + more) = ticks * ahead + ticks * more
      /\ ticks * (pages + 1) = ticks * pages + ticks
  OBVIOUS
<1>2. PICK a \in Nat, b \in Nat, c \in Nat, d \in Nat, e \in Nat :
        /\ a = 2 * ticks * frames /\ b = 2 * ticks * shown
        /\ c = ticks * ahead /\ d = ticks * more /\ e = ticks * pages
  OBVIOUS
<1>3. /\ a <= 2 * sound + c /\ 2 * sound <= a + e
      /\ 2 * said <= b + ticks /\ b <= 2 * said + d
  BY <1>2
<1>4. /\ a + b <= 2 * (sound + said) + (c + d)
      /\ 2 * (sound + said) <= (a + b) + (e + ticks)
  BY <1>3
<1> QED
  BY <1>1, <1>2, <1>4

LEMMA FilmInPace ==
  ASSUME Len(movie) \in Nat,
         \A i \in 1..Len(movie) : /\ length[movie[i].page] \in Nat
                                  /\ movie[i].frames = Frames(length[movie[i].page])
  PROVE  \A i \in 1..Len(movie) : InPace(i)
<1> DEFINE S == {i \in Nat : i <= Len(movie) => InPace(i)}
<1>1. Totals(SoFar, Len(movie))
  BY SoFarIs
<1>2. FrameTicks \in Nat
  BY FrameTicksAssumption
<1>3. 0 \in S
  <2>1. SoFar[0] = Nothing
    BY <1>1 DEF Totals
  <2> QED
    BY <1>2, <2>1 DEF InPace, Nothing
<1>4. ASSUME NEW n \in S PROVE n + 1 \in S
  <2>1. SUFFICES ASSUME n + 1 <= Len(movie) PROVE InPace(n + 1)
    OBVIOUS
  <2>2. n \in Nat /\ InPace(n) /\ n + 1 \in 1..Len(movie)
    BY <2>1
  <2>3. SoFar[n + 1] = Plus(SoFar[n], n + 1)
    <3>1. n + 1 \in 0..Len(movie) /\ n + 1 # 0 /\ (n + 1) - 1 = n
      BY <2>2
    <3> QED
      BY <1>1, <3>1 DEF Totals
  <2> DEFINE said == length[movie[n + 1].page]
             shown == movie[n + 1].frames
             more == IF 2 * said < FrameTicks THEN 2 ELSE 1
  <2>4. /\ said \in Nat /\ shown \in Nat /\ more \in Nat
        /\ 2 * said <= 2 * FrameTicks * shown + FrameTicks
        /\ 2 * FrameTicks * shown <= 2 * said + FrameTicks * more
    BY <2>2, FramesFillReading
  <2>5. /\ SoFar[n + 1].frames = SoFar[n].frames + shown
        /\ SoFar[n + 1].sound = SoFar[n].sound + said
        /\ SoFar[n + 1].ahead = SoFar[n].ahead + more
    BY <2>3 DEF Plus
  <2> DEFINE frames == SoFar[n].frames
             sound == SoFar[n].sound
             ahead == SoFar[n].ahead
  <2>6. /\ frames \in Nat /\ sound \in Nat /\ ahead \in Nat
        /\ 2 * FrameTicks * frames <= 2 * sound + FrameTicks * ahead
        /\ 2 * sound <= 2 * FrameTicks * frames + FrameTicks * n
    BY <2>2 DEF InPace
  <2>7. /\ 2 * FrameTicks * (frames + shown) <= 2 * (sound + said) + FrameTicks * (ahead + more)
        /\ 2 * (sound + said) <= 2 * FrameTicks * (frames + shown) + FrameTicks * (n + 1)
    <3> HIDE DEF frames, sound, ahead, said, shown, more
    <3> n \in Nat
      BY <2>2
    <3> QED
      BY <1>2, <2>4, <2>6, OnePageMore
  <2>8. /\ frames + shown \in Nat /\ sound + said \in Nat /\ ahead + more \in Nat
    <3> HIDE DEF frames, sound, ahead, said, shown, more
    <3> QED
      BY <2>4, <2>6
  <2> QED
    BY <2>5, <2>7, <2>8 DEF InPace
<1>5. S = Nat
  <2> HIDE DEF S
  <2>1. S \in SUBSET Nat
    BY DEF S
  <2> QED
    BY <1>3, <1>4, <2>1, InductiveSetIsNat
<1> QED
  BY <1>5

-----------------------------------------------------------------------------
(* The invariant, and what follows from it.                                *)

LEMMA InitInv == Init => IInv
<1> SUFFICES ASSUME NEW who \in Caller, NEW asked \in Flags, NEW before \in SUBSET Page,
                    NEW joined \in BOOLEAN, NEW recorded \in BOOLEAN,
                    caller = who, flags = asked, stage = FirstStage[who], meta = "none",
                    image = [p \in Page |-> "none"],
                    audio = [p \in Page |-> IF p \in before THEN "earlier" ELSE "none"],
                    storyAudio = IF joined THEN EarlierSound(before) ELSE <<>>,
                    manifest = IF recorded THEN [by |-> "earlier", pages |-> before]
                                           ELSE [by |-> "none", pages |-> {}],
                    movie = <<>>, records = {}, drawn = {}, pdf = "none", NothingMade
             PROVE  IInv
  BY DEF Init
<1>1. /\ stage \in {"begin", "write", "illustrate", "narrate"}
      /\ caller = "script" => stage = "begin"
  BY DEF Caller, FirstStage
<1>2. /\ storyAudio \in Seq(Page \X {"earlier", "run"})
      /\ \A i \in DOMAIN storyAudio : storyAudio[i][2] = "earlier"
  BY PagesJoined DEF EarlierSound
<1>3. manifest \in Manifest /\ manifest.by # "run"
  BY DEF Manifest, Writer
<1>4. TypeOK
  <2>1. 1 \in Page
    BY PageCountAssumption DEF Page
  <2>2. 0 \in Measured /\ 0 \in 0..(MaxAttempts - 1) /\ 0 \in 0..MaxVanished
    BY MaxAttemptsAssumption, MaxVanishedAssumption DEF Measured
  <2> QED
    BY <1>1, <1>2, <1>3, <2>1, <2>2 DEF TypeOK, NothingMade, Stage, Writer, Speech, Clip
<1>5. MetaInv
  BY <1>1 DEF MetaInv, AfterPlan, AfterText, AfterPictures, AfterSpeech
<1>6. SoundInv
  <2>1. ~ Unrecorded
    BY <1>2 DEF Unrecorded
  <2> QED
    BY <1>1, <1>3, <2>1 DEF SoundInv, NothingMade
<1>7. FilmInv
  BY <1>1 DEF FilmInv, FilmRecorded, NothingMade
<1> QED
  BY <1>4, <1>5, <1>6, <1>7 DEF IInv

LEMMA StepInv == IInv /\ [Next]_vars => IInv'
  BY StepTypes, StepMeta, StepSound, StepFilm DEF IInv

LEMMA MetaFollows == IInv => MetaTellsTheTruth
  BY DEF IInv, MetaInv, MetaTellsTheTruth

LEMMA SoundFollows == IInv => SoundIsThePages
<1> SUFFICES ASSUME IInv PROVE SoundIsThePages
  OBVIOUS
<1> DEFINE s == InOrder(How("narrated", speech))
<1>1. ASSUME manifest.by = "run", manifest.pages # {}
      PROVE  /\ {storyAudio[i][1] : i \in DOMAIN storyAudio} = manifest.pages
             /\ \A i, j \in DOMAIN storyAudio : i < j => storyAudio[i][1] < storyAudio[j][1]
             /\ \A i \in DOMAIN storyAudio : storyAudio[i][2] = "run"
  <2>1. Ascending(s, How("narrated", speech))
    BY InOrderIsAscending DEF How
  <2>2. /\ manifest.pages = How("narrated", speech)
        /\ storyAudio = [i \in DOMAIN s |-> <<s[i], "run">>]
    BY <1>1 DEF IInv, SoundInv, Sound
  <2> HIDE DEF s
  <2>3. {storyAudio[i][1] : i \in DOMAIN storyAudio} = {s[i] : i \in DOMAIN s}
    BY <2>2
  <2> QED
    BY <2>1, <2>2, <2>3 DEF Ascending
<1>2. (stage = "ended" /\ meta # "failed") => ~ Unrecorded
  BY DEF IInv, SoundInv, Stopped
<1>3. vanished = 0 => \A p \in How("narrated", speech) : audio[p] = "run"
  BY DEF IInv, SoundInv, How
<1> QED
  BY <1>1, <1>2, <1>3 DEF SoundIsThePages, Unrecorded

LEMMA FilmOf ==
  ASSUME IInv, FilmRecorded
  PROVE  /\ OnTheTimeline = {p \in Page : length[p] > 0 /\ clip[p] # "failed"}
         /\ movie = Film(OnTheTimeline) /\ Ascending(InOrder(OnTheTimeline), OnTheTimeline)
<1>1. Encoded /\ movie = Film(OnTheTimeline) /\ \A p \in Page : Selected(p)
  BY DEF IInv, FilmInv
<1>2. ASSUME NEW p \in Page
      PROVE  clip[p] \in {"animated", "held"} <=> length[p] > 0 /\ clip[p] # "failed"
  <2>1. clip[p] \in {"animated", "held", "failed", "excluded"}
    BY <1>1 DEF IInv, TypeOK, Clip, Encoded
  <2>2. clip[p] = "excluded" => length[p] = 0
    BY <1>1 DEF Selected
  <2>3. clip[p] # "excluded" => length[p] > 0
    BY <1>1 DEF Selected
  <2> QED
    BY <2>1, <2>2, <2>3
<1>3. OnTheTimeline = {p \in Page : clip[p] \in {"animated", "held"}}
  BY DEF OnTheTimeline, How
<1>4. Ascending(InOrder(OnTheTimeline), OnTheTimeline)
  BY <1>3, InOrderIsAscending
<1> QED
  BY <1>1, <1>2, <1>3, <1>4

LEMMA FilmFollows == IInv => FilmIsThePages
<1> SUFFICES ASSUME IInv, FilmRecorded
             PROVE  /\ {movie[i].page : i \in DOMAIN movie}
                         = {p \in Page : length[p] > 0 /\ clip[p] # "failed"}
                    /\ \A i, j \in DOMAIN movie : i < j => movie[i].page < movie[j].page
                    /\ \A p \in Page : clip[p] \in {"animated", "held"} =>
                         speech[p] = "narrated" /\ (clip[p] = "animated" => p \in drawn)
  BY DEF FilmIsThePages, FilmRecorded
<1> DEFINE s == InOrder(OnTheTimeline)
<1>1. Ascending(s, OnTheTimeline)
  BY FilmOf
<1>2. movie = [i \in DOMAIN s |-> Shot(s[i])]
  BY FilmOf DEF Film
<1> HIDE DEF s
<1>3. \A i \in DOMAIN s : movie[i].page = s[i]
  BY <1>2 DEF Shot
<1>4. {movie[i].page : i \in DOMAIN movie} = {s[i] : i \in DOMAIN s}
  BY <1>2, <1>3
<1>5. \A p \in Page : clip[p] \in {"animated", "held"} =>
        speech[p] = "narrated" /\ (clip[p] = "animated" => p \in drawn)
  BY DEF IInv, FilmInv, Selected
<1> QED
  BY <1>1, <1>2, <1>3, <1>4, <1>5, FilmOf DEF Ascending

LEMMA PaceFollows == IInv => FilmKeepsPace
<1> SUFFICES ASSUME IInv, FilmRecorded, NEW i \in DOMAIN movie
             PROVE  /\ 2 * FrameTicks * SoFar[i].frames
                         <= 2 * SoFar[i].sound + FrameTicks * SoFar[i].ahead
                    /\ 2 * SoFar[i].sound <= 2 * FrameTicks * SoFar[i].frames + FrameTicks * i
  BY DEF FilmKeepsPace, FilmRecorded
<1> DEFINE s == InOrder(OnTheTimeline)
<1>1. /\ s \in Seq(Page) /\ DOMAIN s = 1..Len(s) /\ Len(s) \in Nat
      /\ \A j \in 1..Len(s) : s[j] \in Page
  BY PagesJoined DEF OnTheTimeline, How
<1>2. movie = [j \in DOMAIN s |-> Shot(s[j])]
  BY FilmOf DEF Film
<1> HIDE DEF s
<1>3. Len(movie) = Len(s) /\ DOMAIN movie = 1..Len(movie)
  BY <1>1, <1>2
<1>4. \A j \in 1..Len(movie) : /\ length[movie[j].page] \in Nat
                               /\ movie[j].frames = Frames(length[movie[j].page])
  BY <1>1, <1>2, <1>3, LengthType DEF Shot, IInv
<1>5. InPace(i)
  BY <1>1, <1>3, <1>4, FilmInPace
<1> QED
  BY <1>5 DEF InPace

\* The inductive invariant holds of every run, whoever runs it and wherever it
\* is stopped.
THEOREM Invariance == Spec => []IInv
<1> QED
  BY InitInv, StepInv, PTL DEF Spec

-----------------------------------------------------------------------------
(* The theorems.                                                           *)

\* Every variable of a run stays in its type, and the count of attempts at
\* assembling a film below max_attempts.
THEOREM TypeCorrect == Spec => []TypeOK
<1>1. IInv => TypeOK
  BY DEF IInv
<1> QED
  BY <1>1, Invariance, PTL

\* meta.json says "ok" only beside everything the flags asked for, and a run
\* whose main returned says how it ended: "running" or a cut file is left only
\* by one that was killed, or could not write its own last words.
THEOREM MetaIsTrue == Spec => []MetaTellsTheTruth
  BY MetaFollows, Invariance, PTL

\* story.mp3 beside a narration.json of the same run holds the pages that it
\* calls narrated, in order; only a run that failed or was killed leaves its
\* sound beside the record of another.
THEOREM SoundIsTrue == Spec => []SoundIsThePages
  BY SoundFollows, Invariance, PTL

\* story.mp4 beside video.json holds the pages that were encoded, in order.
THEOREM FilmIsTrue == Spec => []FilmIsThePages
  BY FilmFollows, Invariance, PTL

\* However many pages a film has, rounding pulls picture and voice apart by no
\* more than half a frame for each, and one for each that is shorter than that.
THEOREM PaceIsKept == Spec => []FilmKeepsPace
  BY PaceFollows, Invariance, PTL
=============================================================================
