------------------------------- MODULE BookRun -------------------------------
(***************************************************************************)
(* Who makes a book's files, and in which order.  The script               *)
(* (scripts/write_one_story.py) takes one book through as many stages as   *)
(* its flags ask for, in a directory of its own, and keeps meta.json       *)
(* telling how far it came.  The server's tools (mcp/tools/) each do one   *)
(* stage in a directory the client names, which an earlier call may have   *)
(* filled.  Either may be killed at any moment, and any write may fail and *)
(* leave its file cut short: that of meta.json too, in the very handler    *)
(* that tells of a failure.                                                *)
(***************************************************************************)
EXTENDS BookMedia

VARIABLES
  caller,   \* who runs: "script", or a tool by its name
  flags,    \* the script's arguments
  meta,     \* the outcome in meta.json; "none", no such file; "cut", a piece of one
  pdf       \* story.pdf: "none", "text" or "illustrated"

vars == <<media, caller, flags, meta, pdf>>

Caller == {"script", "write_story", "illustrate_story", "narrate_story"}

Flags == [until : {"research", "plan", "plot", "all"}, save : BOOLEAN, pdf : BOOLEAN,
          illustrate : BOOLEAN, narrate : BOOLEAN, animate : BOOLEAN]

NoFlags == [until |-> "all", save |-> TRUE, pdf |-> FALSE,
            illustrate |-> FALSE, narrate |-> FALSE, animate |-> FALSE]

\* The caller has its answer, an exception, or nobody to give either to.
Over == stage \in {"ended", "raised", "killed"}

\* story.mp3 as an earlier run left it.
EarlierSound(pages) == [i \in DOMAIN InOrder(pages) |-> <<InOrder(pages)[i], "earlier">>]

FirstStage == [script |-> "begin", write_story |-> "write",
               illustrate_story |-> "illustrate", narrate_story |-> "narrate"]

-----------------------------------------------------------------------------

\* The script starts in an empty directory.  A tool may be sent to one where
\* narration was run before: some pages have its audio, and that run came as far
\* as them, as joining them, or as recording what it joined.
Init ==
  \E who \in Caller, asked \in Flags, before \in SUBSET Page,
     joined \in BOOLEAN, recorded \in BOOLEAN :
    /\ caller = who
    /\ flags = asked
    /\ IF who = "script" THEN before = {} /\ ~joined ELSE asked = NoFlags
    /\ recorded => joined
    /\ stage = FirstStage[who]
    /\ meta = "none"
    /\ image = [p \in Page |-> "none"]
    /\ audio = [p \in Page |-> IF p \in before THEN "earlier" ELSE "none"]
    /\ storyAudio = IF joined THEN EarlierSound(before) ELSE <<>>
    /\ manifest = IF recorded THEN [by |-> "earlier", pages |-> before]
                              ELSE [by |-> "none", pages |-> {}]
    /\ movie = <<>>
    /\ records = {}
    /\ drawn = {}
    /\ pdf = "none"
    /\ NothingMade

Saving == caller # "script" \/ flags.save

\* The artifacts a step adds, when anything is saved.
Adds(names) == records' = IF Saving THEN records \cup names ELSE records

\* A stage the script goes to next, or the end of a tool's call.
Then(next) == IF caller = "script" THEN next ELSE "ended"

\* Nothing but the stage and the artifacts.
Elsewhere == <<image, audio, storyAudio, manifest, movie, drawn, narrating, animating, vanished>>

\* A mutant: the outcome is written before the last artifacts are.
OutcomeAt_Written == {"write"}

OutcomeAt == {"render"}

\* A write of meta.json that fails leaves what was there, or a piece of a file.
MetaSpoilt == meta' \in {meta, "cut"}

\* meta.json says ok only at an end of run_stages.
Concludes(at) ==
  meta' = IF at \in OutcomeAt /\ caller = "script" /\ flags.save
            THEN "ok" ELSE meta

-----------------------------------------------------------------------------
(* The text.                                                               *)

\* The first records of a run are written before main's try block.
Begin(fault) ==
  /\ stage = "begin"
  /\ stage' = IF fault THEN "raised" ELSE "plan"
  /\ IF ~flags.save THEN UNCHANGED meta
     ELSE IF fault THEN MetaSpoilt ELSE meta' = "running"
  /\ UNCHANGED <<records, Elsewhere, caller, flags, pdf>>

PlanRecords ==
  CASE flags.until = "research" -> {"research.json"}
    [] flags.until = "plot" -> {"plan_outline.json", "page_plan.json"}
    [] OTHER -> {"plan_outline.json"}

\* --stage research, plan and plot stop early and say so in meta.json.  What
\* raises does so after some of the records, or in writing that.
Plan(raises) ==
  LET concludes == flags.until # "all" /\ flags.save IN
  /\ stage = "plan"
  /\ IF raises
       THEN /\ stage' = "failed"
            /\ \E made \in SUBSET PlanRecords :
                 /\ "page_plan.json" \in made => "plan_outline.json" \in made
                 /\ Adds(made)
                 /\ IF concludes /\ made = PlanRecords THEN MetaSpoilt ELSE UNCHANGED meta
       ELSE /\ stage' = IF flags.until = "all" THEN "write" ELSE "ended"
            /\ Adds(PlanRecords)
            /\ meta' = IF concludes THEN "ok" ELSE meta
  /\ UNCHANGED <<Elsewhere, caller, flags, pdf>>

\* The pipeline raises, or its book is saved.  The tool asks where to save it
\* only now, and an unusable directory loses the book.
Write(raises) ==
  /\ stage = "write"
  /\ IF raises
       THEN stage' = "failed" /\ UNCHANGED <<records, meta>>
       ELSE /\ stage' = IF caller = "script" THEN "illustrate" ELSE "render"
            /\ Adds({"story.json"})
            /\ Concludes("write")
  /\ UNCHANGED <<Elsewhere, caller, flags, pdf>>

-----------------------------------------------------------------------------
(* The media.                                                              *)

WantsPictures == caller # "script" \/ (flags.illustrate /\ flags.save)

WantsSpeech == caller # "script" \/ (flags.narrate /\ flags.save)

\* --animate needs what the two stages before it returned.
WantsFilm == flags.animate /\ flags.save /\ flags.illustrate /\ flags.narrate

\* See IllustrationWorkflow: it draws some of the pages, and may raise after any
\* of them.  The tool hands the record back instead of saving it.
Illustrate(pages, raises) ==
  /\ stage = "illustrate" /\ WantsPictures
  /\ image' = [p \in Page |-> IF p \in pages THEN "run" ELSE image[p]]
  /\ IF raises
       THEN stage' = "failed" /\ UNCHANGED <<drawn, records>>
       ELSE /\ stage' = IF caller = "script" THEN "narrate" ELSE "render"
            /\ drawn' = pages
            /\ records' = IF caller = "script" THEN records \cup {"art.json"} ELSE records
  /\ UNCHANGED <<audio, storyAudio, manifest, movie, narrating, animating, vanished,
                 caller, flags, meta, pdf>>

Skip ==
  /\ \/ stage = "illustrate" /\ ~WantsPictures /\ stage' = "narrate"
     \/ stage = "narrate" /\ ~WantsSpeech /\ stage' = "animate"
     \/ stage = "animate" /\ ~WantsFilm /\ stage' = "render"
  /\ UNCHANGED <<records, Elsewhere, caller, flags, meta, pdf>>

Narrate ==
  /\ WantsSpeech
  /\ \/ \E configured \in BOOLEAN : StartNarrating(configured)
     \/ \E p \in Page : Ask(p) \/ \E spoken \in BOOLEAN : Answer(p, spoken)
     \/ Stitch
     \/ RecordNarration(Then("animate"))
  /\ UNCHANGED <<caller, flags, meta, pdf>>

Animate ==
  /\ WantsFilm
  /\ \/ \E installed \in BOOLEAN : StartAnimating(installed)
     \/ \E measured \in Measured : SelectPage(measured)
     \/ \E p \in Page : Encode(p) \/ \E made \in BOOLEAN : EncodeEnds(p, made)
     \/ \E works \in BOOLEAN : Assemble(works)
     \/ RecordVideo("render")
  /\ UNCHANGED <<caller, flags, meta, pdf>>

-----------------------------------------------------------------------------
(* The book, and how a run ends.                                           *)

WantsPdf == flags.pdf \/ flags.illustrate

Rendered == IF drawn # {} THEN "illustrated" ELSE "text"

\* The script renders once, after every stage: the text, the pdf, and meta.json
\* last; `fault` is the one of them whose write fails.
RenderBook(fault) ==
  /\ stage = "render" /\ caller = "script"
  /\ fault # "none" => flags.save
  /\ fault = "pdf" => WantsPdf
  /\ stage' = IF fault = "none" THEN "ended" ELSE "failed"
  /\ IF fault = "text" THEN UNCHANGED records ELSE Adds({"story.md"})
  /\ pdf' = IF flags.save /\ WantsPdf /\ fault \notin {"text", "pdf"} THEN Rendered ELSE pdf
  /\ CASE fault = "none" -> Concludes("render")
       [] fault = "meta" -> MetaSpoilt
       [] OTHER -> UNCHANGED meta
  /\ UNCHANGED <<Elsewhere, caller, flags>>

\* render_pdf_beside: a page that does not fit, or the disk, leaves what lay
\* there and is reported, not raised.
RenderBeside(fits) ==
  /\ stage = "render" /\ caller # "script"
  /\ stage' = "ended"
  /\ pdf' = IF fits THEN Rendered ELSE pdf
  /\ UNCHANGED <<records, Elsewhere, caller, flags, meta>>

\* main logs what was raised and tells it in meta.json; when that write fails
\* as well, main raises after all.
Fail(fault) ==
  /\ stage = "failed" /\ caller = "script"
  /\ fault => flags.save
  /\ stage' = IF fault THEN "raised" ELSE "ended"
  /\ IF fault THEN MetaSpoilt ELSE meta' = IF flags.save THEN "failed" ELSE meta
  /\ UNCHANGED <<records, Elsewhere, caller, flags, pdf>>

\* A tool's client is told.
ToolRaises ==
  /\ stage = "failed" /\ caller # "script"
  /\ stage' = "raised"
  /\ UNCHANGED <<records, Elsewhere, caller, flags, meta, pdf>>

\* Ctrl-C, or the machine: no handler writes anything.  A kill in the middle of
\* a write leaves what a fault of that write leaves, and comes after it; the
\* first and the last write of meta.json have no step after theirs.
Kill ==
  /\ ~Over
  /\ stage' = "killed"
  /\ IF caller = "script" /\ flags.save /\ stage \in {"begin", "failed"}
       THEN MetaSpoilt ELSE UNCHANGED meta
  /\ UNCHANGED <<records, Elsewhere, caller, flags, pdf>>

Step ==
  \/ \E fault \in BOOLEAN : Begin(fault) \/ Fail(fault)
  \/ \E raises \in BOOLEAN : Plan(raises) \/ Write(raises)
  \/ \E fault \in {"none", "text", "pdf", "meta"} : RenderBook(fault)
  \/ \E pages \in SUBSET Page, raises \in BOOLEAN : Illustrate(pages, raises)
  \/ Skip
  \/ Narrate
  \/ Animate
  \/ \E fits \in BOOLEAN : RenderBeside(fits)
  \/ WriteFault /\ UNCHANGED <<caller, flags, meta, pdf>>
  \/ ToolRaises

Next ==
  \/ Step
  \/ ~Over /\ (\E p \in Page : Vanish(p)) /\ UNCHANGED <<caller, flags, meta, pdf>>
  \/ Kill

\* Every call returns or raises; nobody has to kill a run.
Spec == Init /\ [][Next]_vars /\ WF_vars(Step)

-----------------------------------------------------------------------------
(* Properties.                                                             *)

Stage == {"begin", "plan", "write", "illustrate", "narrate", "speak", "record_narration",
          "animate", "select", "encode", "record_video", "render", "failed",
          "ended", "raised", "killed"}

\* Every variable stays in its type; the retry policy keeps its count below
\* max_attempts.
TypeOK ==
  /\ stage \in Stage /\ caller \in Caller /\ flags \in Flags
  /\ image \in [Page -> Writer] /\ audio \in [Page -> Writer]
  /\ storyAudio \in Seq(Page \X {"earlier", "run"}) /\ manifest \in Manifest
  /\ movie \in Seq([page : Page, frames : Nat \ {0}])
  /\ records \subseteq {"research.json", "plan_outline.json", "page_plan.json",
                       "story.json", "art.json", "video.json", "story.md"}
  /\ drawn \subseteq Page /\ pictured \subseteq Page
  /\ speech \in [Page -> Speech] /\ heard \in Seq(Page)
  /\ clip \in [Page -> Clip] /\ length \in [Page -> Measured]
  /\ selecting \in Page /\ attempt \in 0..(MaxAttempts - 1)
  /\ vanished \in 0..MaxVanished
  /\ meta \in {"none", "running", "ok", "failed", "cut"}
  /\ pdf \in {"none", "text", "illustrated"}

\* What a run's flags ask to find in its directory.
Asked ==
  LET if(wanted, name) == IF wanted THEN {name} ELSE {} IN
  CASE flags.until = "research" -> {"research.json"}
    [] flags.until = "plan" -> {"plan_outline.json"}
    [] flags.until = "plot" -> {"plan_outline.json", "page_plan.json"}
    [] OTHER -> {"plan_outline.json", "story.json", "story.md"}
                  \cup if(WantsPictures, "art.json")
                  \cup if(WantsSpeech, "narration.json")
                  \cup if(WantsFilm, "video.json")

Recorded == records \cup (IF manifest.by = "run" THEN {"narration.json"} ELSE {})

\* meta.json can be believed (build_meta: a stopped run is distinguishable from
\* one that died): "ok" only beside everything the flags asked for, and a run
\* whose main returned says how it ended.  "running", or a piece of a file, is
\* left only by a run that was killed, or whose own last words failed.
MetaTellsTheTruth ==
  (caller = "script" /\ flags.save) =>
    /\ meta = "ok" => /\ Asked \subseteq Recorded
                      /\ (flags.until = "all" /\ WantsPdf) => pdf = Rendered
    /\ stage = "ended" => meta \in {"ok", "failed"}

\* narration.json is beside the sound it describes: when this run wrote it,
\* story.mp3 holds the pages it calls narrated, each once, in the order of the
\* book whatever the order of the answers, and no audio of an earlier run.  Only
\* a run that failed or was killed leaves its sound beside the record of an
\* earlier one, or beside none.
SoundIsThePages ==
  /\ manifest.by = "run" /\ manifest.pages # {} =>
       /\ {storyAudio[i][1] : i \in DOMAIN storyAudio} = manifest.pages
       /\ \A i, j \in DOMAIN storyAudio : i < j => storyAudio[i][1] < storyAudio[j][1]
       /\ \A i \in DOMAIN storyAudio : storyAudio[i][2] = "run"
  /\ (stage = "ended" /\ meta # "failed") =>
       \A i \in DOMAIN storyAudio : storyAudio[i][2] = "run" => manifest.by = "run"
  /\ vanished = 0 => \A p \in How("narrated", speech) : audio[p] = "run"

\* video.json is beside the film it describes: a page is in the film exactly
\* when its audio could be measured and its clip was made, with a picture or
\* without, once and in the order of the book.
FilmIsThePages ==
  "video.json" \in records =>
    /\ {movie[i].page : i \in DOMAIN movie}
         = {p \in Page : length[p] > 0 /\ clip[p] # "failed"}
    /\ \A i, j \in DOMAIN movie : i < j => movie[i].page < movie[j].page
    /\ \A p \in Page : clip[p] \in {"animated", "held"} =>
         speech[p] = "narrated" /\ (clip[p] = "animated" => p \in drawn)

\* What the first i pages of the film show, what they say, and how far apart
\* the two may then be, in half frames: one a page, and two for a page that is
\* over before half a frame is, since no page is shown for less than one.
SoFar ==
  LET sum[i \in 0..Len(movie)] ==
        IF i = 0 THEN [frames |-> 0, sound |-> 0, ahead |-> 0]
        ELSE LET said == length[movie[i].page] IN
             [frames |-> sum[i - 1].frames + movie[i].frames,
              sound |-> sum[i - 1].sound + said,
              ahead |-> sum[i - 1].ahead + IF 2 * said < FrameTicks THEN 2 ELSE 1] IN
  sum

\* The two streams are joined apart and never trimmed (assemble: no -shortest),
\* so what rounding a page to frames loses adds up: at no page of the film is
\* the picture further ahead of the voice than that, nor further behind it than
\* half a frame for each page before.
FilmKeepsPace ==
  "video.json" \in records =>
    \A i \in DOMAIN movie :
      LET shown == 2 * FrameTicks * SoFar[i].frames
          heard2 == 2 * SoFar[i].sound IN
      /\ shown <= heard2 + FrameTicks * SoFar[i].ahead
      /\ heard2 <= shown + FrameTicks * i

\* Every call returns: a retried assembly, a failed page and an unusable
\* directory all end.
Terminates == <>Over
=============================================================================
