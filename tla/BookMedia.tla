------------------------------ MODULE BookMedia ------------------------------
(***************************************************************************)
(* A finished book read aloud (workflows/narrate.py) and turned into a     *)
(* film (workflows/animate.py), inside one directory that also holds its   *)
(* pictures.  Pages are spoken, and later encoded, several at a time; a    *)
(* page that fails is recorded and costs only itself.  A page is in the    *)
(* film exactly when its audio can be measured: audio is the spine, and a  *)
(* page without a picture becomes a card held for as long as it is read.   *)
(*                                                                         *)
(* Durations are counted in ticks, FrameTicks to a frame of film.  A file  *)
(* is who wrote it: this run, or an earlier one in the same directory,     *)
(* since no stage removes what it finds.  A write may stop halfway and     *)
(* leave the file cut short.                                               *)
(***************************************************************************)
EXTENDS Naturals, Sequences, FiniteSets

CONSTANTS
  PageCount,             \* pages of the story
  MaxAttempts,           \* RETRY_POLICY.max_attempts
  MaxConcurrentSpeech,   \* _MAX_CONCURRENT_SPEECH
  MaxConcurrentClips,    \* _MAX_CONCURRENT_CLIPS
  Duration,              \* what reading a page may take, in ticks
  FrameTicks,            \* ticks of a frame at FPS
  MaxVanished            \* bound: files somebody removes while the run goes on

ASSUME PageCountAssumption == PageCount \in Nat \ {0}
ASSUME MaxAttemptsAssumption == MaxAttempts \in Nat \ {0}
ASSUME MaxConcurrentSpeechAssumption == MaxConcurrentSpeech \in Nat \ {0}
ASSUME MaxConcurrentClipsAssumption == MaxConcurrentClips \in Nat \ {0}
ASSUME DurationAssumption == Duration \subseteq Nat \ {0}
ASSUME FrameTicksAssumption == FrameTicks \in Nat \ {0}
ASSUME MaxVanishedAssumption == MaxVanished \in Nat

VARIABLES
  stage,       \* the statement the run is at
  image,       \* page -> who wrote page-NN.jpg, or "none"
  audio,       \* page -> who wrote page-NN.mp3, or "none"
  storyAudio,  \* story.mp3: the pages in it, in order, with who wrote them
  manifest,    \* narration.json: who wrote it, and the pages it calls narrated
  movie,       \* story.mp4: the pages in it, in order, and their frames
  records,     \* the other records this run has written whole: "art.json", ...
  drawn,       \* the pages StoryArt says were drawn
  speech,      \* page -> what became of its narration
  heard,       \* the narrated pages, in the order they were answered
  clip,        \* page -> what became of its clip
  length,      \* page -> its measured duration; 0, None
  pictured,    \* the pages selected with a picture
  selecting,   \* the page select_pages is at
  attempt,     \* failed attempts of animate_pages
  vanished     \* files removed by somebody else

narrating == <<speech, heard>>
animating == <<clip, length, pictured, selecting, attempt>>
files == <<image, audio, storyAudio, manifest, movie, records>>
media == <<stage, files, drawn, narrating, animating, vanished>>

Page == 1..PageCount
Writer == {"none", "earlier", "run", "cut"}
Manifest == [by : Writer, pages : SUBSET Page]
Speech == {"waiting", "asking", "narrated", "failed"}
Clip == {"waiting", "encoding", "animated", "held", "failed", "excluded"}

\* probe_audio_duration; 0 is a file ffprobe cannot measure.
Measured == Duration \cup {0}

How(status, assignment) == {p \in Page : assignment[p] = status}

\* The pages of a set, as their files are joined: in the book's order.
InOrder(pages) ==
  LET upTo[p \in 0..PageCount] ==
        IF p = 0 THEN <<>>
        ELSE IF p \in pages THEN Append(upTo[p - 1], p) ELSE upTo[p - 1] IN
  upTo[PageCount]

NothingMade ==
  /\ speech = [p \in Page |-> "waiting"]
  /\ heard = <<>>
  /\ clip = [p \in Page |-> "waiting"]
  /\ length = [p \in Page |-> 0]
  /\ pictured = {}
  /\ selecting = 1
  /\ attempt = 0
  /\ vanished = 0

-----------------------------------------------------------------------------
(* Narration.                                                              *)

\* AudioConfigurationError is raised before any page is attempted.
StartNarrating(configured) ==
  /\ stage = "narrate"
  /\ stage' = IF configured THEN "speak" ELSE "failed"
  /\ UNCHANGED <<files, drawn, narrating, animating, vanished>>

\* The semaphore lets this many requests be in flight.
Ask(p) ==
  /\ stage = "speak"
  /\ speech[p] = "waiting"
  /\ Cardinality(How("asking", speech)) < MaxConcurrentSpeech
  /\ speech' = [speech EXCEPT ![p] = "asking"]
  /\ UNCHANGED <<stage, files, drawn, heard, animating, vanished>>

\* A page that cannot be narrated is recorded; what lies on disk is left there.
Answer(p, spoken) ==
  /\ stage = "speak"
  /\ speech[p] = "asking"
  /\ speech' = [speech EXCEPT ![p] = IF spoken THEN "narrated" ELSE "failed"]
  /\ heard' = IF spoken THEN Append(heard, p) ELSE heard
  /\ audio' = IF spoken THEN [audio EXCEPT ![p] = "run"] ELSE audio
  /\ UNCHANGED <<stage, image, storyAudio, manifest, movie, records, drawn, animating, vanished>>

Spoken == \A p \in Page : speech[p] \in {"narrated", "failed"}

\* A mutant: parts are joined as they arrived.
Parts_AsTheyCame == heard

\* Results are sorted by page number.
Parts == InOrder(How("narrated", speech))

\* story.mp3 as far as its first n parts.
Joined(n) == [i \in 1..n |-> <<Parts[i], "run">>]

\* Nothing is written when no page was narrated.
Stitch ==
  /\ stage = "speak" /\ Spoken
  /\ stage' = "record_narration"
  /\ storyAudio' = IF Parts = <<>> THEN storyAudio ELSE Joined(Len(Parts))
  /\ UNCHANGED <<image, audio, manifest, movie, records, drawn, narrating, animating,
                 vanished>>

\* narration.json is written last, after story.mp3.
RecordNarration(next) ==
  /\ stage = "record_narration"
  /\ stage' = next
  /\ manifest' = [by |-> "run", pages |-> How("narrated", speech)]
  /\ UNCHANGED <<image, audio, storyAudio, movie, records, drawn, narrating, animating,
                 vanished>>

-----------------------------------------------------------------------------
(* The film.                                                               *)

\* get_clip_maker: ffmpeg is looked for before any page is encoded.
StartAnimating(installed) ==
  /\ stage = "animate"
  /\ stage' = IF installed THEN "select" ELSE "failed"
  /\ clip' = [p \in Page |-> "waiting"]
  /\ length' = [p \in Page |-> 0]
  /\ pictured' = {}
  /\ selecting' = 1
  /\ UNCHANGED <<files, drawn, narrating, attempt, vanished>>

Readable(p) == speech[p] = "narrated" /\ audio[p] # "none"

\* One page of select_pages: the duration is read from the file, and "none"
\* stands for a file that cannot be measured.
SelectPage(measured) ==
  LET p == selecting
      chosen == Readable(p) /\ measured # 0 IN
  /\ stage = "select"
  /\ clip' = IF chosen THEN clip ELSE [clip EXCEPT ![p] = "excluded"]
  /\ length' = IF chosen THEN [length EXCEPT ![p] = measured] ELSE length
  /\ pictured' = IF chosen /\ p \in drawn /\ image[p] # "none"
                   THEN pictured \cup {p} ELSE pictured
  /\ selecting' = IF p = PageCount THEN p ELSE p + 1
  /\ stage' = IF p = PageCount THEN "encode" ELSE stage
  /\ UNCHANGED <<files, drawn, narrating, attempt, vanished>>

\* The picture is read here; one that has gone since it was selected raises,
\* and OSError is not retried.
Encode(p) ==
  /\ stage = "encode"
  /\ clip[p] = "waiting"
  /\ Cardinality(How("encoding", clip)) < MaxConcurrentClips
  /\ IF p \in pictured /\ image[p] = "none"
       THEN stage' = "failed" /\ UNCHANGED clip
       ELSE clip' = [clip EXCEPT ![p] = "encoding"] /\ UNCHANGED stage
  /\ UNCHANGED <<files, drawn, narrating, length, pictured, selecting, attempt, vanished>>

\* A mutant: what does not fill a frame is dropped.
Frames_Truncated(ticks) == ticks \div FrameTicks

\* frames_for: rounded half to even, and never none at all.
Frames(ticks) ==
  LET whole == ticks \div FrameTicks
      rest == 2 * (ticks % FrameTicks)
      up == rest > FrameTicks \/ (rest = FrameTicks /\ whole % 2 = 1)
      rounded == IF up THEN whole + 1 ELSE whole IN
  IF rounded = 0 THEN 1 ELSE rounded

EncodeEnds(p, made) ==
  /\ stage = "encode"
  /\ clip[p] = "encoding"
  /\ clip' = [clip EXCEPT ![p] = IF ~made THEN "failed"
                                 ELSE IF p \in pictured THEN "animated" ELSE "held"]
  /\ UNCHANGED <<stage, files, drawn, narrating, length, pictured, selecting, attempt,
                 vanished>>

Encoded == \A p \in Page : clip[p] \notin {"waiting", "encoding"}

\* A mutant: a page without a picture is left out.
OnTheTimeline_PicturesOnly == How("animated", clip)

OnTheTimeline == How("animated", clip) \cup How("held", clip)

\* A mutant: the count of attempts is lost.
AssemblyFails_ForgetsAttempts ==
  /\ attempt' = attempt
  /\ stage' = "animate"
  /\ UNCHANGED movie

\* assemble fails: the whole stage is retried from its selection.
AssemblyFails ==
  /\ attempt' = (attempt + 1) % MaxAttempts
  /\ stage' = IF attempt + 1 < MaxAttempts THEN "animate" ELSE "failed"
  /\ UNCHANGED movie

\* A page's clip runs for as many frames as its reading fills.
Shot(p) == [page |-> p, frames |-> Frames(length[p])]

\* No file at all when no page survived; otherwise ffmpeg needs every part.
Assemble(works) ==
  /\ stage = "encode" /\ Encoded
  /\ IF OnTheTimeline = {}
       THEN stage' = "record_video" /\ UNCHANGED <<movie, attempt>>
       ELSE IF works /\ \A p \in OnTheTimeline : audio[p] # "none"
         THEN /\ movie' = [i \in DOMAIN InOrder(OnTheTimeline) |-> Shot(InOrder(OnTheTimeline)[i])]
              /\ stage' = "record_video"
              /\ attempt' = 0
         ELSE AssemblyFails
  /\ UNCHANGED <<image, audio, storyAudio, manifest, records, drawn, narrating,
                 clip, length, pictured, selecting, vanished>>

RecordVideo(next) ==
  /\ stage = "record_video"
  /\ stage' = next
  /\ records' = records \cup {"video.json"}
  /\ UNCHANGED <<image, audio, storyAudio, manifest, movie, drawn, narrating, animating,
                 vanished>>

-----------------------------------------------------------------------------
(* Around both.                                                            *)

\* A write outside the try blocks raises, and leaves the file as it was or cut
\* short: a page's audio, the joined reading, its manifest; or a clip, the film
\* or its record, which nothing reads unless they are whole.  Nothing is retried.
WriteFault ==
  /\ \/ /\ stage = "speak"
        /\ \E p \in How("asking", speech) : audio' \in {audio, [audio EXCEPT ![p] = "cut"]}
        /\ UNCHANGED <<storyAudio, manifest>>
     \/ /\ stage = "speak" /\ Spoken /\ Parts # <<>>
        /\ storyAudio' \in {storyAudio} \cup {Joined(n) : n \in 0..(Len(Parts) - 1)}
        /\ UNCHANGED <<audio, manifest>>
     \/ /\ stage = "record_narration"
        /\ manifest' \in {manifest, [by |-> "cut", pages |-> {}]}
        /\ UNCHANGED <<audio, storyAudio>>
     \/ /\ stage = "record_video" \/ (stage = "encode" /\ How("encoding", clip) # {})
        /\ UNCHANGED <<audio, storyAudio, manifest>>
  /\ stage' = "failed"
  /\ UNCHANGED <<image, movie, records, drawn, narrating, animating, vanished>>

\* Somebody tidies the directory while the run goes on.
Vanish(p) ==
  /\ vanished < MaxVanished
  /\ \/ image[p] # "none" /\ image' = [image EXCEPT ![p] = "none"] /\ UNCHANGED audio
     \/ audio[p] # "none" /\ audio' = [audio EXCEPT ![p] = "none"] /\ UNCHANGED image
  /\ vanished' = vanished + 1
  /\ UNCHANGED <<stage, storyAudio, manifest, movie, records, drawn, narrating, animating>>
=============================================================================
