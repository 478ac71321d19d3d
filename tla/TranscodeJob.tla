----------------------------- MODULE TranscodeJob -----------------------------
(***************************************************************************)
(* One video through Worker.process (internal/worker/worker.go): the       *)
(* attempts made on it one after the other by workers whose settings may   *)
(* differ, the files each leaves on the worker's disk, in the storage and  *)
(* in the row, and what a shutdown, a crash, a failing statement and a     *)
(* DeleteVideo (internal/service/upload.go) do in between.                 *)
(*                                                                         *)
(* That attempts on a video do not overlap while heartbeats are timely is  *)
(* what TranscodeQueue is about.  A playlist stands for itself and its     *)
(* segments; each step of process() is one action, each upload another.    *)
(***************************************************************************)
EXTENDS Integers, FiniteSets

CONSTANTS
    Worker,          \* transcoder processes
    Setting,         \* thumbnail settings a worker may be configured with
    Settings,        \* Settings[w]: the settings of worker w
    Variant,         \* the codec and quality pairs that are encoded
    Mandatory,       \* those of H.264: their failure is fatal
    Audio,           \* the audio streams of the source
    MaxAttempts,     \* cfg.MaxAttempts
    Shutdowns,       \* workers may be told to stop
    DBErrors,        \* statements may fail, or be applied and their answer lost
    Crashes,         \* workers may die
    NoJob, None

ASSUME SettingsAssumption == Settings \in [Worker -> Setting] /\ None \notin Setting
ASSUME OutputAssumption == /\ Mandatory \subseteq Variant
                           /\ Variant \cap Audio = {}
                           /\ {"images", "master"} \cap (Variant \cup Audio) = {}
ASSUME BudgetAssumption == MaxAttempts \in Nat \ {0}
ASSUME EventAssumption == {Shutdowns, DBErrors, Crashes} \subseteq BOOLEAN

HlsFile == Variant \cup Audio \cup {"images", "master"}

(* The steps of process(), and "error": it returned one.                   *)
Step == {"download", "transcode", "audio", "tracks", "sprite", "master", "upload",
         "uploading", "thumbnails", "storyboard", "ready", "error"}

(* What the attempt in progress holds in its locals: the number of the     *)
(* attempt, the variants and audio renditions it made, whether it made a   *)
(* sprite, and the files it has yet to upload.                             *)
Job == [worker : Worker, attempt : 1 .. MaxAttempts, step : Step,
        variants : SUBSET Variant, audio : SUBSET Audio, sprite : BOOLEAN,
        todo : SUBSET HlsFile]

VARIABLES
    status, attempts,     \* the row: its queue columns,
    tracks, storyboard,   \* audio_tracks, and the settings storyboard describes
    original,             \* the storage: whether the original is there,
    hls, refs,            \* the HLS files, and what the stored master refers to,
    sprite,               \* and the settings the stored sprite was made with
    dir,                  \* dir[w]: the HLS files in the work directory on w
    job,                  \* the attempt in progress
    ctxDone,              \* its context is cancelled
    del                   \* what DeleteVideo does next

queue == <<status, attempts>>
results == <<tracks, storyboard>>
blobs == <<original, hls, refs, sprite>>
vars == <<status, attempts, tracks, storyboard, original, hls, refs, sprite,
          dir, job, ctxDone, del>>

Init == /\ status = "absent" /\ attempts = 0
        /\ tracks = {} /\ storyboard = None
        /\ original = FALSE /\ hls = {} /\ refs = {} /\ sprite = None
        /\ dir = [w \in Worker |-> {}]
        /\ job = NoJob /\ ctxDone = FALSE
        /\ del = "none"

Exists == status \notin {"absent", "deleted"}
Active == job # NoJob
Here == job.worker
At(step) == Active /\ job.step = step

-----------------------------------------------------------------------------
(* Faulty variants of definitions below, one plausible bug each.           *)

\* The first failure stops the uploads and is forgotten.
UploadFailsSilently == /\ At("uploading")
                       /\ ~ctxDone
                       /\ job.todo # {}
                       /\ job' = [job EXCEPT !.step = "thumbnails", !.todo = {}]
                       /\ UNCHANGED <<queue, results, blobs, dir, ctxDone, del>>

\* The storyboard is recorded although the sprite could not be uploaded.
UploadSpriteHasty == /\ At("thumbnails")
                     /\ sprite' \in {sprite, Settings[job.worker]}
                     /\ job' = [job EXCEPT !.step = IF job.sprite THEN "storyboard" ELSE "ready"]
                     /\ UNCHANGED <<queue, results, original, hls, refs, dir, ctxDone, del>>

\* The tracks recorded are those probed, not those extracted.
SetTracksProbed == /\ At("tracks")
                   /\ tracks' = IF Exists THEN Audio ELSE tracks
                   /\ job' = [job EXCEPT !.step = "sprite"]
                   /\ UNCHANGED <<queue, storyboard, blobs, dir, ctxDone, del>>

\* An attempt that fails is given back whatever the budget.
ConcludeRowForgiving ==
    IF ctxDone /\ status = "processing"
    THEN status' = "pending" /\ attempts' = IF attempts > 0 THEN attempts - 1 ELSE 0
    ELSE status' = (IF status = "processing" THEN "pending" ELSE status) /\ UNCHANGED attempts

-----------------------------------------------------------------------------
(* The API.                                                                *)

(* The original is stored, then the row inserted.                          *)
Upload == /\ status = "absent"
          /\ original' = TRUE
          /\ status' = "pending"
          /\ UNCHANGED <<attempts, results, hls, refs, sprite, dir, job, ctxDone, del>>

(* The insert returns an error, applied or not, and the original is        *)
(* removed again, best effort: the row may be queued without its original. *)
UploadUnsaved == /\ DBErrors
                 /\ status = "absent"
                 /\ status' \in {"absent", "pending"}
                 /\ original' \in BOOLEAN
                 /\ UNCHANGED <<attempts, results, hls, refs, sprite, dir, job, ctxDone, del>>

(* DeleteVideo removes the row first, then the three directories, each     *)
(* with an error that is only logged.                                      *)
DeleteRow == /\ Exists
             /\ status' = "deleted" /\ attempts' = 0
             /\ tracks' = {} /\ storyboard' = None
             /\ del' = "originals"
             /\ UNCHANGED <<blobs, dir, job, ctxDone>>

DeleteOriginals == /\ del = "originals"
                   /\ original' \in {FALSE, original}
                   /\ del' = "hls"
                   /\ UNCHANGED <<queue, results, hls, refs, sprite, dir, job, ctxDone>>

DeleteHls == /\ del = "hls"
             /\ \/ hls' = {} /\ refs' = {}
                \/ UNCHANGED <<hls, refs>>
             /\ del' = "thumbnails"
             /\ UNCHANGED <<queue, results, original, sprite, dir, job, ctxDone>>

DeleteThumbnails == /\ del = "thumbnails"
                    /\ sprite' \in {None, sprite}
                    /\ del' = "done"
                    /\ UNCHANGED <<queue, results, original, hls, refs, dir, job, ctxDone>>

-----------------------------------------------------------------------------
(* The attempt and its end.                                                *)

Claim(w) == /\ status = "pending"
            /\ ~Active
            /\ status' = "processing" /\ attempts' = attempts + 1
            /\ job' = [worker |-> w, attempt |-> attempts + 1, step |-> "download",
                       variants |-> {}, audio |-> {}, sprite |-> FALSE, todo |-> {}]
            /\ UNCHANGED <<results, blobs, dir, ctxDone, del>>

(* process() returns, and its deferred RemoveAll empties the work          *)
(* directory.                                                              *)
Cleaned == [dir EXCEPT ![Here] = {}]

Goto(step) == job' = [job EXCEPT !.step = step]

(* A step of process() that fails: the rest is skipped.                    *)
GiveUp == Goto("error") /\ UNCHANGED <<queue, results, blobs, dir, ctxDone, del>>

(* runJob: release, requeue or fail, guarded as the statements are.        *)
ConcludeRow ==
    IF ctxDone
    THEN IF status = "processing"
         THEN status' = "pending" /\ attempts' = IF attempts > 0 THEN attempts - 1 ELSE 0
         ELSE UNCHANGED queue
    ELSE IF job.attempt < MaxAttempts
    THEN status' = (IF status = "processing" THEN "pending" ELSE status) /\ UNCHANGED attempts
    ELSE status' = (IF Exists THEN "failed" ELSE status) /\ UNCHANGED attempts

(* An outcome write that fails is only logged.                             *)
Conclude == /\ At("error")
            /\ ConcludeRow \/ (DBErrors /\ UNCHANGED queue)
            /\ dir' = Cleaned
            /\ job' = NoJob /\ ctxDone' = FALSE
            /\ UNCHANGED <<results, blobs, del>>

(* ReclaimStale, by whichever worker runs it, on the row of a dead attempt.*)
Reclaim == /\ status = "processing"
           /\ ~Active
           /\ status' = IF attempts < MaxAttempts THEN "pending" ELSE "failed"
           /\ UNCHANGED <<attempts, results, blobs, dir, job, ctxDone, del>>

(* The worker is told to stop; what it has started is cancelled.           *)
Shutdown == /\ Shutdowns
            /\ Active
            /\ ~ctxDone
            /\ ctxDone' = TRUE
            /\ UNCHANGED <<queue, results, blobs, dir, job, del>>

(* The worker dies; its work directory stays on its disk.                  *)
Crash == /\ Crashes
         /\ Active
         /\ job' = NoJob /\ ctxDone' = FALSE
         /\ UNCHANGED <<queue, results, blobs, dir, del>>

-----------------------------------------------------------------------------
(* The steps of process().  Under a cancelled context every download,      *)
(* ffmpeg run and upload fails, but database statements do not.            *)

(* MkdirAll, the download of the original, the probe and setMetadata: each *)
(* error is fatal.                                                         *)
Download == /\ At("download")
            /\ \/ GiveUp
               \/ /\ ~ctxDone /\ original
                  /\ Goto("transcode")
                  /\ UNCHANGED <<queue, results, blobs, dir, ctxDone, del>>

(* An ffmpeg run that fails may leave its output behind.                   *)
Written(made, possible) == \E left \in SUBSET possible :
                              dir' = [dir EXCEPT ![Here] = @ \cup made \cup left]

(* TranscodeHLS: optional codecs that fail are skipped.                    *)
Transcode == /\ At("transcode")
             /\ \/ Goto("error") /\ Written({}, Variant)
                \/ \E V \in SUBSET Variant :
                      /\ Mandatory \subseteq V
                      /\ ctxDone => V = {}
                      /\ job' = [job EXCEPT !.step = "audio", !.variants = V]
                      /\ Written(V, Variant)
             /\ UNCHANGED <<queue, results, blobs, ctxDone, del>>

(* ExtractAudio and ExtractSubtitles: streams that fail are skipped.       *)
ExtractAudio == /\ At("audio")
                /\ \E A \in SUBSET Audio :
                      /\ ctxDone => A = {}
                      /\ job' = [job EXCEPT !.step = "tracks", !.audio = A]
                      /\ Written(A, Audio)
                /\ UNCHANGED <<queue, results, blobs, ctxDone, del>>

(* setTracks: an error is not fatal.                                       *)
SetTracks == /\ At("tracks")
             /\ \/ tracks' = IF Exists THEN job.audio ELSE tracks
                \/ DBErrors /\ UNCHANGED tracks
             /\ Goto("sprite")
             /\ UNCHANGED <<queue, storyboard, blobs, dir, ctxDone, del>>

(* The sprite, and from it the image stream: neither error is fatal.       *)
MakeSprite == /\ At("sprite")
              /\ \E made \in BOOLEAN :
                    /\ made => ~ctxDone
                    /\ job' = [job EXCEPT !.step = "master", !.sprite = made]
                    /\ \/ UNCHANGED dir
                       \/ made /\ dir' = [dir EXCEPT ![Here] = @ \cup {"images"}]
              /\ UNCHANGED <<queue, results, blobs, ctxDone, del>>

WriteMaster == /\ At("master")
               /\ \/ GiveUp
                  \/ /\ Goto("upload")
                     /\ dir' = [dir EXCEPT ![Here] = @ \cup {"master"}]
                     /\ UNCHANGED <<queue, results, blobs, ctxDone, del>>

(* What the master playlist on disk refers to: what was made, and the      *)
(* image stream if its playlist is in the directory.                       *)
References == job.variants \cup job.audio \cup (dir[Here] \cap {"images"})

(* uploadHLS, see UploadPool.  If the context is cancelled before it       *)
(* starts, every goroutine leaves without an error, and so does it.        *)
StartUpload == /\ At("upload")
               /\ \/ Goto("error")       \* the Walk failed
                  \/ ctxDone /\ Goto("thumbnails")
                  \/ ~ctxDone /\ job' = [job EXCEPT !.step = "uploading", !.todo = dir[Here]]
               /\ UNCHANGED <<queue, results, blobs, dir, ctxDone, del>>

Stored(f) == /\ hls' = hls \cup {f}
             /\ refs' = IF f = "master" THEN References ELSE refs

(* One file is stored, an upload in flight at the cancellation included.   *)
UploadFile(f) == /\ At("uploading")
                 /\ f \in job.todo
                 /\ Stored(f)
                 /\ job' = [job EXCEPT !.todo = @ \ {f}]
                 /\ UNCHANGED <<queue, results, original, sprite, dir, ctxDone, del>>

(* An upload fails, of its own or for the cancellation; the file may have  *)
(* reached the storage all the same.                                       *)
UploadFails == /\ At("uploading")
               /\ \E f \in job.todo :
                     \/ UNCHANGED <<hls, refs>>
                     \/ Stored(f)
               /\ job' = [job EXCEPT !.step = "error", !.todo = {}]
               /\ UNCHANGED <<queue, results, original, sprite, dir, ctxDone, del>>

(* The goroutines that have not started leave silently, the others ended   *)
(* well.                                                                   *)
UploadSkips == /\ At("uploading")
               /\ ctxDone
               /\ job' = [job EXCEPT !.step = "thumbnails", !.todo = {}]
               /\ UNCHANGED <<queue, results, blobs, dir, ctxDone, del>>

UploadDone == /\ At("uploading")
              /\ job.todo = {}
              /\ Goto("thumbnails")
              /\ UNCHANGED <<queue, results, blobs, dir, ctxDone, del>>

(* The sprite replaces the one in the storage.  A failure, after which it  *)
(* may be there or not, is not fatal, and then no storyboard is recorded.  *)
UploadSprite == /\ At("thumbnails")
                /\ \/ /\ job.sprite /\ ~ctxDone
                      /\ sprite' = Settings[Here]
                      /\ Goto("storyboard")
                   \/ /\ sprite' \in {sprite} \cup (IF job.sprite THEN {Settings[Here]} ELSE {})
                      /\ Goto("ready")
                /\ UNCHANGED <<queue, results, original, hls, refs, dir, ctxDone, del>>

SetStoryboard == /\ At("storyboard")
                 /\ \/ storyboard' = IF Exists THEN Settings[Here] ELSE storyboard
                    \/ DBErrors /\ UNCHANGED storyboard
                 /\ Goto("ready")
                 /\ UNCHANGED <<queue, tracks, blobs, dir, ctxDone, del>>

SetReady == /\ At("ready")
            /\ status' = IF Exists THEN "ready" ELSE status
            /\ dir' = Cleaned
            /\ job' = NoJob /\ ctxDone' = FALSE
            /\ UNCHANGED <<attempts, results, blobs, del>>

(* UpdateStatus returns an error, applied or not.                          *)
SetReadyFails == /\ At("ready")
                 /\ DBErrors
                 /\ status' \in {status, IF Exists THEN "ready" ELSE status}
                 /\ Goto("error")
                 /\ UNCHANGED <<attempts, results, blobs, dir, ctxDone, del>>

ApiNext == Upload \/ UploadUnsaved \/ DeleteRow \/ DeleteOriginals \/ DeleteHls \/ DeleteThumbnails

ProcessNext == \/ Download \/ Transcode \/ ExtractAudio \/ SetTracks \/ MakeSprite
               \/ WriteMaster \/ StartUpload \/ (\E f \in HlsFile : UploadFile(f))
               \/ UploadFails \/ UploadSkips \/ UploadDone \/ UploadSprite
               \/ SetStoryboard \/ SetReady \/ SetReadyFails

Next == \/ ApiNext
        \/ \E w \in Worker : Claim(w)
        \/ Conclude \/ Reclaim \/ Shutdown \/ Crash
        \/ ProcessNext

Spec == Init /\ [][Next]_vars

-----------------------------------------------------------------------------
TypeOK == /\ status \in {"absent", "pending", "processing", "ready", "failed", "deleted"}
          /\ attempts \in 0 .. MaxAttempts
          /\ tracks \in SUBSET Audio
          /\ storyboard \in Setting \cup {None}
          /\ original \in BOOLEAN
          /\ hls \in SUBSET HlsFile
          /\ refs \in SUBSET HlsFile
          /\ sprite \in Setting \cup {None}
          /\ dir \in [Worker -> SUBSET HlsFile]
          /\ job \in Job \cup {NoJob}
          /\ ctxDone \in BOOLEAN
          /\ del \in {"none", "originals", "hls", "thumbnails", "done"}

(* A ready video can be played: the master playlist is stored, everything  *)
(* it refers to is stored, and it refers to every mandatory variant.       *)
(* Attempts that failed half-way through an upload, and work directories   *)
(* left by a crash, do not break this.  Checked without shutdowns.         *)
Playable == "master" \in hls /\ refs \subseteq hls /\ Mandatory \subseteq refs

ReadyIsPlayable == status = "ready" => Playable

(* The audio tracks the API lists for a ready video (service/video.go:     *)
(* 114-160) are stored and in its master playlist, although the row is     *)
(* written by one statement and the storage by many.  Checked where        *)
(* statements do not fail.                                                 *)
ListedTracksExist == status = "ready" => tracks \subseteq hls \cap refs

(* Scrubbing cues never point to a sprite that is not there: a row with a  *)
(* storyboard has a stored sprite (worker.go:309-316), over retries,       *)
(* crashes and shutdowns.                                                  *)
StoryboardHasSprite == storyboard # None => sprite # None

(* The row follows the lifecycle of VideoLifecycle, and so process() and   *)
(* runJob do what TranscodeQueue abstracts them to.  Checked where         *)
(* statements do not fail.                                                 *)
Life == INSTANCE VideoLifecycle
            WITH Video <- {1},
                 status <- [v \in {1} |-> status],
                 attempts <- [v \in {1} |-> attempts]

JobLifecycle == Life!Spec

(* While an attempt uploads, what is left, what is stored and what the     *)
(* call returns change only as HlsUpload says, which UploadPool implements *)
(* (worker.go:290, 329-377), a deletion of the video apart.                *)
UploadPhase == CASE At("uploading") -> "uploading"
                 [] At("thumbnails") -> "nil"
                 [] OTHER -> "error"

Pool == INSTANCE HlsUpload WITH File <- HlsFile, phase <- UploadPhase, todo <- job.todo

UploadsAsPromised == [][At("uploading") /\ Active' /\ UNCHANGED del
                            => Pool!Next \/ UNCHANGED Pool!uvars]_vars

(* What the code does not keep.                                            *)
(* ShutdownReleases: "on graceful shutdown in-flight jobs are released     *)
(* back to 'pending'" (worker.go:8-9), so no video becomes ready without   *)
(* its files because the worker was stopped.                               *)
ShutdownReleases == status = "ready" => Playable
=============================================================================
