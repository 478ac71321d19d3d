------------------------- MODULE TranscodeJobProofs -------------------------
(***************************************************************************)
(* Safety of TranscodeJob for every set of workers, variants, audio        *)
(* streams and settings, and every number of attempts.                     *)
(***************************************************************************)
EXTENDS TranscodeJob, TLAPS

-----------------------------------------------------------------------------
(* The row and the attempt in progress.                                    *)

(* What the queue columns say of each other: an attempt in progress has    *)
(* the row, unless the video was deleted or became ready by a statement    *)
(* whose answer was lost.                                                  *)
Row == /\ status \in {"absent", "deleted"} => attempts = 0
       /\ status = "pending" => attempts < MaxAttempts
       /\ status = "failed" => attempts = MaxAttempts
       /\ Active => /\ status \in {"processing", "ready", "deleted"}
                    /\ status = "ready" => DBErrors /\ job.step = "error"
                    /\ status # "deleted" => attempts = job.attempt
       /\ del # "none" => status = "deleted"

QueueInv == TypeOK /\ Row

\* The record of an attempt.
LEMMA JobRecord ==
    ASSUME TypeOK, Active
    PROVE  job \in Job /\ Here \in Worker
BY DEF TypeOK, Active, Here, Job

LEMMA QueueInit == Init => QueueInv
<1> SUFFICES ASSUME Init PROVE QueueInv
  OBVIOUS
<1>1. dir \in [Worker -> SUBSET HlsFile]
  BY DEF Init
<1>2. attempts \in 0 .. MaxAttempts
  BY BudgetAssumption DEF Init
<1>3. TypeOK
  BY <1>1, <1>2 DEF Init, TypeOK
<1>4. Row
  BY DEF Init, Row, Active
<1> QED BY <1>3, <1>4 DEF QueueInv

\* The steps of process(), the last apart, keep the types.
LEMMA ProcessTypes ==
    ASSUME TypeOK, ProcessNext
    PROVE  /\ TypeOK'
           /\ Active /\ job.step # "error"
           /\ UNCHANGED <<attempts, del>>
           /\ \/ job' \in Job /\ job'.attempt = job.attempt
              \/ SetReady
<1>0. Active
  BY DEF ProcessNext, Download, Transcode, ExtractAudio, SetTracks, MakeSprite, WriteMaster,
         StartUpload, UploadFile, UploadFails, UploadSkips, UploadDone, UploadSprite,
         SetStoryboard, SetReady, SetReadyFails, At
<1>1. job \in Job /\ Here \in Worker /\ Settings[Here] \in Setting
  BY <1>0, JobRecord, SettingsAssumption
<1>2. ASSUME NEW step \in Step, Goto(step)
      PROVE  job' \in Job /\ job'.attempt = job.attempt
  BY <1>1, <1>2 DEF Goto, Job
<1> USE DEF At, TypeOK, queue, results, blobs
<1>3. CASE Download
  BY <1>0, <1>2, <1>3 DEF Download, GiveUp, Step
<1>w. ASSUME NEW made \in SUBSET HlsFile, NEW possible \in SUBSET HlsFile, Written(made, possible)
      PROVE  dir' \in [Worker -> SUBSET HlsFile]
  BY <1>w DEF Written
<1>4. CASE Transcode
  <2>1. CASE Goto("error") /\ Written({}, Variant)
    BY <1>0, <1>2, <1>4, <1>w, <2>1 DEF Transcode, Step, HlsFile
  <2>2. ASSUME NEW V \in SUBSET Variant,
               job' = [job EXCEPT !.step = "audio", !.variants = V], Written(V, Variant)
        PROVE  TypeOK' /\ job' \in Job /\ job'.attempt = job.attempt
    <3>1. job' \in Job /\ job'.attempt = job.attempt
      BY <1>1, <2>2 DEF Job, Step
    <3> QED BY <1>4, <1>w, <2>2, <3>1 DEF Transcode, HlsFile
  <2> QED BY <1>0, <1>4, <2>1, <2>2 DEF Transcode
<1>5. CASE ExtractAudio
  <2>1. PICK A \in SUBSET Audio :
           job' = [job EXCEPT !.step = "tracks", !.audio = A] /\ Written(A, Audio)
    BY <1>5 DEF ExtractAudio
  <2>2. job' \in Job /\ job'.attempt = job.attempt
    BY <1>1, <2>1 DEF Job, Step
  <2> QED BY <1>0, <1>5, <1>w, <2>1, <2>2 DEF ExtractAudio, HlsFile
<1>6. CASE SetTracks
  <2>1. tracks' \in SUBSET Audio
    BY <1>1, <1>6 DEF SetTracks, Job
  <2> QED BY <1>0, <1>2, <1>6, <2>1 DEF SetTracks, Step
<1>7. CASE MakeSprite
  <2>1. PICK made \in BOOLEAN : job' = [job EXCEPT !.step = "master", !.sprite = made]
    BY <1>7 DEF MakeSprite
  <2>2. job' \in Job /\ job'.attempt = job.attempt
    BY <1>1, <2>1 DEF Job, Step
  <2>3. dir' \in [Worker -> SUBSET HlsFile]
    BY <1>1, <1>7 DEF MakeSprite, HlsFile
  <2> QED BY <1>0, <1>7, <2>2, <2>3 DEF MakeSprite
<1>8. CASE WriteMaster
  <2>1. dir' \in [Worker -> SUBSET HlsFile]
    BY <1>1, <1>8 DEF WriteMaster, GiveUp, HlsFile
  <2> QED BY <1>0, <1>2, <1>8, <2>1 DEF WriteMaster, GiveUp, Step
<1>9. CASE StartUpload
  <2>1. CASE job' = [job EXCEPT !.step = "uploading", !.todo = dir[Here]]
    <3>1. job' \in Job /\ job'.attempt = job.attempt
      BY <1>1, <2>1 DEF Job, Step
    <3> QED BY <1>0, <1>9, <3>1 DEF StartUpload
  <2> QED BY <1>0, <1>2, <1>9, <2>1 DEF StartUpload, Step
<1>r. References \in SUBSET HlsFile
  BY <1>1 DEF References, Job, HlsFile
<1>10. ASSUME NEW f \in HlsFile, UploadFile(f)
       PROVE  TypeOK' /\ job' \in Job /\ job'.attempt = job.attempt
  <2>1. job' \in Job /\ job'.attempt = job.attempt
    BY <1>1, <1>10 DEF UploadFile, Job
  <2> QED BY <1>10, <1>r, <2>1 DEF UploadFile, Stored
<1>11. CASE UploadFails
  <2>1. hls' \in SUBSET HlsFile /\ refs' \in SUBSET HlsFile
    BY <1>1, <1>11, <1>r DEF UploadFails, Stored, Job
  <2>2. job' \in Job /\ job'.attempt = job.attempt
    BY <1>1, <1>11 DEF UploadFails, Job, Step
  <2> QED BY <1>0, <1>11, <2>1, <2>2 DEF UploadFails
<1>12. CASE UploadSkips
  <2>1. job' \in Job /\ job'.attempt = job.attempt
    BY <1>1, <1>12 DEF UploadSkips, Job, Step
  <2> QED BY <1>0, <1>12, <2>1 DEF UploadSkips
<1>13. CASE UploadDone
  BY <1>0, <1>2, <1>13 DEF UploadDone, Step
<1>14. CASE UploadSprite
  <2>1. sprite' \in Setting \cup {None}
    BY <1>1, <1>14 DEF UploadSprite
  <2> QED BY <1>0, <1>2, <1>14, <2>1 DEF UploadSprite, Step
<1>15. CASE SetStoryboard
  <2>1. storyboard' \in Setting \cup {None}
    BY <1>1, <1>15 DEF SetStoryboard
  <2> QED BY <1>0, <1>2, <1>15, <2>1 DEF SetStoryboard, Step
<1>16. CASE SetReady
  <2>1. dir' \in [Worker -> SUBSET HlsFile]
    BY <1>16 DEF SetReady, Cleaned
  <2> QED BY <1>0, <1>16, <2>1 DEF SetReady
<1>17. CASE SetReadyFails
  BY <1>0, <1>2, <1>17 DEF SetReadyFails, Step
<1> QED
  <2> HIDE DEF TypeOK, queue, results, blobs
  <2>1. job.step # "error"
    BY DEF ProcessNext, Download, Transcode, ExtractAudio, SetTracks, MakeSprite, WriteMaster,
           StartUpload, UploadFile, UploadFails, UploadSkips, UploadDone, UploadSprite,
           SetStoryboard, SetReady, SetReadyFails
  <2>2. UNCHANGED <<attempts, del>>
    BY DEF ProcessNext, Download, GiveUp, Transcode, ExtractAudio, SetTracks, MakeSprite,
           WriteMaster, StartUpload, UploadFile, UploadFails, UploadSkips, UploadDone,
           UploadSprite, SetStoryboard, SetReady, SetReadyFails, queue
  <2> QED BY <1>0, <1>3, <1>4, <1>5, <1>6, <1>7, <1>8, <1>9, <1>10, <1>11, <1>12, <1>13,
             <1>14, <1>15, <1>16, <1>17, <2>1, <2>2 DEF ProcessNext

\* What a step of process() does to the row: at most, the last makes it ready.
LEMMA ProcessRow ==
    ASSUME QueueInv, ProcessNext
    PROVE  /\ Row'
           /\ \/ status' = status
              \/ status = "processing" /\ status' = "ready" /\ At("ready")
<1>1. /\ Active /\ job.step # "error"
      /\ UNCHANGED <<attempts, del>>
      /\ \/ job' \in Job /\ job'.attempt = job.attempt
         \/ SetReady
  BY ProcessTypes DEF QueueInv
<1>2. CASE SetReady
  BY <1>1, <1>2 DEF SetReady, QueueInv, Row, Active, Exists, At
<1>3. CASE SetReadyFails
  <2>1. job'.step = "error"
    BY <1>1, <1>3 DEF SetReadyFails, Goto, QueueInv, TypeOK, Active, Job
  <2> QED BY <1>1, <1>3, <2>1 DEF SetReadyFails, SetReady, QueueInv, Row, Active, Exists, At
<1>4. CASE ~SetReady /\ ~SetReadyFails
  <2>1. status' = status
    BY <1>4 DEF ProcessNext, Download, GiveUp, Transcode, ExtractAudio, SetTracks, MakeSprite,
                WriteMaster, StartUpload, UploadFile, UploadFails, UploadSkips, UploadDone,
                UploadSprite, SetStoryboard, queue
  <2> QED BY <1>1, <1>4, <2>1 DEF QueueInv, Row, Active
<1> QED BY <1>2, <1>3, <1>4

LEMMA QueueStep == QueueInv /\ [Next]_vars => QueueInv'
<1> SUFFICES ASSUME QueueInv, [Next]_vars PROVE QueueInv'
  OBVIOUS
<1> USE BudgetAssumption DEF QueueInv, TypeOK, Row, Active, queue, results, blobs
<1>1. CASE ApiNext
  <2>1. CASE Upload
    BY <2>1 DEF Upload
  <2>2. CASE UploadUnsaved
    BY <2>2 DEF UploadUnsaved
  <2>3. CASE DeleteRow
    BY <2>3 DEF DeleteRow
  <2>4. CASE DeleteOriginals
    BY <2>4 DEF DeleteOriginals
  <2>5. CASE DeleteHls
    BY <2>5 DEF DeleteHls
  <2>6. CASE DeleteThumbnails
    BY <2>6 DEF DeleteThumbnails
  <2> QED BY <1>1, <2>1, <2>2, <2>3, <2>4, <2>5, <2>6 DEF ApiNext
<1>2. ASSUME NEW w \in Worker, Claim(w) PROVE QueueInv'
  <2>1. job' \in Job /\ job'.attempt = attempts + 1
    BY <1>2 DEF Claim, Job, Step
  <2> QED BY <1>2, <2>1 DEF Claim
<1>3. CASE Conclude
  <2>1. dir' \in [Worker -> SUBSET HlsFile]
    BY <1>3 DEF Conclude, Cleaned
  <2>2. job' = NoJob /\ ctxDone' = FALSE
        /\ UNCHANGED <<tracks, storyboard, original, hls, refs, sprite, del>>
        /\ job \in Job /\ job.attempt \in 1 .. MaxAttempts
    BY <1>3 DEF Conclude, At, Job
  <2>3. /\ status' \in {status, "pending", "failed"} /\ attempts' \in 0 .. MaxAttempts
        /\ status' # status /\ status' = "pending" => attempts' < MaxAttempts
        /\ status' # status /\ status' = "failed" => attempts' = MaxAttempts
        /\ status' = status => attempts' = attempts
        /\ status \in {"deleted", "absent"} => status' = status
    BY <1>3, <2>2 DEF Conclude, ConcludeRow, At, Exists
  <2> QED BY <2>1, <2>2, <2>3
<1>4. CASE Reclaim
  BY <1>4 DEF Reclaim
<1>5. CASE Shutdown
  BY <1>5 DEF Shutdown
<1>6. CASE Crash
  BY <1>6 DEF Crash
<1>7. CASE ProcessNext
  <2> HIDE DEF QueueInv, TypeOK, Row, Active
  <2> QED BY <1>7, ProcessTypes, ProcessRow DEF QueueInv
<1>8. CASE UNCHANGED vars
  BY <1>8 DEF vars
<1> QED BY <1>1, <1>2, <1>3, <1>4, <1>5, <1>6, <1>7, <1>8 DEF Next

LEMMA QueueInvariant == Spec => []QueueInv
BY QueueInit, QueueStep, PTL DEF Spec

(* The row, the files and the locals of the attempt keep their types, the  *)
(* attempts stay within the budget among them (worker.go:205-327).         *)
THEOREM JobTypeCorrect == Spec => []TypeOK
BY QueueInvariant, PTL DEF QueueInv

-----------------------------------------------------------------------------
(* The sprite and the storyboard.                                          *)

(* A storyboard is recorded only after the sprite was stored, and only a   *)
(* deletion removes a sprite, after the row.                               *)
Story == /\ StoryboardHasSprite
         /\ ~Exists => storyboard = None
         /\ At("storyboard") => sprite # None \/ ~Exists

LEMMA StoryInit == Init => Story
BY DEF Init, Story, StoryboardHasSprite, At, Active, Exists

\* Once the row is gone it stays gone while an attempt is in progress.
LEMMA StoryStep == QueueInv /\ Story /\ [Next]_vars => Story'
<1> SUFFICES ASSUME QueueInv, Story, [Next]_vars PROVE Story'
  OBVIOUS
<1> USE DEF Story, StoryboardHasSprite, Exists, At, Active, queue, results, blobs
<1>1. CASE ApiNext
  <2>1. Row /\ (Active => job' = job)
    BY <1>1 DEF QueueInv, ApiNext, Upload, UploadUnsaved, DeleteRow, DeleteOriginals, DeleteHls,
                DeleteThumbnails
  <2> QED BY <1>1, <2>1 DEF Row, ApiNext, Upload, UploadUnsaved, DeleteRow, DeleteOriginals,
                            DeleteHls, DeleteThumbnails
<1>2. ASSUME NEW w \in Worker, Claim(w) PROVE Story'
  <2>1. job'.step = "download"
    BY <1>2 DEF Claim
  <2> QED BY <1>2, <2>1 DEF Claim
<1>3. CASE Conclude
  BY <1>3 DEF Conclude, ConcludeRow
<1>4. CASE Reclaim \/ Shutdown \/ Crash \/ UNCHANGED vars
  BY <1>4 DEF Reclaim, Shutdown, Crash, vars
<1>5. CASE ProcessNext
  <2>1. /\ Active
        /\ status' = status \/ (Exists /\ status' = "ready")
        /\ job \in Job /\ Here \in Worker /\ Settings[Here] \in Setting /\ Settings[Here] # None
        /\ job' \in Job \/ job' = NoJob
    BY <1>5, ProcessTypes, ProcessRow, JobRecord, SettingsAssumption DEF QueueInv, TypeOK
  <2>g. ASSUME NEW step \in Step, Goto(step) PROVE job'.step = step
    BY <2>1, <2>g DEF Goto, Job
  <2>2. CASE UploadSprite
    BY <2>1, <2>2, <2>g DEF UploadSprite, Step
  <2>3. CASE SetStoryboard
    BY <2>1, <2>3, <2>g DEF SetStoryboard, Step
  <2>4. CASE ~UploadSprite /\ ~SetStoryboard
    <3>1. UNCHANGED <<storyboard, sprite>>
      BY <1>5, <2>4 DEF ProcessNext, Download, GiveUp, Transcode, ExtractAudio, SetTracks,
                        MakeSprite, WriteMaster, StartUpload, UploadFile, UploadFails,
                        UploadSkips, UploadDone, SetReady, SetReadyFails
    <3>2. job' = NoJob \/ job'.step # "storyboard"
      <4>1. CASE Transcode
        BY <2>1, <2>g, <4>1 DEF Transcode, Job, Step
      <4>a. CASE ExtractAudio
        BY <2>1, <4>a DEF ExtractAudio, Job
      <4>s. CASE MakeSprite
        BY <2>1, <4>s DEF MakeSprite, Job
      <4>2. CASE StartUpload
        BY <2>1, <2>g, <4>2 DEF StartUpload, Job, Step
      <4>f. ASSUME NEW f \in HlsFile, UploadFile(f) PROVE job'.step # "storyboard"
        BY <2>1, <4>f DEF UploadFile, Job
      <4>k. CASE UploadSkips
        BY <2>1, <4>k DEF UploadSkips, Job
      <4>u. CASE UploadFails
        BY <2>1, <4>u DEF UploadFails, Job
      <4>3. CASE \/ Download \/ SetTracks \/ WriteMaster \/ UploadDone
                \/ SetReady \/ SetReadyFails
        BY <2>g, <4>3 DEF Download, GiveUp, SetTracks, WriteMaster, UploadDone,
                          SetReady, SetReadyFails, Step
      <4> QED BY <1>5, <2>4, <4>1, <4>a, <4>s, <4>2, <4>f, <4>k, <4>u, <4>3 DEF ProcessNext
    <3> QED BY <2>1, <3>1, <3>2
  <2> QED BY <2>2, <2>3, <2>4
<1> QED BY <1>1, <1>2, <1>3, <1>4, <1>5 DEF Next

(* Scrubbing cues never point to a sprite that is not there, whatever      *)
(* statements fail, workers stop or die, and whatever DeleteVideo removes  *)
(* (worker.go:309-316).                                                    *)
THEOREM CuesHaveTheirSprite == Spec => []StoryboardHasSprite
<1>1. Spec => []Story
  BY QueueInvariant, StoryInit, StoryStep, PTL DEF Spec
<1> QED BY <1>1, PTL DEF Story

-----------------------------------------------------------------------------
(* The files of an attempt and of a ready video, without shutdowns.        *)

In(steps) == Active /\ job.step \in steps

Uploading == {"upload", "uploading"}
Uploaded == {"thumbnails", "storyboard", "ready"}
Extracted == {"tracks", "sprite", "master"} \cup Uploading \cup Uploaded
Encoded == {"audio"} \cup Extracted

(* What the attempt has made is on the worker's disk until it ends; what   *)
(* it has uploaded is in the storage, and the master it stored refers to   *)
(* what it made; a row that is ready kept its files.                       *)
Made == /\ In(Encoded) => Mandatory \subseteq job.variants /\ job.variants \subseteq dir[Here]
        /\ In(Extracted) => job.audio \subseteq dir[Here]
        /\ In(Uploading) => "master" \in dir[Here]

Sent == At("uploading") /\ Exists => /\ dir[Here] \ job.todo \subseteq hls
                                     /\ "master" \notin job.todo => refs = References

Complete == "master" \in hls /\ refs \subseteq hls /\ job.variants \cup job.audio \subseteq refs

Files == /\ ctxDone = FALSE
         /\ Made
         /\ Sent
         /\ In(Uploaded) /\ Exists => Complete
         /\ ReadyIsPlayable

(* Without failing statements, the tracks of the row are those of the      *)
(* attempt from the moment they are written.                               *)
Listed == /\ In(Extracted \ {"tracks"}) /\ Exists => tracks = job.audio
          /\ ListedTracksExist

\* What a step that only moves on keeps of the attempt.
LEMMA GotoKeeps ==
    ASSUME job \in Job, NEW step \in Step, Goto(step)
    PROVE  /\ job'.step = step
           /\ job'.worker = job.worker /\ job'.variants = job.variants /\ job'.audio = job.audio
           /\ job'.todo = job.todo
BY DEF Goto, Job

LEMMA FilesInit == Init => Files
BY DEF Init, Files, Made, Sent, In, At, Active, ReadyIsPlayable

\* A step outside process() neither starts nor changes what an attempt has made.
LEMMA FilesAround ==
    ASSUME ~Shutdowns, QueueInv, Files, [Next]_vars, ~ProcessNext
    PROVE  Files'
<1> USE DEF Files, Made, Sent, ReadyIsPlayable, In, At, Active, Exists, queue, results, blobs
<1>1. CASE ApiNext
  <2>1. CASE Upload \/ UploadUnsaved \/ DeleteRow
    <3>1. ~Active \/ status' = "deleted"
      BY <2>1 DEF QueueInv, Row, Upload, UploadUnsaved, DeleteRow
    <3>2. status' \in {"absent", "pending", "deleted"} /\ UNCHANGED <<hls, refs, dir, job, ctxDone>>
      BY <2>1 DEF Upload, UploadUnsaved, DeleteRow
    <3> QED BY <3>1, <3>2 DEF Here
  <2>2. CASE DeleteOriginals \/ DeleteHls \/ DeleteThumbnails
    <3>1. status = "deleted" /\ status' = "deleted" /\ UNCHANGED <<dir, job, ctxDone>>
      BY <2>2 DEF QueueInv, Row, DeleteOriginals, DeleteHls, DeleteThumbnails
    <3> QED BY <3>1 DEF Here
  <2> QED BY <1>1, <2>1, <2>2 DEF ApiNext
<1>2. ASSUME NEW w \in Worker, Claim(w) PROVE Files'
  <2>1. job'.step = "download" /\ status' = "processing" /\ ctxDone' = ctxDone
    BY <1>2 DEF Claim
  <2> QED BY <2>1 DEF Encoded, Extracted, Uploading, Uploaded
<1>3. CASE Conclude \/ Reclaim \/ Crash
  <2>1. job' = NoJob /\ ctxDone' = FALSE /\ UNCHANGED <<hls, refs>>
    BY <1>3 DEF Conclude, Reclaim, Crash
  <2>2. status' = "ready" => status = "ready"
    BY <1>3 DEF Conclude, ConcludeRow, Reclaim, Crash
  <2> QED BY <2>1, <2>2 DEF Playable
<1>4. CASE Shutdown
  BY <1>4 DEF Shutdown
<1>5. CASE UNCHANGED vars
  BY <1>5 DEF vars, Here, References, Complete, Playable
<1> QED BY <1>1, <1>2, <1>3, <1>4, <1>5 DEF Next

\* Each step of process() adds to what the attempt has made, or uploads it.
LEMMA FilesProcess ==
    ASSUME ~Shutdowns, QueueInv, Files, ProcessNext
    PROVE  Files'
<1>1. /\ Active /\ job.step # "error" /\ ctxDone = FALSE
      /\ job \in Job /\ Here \in Worker /\ dir \in [Worker -> SUBSET HlsFile]
      /\ status # "ready"
  BY ProcessTypes, JobRecord DEF QueueInv, TypeOK, Row, Files
<1>g. ASSUME NEW step \in Step, Goto(step)
      PROVE  /\ job'.step = step
             /\ job'.worker = job.worker /\ job'.variants = job.variants
             /\ job'.audio = job.audio /\ job'.todo = job.todo
  BY <1>1, <1>g, GotoKeeps
<1>w. ASSUME NEW made \in SUBSET HlsFile, NEW possible \in SUBSET HlsFile, Written(made, possible)
      PROVE  dir[Here] \cup made \subseteq dir'[Here]
  BY <1>1, <1>w DEF Written
<1>o. Variant \subseteq HlsFile /\ Audio \subseteq HlsFile /\ "master" \notin Variant \cup Audio
  BY OutputAssumption DEF HlsFile
<1>e. ASSUME UNCHANGED <<status, hls, refs, ctxDone>>, job'.step = "error" PROVE Files'
  BY <1>1, <1>e DEF Files, Made, Sent, In, At, Encoded, Extracted, Uploading, Uploaded,
                    ReadyIsPlayable
<1> USE DEF queue, results, blobs
<1>2. CASE Download
  <2>1. job'.step \in {"error", "transcode"} /\ UNCHANGED <<status, ctxDone>>
    BY <1>2, <1>g DEF Download, GiveUp, Step
  <2> QED BY <1>1, <2>1 DEF Files, Made, Sent, In, At, Encoded, Extracted, Uploading, Uploaded,
                            ReadyIsPlayable
<1>3. CASE Transcode
  <2>1. CASE Goto("error")
    BY <1>3, <1>e, <1>g, <2>1 DEF Transcode, Step
  <2>2. ASSUME NEW V \in SUBSET Variant, Mandatory \subseteq V,
               job' = [job EXCEPT !.step = "audio", !.variants = V], Written(V, Variant)
        PROVE  Files'
    <3>1. job'.step = "audio" /\ job'.variants = V /\ job'.worker = job.worker
      BY <1>1, <2>2 DEF Job
    <3>2. V \subseteq dir'[Here]
      BY <1>o, <1>w, <2>2
    <3>3. status' = status /\ ctxDone' = ctxDone
      BY <1>3 DEF Transcode
    <3> QED BY <1>1, <2>2, <3>1, <3>2, <3>3
            DEF Files, Made, Sent, In, At, Encoded, Extracted, Uploading, Uploaded,
                ReadyIsPlayable, Here
  <2> QED BY <1>3, <2>1, <2>2 DEF Transcode
<1>4. CASE ExtractAudio
  <2>1. PICK A \in SUBSET Audio :
           job' = [job EXCEPT !.step = "tracks", !.audio = A] /\ Written(A, Audio)
    BY <1>4 DEF ExtractAudio
  <2>2. job'.step = "tracks" /\ job'.audio = A /\ job'.variants = job.variants
        /\ job'.worker = job.worker
    BY <1>1, <2>1 DEF Job
  <2>3. dir[Here] \cup A \subseteq dir'[Here]
    BY <1>o, <1>w, <2>1
  <2>4. status' = status /\ ctxDone' = ctxDone /\ job.step = "audio"
    BY <1>4 DEF ExtractAudio, At
  <2> QED BY <1>1, <2>2, <2>3, <2>4
          DEF Files, Made, Sent, In, At, Encoded, Extracted, Uploading, Uploaded,
              ReadyIsPlayable, Here
<1>5. CASE SetTracks
  BY <1>1, <1>5, <1>g
     DEF SetTracks, Step, Files, Made, Sent, In, At, Encoded, Extracted, Uploading, Uploaded,
         ReadyIsPlayable, Here
<1>6. CASE MakeSprite
  <2>1. job'.step = "master" /\ job'.audio = job.audio /\ job'.variants = job.variants
        /\ job'.worker = job.worker
    BY <1>1, <1>6 DEF MakeSprite, Job
  <2>2. dir[Here] \subseteq dir'[Here]
    BY <1>1, <1>6 DEF MakeSprite
  <2>3. status' = status /\ ctxDone' = ctxDone /\ job.step = "sprite"
    BY <1>6 DEF MakeSprite, At
  <2> QED BY <1>1, <2>1, <2>2, <2>3
          DEF Files, Made, Sent, In, At, Encoded, Extracted, Uploading, Uploaded,
              ReadyIsPlayable, Here
<1>7. CASE WriteMaster
  <2>1. CASE GiveUp
    BY <1>e, <1>g, <2>1 DEF GiveUp, Step
  <2>2. CASE Goto("upload") /\ dir' = [dir EXCEPT ![Here] = @ \cup {"master"}]
    <3>1. dir[Here] \cup {"master"} \subseteq dir'[Here]
      BY <1>1, <2>2
    <3>2. status' = status /\ ctxDone' = ctxDone /\ job.step = "master"
      BY <1>7 DEF WriteMaster, GiveUp, At
    <3> QED BY <1>1, <1>g, <2>2, <3>1, <3>2
            DEF Step, Files, Made, Sent, In, At, Encoded, Extracted, Uploading, Uploaded,
                ReadyIsPlayable, Here
  <2> QED BY <1>7, <2>1, <2>2 DEF WriteMaster
<1>8. CASE StartUpload
  <2>1. CASE Goto("error")
    BY <1>8, <1>e, <1>g, <2>1 DEF StartUpload, Step
  <2>2. CASE job' = [job EXCEPT !.step = "uploading", !.todo = dir[Here]]
    <3>1. job'.step = "uploading" /\ job'.todo = dir[Here] /\ job'.audio = job.audio
          /\ job'.variants = job.variants /\ job'.worker = job.worker
      BY <1>1, <2>2 DEF Job
    <3>2. status' = status /\ ctxDone' = ctxDone /\ dir' = dir /\ job.step = "upload"
      BY <1>8 DEF StartUpload, At
    <3> QED BY <1>1, <3>1, <3>2
            DEF Files, Made, Sent, In, At, Encoded, Extracted, Uploading, Uploaded,
                ReadyIsPlayable, Here
  <2> QED BY <1>1, <1>8, <2>1, <2>2 DEF StartUpload
<1>9. ASSUME NEW f \in HlsFile, UploadFile(f) PROVE Files'
  <2>1. /\ job'.step = "uploading" /\ job'.todo = job.todo \ {f} /\ job'.audio = job.audio
        /\ job'.variants = job.variants /\ job'.worker = job.worker
        /\ job.step = "uploading"
    BY <1>1, <1>9 DEF UploadFile, At, Job
  <2>2. /\ status' = status /\ ctxDone' = ctxDone /\ dir' = dir
        /\ hls' = hls \cup {f}
        /\ refs' = IF f = "master" THEN References ELSE refs
    BY <1>9 DEF UploadFile, Stored
  <2>3. References' = References
    BY <2>1, <2>2 DEF References, Here
  <2>4. Sent'
    BY <1>1, <2>1, <2>2, <2>3 DEF Files, Sent, At, Exists, Here
  <2> QED BY <1>1, <2>1, <2>2, <2>4
          DEF Files, Made, In, At, Encoded, Extracted, Uploading, Uploaded, ReadyIsPlayable, Here
<1>10. CASE UploadFails
  <2>1. job'.step = "error" /\ status' = status /\ ctxDone' = ctxDone
    BY <1>1, <1>10 DEF UploadFails, Job
  <2> QED BY <1>1, <2>1 DEF Files, Made, Sent, In, At, Encoded, Extracted, Uploading, Uploaded,
                            ReadyIsPlayable
<1>11. CASE UploadSkips
  BY <1>1, <1>11 DEF UploadSkips
<1>12. CASE UploadDone
  <2>1. /\ job'.step = "thumbnails" /\ job'.audio = job.audio /\ job'.variants = job.variants
        /\ job'.worker = job.worker /\ job.step = "uploading" /\ job.todo = {}
        /\ UNCHANGED <<status, ctxDone, dir, hls, refs>>
    BY <1>12, <1>g DEF UploadDone, At, Step
  <2>2. /\ job.variants \cup job.audio \subseteq dir[Here] /\ "master" \in dir[Here]
        /\ Exists => dir[Here] \subseteq hls /\ refs = References
    BY <1>1, <2>1 DEF Files, Made, Sent, In, At, Encoded, Extracted, Uploading, Uploaded
  <2>3. Exists => Complete
    BY <2>2 DEF Complete, References
  <2> QED BY <1>1, <2>1, <2>2, <2>3
          DEF Files, Made, Sent, In, At, Exists, Complete, Encoded, Extracted, Uploading, Uploaded,
              ReadyIsPlayable, Here
<1>13. CASE UploadSprite \/ SetStoryboard
  <2>1. /\ job'.step \in Uploaded /\ job'.audio = job.audio /\ job'.variants = job.variants
        /\ job'.worker = job.worker /\ job.step \in Uploaded
        /\ UNCHANGED <<status, ctxDone, dir, hls, refs>>
    BY <1>13, <1>g DEF UploadSprite, SetStoryboard, At, Step, Uploaded
  <2> QED BY <1>1, <2>1
          DEF Files, Made, Sent, In, At, Exists, Complete, Encoded, Extracted, Uploading, Uploaded,
              ReadyIsPlayable, Here
<1>p. At("ready") /\ Exists => Playable
  BY <1>1 DEF At, Files, Made, In, Complete, Playable, Encoded, Extracted, Uploaded
<1>14. CASE SetReady
  BY <1>1, <1>14, <1>p DEF SetReady, Files, Made, Sent, In, At, Active, Exists, ReadyIsPlayable,
                           Playable
<1>15. CASE SetReadyFails
  <2>1. job'.step = "error" /\ UNCHANGED <<ctxDone, hls, refs>> /\ At("ready")
        /\ status' \in {status, IF Exists THEN "ready" ELSE status}
    BY <1>15, <1>g DEF SetReadyFails, Step
  <2> QED BY <1>1, <1>p, <2>1
          DEF Files, Made, Sent, In, At, Exists, Encoded, Extracted, Uploading, Uploaded,
              ReadyIsPlayable, Playable
<1> QED
  BY <1>2, <1>3, <1>4, <1>5, <1>6, <1>7, <1>8, <1>9, <1>10, <1>11, <1>12, <1>13, <1>14, <1>15
     DEF ProcessNext

\* Without shutdowns the files are always as Files says.
LEMMA FilesInvariant == ~Shutdowns => (Spec => []Files)
<1> SUFFICES ASSUME ~Shutdowns PROVE Spec => []Files
  OBVIOUS
<1>1. QueueInv /\ Files /\ [Next]_vars => Files'
  BY FilesAround, FilesProcess
<1> QED BY <1>1, FilesInit, QueueInvariant, PTL DEF Spec

(* Without shutdowns a ready video can be played: the master playlist is   *)
(* stored with everything it refers to, every mandatory variant among it,  *)
(* however many attempts failed or died half-way through an upload and     *)
(* whatever answers of the database were lost (worker.go:290-327).         *)
THEOREM ReadyVideosPlay == ~Shutdowns => (Spec => []ReadyIsPlayable)
<1> SUFFICES ASSUME ~Shutdowns PROVE Spec => []ReadyIsPlayable
  OBVIOUS
<1> QED BY FilesInvariant, PTL DEF Files

LEMMA ListedInit == Init => Listed
BY DEF Init, Listed, In, Active, ListedTracksExist

\* Where statements do not fail, a ready row has no attempt in progress.
LEMMA ReadyIsOver ==
    ASSUME ~DBErrors, QueueInv, Active
    PROVE  status # "ready"
BY DEF QueueInv, Row

LEMMA ListedStep ==
    ASSUME ~Shutdowns, ~DBErrors, QueueInv, Files, Listed, [Next]_vars
    PROVE  Listed'
<1> DEFINE Recorded == Extracted \ {"tracks"}
<1>0. Recorded = {"sprite", "master", "upload", "uploading", "thumbnails", "storyboard", "ready"}
  BY DEF Extracted, Uploading, Uploaded
<1>1. CASE ~ProcessNext
  <2> USE DEF Listed, ListedTracksExist, In, Active, Exists, queue, results, blobs
  <2>1. CASE Upload \/ UploadUnsaved \/ DeleteRow
    <3>1. ~Active \/ status' = "deleted"
      BY <2>1 DEF QueueInv, Row, Upload, UploadUnsaved, DeleteRow
    <3>2. status' \in {"absent", "pending", "deleted"} /\ job' = job
      BY <2>1 DEF Upload, UploadUnsaved, DeleteRow
    <3> QED BY <3>1, <3>2
  <2>2. CASE DeleteOriginals \/ DeleteHls \/ DeleteThumbnails
    <3>1. status = "deleted" /\ status' = "deleted"
      BY <2>2 DEF QueueInv, Row, DeleteOriginals, DeleteHls, DeleteThumbnails
    <3> QED BY <3>1
  <2>3. ASSUME NEW w \in Worker, Claim(w) PROVE Listed'
    <3>1. job'.step = "download" /\ status' = "processing"
      BY <2>3 DEF Claim
    <3> QED BY <1>0, <3>1
  <2>4. CASE Conclude \/ Reclaim \/ Crash
    <3>1. job' = NoJob /\ UNCHANGED <<tracks, hls, refs>>
      BY <2>4 DEF Conclude, Reclaim, Crash
    <3>2. status' = "ready" => status = "ready"
      BY <2>4 DEF Conclude, ConcludeRow, Reclaim, Crash
    <3> QED BY <3>1, <3>2
  <2>5. CASE Shutdown
    BY <2>5 DEF Shutdown
  <2>6. CASE UNCHANGED vars
    BY <2>6 DEF vars
  <2> QED BY <1>1, <2>1, <2>2, <2>3, <2>4, <2>5, <2>6 DEF Next, ApiNext
<1>2. CASE ProcessNext
  <2>1. Active /\ job \in Job /\ status # "ready"
    BY <1>2, ProcessTypes, JobRecord, ReadyIsOver DEF QueueInv
  <2>g. ASSUME NEW step \in Step, Goto(step) PROVE job'.step = step /\ job'.audio = job.audio
    BY <2>1, <2>g, GotoKeeps
  <2> USE DEF queue, results, blobs, Goto
  <2>2. CASE SetTracks
    <3>1. job'.step = "sprite" /\ job'.audio = job.audio
      BY <2>2, <2>g DEF SetTracks, Step
    <3> QED BY <2>1, <2>2, <3>1 DEF SetTracks, Listed, ListedTracksExist, In, Exists
  <2>3. CASE SetReady
    <3>1. Exists => Complete /\ tracks = job.audio
      BY <1>0, <2>1, <2>3 DEF SetReady, At, Files, Listed, In, Uploaded
    <3> QED BY <2>1, <2>3, <3>1
            DEF SetReady, Complete, Listed, ListedTracksExist, In, Active, Exists
  <2>4. CASE SetReadyFails
    BY <2>4 DEF SetReadyFails
  <2>k. ASSUME status' = status, tracks' = tracks,
               job'.step \in Recorded => job.step \in Recorded /\ job'.audio = job.audio
        PROVE  Listed'
    BY <2>1, <2>k DEF Listed, ListedTracksExist, In, Exists
  <2>5. CASE Transcode
    <3>1. job'.step \in {"error", "audio"}
      BY <2>1, <2>5, <2>g DEF Transcode, Job, Step
    <3> QED BY <1>0, <2>5, <2>k, <3>1 DEF Transcode
  <2>6. CASE ExtractAudio
    <3>1. job'.step = "tracks"
      BY <2>1, <2>6 DEF ExtractAudio, Job
    <3> QED BY <1>0, <2>6, <2>k, <3>1 DEF ExtractAudio
  <2>7. CASE MakeSprite
    <3>1. job.step = "sprite" /\ job'.audio = job.audio
      BY <2>1, <2>7 DEF MakeSprite, At, Job
    <3> QED BY <1>0, <2>7, <2>k, <3>1 DEF MakeSprite
  <2>8. CASE StartUpload
    <3>1. job.step = "upload" /\ job'.audio = job.audio
      BY <2>1, <2>8 DEF StartUpload, At, Job
    <3> QED BY <1>0, <2>8, <2>k, <3>1 DEF StartUpload
  <2>9. ASSUME NEW f \in HlsFile, UploadFile(f) PROVE Listed'
    <3>1. job.step = "uploading" /\ job'.audio = job.audio
      BY <2>1, <2>9 DEF UploadFile, At, Job
    <3> QED BY <1>0, <2>9, <2>k, <3>1 DEF UploadFile
  <2>10. CASE Download
    <3>1. job'.step \in {"error", "transcode"}
      BY <2>10, <2>g DEF Download, GiveUp, Step
    <3> QED BY <1>0, <2>10, <2>k, <3>1 DEF Download, GiveUp
  <2>u. CASE UploadFails
    <3>1. job'.step = "error"
      BY <2>1, <2>u DEF UploadFails, Job
    <3> QED BY <1>0, <2>u, <2>k, <3>1 DEF UploadFails
  <2>11. CASE WriteMaster \/ UploadDone \/ UploadSprite \/ SetStoryboard
    <3>1. job.step \in Recorded /\ job'.audio = job.audio
      BY <1>0, <2>11, <2>g DEF WriteMaster, GiveUp, UploadDone, UploadSprite, SetStoryboard, At, Step
    <3> QED BY <2>11, <2>k, <3>1 DEF WriteMaster, GiveUp, UploadDone, UploadSprite, SetStoryboard
  <2>12. CASE UploadSkips
    BY <2>12 DEF UploadSkips, Files
  <2> QED BY <1>2, <2>2, <2>3, <2>4, <2>5, <2>6, <2>7, <2>8, <2>9, <2>10, <2>u, <2>11, <2>12
          DEF ProcessNext
<1> QED BY <1>1, <1>2

(* Without shutdowns and failing statements, the audio tracks the API      *)
(* lists for a ready video are stored and in its master playlist, although *)
(* one statement writes the row and many uploads the storage, over any     *)
(* number of crashes and retries (worker.go:255-269, 290-327).             *)
THEOREM ListedTracksAreThere == ~Shutdowns /\ ~DBErrors => (Spec => []ListedTracksExist)
<1> SUFFICES ASSUME ~Shutdowns, ~DBErrors PROVE Spec => []ListedTracksExist
  OBVIOUS
<1>1. Spec => []Files
  BY FilesInvariant
<1>2. QueueInv /\ Files /\ Listed /\ [Next]_vars => Listed'
  BY ListedStep
<1>3. Spec => []Listed
  BY <1>1, <1>2, ListedInit, QueueInvariant, PTL DEF Spec
<1> QED BY <1>3, PTL DEF Listed

-----------------------------------------------------------------------------
(* The row follows the lifecycle.                                          *)

\* Where statements do not fail, what a step does to the row is a step of
\* VideoLifecycle, or nothing.
LEMMA RowMoves ==
    ASSUME ~DBErrors, QueueInv, [Next]_vars
    PROVE  \/ status' = status /\ attempts' = attempts
           \/ status = "absent" /\ status' = "pending" /\ attempts' = attempts
           \/ /\ status = "pending" /\ status' = "processing"
              /\ attempts < MaxAttempts /\ attempts' = attempts + 1
           \/ status = "processing" /\ status' = "ready" /\ attempts' = attempts
           \/ /\ status = "processing" /\ status' = "pending"
              /\ attempts < MaxAttempts /\ attempts' = attempts
           \/ status = "processing" /\ status' = "pending" /\ attempts' = attempts - 1
           \/ /\ status = "processing" /\ status' = "failed"
              /\ attempts = MaxAttempts /\ attempts' = attempts
           \/ Exists /\ status' = "deleted" /\ attempts' = 0
<1> USE BudgetAssumption DEF queue, results, blobs
<1>0. attempts \in 0 .. MaxAttempts /\ Row
  BY DEF QueueInv, TypeOK
<1>1. CASE ApiNext
  BY <1>1 DEF ApiNext, Upload, UploadUnsaved, DeleteRow, DeleteOriginals, DeleteHls,
              DeleteThumbnails
<1>2. ASSUME NEW w \in Worker, Claim(w)
      PROVE  /\ status = "pending" /\ status' = "processing"
             /\ attempts < MaxAttempts /\ attempts' = attempts + 1
  BY <1>0, <1>2 DEF Claim, Row
<1>3. CASE Conclude
  <2>1. /\ Active /\ job.attempt \in 1 .. MaxAttempts
        /\ ConcludeRow
    BY <1>3 DEF Conclude, At, QueueInv, TypeOK, Active, Job
  <2>2. status = "deleted" \/ (status = "processing" /\ attempts = job.attempt)
    BY <1>0, <2>1 DEF Row
  <2> QED BY <1>0, <2>1, <2>2 DEF ConcludeRow, Exists
<1>4. CASE Reclaim
  BY <1>0, <1>4 DEF Reclaim
<1>5. CASE Shutdown \/ Crash \/ UNCHANGED vars
  BY <1>5 DEF Shutdown, Crash, vars
<1>6. CASE ProcessNext
  <2>1. attempts' = attempts
    BY <1>6, ProcessTypes DEF QueueInv
  <2> QED BY <1>6, <2>1, ProcessRow
<1> QED BY <1>1, <1>2, <1>3, <1>4, <1>5, <1>6 DEF Next

(* Where statements do not fail, process() and runJob do with the row what *)
(* README.md:232-234 promises: a claim spends an attempt that is left,     *)
(* only a shutdown gives one back, ready is final, and failed comes only   *)
(* with the budget spent.                                                  *)
THEOREM JobImplementsLifecycle == ~DBErrors => (Spec => JobLifecycle)
<1> SUFFICES ASSUME ~DBErrors PROVE Spec => JobLifecycle
  OBVIOUS
<1>1. Init => Life!Init
  BY DEF Init, Life!Init
<1>2. QueueInv /\ [Next]_vars => [Life!Next]_(Life!lvars)
  <2> SUFFICES ASSUME QueueInv, [Next]_vars PROVE Life!Next
    OBVIOUS
  <2>1. attempts \in Int
    BY BudgetAssumption DEF QueueInv, TypeOK
  <2>2. Life!VideoStep(1) \/ Life!Rest(1)
    BY <2>1, RowMoves
       DEF Life!VideoStep, Life!Rest, Life!Moves, Life!Create, Life!Spend, Life!Finish,
           Life!Retry, Life!Refund, Life!GiveUp, Life!Remove, Exists
  <2> QED BY <2>2 DEF Life!Next
<1> QED BY <1>1, <1>2, QueueInvariant, PTL DEF Spec, JobLifecycle, Life!Spec

-----------------------------------------------------------------------------
(* The upload of an attempt.                                               *)

LEMMA UploadMoves ==
    ASSUME QueueInv, [Next]_vars, At("uploading"), Active', UNCHANGED del
    PROVE  Pool!Next \/ UNCHANGED Pool!uvars
<1> USE DEF queue, results, blobs
<1>1. job \in Job /\ job.step = "uploading" /\ UploadPhase = "uploading"
  BY JobRecord DEF QueueInv, At, UploadPhase
<1>k. ASSUME UNCHANGED <<job, hls, ctxDone>> PROVE UNCHANGED Pool!uvars
  BY <1>k DEF Pool!uvars, UploadPhase, At, Active
<1>2. CASE ApiNext
  BY <1>2, <1>k DEF QueueInv, TypeOK, ApiNext, Upload, UploadUnsaved, DeleteRow, DeleteOriginals,
                    DeleteHls, DeleteThumbnails
<1>3. CASE Shutdown
  <2>1. UploadPhase' = UploadPhase
    BY <1>3 DEF Shutdown, UploadPhase, At, Active
  <2>2. Pool!Cancel
    BY <1>3, <2>1 DEF Shutdown, Pool!Cancel
  <2> QED BY <2>2 DEF Pool!Next
<1>4. ASSUME NEW f \in HlsFile, UploadFile(f) PROVE Pool!Next
  <2>1. job'.step = "uploading" /\ job'.todo = job.todo \ {f}
    BY <1>1, <1>4 DEF UploadFile, Job
  <2>2. UploadPhase' = "uploading"
    BY <2>1 DEF UploadPhase, At
  <2>3. Pool!Store(f)
    BY <1>1, <1>4, <2>1, <2>2 DEF UploadFile, Stored, Pool!Store
  <2> QED BY <2>3 DEF Pool!Next
<1>5. CASE UploadFails
  <2>1. job'.step = "error" /\ job'.todo = {}
    BY <1>1, <1>5 DEF UploadFails, Job
  <2>2. UploadPhase' = "error"
    BY <2>1 DEF UploadPhase, At
  <2>3. Pool!Fail
    BY <1>1, <1>5, <2>1, <2>2 DEF UploadFails, Stored, Pool!Fail, Pool!Returns
  <2> QED BY <2>3 DEF Pool!Next
<1>6. CASE UploadSkips
  <2>1. job'.step = "thumbnails" /\ job'.todo = {}
    BY <1>1, <1>6 DEF UploadSkips, Job
  <2>2. UploadPhase' = "nil"
    BY <2>1 DEF UploadPhase, At
  <2>3. Pool!Skip
    BY <1>1, <1>6, <2>1, <2>2 DEF UploadSkips, Pool!Skip, Pool!Returns
  <2> QED BY <2>3 DEF Pool!Next
<1>7. CASE UploadDone
  <2>1. job'.step = "thumbnails" /\ job'.todo = {} /\ job.todo = {}
    BY <1>1, <1>7, GotoKeeps DEF UploadDone, Step
  <2>2. UploadPhase' = "nil"
    BY <2>1 DEF UploadPhase, At
  <2>3. Pool!Finish
    BY <1>1, <1>7, <2>1, <2>2 DEF UploadDone, Pool!Finish, Pool!Returns
  <2> QED BY <2>3 DEF Pool!Next
<1>8. CASE UNCHANGED vars
  BY <1>8, <1>k DEF vars
<1>9. ~(\E w \in Worker : Claim(w)) /\ ~Conclude /\ ~Reclaim /\ ~Crash
  BY <1>1 DEF Claim, Conclude, Reclaim, Crash, At, Active
<1>10. CASE ProcessNext
  BY <1>1, <1>4, <1>5, <1>6, <1>7, <1>10
     DEF ProcessNext, Download, Transcode, ExtractAudio, SetTracks, MakeSprite, WriteMaster,
         StartUpload, UploadSprite, SetStoryboard, SetReady, SetReadyFails, At
<1> QED BY <1>2, <1>3, <1>8, <1>9, <1>10 DEF Next

(* An attempt, and nothing else but a deletion, moves its files to the     *)
(* storage as HlsUpload says, which the pool of goroutines implements      *)
(* (PoolImplementsUpload): the two models of uploadHLS fit together.       *)
THEOREM AttemptsUploadAsPromised == Spec => UploadsAsPromised
<1>1. QueueInv /\ [Next]_vars =>
        [At("uploading") /\ Active' /\ UNCHANGED del
            => Pool!Next \/ UNCHANGED Pool!uvars]_vars
  BY UploadMoves
<1> QED BY <1>1, QueueInvariant, PTL DEF Spec, UploadsAsPromised
=============================================================================
