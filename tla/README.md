# EvadePlayer platform: specifications

TLA+ modules for the program under `src/`, the TLC configurations that check
them, and TLAPS proofs of what matters most. The code is the reference: a
definition says what the lines named for it in `PROJECT.json` do.

- [The system](#the-system): parts, state, interactions, hard behaviours
- [The modules](#the-modules): state and actions against the code
- [The runs](#the-runs): what each shows, bounds, fairness
- [What the code does not keep](#what-the-code-does-not-keep)
- [The proofs](#the-proofs)
- [What is not modelled](#what-is-not-modelled)
- [Plan](#plan)

## The system

A video platform in Go. Users upload originals through an HTTP API; transcoder
processes on any number of machines turn them into HLS; players fetch playlists
through the API and segments through nginx. PostgreSQL holds one row per video,
and that table is also the work queue. SeaweedFS holds the files.

| Part | Code | State it keeps | Operations |
| --- | --- | --- | --- |
| Transcoding queue | `internal/repository/video.go` | the `videos` table: status, attempts, claimed_at, heartbeat_at, progress, tracks, storyboard | insert, delete, claim, heartbeat, release, requeue, reclaim, status and result updates |
| Worker loop | `internal/worker/worker.go` (Run, reclaim, runJob, heartbeatLoop), `cmd/transcoder/main.go` | job slots, the context a signal cancels | reclaim, claim into free slots, supervise jobs, drain |
| Job pipeline | `internal/worker/worker.go` (process) | work directory on the host's disk, locals | download, probe, transcode, extract, write master, upload, record |
| Upload pool | `internal/worker/worker.go` (uploadHLS) | semaphore, error channel, derived context | one goroutine per file, first failure cancels |
| ffmpeg driver | `internal/ffmpeg/transcoder.go`, `thumbnail.go` | files below the work directory; per call a goroutine, a process, a pipe and a parser for each codec | encode every codec and quality, report progress, audio, subtitles, sprite, playlists |
| Upload handler and service | `internal/handler/upload.go`, `internal/service/upload.go` | none | validate, store the original, then insert; delete row, then directories |
| Video service | `internal/service/video.go` | none | video page, tokens, storyboard cues |
| Manifest proxy | `internal/handler/hls_manifest.go` | none | validate, fetch, filter, rewrite |
| Segment authorisation | `internal/handler/hls_auth.go`, `nginx/nginx.conf` | none | token check before a segment is served |
| Storage client | `internal/storage/seaweedfs.go` | per upload a goroutine and a pipe | upload, download, delete |
| HTTP handlers, configuration, deployment | `internal/handler`, `internal/config`, `cmd/api`, `setup.sh`, ... | none that changes | see [below](#what-is-not-modelled) |

How they interact: the API and the workers share nothing but the table and the
storage. Every SQL statement runs in autocommit, so the interleavings are those
of single statements; nothing joins a row update to a storage write. A worker
has one polling goroutine, one goroutine per job, one per job for the heartbeat,
two per codec while it encodes, and up to twenty for uploads; a signal cancels
one context they all derive from, but outcome writes use a context that survives
it. An upload request has two goroutines joined by a pipe, the one that reads the
file and the HTTP transport that sends it.

What makes it hard, and what has to be right:

- *Queue and workers.* Workers die, are paused, or lose the answers of
  statements that took effect. Outcome writes name the video, not the claim. A
  job must own its row, the attempt budget must be kept, a release must give
  back the right attempt, nothing may be stranded, a stop must end.
- *Pipeline.* An attempt dies between any two steps and the next one, perhaps
  on another machine with other settings, starts over what it left on disk, in
  the storage and in the row. A ready video must be playable and its row must
  describe what is stored.
- *Encoding.* Codecs end in any order, report progress at once and share the
  fate of one call: a ladder in a fixed order, a fatal failure that is reported,
  a call that returns when its processes are over or killed.
- *Upload request.* The client leaves, the filer answers early, the file cannot
  be read to its end, an insert fails with or without effect: never half an
  original, never an accepted video without one, no orphan that was avoidable.
- *Upload pool.* Neither the semaphore nor the error channel may block for
  ever, and one failure among many must be the one reported.
- *Delivery.* A link is rewritten playlist by playlist; each must lead to a
  stored file through a route that serves it with a token it accepts, under any
  filters. What playlists, storyboard and sprite say of each other is worked out
  in several places and must agree.

`PROJECT.json` lists each hazard at its line with the properties that watch it.

## The modules

### VideoLifecycle

The promise about a row, without workers: pending, processing, then ready, or
failed once `MaxAttempts` are spent; an attempt spent only while one is left,
given back only by a graceful shutdown; ready and failed final.
`TranscodeQueue` and `TranscodeJob` implement it.

### TranscodeQueue

The table as a queue and the transcoder processes. `status`, `attempts` and
`hb` are the row's columns, `hb` as the age of `heartbeat_at` in ticks of the
database clock (only that age is ever read). `loop[w]` is where `Run` stands,
`stopping[w]` the cancelled context, `job[s]` the goroutine in slot `s`.

| Action | Code |
| --- | --- |
| Upload, Delete | the insert and the delete of the API |
| Start, Stop, Crash, Drain, Exit | process start, signal, death, `wg.Wait()` and return |
| RequeueStale, FailStale, ReclaimError | the two statements of ReclaimStale, apart; an error of either |
| Claim, LostClaim | ClaimNextPending with its answer, or without |
| Heartbeat | the ticker of heartbeatLoop |
| Succeed, ProcessFails | process() returns; an error may hide a `ready` that was applied |
| Release, Requeue, Fail, RecordLost | runJob's outcome write, or its loss |
| Tick | the clock |

`FOR UPDATE SKIP LOCKED` is modelled by letting a claim skip a pending row that
another statement may hold locked (`MayBeLocked`). Two switches give the
assumptions their names. `Timely`: no live job lets its heartbeat get older
than `staleAfter` (15 s ticker plus 10 s timeout against 2 min, the comment at
`worker.go:34-35`); without it any worker may be a zombie. `ReliableDB`: every
statement succeeds and its answer arrives.

### HlsUpload

What uploadHLS does for its caller, without goroutines: files reach the storage
one by one, until nil is returned for a complete or a cancelled upload, or an
error for a failed one. `UploadPool` implements it, and while an attempt of
`TranscodeJob` uploads it takes the steps of HlsUpload (`UploadsAsPromised`): the
two models of uploadHLS meet here.

### UploadPool

`uploadHLS` goroutine by goroutine: `sem` counts the semaphore's tokens,
`errc` is the buffered channel, `gor[f]` where the goroutine of file `f`
stands; `cancelled` is the inner context, `shutdown` the outer. In the mapping to
HlsUpload the call has failed once an error is on its way and every file is in
the storage, which may be before it returns (`Decided`): the file of a failed
upload may have been stored.

### TranscodeJob

One video through `process()`, attempt after attempt, on workers whose
thumbnail settings may differ. The row's `tracks` and `storyboard`, the
storage (`original`, `hls`, `refs`: what the stored master refers to, `sprite`)
and each worker's work directory (`dir`) are state; `job` holds the locals of
the attempt in progress and its step. Each step is an action with its failures,
fatal (`"error"`, concluded by runJob) or not; a failed ffmpeg run may leave
output behind (`Written`). UploadFile stores one file at a time, so that an
attempt may end half-way; `DeleteVideo` is four steps. A playlist stands for
itself and its segments. The preview is left out, the progress column is in
TranscodeHLS, and subtitles behave as audio streams do. That attempts do not
overlap is what `TranscodeQueue` shows for timely heartbeats.

### TranscodeHLS

One call of `TranscodeHLS`: `stage[c]` is where the goroutine of codec `c`
stands, `proc[c]` its ffmpeg process, `pipe[c]` what lies between the process
and the scanner, `parser[c]` the goroutine that scans, with `read` and `line`
its position; `codecProgress`, `hold` and `progress` are the shared seconds, the
percentage a goroutine is about to record and the column. `results` is the
channel, `outcome` what the call returned.

| Action | Code |
| --- | --- |
| CannotEncode, NothingToEncode, StartEncode | transcodeCodec up to `cmd.Start` |
| FfmpegReports, FfmpegExits, FfmpegKilled | the external process; package exec kills it |
| WaitReturns, Encoded | `cmd.Wait` and the closing of the pipe; `parseWg.Wait` and the result |
| Scan, ScanTooLong, ScanEnd | the scanner: a chunk, a full buffer, the end |
| SetProgress | the callback of process(), outside any lock |
| Return, SetEncoded, Cancel | the collection of results; process() after it; the shutdown |

A report ends with a carriage return and only another message ends the line, so
a line may be longer than the scanner's buffer. The channel is buffered for all
codecs, hence a sequence. Goroutines write `lastProgressUpdate` without a lock:
whether a percentage is dropped is a free choice.

### UploadRequest

One `POST /videos/upload`. `phase` and `answer` follow the handler and the
service, `writer`, `sent` and `body` the goroutine that writes the form,
`reader` the transport's end of the pipe; `stored` and `row` are the sizes of
the original in the storage and of the row. `Verdicts` is what the checks of the
handler may answer, in their order. Failures that took effect are collected in
`unsure`, so that properties can say what they except.

### Thumbnails, VariantAttributes

Pure arithmetic, kept as operators. `Thumbnails`: the mosaic ffmpeg is asked for,
the EXT-X-TILES of the image stream, the storyboard of the row and the cues of
the API, each as its own code works it out. `VariantAttributes`: the level tables
with variantCodecs, and measuredBandwidth, with the types of a media playlist and
of a variant. `Sums`: the loop that adds up a sequence.

### HlsDelivery

From a ready video to a player: `WriteMaster` writes the master playlist from
the streams and variants of a `Source`, with names, languages, bandwidths and
levels; `GetVideo` and `GetTokens` hand out signed links, `ServeManifest` filters
and rewrites, `ProxyStatus` and `NginxStatus` say what a request for a link is
answered. A playlist is the set of its entries, each with its place among those
of its tag (nothing depends on how tags of different kinds follow each other), a
path a directory, a name and an extension, an HMAC the pair it signs. `page` and `answer` are what the player was
given last; it may follow any of those links, at any time, with any filters.

### Instances

`MCTranscodeQueue`, `MCTranscodeJob`, `MCTranscodeHLS` and `MCHlsDelivery` give
the constants their values. Each module has a section of faulty variants of its definitions:
one bug each, used to check that the properties notice it, never part of Next.

## The runs

| Run | Instance | Shows |
| --- | --- | --- |
| QueueTimely | 2 videos, workers of 2 and 1 slots, 2 attempts, `Timely`, `ReliableDB` | JobOwnsRow, AttemptBudget, ShutdownRefunds, and that the queue implements VideoLifecycle |
| QueueLive | 1 video, 2 slots, no assumption, fairness | HeartbeatKnown, AttemptsBounded, TerminalNeverRequeued, NeverStranded, Settles, StopsInTheEnd |
| PoolUploads | 4 files, pool of 2 | that the pool implements HlsUpload (UploadsHls), FirstErrorIsTheCause, Returns |
| JobCrash | 2 workers, 2 variants, 1 audio stream, 2 attempts, crashes | ReadyIsPlayable, ListedTracksExist, and that the job implements VideoLifecycle (JobLifecycle) |
| JobErrors | 2 workers of different settings, 1 variant, crashes, shutdowns, failing statements | StoryboardHasSprite |
| Encode | 2 codecs, 1 of them optional, 2 qualities, 3 heights, 3 reports, buffers of 1 and 2 | LadderInOrder, MandatoryEncoded, ProgressSettles, EndsWithFfmpeg |
| UploadRequest | files of 0 to 3 chunks, limit 2, slack 1, forms of 0 and 2 | StoredWhole, AcceptedIsQueued, QueuedHasOriginal, FailedLeavesNothing, Ends |
| Delivery | videos rich in tracks, in titles, in sprites, in shapes | LinksWork, CodecHonoured, TracksServed, AutoselectByLanguage, NamesUnique, CuesMatchSprite, BandwidthCovers, LevelsCover |
| QueueReady, JobShutdown, EncodeStuck, Levels | as above, smaller | [what the code does not keep](#what-the-code-does-not-keep) |

*Why the bounds are enough.* Two workers make a zombie and a thief; the third
slot of QueueTimely gives a worker two jobs, and two slots make the bound of
AttemptsBounded more than the budget. Two attempts distinguish the last from the
others. `StaleAfter = 1` has a fresh, an old and a stale heartbeat. Two videos
give ORDER BY and a reclaim of several rows something to do; the properties of
QueueLive are about one row at a time, and rows interact only through the slots.
In the pool, with four files two run, one waits at the semaphore and one has not
been spawned. In TranscodeJob, one mandatory and one optional variant and one
audio stream are each kind of output; the two workers of JobCrash have the same
settings and are interchangeable, hence the symmetry. In Encode, the three
heights let both qualities, one or none fit, the third report is beyond the
duration, and with a pipe of one chunk and a buffer of two a scanner can stop
with the pipe full behind it. In UploadRequest the sizes lie below, at and above
the limit, and with the forms above limit and slack. The videos of Delivery have
up to three audio and two subtitle streams, untagged and "und" languages, missing
and numbered titles, durations at and next to multiples of the interval and of a
row, shapes at two frame rates around the thresholds of the level tables; the
clock goes to 2 with a lifetime of 1: a token is valid, about to expire, and
expired.

*State constraints.* None. Nothing is unbounded in the instances: `attempts`
is bounded by the budget (that is what is shown), `hb` is capped at
`StaleAfter + 1`, ffmpeg writes at most `Reports` reports, the player's clock
stops at `Horizon`.

*Deadlock.* Checked for TranscodeQueue, which can always tick. The other
modules end: uploadHLS and TranscodeHLS return, a request is answered, a video is
deleted or settled, the player stops. That they do not stop earlier is what
Returns, EndsWithFfmpeg and Ends say.

*Fairness.*

- *QueueLive.* A live process keeps polling and reclaiming on its ticker (weak
  fairness of RequeueStale); a second statement, a claim or a drain that other
  steps keep disabling, or that may fail, succeeds if tried again and again
  (strong fairness of FailStale, Claim, Drain); `process()` ends one way or the
  other, and then the outcome write is tried (weak fairness), though it may be
  lost. Downloads and uploads have a client timeout; that the encoding ends is an
  assumption, which EncodeStuck shows to be one. Nothing is assumed of Start,
  Stop, Crash, Upload, Delete or Heartbeat. The premises of NeverStranded and
  Settles are stated in them: some worker eventually stays up, and for Settles
  shutdowns eventually cease, because a shutdown gives the attempt back and could
  do so for ever.
- *PoolUploads.* The loop and each goroutine keep running and each upload ends.
- *Encode, EncodeStuck.* Goroutines keep running and a killed process dies.
  Nothing is assumed of ffmpeg's own end: EndsWithFfmpeg has it as its premise.
- *UploadRequest.* The handler and the goroutine keep running; the storage call
  has the client's timeout, statements and deletes return, and the transport
  closes the body it was given, as `http.RoundTripper` promises. Reading the
  file need not fail.

## What the code does not keep

Each of these is something a comment or a document of the repository says, and
a run with a trace that refutes it. Quotations are in `PROJECT.json`.

- **JobShutdown / ShutdownReleases.** A shutdown just before or while uploadHLS
  starts makes its goroutines leave without an error (`worker.go:364-366`); the
  rest is non-fatal or ignores cancellation, and the video becomes ready with
  nothing, or only part, in the storage. HlsUpload has the same step (Skip), and
  UploadPool takes it: nil means stored only if there was no shutdown.
- **QueueReady / ReadyIsFinal.** `UpdateStatus` is unconditional; when the
  answer of the last statement is lost on the last attempt, ready becomes failed.
- **EncodeStuck / JobsWindDown.** ffmpeg ends its progress reports with `\r`, the
  scanner splits at `\n` and gives up at 64 KB (`transcoder.go:765-766`). If an
  encoding is so slow that 64 KB of reports (some hundreds, several minutes) come
  without another message between them, nobody reads the pipe any more; the
  copying goroutine of package exec blocks, and `cmd.Wait` does not return, not
  even after the process was killed. EndsWithFfmpeg is what holds instead.
- **Levels / LevelNeverUnderstates.** The level of an H.265 or AV1 variant is
  that of a 16:9 picture (`transcoder.go:1181`), while the encoded width follows
  the source: 2.39:1 at 720p is 1720 pixels wide and declared as if it were 1280.
  RESOLUTION has the same nominal width. LevelsCover is what holds instead, for
  sources not wider than 16:9.

The models also show the following, which no run is devoted to because another
property already draws the line:

- A zombie's requeue may take the row of another worker's last attempt, so that a
  video is attempted more often than MaxAttempts. AttemptsBounded is the bound.
- A retry with other thumbnail settings whose storyboard statement fails leaves
  the old cues beside the new sprite. StoryboardHasSprite says what is kept.
- Titles "A", "A", "A 2" give two renditions named "A 2"; NamesUnique excludes
  titles of that kind.
- With only optional codecs, or only qualities too tall for the source, a video
  without a variant becomes ready; MandatoryEncoded is about the others.
- While encoding, the progress column may go back to a lower percentage;
  ProgressSettles says that this stops when the encoding ends.
- An insert that was applied but whose answer is lost leaves a queued row without
  its original, whose attempts can only fail: QueuedHasOriginal and
  FailedLeavesNothing except it, and no other property is about it. What the
  code promises there (`upload.go:45-47`) is only that no file is orphaned.

## The proofs

Six modules hold the theorems about the specifications, `TranscodeQueueProofs`,
`UploadPoolProofs`, `TranscodeJobProofs`, `UploadRequestProofs`,
`TranscodeHLSProofs` and `HlsDeliveryProofs`; `ThumbnailsProofs` and
`NumberLemmas` what they need of arithmetic. They hold for every set of videos and
workers, every finite set of slots, every number of files, codecs, variants,
streams, segments and settings, and all limits. They rest on the named
assumptions of the modules, which TLC evaluates for each instance:

- videos are numbers (the order of `created_at`), slots are finite and each
  belongs to a worker, limits and sizes are positive, variants and audio
  renditions are different files;
- `NoJob`, `Null` and `None` are not jobs, settings, codecs, tokens or numbers;
- `LadderAssumption`: no codec and no quality is configured twice, at least one
  codec is;
- `SourceAssumption`: what TranscodeJob produced is of type `Source`, streams have
  different indexes, variants differ in codec or quality; the heights of scaled
  variants are the four of the code's ladder, a segment lasts, the source has a
  positive width and height;
- `NamesAssumption`: "A 2" tells its base and its number, which is so of strings
  (the number is what follows the last space) but is not known to a prover for
  which a string is a constant.

| Theorem | Property | Under |
| --- | --- | --- |
| TypeCorrect, HeartbeatAlwaysKnown | TypeOK, HeartbeatKnown | nothing |
| TerminalRowsStay | TerminalNeverRequeued | nothing |
| AttemptsAreBounded | AttemptsBounded | nothing |
| JobsOwnTheirRows, BudgetIsKept | JobOwnsRow, AttemptBudget | (Timely is in the property) |
| ShutdownGivesBack | ShutdownRefunds | Timely |
| QueueImplementsLifecycle | Lifecycle | Timely, ReliableDB |
| PoolTypeCorrect, CauseIsReported | TypeOK, FirstErrorIsTheCause | nothing |
| NilIsEarned | NilMeansStored, which no run checks | nothing |
| PoolImplementsUpload | UploadsHls | nothing |
| JobTypeCorrect, CuesHaveTheirSprite | TypeOK, StoryboardHasSprite | nothing |
| ReadyVideosPlay | ReadyIsPlayable | no shutdowns |
| ListedTracksAreThere | ListedTracksExist | no shutdowns, no failing statements |
| JobImplementsLifecycle | JobLifecycle | no failing statements |
| AttemptsUploadAsPromised | UploadsAsPromised, which no run checks | nothing |
| UploadTypeCorrect and four more | those of UploadRequest | nothing |
| TypeCorrect, LadderOfEncoded, MandatoryCodecs, ProgressFinal (TranscodeHLSProofs) | TypeOK, LadderInOrder, MandatoryEncoded, ProgressSettles | nothing |
| TypeCorrect, LinksAlwaysWork (HlsDeliveryProofs) | TypeOK, LinksWork | (that the token lasts is in the property) |
| CodecAlwaysHonoured, TracksAlwaysServed | CodecHonoured, TracksServed | (that the tracks are listed is in the property) |
| AutoselectUnambiguous, NamesAlwaysUnique | AutoselectByLanguage, NamesUnique | (that no title looks numbered is in the property) |
| GridsAgree, CuesAlwaysMatch | CuesMatchSprite | nothing |
| BandwidthAlwaysCovers | BandwidthCovers | nothing |
| LevelsAlwaysCover | LevelsCover | (16:9 is in the property) |

Three inductive invariants carry the queue.

- `TypeInv`, types with HeartbeatKnown: that the age of a heartbeat is a number
  needs the claim to set it with the status.
- `LeaseInv`: while heartbeats are timely, a job's row is processing (or the
  video was deleted), is at the job's attempt, and its heartbeat is no older
  than StaleAfter; no two jobs hold one video; a row not yet inserted
  has spent nothing; every row is within the budget. OwnsRow alone is not
  inductive: the reclaim spares a job's row only because its heartbeat is young,
  a claim takes nobody's row only because a pending row is nobody's, and a
  requeue keeps the budget only because the job's phase was chosen from the
  attempt that is still the row's. `LifeMoves` and `RefundStep` derive the
  refinement and the refund step by step from it.
- `BoundInv`, which needs no lease: attempts, plus the slots that still hold a
  job claimed within the budget (`Chances`), plus one if the row is queued, never
  exceed MaxAttempts + slots - 1 once the budget is spent (`Overspent`). A claim
  uses the queued row and makes a job that is no longer a chance; a requeue uses
  a chance; nothing makes new ones.

For the pool, `PoolInv` says that the semaphore's tokens are those of the
running goroutines, and that every file not stored is accounted for by an error
sent, of which the first is a failure and not a cancellation. With `StoredOnce` (a file
is stored by its own goroutine, which then has only to leave) each step becomes a
step of HlsUpload or invisible.

For the job, four invariants of growing content.

- `QueueInv`, types with `Row`: an attempt in progress has the row at its own
  attempt number, or the video was deleted, or it became ready by a statement
  whose answer was lost. JobImplementsLifecycle follows: a conclusion finds the
  row it claimed, with the attempts it claimed it with (`RowMoves`).
- `Story`: at the step that records the storyboard the sprite is stored or the
  row is gone; without that clause the property is not inductive, because the
  step itself does not look at the storage.
- `Files`, without shutdowns: what the attempt has made is on disk (`Made`), what
  it has uploaded is stored and a stored master refers to what it made (`Sent`),
  past the upload everything is there (`Complete`). Files of earlier attempts may
  lie about in the work directory and in the storage; the invariant only ever
  speaks of what the present attempt has made, and of a ready row.
- `Listed`, without failing statements either: the row's tracks are those of the
  attempt from the statement that writes them.

For the upload request, `NothingYet` (before the storage call there is neither
original nor row), `WholeBody` (the form is ended only after the whole file) and
`Held` (what each phase implies about original, row and `unsure`) strengthen the
properties to an inductive invariant; that an accepted file is within the limit
comes from the order of the checks (`AcceptedFits`).

For one call of TranscodeHLS, the invariant of `TranscodeHLSProofs` ties the
goroutines together.

- `Stages` says what is known of a codec's process, pipe, parser and percentage
  at each stage of its encoder; `Truthful`, that a result in the channel is a
  failure unless ffmpeg ended well or nothing fitted; `Told`, that a codec is
  "done" exactly if the channel has one result of it. So none is missing when
  the call collects them.
- A percentage that is about to be written belongs to a parser that still scans,
  and a codec that is done has none, because its encoder waits for the parser:
  nothing is written after the return (`Concluded`). That it is a number between
  15 and 64 needs the sum over the codecs to be one (`TotalOfNaturals`).
- The ladder is defined by what sorting leaves: a list of the variants, each
  before the greater ones. That there is such a list, for any finite set, is
  `SortedEnumeration`, and that it has every variant `AscendingIsOnto`. Position in
  the configuration separates variants because no name is configured twice.

For the delivery the invariant is short, and the lemmas about what it is made of
are long.

- The page's token was issued, its links lead to playlists that are stored, and
  the answer is a stored playlist, filtered as asked and rewritten with an issued
  token (`PageSound`, `AnswerSound`). The body of the answer is thereby a function
  of the source, the query and the token: everything else is about that function.
- `BodyLines` brings filter, promotion and rewriting into one step, and
  `ServedAudioLine`, `ServedSubsLine` and `ServedVariants` say which entries come
  out, field by field. `LinksLead` says where every link of a rewritten playlist
  leads, and `LinkAnswered` that the server answers there: a link found in an
  answer carries the token of the answer, so a player that follows links stays
  within the invariant however far it goes.
- `UniqueNames` counts: of two streams with one name the later has the larger
  number. `BandwidthBounds` compares the maxima and sums over segments.
  `ChosenAdmits` needs of the level tables only that the last entry is the largest
  (`LevelsRange`); that the encoded picture is no larger than the nominal one
  (`EncodedWithinNominal`) needs the heights of the ladder to be multiples of 9:
  at 480, which the code does not offer, the nominal width would be 853 and the
  encoded one 854.
- `GridsAgree` compares divisions that round up with the counts of tiles, rows and
  cues made from them; durations and settings are any.

Induction enters only through sets: that a set of naturals with 0 and the successor
of each of its members is all of Nat (`SetInduction`) follows from the
well-foundedness of <, and is what the existence of the partial sums of `Sums`,
of the largest of n values and of the sorted list rest on.

Only model-checked: liveness, where fairness and ENABLED are out of the prover's
reach (NeverStranded, Settles, StopsInTheEnd, Returns, EndsWithFfmpeg, Ends). Every
invariant, action property and refinement that a passing run checks is also a
theorem.

## What is not modelled

- HTTP handlers other than the upload, the manifest proxy and the token check,
  and middleware: stateless translation, covered by the repository's tests. The
  handler that downloads an original copies a body; the server's WriteTimeout of
  thirty seconds cuts it off without effect on any state.
- Paging of the list: one read-only statement; totals across pages are promised
  by nobody.
- Configuration, logging, deployment scripts, migrations, nginx's plain proxying:
  read once or static. A codec named twice in TRANSCODE_CODECS is excluded by
  `LadderAssumption`.
- ffmpeg command lines, encoder and acceleration tables, probing, the preview
  image: data for or from an external program. What a run leaves behind is
  modelled.
- The estimated bandwidths used when a playlist cannot be read, RESOLUTION,
  FRAME-RATE and H.264's fixed CODECS string.
- What is inside a title or a language. The master playlist has them in quoted
  attributes unescaped (`transcoder.go:979-980`) and the proxy edits playlists as
  text (`hls_manifest.go:263-301`), so that a quote, `URI="` or `DEFAULT=NO` in
  one of them would disturb filtering, promotion and rewriting. In the models
  they are names without structure, which only NamesUnique looks into; LinksWork
  and TracksServed hold for titles without these.
- Progress other than while encoding: within an attempt it only grows, written by
  one goroutine.
- Durations: a timeout is a failure that may come at any step. In particular the
  client timeout of five minutes over whole bodies is not judged.
- Late effects: a statement that returned an error is applied before the next
  step of its caller or never. One that the database still applies after its
  connection was given up would be a further kind of zombie.
- That two runs of `process()` for one video on one host share a work directory:
  JobOwnsRow excludes them while heartbeats are timely.

## Plan

Done, in this order: VideoLifecycle and TranscodeQueue, their proofs,
UploadPool and its proofs, TranscodeJob, HlsDelivery; then TranscodeHLS (the
progress pipe), UploadRequest and its proofs, Thumbnails and VariantAttributes
with the larger HlsDelivery, the proofs about TranscodeJob, and HlsUpload between
pipeline and pool; then the proofs about TranscodeHLS and HlsDelivery, for which
the ladder became what sorting promises and a playlist the set of its entries.

Left:

1. *Delete and leftovers*: what remains in the storage after DeleteVideo races
   a running attempt. The interleavings are in TranscodeJob; the repository
   promises nothing about them yet.
2. *Two attempts at once*: TranscodeJob with overlapping attempts of a zombie and
   its successor on one video, for the state of the storage they leave.
