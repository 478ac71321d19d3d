---------------------------- MODULE TranscodeHLS ----------------------------
(***************************************************************************)
(* One call of TranscodeHLS (internal/ffmpeg/transcoder.go) by process()   *)
(* (internal/worker/worker.go): a goroutine and an ffmpeg process for each *)
(* configured codec, the pipe through which each process reports its       *)
(* progress, the goroutine that parses the reports, the progress column    *)
(* they all write, and the ladder of variants that comes out of it.        *)
(*                                                                         *)
(* ffmpeg is external: it writes reports, ends well or badly whenever it   *)
(* likes, and dies when it is killed.  A report is one chunk; the n-th is  *)
(* about second n of the source.  The pipe of a process is what cmd.Wait   *)
(* waits for besides the process: the pipe of the operating system and the *)
(* chunk the goroutine of package exec is copying from it.                 *)
(***************************************************************************)
EXTENDS Sums, SequencesExt

CONSTANTS
    Codecs,          \* TRANSCODE_CODECS, in the configured order
    Optional,        \* those whose failure is not fatal
    Qualities,       \* TRANSCODE_QUALITIES, in the configured order
    Height,          \* Height[q]: the height of quality q, 0 for "original"
    Heights,         \* the heights a source may have, 0 if unknown
    Duration,        \* of the source, in reports
    Reports,         \* how many reports a process writes at most
    PipeSize,        \* how many chunks a pipe holds
    LineSize,        \* how many chunks the scanner's buffer holds (64 KB)
    None

Codec == ToSet(Codecs)

ASSUME LadderAssumption == /\ Codecs \in Seq(Codec) /\ Qualities \in Seq(ToSet(Qualities))
                           /\ IsInjective(Codecs) /\ IsInjective(Qualities)
                           /\ Codecs # <<>> /\ Optional \subseteq Codec
                           /\ Height \in [ToSet(Qualities) -> Nat]
                           /\ Heights \subseteq Nat
ASSUME SizeAssumption == {Duration, Reports, PipeSize, LineSize} \subseteq Nat \ {0}
ASSUME NoneAssumption == None \notin Codec /\ None \notin Int

VARIABLES
    height,          \* the height of the source
    timed,           \* its duration is known
    ctxDone,         \* the context of the job is cancelled
    stage,           \* stage[c]: where the goroutine of codec c is
    proc,            \* proc[c]: its ffmpeg
    pipe,            \* pipe[c]: the chunks not parsed; TRUE for one that ends a line
    parser,          \* parser[c]: the goroutine that parses them
    read, line,      \* read[c]: chunks it has read, and how many make its current line
    hold,            \* hold[c]: the percentage it is about to record
    codecProgress,   \* codecProgress[c]: seconds of the source encoded
    progress,        \* the progress column
    results,         \* the channel: <<codec, failed>> in the order of completion
    outcome          \* what TranscodeHLS returned

encoders == <<stage, proc, pipe>>
parsers == <<parser, read, line, hold, codecProgress>>
vars == <<height, timed, ctxDone, stage, proc, pipe, parser, read, line, hold,
          codecProgress, progress, results, outcome>>

Init == /\ height \in Heights /\ timed \in BOOLEAN
        /\ ctxDone = FALSE
        /\ stage = [c \in Codec |-> "start"]
        /\ proc = [c \in Codec |-> "none"]
        /\ pipe = [c \in Codec |-> <<>>]
        /\ parser = [c \in Codec |-> "none"]
        /\ read = [c \in Codec |-> 0] /\ line = [c \in Codec |-> 0]
        /\ hold = [c \in Codec |-> None]
        /\ codecProgress = [c \in Codec |-> 0]
        /\ progress = 15
        /\ results = <<>>
        /\ outcome = None

(* Not more than a fifth taller than the source; "original" always fits.   *)
Applicable(q) == height = 0 \/ Height[q] <= (height * 120) \div 100

(* The variants a codec is encoded into.                                   *)
Rungs(c) == {c} \X {q \in ToSet(Qualities) : Applicable(q)}

Position(seq, x) == CHOOSE i \in DOMAIN seq : seq[i] = x

-----------------------------------------------------------------------------
(* Faulty variants of definitions below, one plausible bug each.           *)

\* The ladder is sorted by quality before codec.
LessByQuality(v, w) ==
    \/ Position(Qualities, v[2]) < Position(Qualities, w[2])
    \/ v[2] = w[2] /\ Position(Codecs, v[1]) < Position(Codecs, w[1])

\* The last report is not cut off at the duration.
MinOfFirst(m, n) == m

\* No error of a codec is fatal.
FatalNone(result) == FALSE

\* The parser is not waited for.
ParserDoneUnwaited(c) == TRUE

\* The writing end of the pipe is left open.
PipeClosedNever(c) == FALSE

-----------------------------------------------------------------------------
MinOf(m, n) == IF m < n THEN m ELSE n

-----------------------------------------------------------------------------
(* ffmpeg.                                                                 *)

(* It reports its progress, if somebody takes the reports; a report ends   *)
(* with a carriage return, and only other messages end the line.           *)
FfmpegReports(c) ==
    /\ proc[c] = "running" /\ timed
    /\ Len(pipe[c]) < PipeSize
    /\ read[c] + Len(pipe[c]) < Reports
    /\ \E end \in BOOLEAN : pipe' = [pipe EXCEPT ![c] = Append(@, end)]
    /\ UNCHANGED <<height, timed, ctxDone, stage, proc, parsers, progress, results, outcome>>

FfmpegExits(c) ==
    /\ proc[c] = "running"
    /\ \E end \in {"ok", "failed"} : proc' = [proc EXCEPT ![c] = end]
    /\ UNCHANGED <<height, timed, ctxDone, stage, pipe, parsers, progress, results, outcome>>

(* Package exec kills it when the context is cancelled.                    *)
FfmpegKilled(c) ==
    /\ ctxDone
    /\ proc[c] = "running"
    /\ proc' = [proc EXCEPT ![c] = "failed"]
    /\ UNCHANGED <<height, timed, ctxDone, stage, pipe, parsers, progress, results, outcome>>

-----------------------------------------------------------------------------
(* transcodeCodec, in the goroutine of its codec.                          *)

Result(c, failed) == /\ stage' = [stage EXCEPT ![c] = "done"]
                     /\ results' = Append(results, <<c, failed>>)

(* The encoder is not available, a directory cannot be made, or ffmpeg     *)
(* cannot be started, as none can once the context is cancelled.           *)
CannotEncode(c) ==
    /\ stage[c] = "start"
    /\ Result(c, TRUE)
    /\ UNCHANGED <<height, timed, ctxDone, proc, pipe, parsers, progress, outcome>>

(* All the qualities are too tall for the source.                          *)
NothingToEncode(c) ==
    /\ stage[c] = "start"
    /\ ~ctxDone
    /\ Rungs(c) = {}
    /\ Result(c, FALSE)
    /\ UNCHANGED <<height, timed, ctxDone, proc, pipe, parsers, progress, outcome>>

StartEncode(c) ==
    /\ stage[c] = "start"
    /\ ~ctxDone
    /\ Rungs(c) # {}
    /\ stage' = [stage EXCEPT ![c] = "wait"]
    /\ proc' = [proc EXCEPT ![c] = "running"]
    /\ parser' = [parser EXCEPT ![c] = IF timed THEN "scan" ELSE "ended"]
    /\ UNCHANGED <<height, timed, ctxDone, pipe, read, line, hold, codecProgress,
                   progress, results, outcome>>

(* cmd.Wait: the process is over and its output has been copied, all of    *)
(* it, to a reader that takes it.  Then the pipe is closed.                *)
WaitReturns(c) ==
    /\ stage[c] = "wait"
    /\ proc[c] # "running"
    /\ pipe[c] = <<>>
    /\ stage' = [stage EXCEPT ![c] = "parsing"]
    /\ UNCHANGED <<height, timed, ctxDone, proc, pipe, parsers, progress, results, outcome>>

PipeClosed(c) == stage[c] # "wait"

(* parseWg.Wait.                                                           *)
ParserDone(c) == parser[c] \in {"ended", "stopped"}

Encoded(c) ==
    /\ stage[c] = "parsing"
    /\ ParserDone(c)
    /\ Result(c, proc[c] = "failed")
    /\ UNCHANGED <<height, timed, ctxDone, proc, pipe, parsers, progress, outcome>>

-----------------------------------------------------------------------------
(* The parser.                                                             *)

(* reportProgress, under its lock: the average over the codecs is what the *)
(* callback of process() makes a percentage of.                            *)
Percent(f) ==
    LET total == Total([i \in DOMAIN Codecs |-> f[Codecs[i]]])
    IN  MinOf(64, 15 + ((50 * total) \div (Duration * Len(Codecs))))

(* A line tells the time of its first report, unless that is "N/A".        *)
ParsesLine(c, first) ==
    LET f == [codecProgress EXCEPT ![c] = MinOf(first, Duration)]
    IN  /\ line' = [line EXCEPT ![c] = 0]
        /\ \/ codecProgress' = f /\ hold' = [hold EXCEPT ![c] = Percent(f)]
           \/ UNCHANGED <<codecProgress, hold>>

Idle(c) == parser[c] = "scan" /\ hold[c] = None

(* The scanner takes a chunk into its buffer, and a line if that ends one. *)
Scan(c) ==
    /\ Idle(c)
    /\ pipe[c] # <<>>
    /\ line[c] < LineSize
    /\ pipe' = [pipe EXCEPT ![c] = Tail(@)]
    /\ read' = [read EXCEPT ![c] = @ + 1]
    /\ IF Head(pipe[c])
       THEN ParsesLine(c, read[c] + 1 - line[c])
       ELSE line' = [line EXCEPT ![c] = @ + 1] /\ UNCHANGED <<codecProgress, hold>>
    /\ UNCHANGED <<height, timed, ctxDone, stage, proc, parser, progress, results, outcome>>

(* The buffer is full and the line goes on: Scan returns false, and nobody *)
(* reads the pipe any more.                                                *)
ScanTooLong(c) ==
    /\ Idle(c)
    /\ pipe[c] # <<>>
    /\ line[c] = LineSize
    /\ parser' = [parser EXCEPT ![c] = "stopped"]
    /\ UNCHANGED <<height, timed, ctxDone, encoders, read, line, hold, codecProgress,
                   progress, results, outcome>>

(* The pipe is closed: what is left is a last line.                        *)
ScanEnd(c) ==
    /\ Idle(c)
    /\ pipe[c] = <<>>
    /\ PipeClosed(c)
    /\ IF line[c] > 0
       THEN ParsesLine(c, read[c] + 1 - line[c]) /\ UNCHANGED parser
       ELSE parser' = [parser EXCEPT ![c] = "ended"] /\ UNCHANGED <<line, hold, codecProgress>>
    /\ UNCHANGED <<height, timed, ctxDone, encoders, read, progress, results, outcome>>

(* The callback of process(), outside the lock: the percentage is dropped  *)
(* if another was written within the second, by a clock all the goroutines *)
(* write without a lock, or if the statement fails; or it is written,      *)
(* whatever the others have written in the meantime.                       *)
SetProgress(c) ==
    /\ hold[c] # None
    /\ progress' \in {progress, hold[c]}
    /\ hold' = [hold EXCEPT ![c] = None]
    /\ UNCHANGED <<height, timed, ctxDone, encoders, parser, read, line, codecProgress,
                   results, outcome>>

-----------------------------------------------------------------------------
(* TranscodeHLS and its caller.                                            *)

Fatal(result) == result[2] /\ result[1] \notin Optional

(* By configured codec, then by configured quality.                        *)
Less(v, w) == \/ Position(Codecs, v[1]) < Position(Codecs, w[1])
              \/ v[1] = w[1] /\ Position(Qualities, v[2]) < Position(Qualities, w[2])

(* Whatever the order of the variants was, it is lost.                     *)
sortVariants(variants) ==
    CHOOSE s \in [1 .. Cardinality(variants) -> variants] :
        \A i, j \in DOMAIN s : i < j => Less(s[i], s[j])

(* The results are taken in the order of completion: the first fatal error *)
(* is returned, those of optional codecs are skipped.                      *)
Return ==
    /\ outcome = None
    /\ \A c \in Codec : stage[c] = "done"
    /\ LET fatal == {i \in DOMAIN results : Fatal(results[i])}
           made == {r \in ToSet(results) : ~r[2]}
       IN  outcome' = IF fatal # {} THEN [err |-> results[Min(fatal)][1], variants |-> <<>>]
                      ELSE [err |-> None,
                            variants |-> sortVariants(UNION {Rungs(r[1]) : r \in made})]
    /\ UNCHANGED <<height, timed, ctxDone, encoders, parsers, progress, results>>

(* process() records that the video is encoded.                            *)
SetEncoded ==
    /\ outcome # None /\ outcome.err = None
    /\ progress # 65
    /\ progress' = 65
    /\ UNCHANGED <<height, timed, ctxDone, encoders, parsers, results, outcome>>

Cancel == /\ ~ctxDone /\ outcome = None
          /\ ctxDone' = TRUE
          /\ UNCHANGED <<height, timed, encoders, parsers, progress, results, outcome>>

ParserNext(c) == Scan(c) \/ ScanTooLong(c) \/ ScanEnd(c) \/ SetProgress(c)
EncoderNext(c) == \/ CannotEncode(c) \/ NothingToEncode(c) \/ StartEncode(c)
                  \/ WaitReturns(c) \/ Encoded(c)

Next == \/ \E c \in Codec : \/ FfmpegReports(c) \/ FfmpegExits(c) \/ FfmpegKilled(c)
                            \/ EncoderNext(c) \/ ParserNext(c)
        \/ Return \/ SetEncoded \/ Cancel

Spec == Init /\ [][Next]_vars

(* The goroutines keep running and a killed process dies.  Nothing is      *)
(* assumed of ffmpeg's own end.                                            *)
Fairness == /\ \A c \in Codec : /\ WF_vars(FfmpegKilled(c))
                                /\ WF_vars(EncoderNext(c))
                                /\ WF_vars(ParserNext(c))
            /\ WF_vars(Return)

LiveSpec == Spec /\ Fairness

-----------------------------------------------------------------------------
TypeOK == /\ height \in Heights /\ {timed, ctxDone} \subseteq BOOLEAN
          /\ stage \in [Codec -> {"start", "wait", "parsing", "done"}]
          /\ proc \in [Codec -> {"none", "running", "ok", "failed"}]
          /\ pipe \in [Codec -> Seq(BOOLEAN)]
          /\ \A c \in Codec : Len(pipe[c]) <= PipeSize
          /\ parser \in [Codec -> {"none", "scan", "ended", "stopped"}]
          /\ read \in [Codec -> 0 .. Reports] /\ line \in [Codec -> 0 .. LineSize]
          /\ hold \in [Codec -> {None} \cup 15 .. 64]
          /\ codecProgress \in [Codec -> 0 .. Duration]
          /\ progress \in 15 .. 65
          /\ results \in Seq(Codec \X BOOLEAN) /\ Len(results) <= Len(Codecs)

Returned == outcome # None

(* The ladder: whatever the order in which the codecs end, what is         *)
(* returned are the qualities that fit the source, of exactly the codecs   *)
(* whose ffmpeg ended well, in the configured order (the comment of        *)
(* sortVariants: "completion order must not leak into the master           *)
(* playlist").                                                             *)
LadderInOrder ==
    Returned /\ outcome.err = None =>
        LET ladder == outcome.variants
        IN  /\ ToSet(ladder) = UNION {Rungs(c) : c \in {c \in Codec : proc[c] = "ok"}}
            /\ \A i, j \in DOMAIN ladder : i < j =>
                  LET v == ladder[i]
                      w == ladder[j]
                  IN  IF v[1] = w[1]
                      THEN Position(Qualities, v[2]) < Position(Qualities, w[2])
                      ELSE Position(Codecs, v[1]) < Position(Codecs, w[1])

(* "Optional codecs (H.265, AV1) are skipped on encoding failure; H.264    *)
(* failure is fatal": an error names a codec that is not optional and was  *)
(* not encoded, and no error means that every such codec has its variants, *)
(* at least one if a quality fits.                                         *)
MandatoryEncoded ==
    Returned =>
        IF outcome.err # None
        THEN outcome.err \in Codec \ Optional /\ proc[outcome.err] # "ok"
        ELSE \A c \in Codec \ Optional : \A q \in ToSet(Qualities) :
                 Applicable(q) => <<c, q>> \in ToSet(outcome.variants)

(* The percentages of encoding, written by as many goroutines as there are *)
(* codecs and outside of any lock, stay below 65 and stop when             *)
(* TranscodeHLS returns: what process() records afterwards is not taken    *)
(* back.                                                                   *)
ProgressSettles == [][IF Returned THEN progress' \in {progress, 65} ELSE progress' < 65]_vars

(* TranscodeHLS returns once its processes are over or the job is          *)
(* cancelled (transcoder.go:745, 777-779): no goroutine waits for another  *)
(* in vain, unless a line was longer than the scanner's buffer.            *)
Over == \A c \in Codec : proc[c] # "running"
Clogged == \E c \in Codec : parser[c] = "stopped"

EndsWithFfmpeg == <>[](Over \/ ctxDone) => <>(Returned \/ Clogged)

(* "Run processes the queue until ctx is cancelled, then waits for         *)
(* in-flight jobs to wind down (each is released back to the queue)"       *)
(* (worker.go:84-85).  The code does not keep it.                          *)
JobsWindDown == ctxDone ~> Returned
=============================================================================
