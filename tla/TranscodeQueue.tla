--------------------------- MODULE TranscodeQueue ---------------------------
(***************************************************************************)
(* The transcoding queue: the videos table used as a work queue            *)
(* (internal/repository/video.go), and the transcoder processes that claim *)
(* rows from it, heartbeat them, record their outcome, reclaim what dead   *)
(* workers left behind and drain on shutdown (internal/worker/worker.go,   *)
(* cmd/transcoder/main.go), with the inserts and deletes of the API        *)
(* (internal/service/upload.go).                                           *)
(*                                                                         *)
(* Every SQL statement of the code runs in autocommit, so one action is    *)
(* one statement together with the steps of the worker that depend on      *)
(* nothing but local state.  What happens inside process() is abstracted   *)
(* to its outcome; TranscodeJob models it.                                 *)
(***************************************************************************)
EXTENDS Integers, FiniteSets

CONSTANTS
    Video,         \* video ids, numbered in the order of created_at
    Worker,        \* transcoder processes
    Slot,          \* the job slots of all the workers
    Host,          \* Host[s]: the worker slot s belongs to (cfg.Concurrency each)
    MaxAttempts,   \* cfg.MaxAttempts
    StaleAfter,    \* staleAfter, in ticks of the database clock
    Timely,        \* no live job lets its heartbeat get older than StaleAfter
    ReliableDB,    \* every statement succeeds and its answer arrives
    NoJob, Null    \* a free slot; SQL's NULL

ASSUME VideoAssumption == Video \subseteq Nat
ASSUME SlotAssumption == IsFiniteSet(Slot) /\ Host \in [Slot -> Worker]
ASSUME LimitAssumption == MaxAttempts \in Nat \ {0} /\ StaleAfter \in Nat \ {0}
ASSUME ModeAssumption == Timely \in BOOLEAN /\ ReliableDB \in BOOLEAN

Phase == {"working", "release", "requeue", "fail"}

(* A claimed task: repository.Job (the path is a function of the id), and  *)
(* where runJob stands with it: inside process(), or about to write the    *)
(* outcome it chose.                                                       *)
Job == [video : Video, attempts : Nat, phase : Phase]

ASSUME NullAssumption == NoJob \notin Job /\ Null \notin Int

VARIABLES
    status,     \* status[v]: the row's status; "absent" before, "deleted" after
    attempts,   \* attempts[v]: the row's attempts column
    hb,         \* hb[v]: the age of heartbeat_at, capped at StaleAfter + 1
    loop,       \* loop[w]: where Run stands
    stopping,   \* stopping[w]: ctx is cancelled (SIGINT or SIGTERM)
    job         \* job[s]: what slot s works on

rows == <<status, attempts, hb>>
procs == <<loop, stopping>>
vars == <<status, attempts, hb, loop, stopping, job>>

Status == {"absent", "pending", "processing", "ready", "failed", "deleted"}

(* "down":    the process does not run                                     *)
(* "boot":    started, before the first reclaim                            *)
(* "reclaim": between the two statements of ReclaimStale                   *)
(* "poll":    in the polling loop                                          *)
(* "drain":   in wg.Wait(), after the cancellation was seen                *)
LoopState == {"down", "boot", "reclaim", "poll", "drain"}

Exists(v) == status[v] \notin {"absent", "deleted"}
Busy(s) == job[s] # NoJob
Holds(s, v) == job[s] # NoJob /\ job[s].video = v
Idle(w) == \A s \in Slot : Host[s] = w => ~Busy(s)
FreeSlot(w) == \E s \in Slot : Host[s] = w /\ ~Busy(s)

\* A NULL heartbeat_at compares as unknown, so such a row is never selected.
Stale(v) == status[v] = "processing" /\ hb[v] # Null /\ hb[v] > StaleAfter

Init == /\ status = [v \in Video |-> "absent"]
        /\ attempts = [v \in Video |-> 0]
        /\ hb = [v \in Video |-> Null]
        /\ loop = [w \in Worker |-> "down"]
        /\ stopping = [w \in Worker |-> FALSE]
        /\ job = [s \in Slot |-> NoJob]

-----------------------------------------------------------------------------
(* Faulty variants of definitions below, one plausible bug each, for       *)
(* checking that the properties notice it.  None is part of Next.          *)

\* heartbeat_at is left NULL by the claim, until the first heartbeat.
ClaimRowNoHeartbeat(v) == /\ status' = [status EXCEPT ![v] = "processing"]
                          /\ attempts' = [attempts EXCEPT ![v] = @ + 1]
                          /\ UNCHANGED hb

\* heartbeat_at is the worker's time instead of NOW(): its clock may be
\* ahead of the database's, for which the heartbeat is then in the future.
ClaimRowWorkersClock(v) == /\ status' = [status EXCEPT ![v] = "processing"]
                           /\ attempts' = [attempts EXCEPT ![v] = @ + 1]
                           /\ \E age \in {-1, 0} : hb' = [hb EXCEPT ![v] = age]

\* The claim does not spend an attempt.
ClaimRowFree(v) == /\ status' = [status EXCEPT ![v] = "processing"]
                   /\ hb' = [hb EXCEPT ![v] = 0]
                   /\ UNCHANGED attempts

\* No AND status = 'processing'.
RequeueRowUnguarded(v) == /\ status' = [status EXCEPT ![v] = "pending"]
                          /\ hb' = [hb EXCEPT ![v] = Null]
                          /\ UNCHANGED attempts

\* A release that keeps the attempt spent.
ReleaseRowSpends(v) == IF status[v] = "processing"
                       THEN /\ status' = [status EXCEPT ![v] = "pending"]
                            /\ hb' = [hb EXCEPT ![v] = Null]
                            /\ UNCHANGED attempts
                       ELSE UNCHANGED rows

\* The reclaim does not look at heartbeat_at.
RequeueableFresh ==
    {v \in Video : status[v] = "processing" /\ attempts[v] < MaxAttempts}

\* The second statement trusts the first to have left no row with budget.
ExhaustedUnchecked == {v \in Video : Stale(v)}

\* The second statement is missing.
ExhaustedNone == {}

\* <= for <.
VerdictOffByOne(s) == IF stopping[Host[s]] THEN "release"
                      ELSE IF job[s].attempts <= MaxAttempts THEN "requeue"
                      ELSE "fail"

\* A failed attempt is always requeued.
VerdictForgiving(s) == IF stopping[Host[s]] THEN "release" ELSE "requeue"

\* The deferred <-slots and wg.Done() are missing.
FreeUpLeaks(s) == UNCHANGED job

-----------------------------------------------------------------------------
(* The statements of the queue, as changes to the rows.                    *)

(* UpdateStatus: unconditional on the current status, no effect on a row   *)
(* that is gone; heartbeat_at stays as it was.                             *)
UpdateStatus(v, st) ==
    /\ status' = [status EXCEPT ![v] = IF Exists(v) THEN st ELSE @]
    /\ UNCHANGED <<attempts, hb>>

ClaimRow(v) == /\ status' = [status EXCEPT ![v] = "processing"]
               /\ attempts' = [attempts EXCEPT ![v] = @ + 1]
               /\ hb' = [hb EXCEPT ![v] = 0]

RequeueRow(v) == IF status[v] = "processing"
                 THEN /\ status' = [status EXCEPT ![v] = "pending"]
                      /\ hb' = [hb EXCEPT ![v] = Null]
                      /\ UNCHANGED attempts
                 ELSE UNCHANGED rows

ReleaseRow(v) == IF status[v] = "processing"
                 THEN /\ status' = [status EXCEPT ![v] = "pending"]
                      /\ attempts' = [attempts EXCEPT ![v] = IF @ > 0 THEN @ - 1 ELSE 0]
                      /\ hb' = [hb EXCEPT ![v] = Null]
                 ELSE UNCHANGED rows

\* The rows the two statements of ReclaimStale select.
Requeueable == {v \in Video : Stale(v) /\ attempts[v] < MaxAttempts}
Exhausted == {v \in Video : Stale(v) /\ attempts[v] >= MaxAttempts}

ReclaimRows(V, st) ==
    /\ status' = [v \in Video |-> IF v \in V THEN st ELSE status[v]]
    /\ hb' = [v \in Video |-> IF v \in V THEN Null ELSE hb[v]]
    /\ UNCHANGED attempts

-----------------------------------------------------------------------------
(* The API.                                                                *)

(* Upload: once the original is stored, the row is inserted as 'pending'   *)
(* with attempts 0; the row is what enqueues the video.                    *)
Upload(v) == /\ status[v] = "absent"
             /\ status' = [status EXCEPT ![v] = "pending"]
             /\ UNCHANGED <<attempts, hb, procs, job>>

(* DeleteVideo removes the row, whatever the workers do with it.           *)
Delete(v) == /\ Exists(v)
             /\ status' = [status EXCEPT ![v] = "deleted"]
             /\ attempts' = [attempts EXCEPT ![v] = 0]
             /\ hb' = [hb EXCEPT ![v] = Null]
             /\ UNCHANGED <<procs, job>>

-----------------------------------------------------------------------------
(* The life of a transcoder process.                                       *)

Start(w) == /\ loop[w] = "down"
            /\ loop' = [loop EXCEPT ![w] = "boot"]
            /\ UNCHANGED <<rows, stopping, job>>

(* SIGINT or SIGTERM: main cancels the context Run was given.              *)
Stop(w) == /\ loop[w] \in {"boot", "reclaim", "poll"}
           /\ ~stopping[w]
           /\ stopping' = [stopping EXCEPT ![w] = TRUE]
           /\ UNCHANGED <<rows, loop, job>>

(* The process dies (SIGKILL after the grace period included): its jobs    *)
(* are gone, their rows stay 'processing'.                                 *)
Crash(w) == /\ loop[w] # "down"
            /\ loop' = [loop EXCEPT ![w] = "down"]
            /\ stopping' = [stopping EXCEPT ![w] = FALSE]
            /\ job' = [s \in Slot |-> IF Host[s] = w THEN NoJob ELSE job[s]]
            /\ UNCHANGED rows

(* The first statement of ReclaimStale, at start or when reclaimInterval   *)
(* has passed; it runs even while the worker stops.  If its answer is      *)
(* lost, ReclaimStale returns and the second statement is skipped.         *)
RequeueStale(w) == /\ loop[w] \in {"boot", "poll"}
                   /\ ReclaimRows(Requeueable, "pending")
                   /\ \/ loop' = [loop EXCEPT ![w] = "reclaim"]
                      \/ ~ReliableDB /\ loop' = [loop EXCEPT ![w] = "poll"]
                   /\ UNCHANGED <<stopping, job>>

FailStale(w) == /\ loop[w] = "reclaim"
                /\ ReclaimRows(Exhausted, "failed")
                /\ loop' = [loop EXCEPT ![w] = "poll"]
                /\ UNCHANGED <<stopping, job>>

(* Either statement fails: the error is logged and the loop goes on.       *)
ReclaimError(w) == /\ ~ReliableDB
                   /\ loop[w] \in {"boot", "reclaim"}
                   /\ loop' = [loop EXCEPT ![w] = "poll"]
                   /\ UNCHANGED <<rows, stopping, job>>

Drain(w) == /\ loop[w] = "poll"
            /\ stopping[w]
            /\ loop' = [loop EXCEPT ![w] = "drain"]
            /\ UNCHANGED <<rows, stopping, job>>

(* wg.Wait() returns once every job of the worker is over.                 *)
Exit(w) == /\ loop[w] = "drain"
           /\ Idle(w)
           /\ loop' = [loop EXCEPT ![w] = "down"]
           /\ stopping' = [stopping EXCEPT ![w] = FALSE]
           /\ UNCHANGED <<rows, job>>

-----------------------------------------------------------------------------
(* Claiming.                                                               *)

(* Another statement may hold the lock of a row that is still 'pending':   *)
(* a claim of another worker that has not committed, or a progress write   *)
(* of a job that lost the row.                                             *)
MayBeLocked(v, w) == \/ \E x \in Worker \ {w} : loop[x] = "poll" /\ FreeSlot(x)
                     \/ \E s \in Slot : Holds(s, v)

(* ORDER BY created_at FOR UPDATE SKIP LOCKED LIMIT 1                      *)
Claimable(v, w) ==
    /\ status[v] = "pending"
    /\ \A u \in Video : u < v /\ status[u] = "pending" => MayBeLocked(u, w)

\* A cancelled context fails the query before it is sent.
MayClaim(w) == loop[w] = "poll" /\ ~stopping[w]

Claim(s, v) ==
    /\ MayClaim(Host[s])
    /\ ~Busy(s)
    /\ Claimable(v, Host[s])
    /\ ClaimRow(v)
    /\ job' = [job EXCEPT ![s] =
                 [video |-> v, attempts |-> attempts[v] + 1, phase |-> "working"]]
    /\ UNCHANGED procs

(* The claim commits but its answer does not reach the worker, because the *)
(* context is cancelled in between or the connection breaks: the row is    *)
(* 'processing' and nobody works on it.                                    *)
LostClaim(w, v) ==
    /\ MayClaim(w)
    /\ FreeSlot(w)
    /\ Claimable(v, w)
    /\ ClaimRow(v)
    /\ \/ stopping' = [stopping EXCEPT ![w] = TRUE]
       \/ ~ReliableDB /\ UNCHANGED stopping
    /\ UNCHANGED <<loop, job>>

-----------------------------------------------------------------------------
(* A job.                                                                  *)

Heartbeat(s) ==
    /\ Busy(s)
    /\ job[s].phase = "working"
    /\ status[job[s].video] = "processing"
    /\ hb' = [hb EXCEPT ![job[s].video] = 0]
    /\ UNCHANGED <<status, attempts, procs, job>>

FreeUp(s) == job' = [job EXCEPT ![s] = NoJob]

(* What runJob does about an error of process().                           *)
Verdict(s) == IF stopping[Host[s]] THEN "release"
              ELSE IF job[s].attempts < MaxAttempts THEN "requeue"
              ELSE "fail"

(* process() ends well: its last step marks the row 'ready'.               *)
Succeed(s) == /\ Busy(s)
              /\ job[s].phase = "working"
              /\ UpdateStatus(job[s].video, "ready")
              /\ FreeUp(s)
              /\ UNCHANGED procs

(* process() returns an error, which may come from that last step although *)
(* the statement was applied.                                              *)
ProcessFails(s) ==
    /\ Busy(s)
    /\ job[s].phase = "working"
    /\ \/ UNCHANGED rows
       \/ ~ReliableDB /\ UpdateStatus(job[s].video, "ready")
    /\ job' = [job EXCEPT ![s] = [video |-> job[s].video,
                                  attempts |-> job[s].attempts,
                                  phase |-> Verdict(s)]]
    /\ UNCHANGED procs

Release(s) == /\ Busy(s)
              /\ job[s].phase = "release"
              /\ ReleaseRow(job[s].video)
              /\ FreeUp(s)
              /\ UNCHANGED procs

Requeue(s) == /\ Busy(s)
              /\ job[s].phase = "requeue"
              /\ RequeueRow(job[s].video)
              /\ FreeUp(s)
              /\ UNCHANGED procs

Fail(s) == /\ Busy(s)
           /\ job[s].phase = "fail"
           /\ UpdateStatus(job[s].video, "failed")
           /\ FreeUp(s)
           /\ UNCHANGED procs

(* The outcome write fails: the error is logged and the job is over.       *)
RecordLost(s) == /\ ~ReliableDB
                 /\ Busy(s)
                 /\ job[s].phase # "working"
                 /\ FreeUp(s)
                 /\ UNCHANGED <<rows, procs>>

-----------------------------------------------------------------------------
(* The database clock.  Only the age of a 'processing' row is ever read.   *)
(* Timely: heartbeatInterval + dbTimeout is well below staleAfter, and a   *)
(* live worker's statements get through; without it a worker may be paused *)
(* or cut off from the database for longer than staleAfter and then go on. *)
OnTime(s) == Busy(s) /\ status[job[s].video] = "processing"
                => hb[job[s].video] < StaleAfter

Tick == /\ Timely => \A s \in Slot : OnTime(s)
        /\ hb' = [v \in Video |->
                    IF status[v] = "processing" /\ hb[v] <= StaleAfter
                    THEN hb[v] + 1 ELSE hb[v]]
        /\ UNCHANGED <<status, attempts, procs, job>>

ApiNext == \E v \in Video : Upload(v) \/ Delete(v)

LoopNext(w) == \/ Start(w) \/ Stop(w) \/ Crash(w)
               \/ RequeueStale(w) \/ FailStale(w) \/ ReclaimError(w)
               \/ Drain(w) \/ Exit(w)
               \/ \E v \in Video : LostClaim(w, v)

JobNext(s) == \/ \E v \in Video : Claim(s, v)
              \/ Heartbeat(s) \/ Succeed(s) \/ ProcessFails(s)
              \/ Release(s) \/ Requeue(s) \/ Fail(s) \/ RecordLost(s)

Next == \/ ApiNext
        \/ \E w \in Worker : LoopNext(w)
        \/ \E s \in Slot : JobNext(s)
        \/ Tick

Spec == Init /\ [][Next]_vars

-----------------------------------------------------------------------------
(* Fairness.  A live process keeps running its loop, polls and reclaims on *)
(* its ticker (RequeueStale, Claim), sees a cancellation and returns once  *)
(* its jobs are over; process() ends, one way or the other, and the        *)
(* outcome is written; the clock ticks.  A statement that may fail, or     *)
(* that other steps keep disabling, succeeds if it is tried again and      *)
(* again.  Nothing makes a process start, stop or crash.                   *)
LoopFairness(w) == /\ WF_vars(RequeueStale(w))
                   /\ SF_vars(FailStale(w))
                   /\ SF_vars(Drain(w))
                   /\ WF_vars(Exit(w))

JobFairness(s) == /\ SF_vars(\E v \in Video : Claim(s, v))
                  /\ WF_vars(Succeed(s) \/ ProcessFails(s))
                  /\ WF_vars(Release(s))
                  /\ WF_vars(Requeue(s))
                  /\ WF_vars(Fail(s))

Fairness == /\ \A w \in Worker : LoopFairness(w)
            /\ \A s \in Slot : JobFairness(s)
            /\ WF_vars(Tick)

LiveSpec == Spec /\ Fairness

-----------------------------------------------------------------------------
(* Safety.                                                                 *)

(* Every variable has the values its column, channel or goroutine can      *)
(* have; in particular no heartbeat lies in the future of the clock that   *)
(* judges it, since claim, heartbeat and reclaim all use the database's.   *)
TypeOK == /\ status \in [Video -> Status]
          /\ attempts \in [Video -> Nat]
          /\ hb \in [Video -> Nat \cup {Null}]
          /\ loop \in [Worker -> LoopState]
          /\ stopping \in [Worker -> BOOLEAN]
          /\ job \in [Slot -> Job \cup {NoJob}]

(* A 'processing' row always has a heartbeat_at: a row whose heartbeat_at  *)
(* is NULL is selected by neither statement of ReclaimStale, and would     *)
(* stay 'processing' forever once its worker is gone                       *)
(* (repository/video.go:235-249).  Holds with zombies and lost answers.    *)
HeartbeatKnown == \A v \in Video : status[v] = "processing" => hb[v] # Null

(* While heartbeats are timely, a job owns its row: nobody else works on   *)
(* the video, the row is the one the job claimed (same attempt), and it is *)
(* 'processing' unless the video was deleted, or marked ready by the job   *)
(* itself in a statement whose answer was lost.  The outcome writes rely   *)
(* on it: they name the video, never the claim (worker.go:151-186).        *)
OwnsRow(s) ==
    LET v == job[s].video
    IN  /\ \/ status[v] \in {"processing", "deleted"}
           \/ status[v] = "ready" /\ job[s].phase # "working" /\ ~ReliableDB
        /\ status[v] # "deleted" => attempts[v] = job[s].attempts
        /\ status[v] = "processing" => hb[v] \in 0 .. StaleAfter
        /\ \A t \in Slot : Holds(t, v) => t = s

JobOwnsRow == Timely => \A s \in Slot : Busy(s) => OwnsRow(s)

(* While heartbeats are timely, the budget is kept exactly: a queued video *)
(* has an attempt left, no video is attempted more than MaxAttempts times, *)
(* and none is failed before the budget is spent (.env.example:51,         *)
(* README.md:232-233).                                                     *)
RowInBudget(v) == /\ attempts[v] <= MaxAttempts
                  /\ status[v] = "pending" => attempts[v] < MaxAttempts
                  /\ status[v] = "processing" => attempts[v] > 0
                  /\ status[v] = "failed" => attempts[v] = MaxAttempts

AttemptBudget == Timely => \A v \in Video : RowInBudget(v)

(* Whatever the delays and the lost answers, retries end: every other slot *)
(* can waste at most one more attempt of a video than the budget has,      *)
(* because only a job that was claimed within the budget puts it back.     *)
AttemptsBounded ==
    \A v \in Video : attempts[v] <= MaxAttempts + Cardinality(Slot) - 1

(* A video that is ready or failed never goes back to the queue, not even  *)
(* through a worker that lost its claim or a reclaim that raced it: the    *)
(* guards of Release, Requeue and ReclaimStale (repository/video.go:189-   *)
(* 254) hold against every interleaving.                                   *)
Terminal(v) == status[v] \in {"ready", "failed"}

TerminalNeverRequeued ==
    [][\A v \in Video :
          Terminal(v) => status'[v] \in {"ready", "failed", "deleted"}]_vars

(* A job interrupted by a shutdown gives back the attempt it was claimed   *)
(* with: when its release is written, the row is pending again with the    *)
(* attempts it had before the claim, however many other workers started,   *)
(* stopped and reclaimed in between (worker.go:8-9).                       *)
Released(s) == /\ Busy(s)
               /\ job[s].phase = "release"
               /\ status[job[s].video] = "processing"
               /\ status'[job[s].video] = "pending"
               /\ job'[s] = NoJob

ShutdownRefunds ==
    [][\A s \in Slot : Released(s) =>
          attempts'[job[s].video] = job[s].attempts - 1]_vars

(* The queue implements the lifecycle README.md:232-234 promises; checked  *)
(* where heartbeats are timely and the database answers.                   *)
Life == INSTANCE VideoLifecycle
Lifecycle == Life!Spec

(* What README.md:232-234 says with no premise, and the code does not      *)
(* keep: a ready video stays ready until it is deleted.                    *)
ReadyIsFinal ==
    [][\A v \in Video : status[v] = "ready" => status'[v] \in {"ready", "deleted"}]_vars

-----------------------------------------------------------------------------
(* Liveness.                                                               *)

\* Some worker is eventually always up; no shutdown is requested any more.
SomeWorkerStays == \E w \in Worker : <>[](loop[w] # "down")
NoMoreStops == <>[](\A w \in Worker : ~stopping[w])

(* "A dead worker never strands a video" (README.md:53): a row does not    *)
(* stay 'processing' forever as long as one worker stays up, although      *)
(* claims, outcome writes and reclaim passes may be lost.                  *)
NeverStranded ==
    SomeWorkerStays =>
        \A v \in Video : status[v] = "processing" ~> status[v] # "processing"

(* "No lost videos" (README.md:43): once the shutdowns stop and a worker   *)
(* stays up, every queued video ends up ready or failed (or deleted), even *)
(* if zombie workers keep spending its attempts.                           *)
Settles ==
    SomeWorkerStays /\ NoMoreStops =>
        \A v \in Video : status[v] = "pending"
                            ~> status[v] \in {"ready", "failed", "deleted"}

(* A worker told to stop is down after a while: its in-flight jobs wind    *)
(* down and wg.Wait() returns (worker.go:84-86).                           *)
StopsInTheEnd == \A w \in Worker : stopping[w] ~> loop[w] = "down"
=============================================================================
