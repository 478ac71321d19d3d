--------------------------- MODULE VideoLifecycle ---------------------------
(***************************************************************************)
(* What the transcoding queue promises about a video row, whatever the     *)
(* workers do: README.md:232-234 (pending -> processing -> ready, or       *)
(* failed after TRANSCODE_MAX_ATTEMPTS attempts), the queue comment of     *)
(* internal/repository/video.go and the reliability model at the head of   *)
(* internal/worker/worker.go.  There are no workers, slots or heartbeats   *)
(* here: only the status of each row and the attempts it has spent.        *)
(***************************************************************************)
EXTENDS Integers

CONSTANTS Video,        \* the ids of the videos that may be uploaded
          MaxAttempts   \* TRANSCODE_MAX_ATTEMPTS

VARIABLES status, attempts

lvars == <<status, attempts>>

Init == /\ status = [v \in Video |-> "absent"]
        /\ attempts = [v \in Video |-> 0]

(* The row moves from one status to another and its attempts change by d. *)
Moves(v, from, to, d) == /\ status[v] = from
                         /\ status'[v] = to
                         /\ attempts'[v] = attempts[v] + d

Create(v) == Moves(v, "absent", "pending", 0)

\* A claim spends one attempt, and is made only while one is left.
Spend(v) == attempts[v] < MaxAttempts /\ Moves(v, "pending", "processing", 1)

Finish(v) == Moves(v, "processing", "ready", 0)

\* Back to the queue after a failed attempt or a dead worker.
Retry(v) == attempts[v] < MaxAttempts /\ Moves(v, "processing", "pending", 0)

\* Back to the queue after a graceful shutdown: the attempt is given back.
Refund(v) == Moves(v, "processing", "pending", -1)

GiveUp(v) == attempts[v] = MaxAttempts /\ Moves(v, "processing", "failed", 0)

Remove(v) == /\ status[v] \notin {"absent", "deleted"}
             /\ status'[v] = "deleted"
             /\ attempts'[v] = 0

Rest(v) == status'[v] = status[v] /\ attempts'[v] = attempts[v]

VideoStep(v) == \/ Create(v) \/ Spend(v) \/ Finish(v) \/ Retry(v)
                \/ Refund(v) \/ GiveUp(v) \/ Remove(v)

(* One statement of the reclaim pass moves several rows at once. *)
Next == /\ DOMAIN status' = Video
        /\ DOMAIN attempts' = Video
        /\ \A v \in Video : VideoStep(v) \/ Rest(v)

Spec == Init /\ [][Next]_lvars

=============================================================================
