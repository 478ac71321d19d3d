------------------------------ MODULE UploadPool ------------------------------
(***************************************************************************)
(* uploadHLS of internal/worker/worker.go: the files under the HLS         *)
(* directory are uploaded by one goroutine each, at most Concurrency at a  *)
(* time; the first failure cancels the uploads that are left, and the      *)
(* first error is what the function returns.  The context it is given may  *)
(* be cancelled at any time by a shutdown of the worker.  A Walk that      *)
(* fails returns before any of this; TranscodeJob has that outcome.        *)
(***************************************************************************)
EXTENDS Integers, Sequences

CONSTANTS Files,         \* the number of files filepath.Walk finds
          Concurrency    \* const concurrency

ASSUME PoolAssumption == Files \in Nat /\ Concurrency \in Nat \ {0}

File == 1 .. Files

VARIABLES
    next,       \* the file the loop spawns a goroutine for next
    sem,        \* tokens in the semaphore channel
    gor,        \* gor[f]: where the goroutine of file f stands
    errc,       \* the buffered errors, in the order they were sent
    cancelled,  \* uploadCtx was cancelled by the first failure
    shutdown,   \* the caller's ctx is cancelled
    stored,     \* the files the storage has taken
    result      \* what uploadHLS returned, or "none" while it runs

vars == <<next, sem, gor, errc, cancelled, shutdown, stored, result>>

(* "none": not spawned; "started": before the look at uploadCtx;           *)
(* "uploading"; "failed": the error was sent, cancel() not yet called;     *)
(* "leaving": before the deferred calls; "done".                           *)
GoState == {"none", "started", "uploading", "failed", "leaving", "done"}

(* An upload fails of its own ("broken"), or because its context is        *)
(* cancelled.                                                              *)
Error == {"broken", "canceled"}

Init == /\ next = 1
        /\ sem = 0
        /\ gor = [f \in File |-> "none"]
        /\ errc = <<>>
        /\ cancelled = FALSE
        /\ shutdown = FALSE
        /\ stored = {}
        /\ result = "none"

-----------------------------------------------------------------------------
(* Faulty variants of definitions below, one plausible bug each.           *)

\* The loop does not wait for a free place.
SpawnUnbounded == /\ next <= Files
                  /\ sem' = sem + 1
                  /\ gor' = [gor EXCEPT ![next] = "started"]
                  /\ next' = next + 1
                  /\ UNCHANGED <<errc, cancelled, shutdown, stored, result>>

\* The error is logged and not sent.
FailSilently(f, e) == /\ gor[f] = "uploading"
                      /\ gor' = [gor EXCEPT ![f] = "failed"]
                      /\ stored' \in {stored, stored \cup {f}}
                      /\ UNCHANGED <<next, sem, errc, cancelled, shutdown, result>>

\* The last error wins.
ReturnLast == /\ result = "none"
              /\ next > Files
              /\ \A f \in File : gor[f] = "done"
              /\ result' = IF errc = <<>> THEN "nil" ELSE errc[Len(errc)]
              /\ UNCHANGED <<next, sem, gor, errc, cancelled, shutdown, stored>>

\* The semaphore token is not given back.
LeaveLeaks(f) == /\ gor[f] = "leaving"
                 /\ gor' = [gor EXCEPT ![f] = "done"]
                 /\ UNCHANGED <<next, sem, errc, cancelled, shutdown, stored, result>>

-----------------------------------------------------------------------------
\* uploadCtx is derived from the caller's ctx.
CtxDone == cancelled \/ shutdown

(* sem <- struct{}{} blocks while the channel is full; then the goroutine  *)
(* is spawned.                                                             *)
Spawn == /\ next <= Files
         /\ sem < Concurrency
         /\ sem' = sem + 1
         /\ gor' = [gor EXCEPT ![next] = "started"]
         /\ next' = next + 1
         /\ UNCHANGED <<errc, cancelled, shutdown, stored, result>>

(* A goroutine that finds uploadCtx cancelled leaves without an error.     *)
Look(f) == /\ gor[f] = "started"
           /\ gor' = [gor EXCEPT ![f] = IF CtxDone THEN "leaving" ELSE "uploading"]
           /\ UNCHANGED <<next, sem, errc, cancelled, shutdown, stored, result>>

Succeed(f) == /\ gor[f] = "uploading"
              /\ gor' = [gor EXCEPT ![f] = "leaving"]
              /\ stored' = stored \cup {f}
              /\ UNCHANGED <<next, sem, errc, cancelled, shutdown, result>>

(* The upload fails; the storage may have taken the file all the same.     *)
(* errc has room for an error of every file, so the send never blocks.     *)
FailWith(f, e) == /\ gor[f] = "uploading"
                  /\ gor' = [gor EXCEPT ![f] = "failed"]
                  /\ errc' = Append(errc, e)
                  /\ stored' \in {stored, stored \cup {f}}
                  /\ UNCHANGED <<next, sem, cancelled, shutdown, result>>

Break(f) == FailWith(f, "broken")

Abort(f) == CtxDone /\ FailWith(f, "canceled")

Cancel(f) == /\ gor[f] = "failed"
             /\ gor' = [gor EXCEPT ![f] = "leaving"]
             /\ cancelled' = TRUE
             /\ UNCHANGED <<next, sem, errc, shutdown, stored, result>>

(* The deferred <-sem and wg.Done().                                       *)
Leave(f) == /\ gor[f] = "leaving"
            /\ gor' = [gor EXCEPT ![f] = "done"]
            /\ sem' = sem - 1
            /\ UNCHANGED <<next, errc, cancelled, shutdown, stored, result>>

(* wg.Wait(); close(errc); return <-errc, nil from an empty closed channel.*)
Return == /\ result = "none"
          /\ next > Files
          /\ \A f \in File : gor[f] = "done"
          /\ result' = IF errc = <<>> THEN "nil" ELSE Head(errc)
          /\ UNCHANGED <<next, sem, gor, errc, cancelled, shutdown, stored>>

(* The worker is told to stop while the function runs.                     *)
Shutdown == /\ ~shutdown
            /\ result = "none"
            /\ shutdown' = TRUE
            /\ UNCHANGED <<next, sem, gor, errc, cancelled, stored, result>>

GoNext(f) == \/ Look(f) \/ Succeed(f) \/ Break(f) \/ Abort(f)
             \/ Cancel(f) \/ Leave(f)

Next == Spawn \/ Return \/ Shutdown \/ \E f \in File : GoNext(f)

Spec == Init /\ [][Next]_vars

(* The loop and every goroutine keep running, and every upload ends: the   *)
(* HTTP client has a timeout (storage/seaweedfs.go:23).                    *)
Fairness == /\ WF_vars(Spawn)
            /\ WF_vars(Return)
            /\ \A f \in File : WF_vars(GoNext(f))

LiveSpec == Spec /\ Fairness

-----------------------------------------------------------------------------
TypeOK == /\ next \in 1 .. Files + 1
          /\ sem \in 0 .. Concurrency
          /\ gor \in [File -> GoState]
          /\ errc \in Seq(Error)
          /\ cancelled \in BOOLEAN
          /\ shutdown \in BOOLEAN
          /\ stored \in SUBSET File
          /\ result \in {"none", "nil"} \cup Error

(* Without a shutdown, nil means that every file was stored: no goroutine  *)
(* skips its file for another's failure and lets that failure be forgotten *)
(* (worker.go:364-376).                                                    *)
NilMeansStored == result = "nil" /\ ~shutdown => stored = File

(* To its caller, uploadHLS is what HlsUpload says: it returns nil only    *)
(* when it has stored every file or the caller was cancelled, an error     *)
(* only if an upload failed, and stores nothing afterwards.  Once an error *)
(* is on its way and every file is in the storage, the failure is decided. *)
Decided == errc # <<>> /\ stored = File

Returned == CASE result = "nil" -> "nil"
              [] result = "none" /\ ~Decided -> "uploading"
              [] OTHER -> "error"

Upload == INSTANCE HlsUpload
              WITH phase <- Returned,
                   todo <- IF Returned = "uploading" THEN File \ stored ELSE {},
                   hls <- stored,
                   ctxDone <- shutdown

UploadsHls == Upload!Spec

(* Without a shutdown, the error returned is the one that broke an upload, *)
(* never the cancellation it caused in the others: it is sent before       *)
(* cancel() is called (worker.go:368-369), and errc is first in first out. *)
FirstErrorIsTheCause == result \notin {"none", "nil"} /\ ~shutdown => result = "broken"

(* uploadHLS returns, however many files there are and whichever fail: the *)
(* loop is never stuck on the semaphore nor a goroutine on errc.           *)
Returns == <>(result # "none")
=============================================================================
