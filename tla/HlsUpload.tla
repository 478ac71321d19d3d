----------------------------- MODULE HlsUpload -----------------------------
(***************************************************************************)
(* What uploadHLS (internal/worker/worker.go) does for process(), without  *)
(* its goroutines: files reach the storage one by one, in any order, until *)
(* the call returns nil or an error.  UploadPool implements it, and the    *)
(* upload steps of TranscodeJob are its steps.                             *)
(***************************************************************************)
CONSTANT File       \* the files that are to be uploaded

VARIABLES
    phase,          \* "uploading", or what the call returned: "nil", "error"
    todo,           \* the files that are left, {} once it has returned
    hls,            \* the files in the storage
    ctxDone         \* the context of the caller is cancelled

uvars == <<phase, todo, hls, ctxDone>>

Init == /\ phase = "uploading"
        /\ todo = File
        /\ hls = {}
        /\ ctxDone = FALSE

Returns(p) == phase = "uploading" /\ phase' = p /\ todo' = {}

Store(f) == /\ phase = "uploading"
            /\ f \in todo
            /\ hls' = hls \cup {f}
            /\ todo' = todo \ {f}
            /\ UNCHANGED <<phase, ctxDone>>

(* An upload that is left has failed; its file may be stored all the same. *)
Fail == /\ \E f \in todo : hls' \in {hls, hls \cup {f}}
        /\ Returns("error")
        /\ UNCHANGED ctxDone

(* Nil is returned for a complete upload,                                  *)
Finish == /\ todo = {}
          /\ Returns("nil")
          /\ UNCHANGED <<hls, ctxDone>>

(* or by a cancelled call, whatever is left.                               *)
Skip == /\ ctxDone
        /\ Returns("nil")
        /\ UNCHANGED <<hls, ctxDone>>

Cancel == /\ ~ctxDone
          /\ ctxDone' = TRUE
          /\ UNCHANGED <<phase, todo, hls>>

Next == (\E f \in File : Store(f)) \/ Fail \/ Finish \/ Skip \/ Cancel

Spec == Init /\ [][Next]_uvars
=============================================================================
