--------------------------- MODULE UploadRequest ---------------------------
(***************************************************************************)
(* One POST /videos/upload: what the handler refuses                       *)
(* (internal/handler/upload.go), the original streamed to the storage and  *)
(* the row inserted (internal/service/upload.go), and the pipe between the *)
(* goroutine that writes the multipart form and the HTTP transport that    *)
(* reads it (Upload of internal/storage/seaweedfs.go, which the worker's   *)
(* uploads use too).                                                       *)
(*                                                                         *)
(* Sizes are counted in chunks.  The filer is external: it stores a file   *)
(* when it has received the end of the form, and nothing of a body that    *)
(* breaks off.                                                             *)
(***************************************************************************)
EXTENDS Integers

CONSTANTS
    MaxUploadSize,   \* MAX_UPLOAD_SIZE
    Slack,           \* what a request may exceed it by
    Sizes,           \* the sizes of the files that are sent
    Forms,           \* and of the rest of their requests
    None

ASSUME SizeAssumption == /\ MaxUploadSize \in Nat /\ Slack \in Nat
                         /\ Sizes \subseteq Nat /\ Forms \subseteq Nat
                         /\ None \notin Nat

(* A request: the size of its file and of the rest of its body; whether    *)
(* the client sends all of it; whether the form has a file, and of an      *)
(* allowed extension; and its segments.                                    *)
Request == [size : Sizes, form : Forms, whole : BOOLEAN, file : BOOLEAN, ext : BOOLEAN,
            segments : {"none", "valid", "invalid"}]

Code == {202, 400, 413, 500}

VARIABLES
    request,
    phase,           \* where the handler is: "parse", "store", "insert", "delete",
                     \* "answered", or "dead" with its process
    answer,          \* the status of its answer
    gone,            \* the client has gone, and so the request's context
    writer,          \* the goroutine: "none", "copy", "ended"
    sent,            \* the chunks of the file it has written
    body,            \* the body: "open", "ended" after the form, or "broken"
    reader,          \* the reading end of the pipe: "none" before it is in the
                     \* hands of the "transport", "closed" at last
    stored,          \* the size of the original in the storage
    row,             \* size_bytes of the pending row
    unsure           \* calls that failed although they took effect, and a
                     \* compensation that failed

handler == <<request, phase, answer>>
stream == <<writer, sent, body, reader>>
vars == <<request, phase, answer, gone, writer, sent, body, reader, stored, row, unsure>>

Init == /\ request \in Request
        /\ phase = "parse" /\ answer = None
        /\ gone = FALSE
        /\ writer = "none" /\ sent = 0 /\ body = "open" /\ reader = "none"
        /\ stored = None /\ row = None
        /\ unsure = {}

Answer(code) == phase' = "answered" /\ answer' = code /\ UNCHANGED request
Goto(p) == phase' = p /\ UNCHANGED <<request, answer>>

-----------------------------------------------------------------------------
(* Faulty variants of definitions below, one plausible bug each.           *)

\* defer mw.Close(): the form is ended also when the file cannot be read.
AbortCloses == "ended"

\* The status of the filer's answer is not looked at.
RefusedUnnoticed == Goto("insert")

\* The error is written, but the handler does not return.
RefusedGoesOn == answer' = 500 /\ UNCHANGED <<request, phase>>

\* The compensating delete uses the request's context.
DeleteOutlivesNot == ~gone

\* The error of the insert is not looked at.
InsertErrorIgnored == Answer(202)

\* The reading end stays open when the request cannot be built.
UnbuiltLeaks == UNCHANGED reader

-----------------------------------------------------------------------------
(* The handler, before it stores anything.                                 *)

(* The body is cut off above the limit and its slack, unless the client   *)
(* ends it before; then come the checks in their order; 202 means go on.   *)
Verdicts(r) == IF r.size + r.form > MaxUploadSize + Slack
               THEN {413} \cup (IF r.whole THEN {} ELSE {400})
               ELSE IF ~r.whole \/ ~r.file THEN {400}
               ELSE IF r.size > MaxUploadSize THEN {413}
               ELSE IF ~r.ext \/ r.segments = "invalid" THEN {400}
               ELSE {202}

Refuse == /\ phase = "parse"
          /\ \E code \in Verdicts(request) \ {202} : Answer(code)
          /\ UNCHANGED <<gone, stream, stored, row, unsure>>

(* The goroutine is started before the request is made.                    *)
StartStore == /\ phase = "parse"
              /\ 202 \in Verdicts(request)
              /\ Goto("store")
              /\ writer' = "copy"
              /\ UNCHANGED <<gone, sent, body, reader, stored, row, unsure>>

-----------------------------------------------------------------------------
(* The goroutine.  A write to the pipe is taken by the transport or, once  *)
(* the reading end is closed, fails.                                       *)

WriterSends == /\ writer = "copy" /\ reader = "transport"
               /\ sent < request.size
               /\ sent' = sent + 1
               /\ UNCHANGED <<handler, gone, writer, body, reader, stored, row, unsure>>

(* The file has been copied: mw.Close ends the form, and the pipe is       *)
(* closed without an error.                                                *)
WriterCloses == /\ writer = "copy" /\ reader = "transport"
                /\ sent = request.size
                /\ writer' = "ended" /\ body' = "ended"
                /\ UNCHANGED <<handler, gone, sent, reader, stored, row, unsure>>

(* What the transport reads after CloseWithError.                          *)
AbortedBody == "broken"

(* The file cannot be read: the temporary file is lost, or the handler has *)
(* returned and closed it.                                                 *)
WriterAborts == /\ writer = "copy"
                /\ writer' = "ended" /\ body' = AbortedBody
                /\ UNCHANGED <<handler, gone, sent, reader, stored, row, unsure>>

WriterBroken == /\ writer = "copy" /\ reader = "closed"
                /\ writer' = "ended"
                /\ UNCHANGED <<handler, gone, sent, body, reader, stored, row, unsure>>

-----------------------------------------------------------------------------
(* The storage call, and the transport.                                    *)

Received == IF body = "ended" THEN sent ELSE stored

(* The request cannot be built; the pipe is closed by hand.                *)
UnbuiltCloses == reader' = "closed"
StoreUnbuilt == /\ phase = "store" /\ reader = "none"
                /\ UnbuiltCloses
                /\ Answer(500)
                /\ UNCHANGED <<gone, writer, sent, body, stored, row, unsure>>

StoreSends == /\ phase = "store" /\ reader = "none"
              /\ reader' = "transport"
              /\ UNCHANGED <<handler, gone, writer, sent, body, stored, row, unsure>>

InFlight == phase = "store" /\ reader = "transport"

StoreOk == /\ InFlight /\ ~gone
           /\ body = "ended"
           /\ stored' = Received
           /\ Goto("insert")
           /\ UNCHANGED <<gone, stream, row, unsure>>

(* The filer answers with an error, perhaps before it has read the body.   *)
Refused == Answer(500)
StoreRefused == /\ InFlight
                /\ Refused
                /\ UNCHANGED <<gone, stream, stored, row, unsure>>

(* The body breaks off, the client's timeout or the context ends the call, *)
(* or the answer is lost: then the file may be stored, and stays.          *)
StoreFails == /\ InFlight
              /\ stored' \in {stored, Received}
              /\ unsure' = IF stored' # stored THEN unsure \cup {"store"} ELSE unsure
              /\ Answer(500)
              /\ UNCHANGED <<gone, stream, row>>

(* The transport closes the body it was given, at the latest some time     *)
(* after the call has returned.                                            *)
TransportCloses == /\ phase \notin {"parse", "store"}
                   /\ reader = "transport"
                   /\ reader' = "closed"
                   /\ UNCHANGED <<handler, gone, writer, sent, body, stored, row, unsure>>

-----------------------------------------------------------------------------
(* The row.                                                                *)

InsertOk == /\ phase = "insert" /\ ~gone
            /\ row' = request.size
            /\ Answer(202)
            /\ UNCHANGED <<gone, stream, stored, unsure>>

(* The insert returns an error, applied or not.                            *)
InsertFailed == Goto("delete")
InsertFails == /\ phase = "insert"
               /\ row' \in {None, request.size}
               /\ unsure' = IF row' # None THEN unsure \cup {"insert"} ELSE unsure
               /\ InsertFailed
               /\ UNCHANGED <<gone, stream, stored>>

(* Delete, under a context that outlives the request's; its error is       *)
(* dropped.                                                                *)
DeleteOutlives == TRUE
Compensate == /\ phase = "delete"
              /\ IF DeleteOutlives
                 THEN \/ stored' = None /\ UNCHANGED unsure
                      \/ unsure' = unsure \cup {"delete"} /\ stored' \in {stored, None}
                 ELSE UNCHANGED <<stored, unsure>>
              /\ Answer(500)
              /\ UNCHANGED <<gone, stream, row>>

-----------------------------------------------------------------------------
(* The client goes away, which a handler only notices by its context.      *)
ClientLeaves == /\ ~gone /\ phase \in {"store", "insert", "delete"}
                /\ gone' = TRUE
                /\ UNCHANGED <<handler, stream, stored, row, unsure>>

(* The API process dies, or is stopped with the request still running      *)
(* after the ten seconds of its shutdown (cmd/api/main.go).                *)
Crash == /\ phase \in {"store", "insert", "delete"}
         /\ Goto("dead")
         /\ writer' = "ended" /\ reader' = "closed"
         /\ UNCHANGED <<gone, sent, body, stored, row, unsure>>

WriterNext == WriterSends \/ WriterCloses \/ WriterAborts \/ WriterBroken
StoreNext == StoreUnbuilt \/ StoreSends \/ StoreOk \/ StoreRefused \/ StoreFails

Next == \/ Refuse \/ StartStore \/ WriterNext \/ StoreNext \/ TransportCloses
        \/ InsertOk \/ InsertFails \/ Compensate \/ ClientLeaves \/ Crash

Spec == Init /\ [][Next]_vars

(* The goroutines keep running, the storage call has a timeout, statements *)
(* and deletes return, and the transport closes what it is given.  Reading *)
(* the file need not fail.                                                 *)
Fairness == /\ WF_vars(Refuse \/ StartStore)
            /\ WF_vars(WriterSends \/ WriterCloses \/ WriterBroken)
            /\ WF_vars(StoreNext) /\ WF_vars(TransportCloses)
            /\ WF_vars(InsertOk \/ InsertFails) /\ WF_vars(Compensate)

LiveSpec == Spec /\ Fairness

-----------------------------------------------------------------------------
TypeOK == /\ request \in Request
          /\ phase \in {"parse", "store", "insert", "delete", "answered", "dead"}
          /\ answer \in Code \cup {None} /\ (answer # None <=> phase = "answered")
          /\ gone \in BOOLEAN
          /\ reader \in {"none", "transport", "closed"}
          /\ writer \in {"none", "copy", "ended"}
          /\ sent \in 0 .. request.size
          /\ body \in {"open", "ended", "broken"}
          /\ stored \in Nat \cup {None} /\ row \in Nat \cup {None}
          /\ unsure \subseteq {"store", "insert", "delete"}

(* No original is ever stored in part: whether the file cannot be read to  *)
(* its end, the filer answers early, the client goes away or the process   *)
(* dies, the storage has the whole file or none (seaweedfs.go:38-53), of   *)
(* an upload within the limits.                                            *)
StoredWhole == stored # None => /\ stored = request.size
                                /\ stored <= MaxUploadSize

(* An accepted upload (202) is in the queue and its original is stored,    *)
(* with the size the row says, which DownloadOriginal sends as             *)
(* Content-Length (handler/upload.go:127-129).                             *)
AcceptedIsQueued == answer = 202 => row = request.size /\ stored = row

(* What is queued can be downloaded by a worker, after every failure but   *)
(* one: that of an insert which was applied.                               *)
QueuedHasOriginal == row # None /\ "insert" \notin unsure => stored = row

(* An upload that is answered with an error leaves neither a row nor an    *)
(* original behind ("remove the uploaded blob so storage is not left with  *)
(* an orphan", service/upload.go:45-47), also if the client has gone,      *)
(* unless the storage or the database failed to say what they did.         *)
FailedLeavesNothing ==
    phase = "answered" /\ answer # 202 /\ unsure = {} => stored = None /\ row = None

(* Every request is answered while its process lives, and its goroutine    *)
(* does not outlive it for ever, blocked on a pipe that nobody reads.      *)
Ends == <>(phase \in {"answered", "dead"} /\ writer # "copy")
=============================================================================
