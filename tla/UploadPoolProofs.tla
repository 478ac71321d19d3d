--------------------------- MODULE UploadPoolProofs ---------------------------
(* What uploadHLS returns, for every number of files and every size of the *)
(* pool.                                                                   *)
EXTENDS UploadPool, FiniteSetTheorems, TLAPS

PoolType == /\ next \in 1 .. Files + 1
            /\ sem \in Nat
            /\ gor \in [File -> GoState]
            /\ errc \in Seq(Error)
            /\ cancelled \in BOOLEAN
            /\ shutdown \in BOOLEAN
            /\ stored \in SUBSET File
            /\ result \in {"none", "nil"} \cup Error

(* The tokens in the semaphore are those of the goroutines that run.       *)
Running == {f \in File : gor[f] \notin {"none", "done"}}

Counted == sem = Cardinality(Running) /\ sem <= Concurrency

(* The errors sent account for every goroutine that gave up, and the first *)
(* of them is the failure that made the others give up.                    *)
Spawned == \A f \in File : gor[f] = "none" <=> f >= next
CancelExplained == cancelled => errc # <<>>
FailureSent == \A f \in File : gor[f] = "failed" => errc # <<>>
SkipExplained == \A f \in File : gor[f] \in {"leaving", "done"} /\ f \notin stored
                                    => errc # <<>> \/ shutdown
FirstIsCause == errc # <<>> => Head(errc) = "broken" \/ shutdown
AllDone == result # "none" => next > Files /\ \A f \in File : gor[f] = "done"
NilExplained == result = "nil" => errc = <<>>
ErrorExplained == result \in Error => errc # <<>> /\ result = Head(errc)

Accounted == /\ Spawned /\ CancelExplained /\ FailureSent /\ SkipExplained
             /\ FirstIsCause /\ AllDone /\ NilExplained /\ ErrorExplained

PoolInv == PoolType /\ Counted /\ Accounted

\* The files are finitely many, and so are the running goroutines.
LEMMA RunningFinite ==
    IsFiniteSet(File) /\ IsFiniteSet(Running) /\ Cardinality(Running) \in Nat
<1>1. IsFiniteSet(File)
  BY PoolAssumption, FS_Interval DEF File
<1>2. Running \in SUBSET File
  BY DEF Running
<1> QED BY <1>1, <1>2, FS_Subset, FS_CardinalityType

\* The pool's invariant holds at first.
LEMMA PoolInit == Init => PoolInv
<1> SUFFICES ASSUME Init PROVE PoolInv
  OBVIOUS
<1>1. PoolType
  <2>1. errc \in Seq(Error)
    BY DEF Init
  <2>2. next \in 1 .. Files + 1
    BY PoolAssumption DEF Init
  <2> QED BY <2>1, <2>2 DEF Init, PoolType, GoState
<1>2. Running = {}
  BY DEF Init, Running
<1>3. Counted
  BY <1>2, FS_EmptySet, PoolAssumption DEF Init, Counted
<1>4. Accounted
  BY PoolAssumption DEF Init, Accounted, Spawned, CancelExplained, FailureSent,
     SkipExplained, FirstIsCause, AllDone, NilExplained, ErrorExplained, File, Error
<1> QED BY <1>1, <1>3, <1>4 DEF PoolInv

\* Every step keeps the types and one token per running goroutine.
LEMMA PoolTypeStep == PoolInv /\ [Next]_vars => PoolType' /\ Counted'
<1> SUFFICES ASSUME PoolInv, [Next]_vars PROVE PoolType' /\ Counted'
  OBVIOUS
<1>0. PoolType /\ Counted /\ Spawned
  BY DEF PoolInv, Accounted
<1>k. ASSUME Running' = Running, sem' = sem PROVE Counted'
  BY <1>0, <1>k DEF Counted
<1>1. CASE Spawn
  <2>1. next \in File /\ gor[next] = "none" /\ gor' = [gor EXCEPT ![next] = "started"]
    BY <1>0, <1>1, PoolAssumption DEF Spawn, PoolType, Spawned, File
  <2>2. Running' = Running \cup {next} /\ next \notin Running
    BY <1>0, <2>1 DEF Running, PoolType
  <2>3. Cardinality(Running') = Cardinality(Running) + 1
    BY <2>2, RunningFinite, FS_AddElement
  <2>4. Counted'
    BY <1>0, <1>1, <2>3, RunningFinite, PoolAssumption DEF Counted, Spawn
  <2>5. PoolType'
    BY <1>0, <1>1, <2>1, PoolAssumption DEF Spawn, PoolType, GoState
  <2> QED BY <2>4, <2>5
<1>2. ASSUME NEW f \in File, Leave(f) PROVE PoolType' /\ Counted'
  <2>1. Running' = Running \ {f} /\ f \in Running
    BY <1>0, <1>2 DEF Leave, Running, PoolType
  <2>2. Cardinality(Running') = Cardinality(Running) - 1
    BY <2>1, RunningFinite, FS_RemoveElement
  <2>3. Cardinality(Running') \in Nat
    BY <2>1, RunningFinite, FS_RemoveElement, FS_CardinalityType
  <2>4. sem' = sem - 1
    BY <1>2 DEF Leave
  <2>5. Counted' /\ sem' \in Nat
    BY <1>0, <2>2, <2>3, <2>4, RunningFinite, PoolAssumption DEF Counted
  <2>6. PoolType'
    BY <1>0, <1>2, <2>5 DEF Leave, PoolType, GoState
  <2> QED BY <2>5, <2>6
<1>3. ASSUME NEW f \in File, Look(f) \/ Succeed(f) \/ Cancel(f) PROVE PoolType' /\ Counted'
  <2>1. PoolType'
    BY <1>0, <1>3 DEF Look, Succeed, Cancel, PoolType, GoState
  <2>2. Running' = Running /\ sem' = sem
    BY <1>0, <1>3 DEF Look, Succeed, Cancel, Running, PoolType
  <2> QED BY <1>k, <2>1, <2>2
<1>4. ASSUME NEW f \in File, NEW e \in Error, FailWith(f, e) PROVE PoolType' /\ Counted'
  <2>1. PoolType'
    BY <1>0, <1>4 DEF FailWith, PoolType, GoState
  <2>2. Running' = Running /\ sem' = sem
    BY <1>0, <1>4 DEF FailWith, Running, PoolType
  <2> QED BY <1>k, <2>1, <2>2
<1>5. CASE Return
  <2>1. PoolType'
    BY <1>0, <1>5 DEF Return, PoolType
  <2>2. Running' = Running /\ sem' = sem
    BY <1>5 DEF Return, Running
  <2> QED BY <1>k, <2>1, <2>2
<1>6. CASE Shutdown
  <2>1. PoolType'
    BY <1>0, <1>6 DEF Shutdown, PoolType
  <2>2. Running' = Running /\ sem' = sem
    BY <1>6 DEF Shutdown, Running
  <2> QED BY <1>k, <2>1, <2>2
<1>7. CASE UNCHANGED vars
  BY <1>0, <1>7 DEF vars, PoolType, Counted, Running
<1>8. "broken" \in Error /\ "canceled" \in Error
  BY DEF Error
<1> QED BY <1>1, <1>2, <1>3, <1>4, <1>5, <1>6, <1>7, <1>8 DEF Next, GoNext, Break, Abort

\* Every step keeps each file accounted for: stored, waiting, or behind an
\* error.
LEMMA AccountedStep == PoolInv /\ PoolType' /\ [Next]_vars => Accounted'
<1> SUFFICES ASSUME PoolInv, PoolType', [Next]_vars PROVE Accounted'
  OBVIOUS
<1>0. PoolType /\ Accounted
  BY DEF PoolInv
<1> USE DEF Accounted, Spawned, CancelExplained, FailureSent, SkipExplained,
            FirstIsCause, AllDone, NilExplained, ErrorExplained
<1>1. CASE Spawn
  <2>1. next \in File /\ gor' = [gor EXCEPT ![next] = "started"] /\ next' = next + 1
    BY <1>0, <1>1, PoolAssumption DEF Spawn, PoolType, File
  <2>2. result = "none"
    BY <1>0, <1>1, PoolAssumption DEF Spawn, PoolType
  <2> QED BY <1>0, <1>1, <2>1, <2>2, PoolAssumption DEF Spawn, PoolType, File, Error
<1>2. ASSUME NEW f \in File, GoNext(f) PROVE Accounted'
  <2>0. next \in Nat /\ gor[f] # "none" /\ gor[f] # "done" => f < next /\ result = "none"
    BY <1>0, PoolAssumption DEF PoolType, File
  <2>1. CASE Look(f)
    BY <1>0, <1>2, <2>0, <2>1 DEF Look, PoolType, CtxDone, Error
  <2>2. CASE Succeed(f)
    BY <1>0, <1>2, <2>0, <2>2 DEF Succeed, PoolType, Error
  <2>3. ASSUME NEW e \in Error, FailWith(f, e), e = "broken" \/ CtxDone PROVE Accounted'
    <3>1. errc' = Append(errc, e) /\ errc' # <<>> /\ errc' \in Seq(Error)
      BY <1>0, <2>3 DEF FailWith, PoolType
    <3>2. Head(errc') = IF errc = <<>> THEN e ELSE Head(errc)
      BY <1>0, <2>3 DEF FailWith, PoolType
    <3>3. Head(errc') = "broken" \/ shutdown
      BY <1>0, <2>3, <3>2 DEF CtxDone
    <3> QED BY <1>0, <1>2, <2>0, <2>3, <3>1, <3>3 DEF FailWith, PoolType, Error
  <2>4. CASE Cancel(f)
    BY <1>0, <1>2, <2>0, <2>4 DEF Cancel, PoolType, Error
  <2>5. CASE Leave(f)
    BY <1>0, <1>2, <2>0, <2>5 DEF Leave, PoolType, Error
  <2>6. "broken" \in Error /\ "canceled" \in Error
    BY DEF Error
  <2> QED BY <1>2, <2>1, <2>2, <2>3, <2>4, <2>5, <2>6 DEF GoNext, Break, Abort
<1>3. CASE Return
  BY <1>0, <1>3 DEF Return, PoolType, Error
<1>4. CASE Shutdown
  BY <1>0, <1>4 DEF Shutdown, PoolType
<1>5. CASE UNCHANGED vars
  BY <1>0, <1>5 DEF vars
<1> QED BY <1>1, <1>2, <1>3, <1>4, <1>5 DEF Next

\* The pool's invariant always holds.
LEMMA PoolInvariant == Spec => []PoolInv
<1>1. PoolInv /\ [Next]_vars => PoolInv'
  BY PoolTypeStep, AccountedStep DEF PoolInv
<1> QED BY <1>1, PoolInit, PTL DEF Spec

(* The pool never holds more than Concurrency tokens, and every variable   *)
(* keeps its type.                                                         *)
THEOREM PoolTypeCorrect == Spec => []TypeOK
<1>1. PoolInv => TypeOK
  BY PoolAssumption DEF PoolInv, PoolType, Counted, TypeOK
<1> QED BY <1>1, PoolInvariant, PTL

(* Without a shutdown, uploadHLS returns nil only if every file was stored *)
(* (worker.go:364-376).                                                    *)
THEOREM NilIsEarned == Spec => []NilMeansStored
<1>1. PoolInv => NilMeansStored
  BY DEF PoolInv, PoolType, Accounted, SkipExplained, AllDone, NilExplained, NilMeansStored
<1> QED BY <1>1, PoolInvariant, PTL

(* Without a shutdown, the error returned is the failure that came first,  *)
(* not the cancellation it caused (worker.go:367-376).                     *)
THEOREM CauseIsReported == Spec => []FirstErrorIsTheCause
<1>1. PoolInv => FirstErrorIsTheCause
  BY DEF PoolInv, PoolType, Accounted, FirstIsCause, ErrorExplained, FirstErrorIsTheCause
<1> QED BY <1>1, PoolInvariant, PTL

-----------------------------------------------------------------------------
(* The pool implements HlsUpload.                                          *)

(* A file is stored by its own goroutine, which then has only to leave.    *)
StoredOnce == \A f \in stored : gor[f] \in {"failed", "leaving", "done"}

LEMMA StoredInit == Init => StoredOnce
BY DEF Init, StoredOnce

LEMMA StoredStep == PoolInv /\ StoredOnce /\ [Next]_vars => StoredOnce'
<1> SUFFICES ASSUME PoolInv, StoredOnce, [Next]_vars PROVE StoredOnce'
  OBVIOUS
<1>0. PoolType /\ Spawned
  BY DEF PoolInv, Accounted
<1> USE DEF StoredOnce, PoolType
<1>1. CASE Spawn
  <2>1. next \in File /\ gor[next] = "none" /\ gor' = [gor EXCEPT ![next] = "started"]
    BY <1>0, <1>1, PoolAssumption DEF Spawn, Spawned, File
  <2> QED BY <1>0, <1>1, <2>1 DEF Spawn
<1>2. ASSUME NEW f \in File, GoNext(f) PROVE StoredOnce'
  BY <1>0, <1>2 DEF GoNext, Look, Succeed, Break, Abort, FailWith, Cancel, Leave
<1>3. CASE Return \/ Shutdown \/ UNCHANGED vars
  BY <1>3 DEF Return, Shutdown, vars
<1> QED BY <1>1, <1>2, <1>3 DEF Next

\* A step that keeps what the caller can see.
LEMMA PoolStutters ==
    ASSUME UNCHANGED <<stored, shutdown>>, Returned' = Returned
    PROVE  UNCHANGED Upload!uvars
BY DEF Upload!uvars

\* An upload that ends well or, with its file stored, badly.
LEMMA PoolStores ==
    ASSUME PoolInv, NEW f \in File, f \notin stored, result = "none", ~Decided,
           stored' = stored \cup {f}, UNCHANGED <<shutdown, result>>
    PROVE  Upload!Next
<1>0. stored \in SUBSET File /\ Returned = "uploading"
  BY DEF PoolInv, PoolType, Returned
<1>1. CASE Decided'
  <2>1. Returned' = "error"
    BY <1>1 DEF Returned
  <2>2. Upload!Fail
    BY <1>0, <2>1 DEF Upload!Fail, Upload!Returns
  <2> QED BY <2>2 DEF Upload!Next
<1>2. CASE ~Decided'
  <2>1. Returned' = "uploading"
    BY <1>2 DEF Returned
  <2>2. Upload!Store(f)
    BY <1>0, <2>1 DEF Upload!Store
  <2> QED BY <2>2 DEF Upload!Next
<1> QED BY <1>1, <1>2

\* Every step is, to the caller, a step of HlsUpload or none.
LEMMA PoolMoves == PoolInv /\ StoredOnce /\ [Next]_vars => [Upload!Next]_(Upload!uvars)
<1> SUFFICES ASSUME PoolInv, StoredOnce, [Next]_vars
             PROVE  Upload!Next \/ UNCHANGED Upload!uvars
  OBVIOUS
<1>0. PoolType /\ Accounted
  BY DEF PoolInv
<1>k. ASSUME UNCHANGED <<errc, stored, shutdown, result>> PROVE UNCHANGED Upload!uvars
  BY <1>k, PoolStutters DEF Returned, Decided
<1>1. CASE Spawn
  BY <1>1, <1>k DEF Spawn
<1>2. CASE Return
  <2>1. result = "none" /\ UNCHANGED <<errc, stored, shutdown>> /\ (Decided' <=> Decided)
    BY <1>2 DEF Return, Decided
  <2>2. CASE errc = <<>>
    <3>1. Returned = "uploading" /\ Returned' = "nil"
      BY <1>2, <2>1, <2>2 DEF Return, Returned, Decided
    <3>2. stored = File \/ shutdown
      BY <1>0, <1>2, <2>2 DEF Return, Accounted, SkipExplained, PoolType
    <3>3. Upload!Finish \/ Upload!Skip
      BY <2>1, <3>1, <3>2 DEF Upload!Finish, Upload!Skip, Upload!Returns
    <3> QED BY <3>3 DEF Upload!Next
  <2>3. CASE errc # <<>>
    <3>1. result' \in Error
      BY <1>0, <1>2, <2>3 DEF Return, PoolType
    <3>2. Returned' = "error"
      BY <3>1 DEF Returned, Error
    <3>3. CASE Decided
      BY <2>1, <3>2, <3>3, PoolStutters DEF Returned
    <3>4. CASE ~Decided
      <4>1. Returned = "uploading"
        BY <2>1, <3>4 DEF Returned
      <4>2. PICK f \in File : f \notin stored
        BY <1>0, <2>3, <3>4 DEF Decided, PoolType
      <4>3. Upload!Fail
        BY <2>1, <3>2, <4>1, <4>2 DEF Upload!Fail, Upload!Returns
      <4> QED BY <4>3 DEF Upload!Next
    <3> QED BY <3>3, <3>4
  <2> QED BY <2>2, <2>3
<1>3. CASE Shutdown
  <2>1. Returned' = Returned
    BY <1>3 DEF Shutdown, Returned, Decided
  <2>2. Upload!Cancel
    BY <1>3, <2>1 DEF Shutdown, Upload!Cancel
  <2> QED BY <2>2 DEF Upload!Next
<1>4. ASSUME NEW f \in File, GoNext(f) PROVE Upload!Next \/ UNCHANGED Upload!uvars
  <2>1. CASE Look(f) \/ Cancel(f) \/ Leave(f)
    BY <1>k, <2>1 DEF Look, Cancel, Leave
  <2>2. ASSUME gor[f] = "uploading" PROVE f \notin stored /\ result = "none" /\ ~Decided
    BY <1>0, <2>2 DEF StoredOnce, Accounted, AllDone, PoolType, Decided
  <2>3. CASE Succeed(f)
    BY <2>2, <2>3, PoolStores DEF Succeed
  <2>4. ASSUME NEW e \in Error, FailWith(f, e) PROVE Upload!Next \/ UNCHANGED Upload!uvars
    <3>1. CASE stored' = stored
      <4>1. Returned = "uploading" /\ Returned' = "uploading"
        BY <2>2, <2>4, <3>1 DEF FailWith, Returned, Decided
      <4> QED BY <2>4, <3>1, <4>1, PoolStutters DEF FailWith
    <3>2. CASE stored' = stored \cup {f}
      BY <2>2, <2>4, <3>2, PoolStores DEF FailWith
    <3> QED BY <2>4, <3>1, <3>2 DEF FailWith
  <2>5. "broken" \in Error /\ "canceled" \in Error
    BY DEF Error
  <2> QED BY <1>4, <2>1, <2>3, <2>4, <2>5 DEF GoNext, Break, Abort
<1>5. CASE UNCHANGED vars
  BY <1>k, <1>5 DEF vars
<1> QED BY <1>1, <1>2, <1>3, <1>4, <1>5 DEF Next

(* To process(), the pool is what HlsUpload says, however many goroutines  *)
(* run at once and whichever uploads fail: nil only for a complete upload  *)
(* or a cancelled one, an error only for a failed one (worker.go:329-377). *)
THEOREM PoolImplementsUpload == Spec => UploadsHls
<1>1. Init => Upload!Init
  BY DEF Init, Upload!Init, Returned, Decided
<1>2. Spec => []StoredOnce
  BY StoredInit, StoredStep, PoolInvariant, PTL DEF Spec
<1> QED BY <1>1, <1>2, PoolMoves, PoolInvariant, PTL DEF Spec, UploadsHls, Upload!Spec
=============================================================================
