------------------------ MODULE UploadRequestProofs ------------------------
(***************************************************************************)
(* The invariants of UploadRequest, for every limit and all sizes.         *)
(***************************************************************************)
EXTENDS UploadRequest, TLAPS

(* Nothing has happened before the call to the storage has returned.       *)
NothingYet ==
    /\ phase = "parse" => writer = "none" /\ body = "open" /\ sent = 0 /\ reader = "none"
    /\ phase \in {"parse", "store"} => stored = None /\ row = None /\ unsure = {}

(* The form is ended after the whole file, and what goes on is within the  *)
(* limits.                                                                 *)
WholeBody ==
    /\ body = "ended" => sent = request.size
    /\ phase \in {"store", "insert", "delete"} => request.size <= MaxUploadSize

(* The original is held while the row is inserted, and after the insert    *)
(* has failed; a row that is there all the same is accounted for.          *)
Held ==
    /\ phase = "insert" => stored = request.size /\ row = None /\ unsure = {}
    /\ phase = "delete" => /\ stored = request.size
                           /\ \/ row = None /\ unsure = {}
                              \/ row = request.size /\ unsure = {"insert"}

IInv == /\ TypeOK /\ NothingYet /\ WholeBody /\ Held
        /\ StoredWhole /\ AcceptedIsQueued /\ QueuedHasOriginal /\ FailedLeavesNothing

(* Sizes are numbers, which None is not.                                   *)
LEMMA SizeIsNat ==
    ASSUME NEW r \in Request
    PROVE  r.size \in Nat /\ r.size # None
BY SizeAssumption DEF Request

(* A request within the checks is within the limit.                        *)
LEMMA AcceptedFits ==
    ASSUME NEW r \in Request, 202 \in Verdicts(r)
    PROVE  r.size <= MaxUploadSize
<1> DEFINE size == r.size
           body_ == r.size + r.form
<1>1. CASE size <= MaxUploadSize
      BY <1>1
<1>2. CASE ~(size <= MaxUploadSize)
  <2> HIDE DEF size, body_
  <2>0. r.size \in Nat /\ MaxUploadSize \in Nat
        BY SizeIsNat, SizeAssumption
  <2>1. r.size > MaxUploadSize
        BY <1>2, <2>0 DEF size
  <2>2. CASE body_ > MaxUploadSize + Slack
        BY <2>2 DEF Verdicts, body_
  <2>3. CASE ~(body_ > MaxUploadSize + Slack)
    <3>1. Verdicts(r) = IF ~r.whole \/ ~r.file THEN {400} ELSE {413}
          BY <2>1, <2>3 DEF Verdicts, body_
    <3> QED
        BY <3>1
  <2> QED
      BY <2>2, <2>3
<1> QED
    BY <1>1, <1>2

(* It holds at first.                                                     *)
LEMMA InitIInv == Init => IInv
<1> SUFFICES ASSUME Init
             PROVE  IInv
    OBVIOUS
<1>1. request.size \in Nat /\ None \notin Code
      BY SizeIsNat, SizeAssumption DEF Init, Code
<1>2. TypeOK
  <2>1. answer \in Code \cup {None} /\ (answer # None <=> phase = "answered")
        BY DEF Init
  <2>2. sent \in 0 .. request.size
        BY <1>1 DEF Init
  <2>3. gone \in BOOLEAN
        BY DEF Init
  <2> QED
      BY <2>1, <2>2, <2>3 DEF Init, TypeOK
<1>3. /\ NothingYet /\ WholeBody /\ Held /\ StoredWhole
      /\ AcceptedIsQueued /\ QueuedHasOriginal /\ FailedLeavesNothing
      BY <1>1 DEF Init, NothingYet, WholeBody, Held, StoredWhole, AcceptedIsQueued,
                  QueuedHasOriginal, FailedLeavesNothing, Code
<1> QED
    BY <1>2, <1>3 DEF IInv

(* Every step keeps it.                                                    *)
LEMMA NextIInv == IInv /\ [Next]_vars => IInv'
<1> SUFFICES ASSUME IInv, [Next]_vars
             PROVE  IInv'
    OBVIOUS
<1> USE SizeAssumption DEF IInv, TypeOK, NothingYet, WholeBody, Held, StoredWhole,
        AcceptedIsQueued, QueuedHasOriginal, FailedLeavesNothing, Code, handler, stream,
        Answer, Goto, InFlight, Received
<1>0. request.size \in Nat /\ request.size # None
      BY SizeIsNat
<1>1. CASE Refuse
      BY <1>0, <1>1 DEF Refuse, Verdicts
<1>2. CASE StartStore
      BY <1>0, <1>2, AcceptedFits DEF StartStore
<1>3. CASE WriterNext
  <2>1. CASE WriterSends
        BY <1>0, <2>1 DEF WriterSends
  <2>2. CASE WriterCloses
        BY <1>0, <2>2 DEF WriterCloses
  <2>3. CASE WriterAborts
        BY <1>0, <2>3 DEF WriterAborts, AbortedBody
  <2>4. CASE WriterBroken
        BY <1>0, <2>4 DEF WriterBroken
  <2> QED
      BY <1>3, <2>1, <2>2, <2>3, <2>4 DEF WriterNext
<1>4. CASE StoreNext
  <2>1. CASE StoreUnbuilt
        BY <1>0, <2>1 DEF StoreUnbuilt, UnbuiltCloses
  <2>2. CASE StoreSends
        BY <1>0, <2>2 DEF StoreSends
  <2>3. CASE StoreOk
        BY <1>0, <2>3 DEF StoreOk
  <2>4. CASE StoreRefused
        BY <1>0, <2>4 DEF StoreRefused, Refused
  <2>5. CASE StoreFails
        BY <1>0, <2>5 DEF StoreFails
  <2> QED
      BY <1>4, <2>1, <2>2, <2>3, <2>4, <2>5 DEF StoreNext
<1>5. CASE TransportCloses
      BY <1>0, <1>5 DEF TransportCloses
<1>6. CASE InsertOk
      BY <1>0, <1>6 DEF InsertOk
<1>7. CASE InsertFails
  <2>1. phase = "insert" /\ phase' = "delete" /\ answer' = answer /\ answer = None
        BY <1>7 DEF InsertFails, InsertFailed
  <2>2. UNCHANGED <<request, gone, stream, stored>>
        BY <1>7 DEF InsertFails, InsertFailed
  <2>3. \/ row' = None /\ unsure' = {}
        \/ row' = request.size /\ unsure' = {"insert"}
        BY <1>0, <1>7, <2>1 DEF InsertFails
  <2> QED
      BY <1>0, <2>1, <2>2, <2>3
<1>8. CASE Compensate
  <2>1. phase = "delete" /\ phase' = "answered" /\ answer' = 500
        BY <1>8 DEF Compensate
  <2>2. UNCHANGED <<request, gone, stream, row>>
        BY <1>8 DEF Compensate
  <2>3. \/ stored' = None /\ unsure' = unsure
        \/ unsure' = unsure \cup {"delete"} /\ stored' \in {stored, None}
        BY <1>8 DEF Compensate, DeleteOutlives
  <2>4. stored' \in {request.size, None} /\ unsure' \subseteq {"store", "insert", "delete"}
        BY <2>1, <2>3
  <2>5. row = None \/ "insert" \in unsure'
        BY <2>1, <2>3
  <2>6. unsure' = {} => stored' = None /\ row = None
        BY <2>1, <2>3
  <2> QED
      BY <1>0, <2>1, <2>2, <2>4, <2>5, <2>6
<1>9. CASE ClientLeaves
      BY <1>0, <1>9 DEF ClientLeaves
<1>10. CASE Crash
       BY <1>0, <1>10 DEF Crash
<1>11. CASE UNCHANGED vars
       BY <1>11 DEF vars
<1> QED
    BY <1>1, <1>2, <1>3, <1>4, <1>5, <1>6, <1>7, <1>8, <1>9, <1>10, <1>11 DEF Next

(* The inductive invariant holds in every behaviour.                       *)
THEOREM Invariance == Spec => []IInv
BY InitIInv, NextIInv, PTL DEF Spec

(* The variables keep their types.                                         *)
THEOREM UploadTypeCorrect == Spec => []TypeOK
BY Invariance, PTL DEF IInv

(* The storage never has a part of an original                             *)
(* (storage/seaweedfs.go:38-53).                                           *)
THEOREM OriginalsAreWhole == Spec => []StoredWhole
BY Invariance, PTL DEF IInv

(* An accepted upload is queued with its original                          *)
(* (service/upload.go:39-54).                                              *)
THEOREM AcceptedUploadsAreQueued == Spec => []AcceptedIsQueued
BY Invariance, PTL DEF IInv

(* A row has its original unless an insert failed although it was applied  *)
(* (service/upload.go:48).                                                 *)
THEOREM QueuedUploadsHaveOriginals == Spec => []QueuedHasOriginal
BY Invariance, PTL DEF IInv

(* A failed upload leaves nothing behind (service/upload.go:45-51).        *)
THEOREM FailedUploadsLeaveNothing == Spec => []FailedLeavesNothing
BY Invariance, PTL DEF IInv
=============================================================================
