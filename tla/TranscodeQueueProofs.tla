------------------------ MODULE TranscodeQueueProofs ------------------------
(* Theorems about TranscodeQueue, for every value of its constants.        *)
EXTENDS TranscodeQueue, FiniteSetTheorems, TLAPS

(* TypeOK is inductive only with HeartbeatKnown: the clock adds one to the *)
(* heartbeat of every 'processing' row.                                    *)
TypeInv == TypeOK /\ HeartbeatKnown

\* The initial state has its types and no 'processing' row.
LEMMA TypeInit == Init => TypeInv
BY LimitAssumption DEF Init, TypeInv, TypeOK, HeartbeatKnown, Status, LoopState, Job, Phase

(* The changes of the rows, one statement at a time, keep the rows well    *)
(* formed.                                                                 *)
RowsOK == /\ status \in [Video -> Status]
          /\ attempts \in [Video -> Nat]
          /\ hb \in [Video -> Nat \cup {Null}]
          /\ HeartbeatKnown

\* UpdateStatus keeps the row types, and writes no 'processing'.
LEMMA UpdateStatusKeeps ==
    ASSUME RowsOK, NEW v \in Video, NEW st \in {"ready", "failed"}, UpdateStatus(v, st)
    PROVE  RowsOK'
BY DEF RowsOK, HeartbeatKnown, UpdateStatus, Status, Exists

\* The claim keeps the row types and sets heartbeat_at with the status.
LEMMA ClaimRowKeeps ==
    ASSUME RowsOK, NEW v \in Video, ClaimRow(v)
    PROVE  RowsOK'
BY NullAssumption DEF RowsOK, HeartbeatKnown, ClaimRow, Status

\* Requeue keeps the row types and clears heartbeat_at only as it leaves
\* 'processing'.
LEMMA RequeueRowKeeps ==
    ASSUME RowsOK, NEW v \in Video, RequeueRow(v)
    PROVE  RowsOK'
BY DEF RowsOK, HeartbeatKnown, RequeueRow, Status, rows

\* Release keeps the row types; GREATEST keeps attempts a natural number.
LEMMA ReleaseRowKeeps ==
    ASSUME RowsOK, NEW v \in Video, ReleaseRow(v)
    PROVE  RowsOK'
BY DEF RowsOK, HeartbeatKnown, ReleaseRow, Status, rows

\* Both statements of ReclaimStale keep the row types.
LEMMA ReclaimRowsKeeps ==
    ASSUME RowsOK, NEW V, NEW st \in {"pending", "failed"}, ReclaimRows(V, st)
    PROVE  RowsOK'
BY DEF RowsOK, HeartbeatKnown, ReclaimRows, Status

(* A busy slot holds a Job.                                                *)
LEMMA BusyJob ==
    ASSUME TypeOK, NEW s \in Slot, Busy(s)
    PROVE  /\ job[s] \in Job
           /\ job[s].video \in Video
           /\ job[s].attempts \in Nat
           /\ job[s].phase \in Phase
BY DEF TypeOK, Busy, Job

\* The rows' share of the type invariant.
LEMMA RowsOfType == TypeInv => RowsOK
BY DEF TypeInv, RowsOK, TypeOK

\* Every step keeps the type invariant and HeartbeatKnown.
LEMMA TypeStep == TypeInv /\ [Next]_vars => TypeInv'
<1> SUFFICES ASSUME TypeInv, [Next]_vars
             PROVE  TypeInv'
  OBVIOUS
<1>r. RowsOK
  BY RowsOfType
<1>t. TypeOK
  BY DEF TypeInv
<1>j. ASSUME RowsOK',
             loop' \in [Worker -> LoopState],
             stopping' \in [Worker -> BOOLEAN],
             job' \in [Slot -> Job \cup {NoJob}]
      PROVE  TypeInv'
  BY <1>j DEF RowsOK, TypeInv, TypeOK
<1> USE DEF procs
<1>1. ASSUME NEW v \in Video, Upload(v) PROVE TypeInv'
  <2>1. RowsOK'
    BY <1>1, <1>r DEF Upload, RowsOK, HeartbeatKnown, Status
  <2> QED BY <1>1, <1>t, <1>j, <2>1 DEF Upload, TypeOK
<1>2. ASSUME NEW v \in Video, Delete(v) PROVE TypeInv'
  <2>1. RowsOK'
    BY <1>2, <1>r DEF Delete, RowsOK, HeartbeatKnown, Status
  <2> QED BY <1>2, <1>t, <1>j, <2>1 DEF Delete, TypeOK
<1>3. ASSUME NEW w \in Worker, LoopNext(w) PROVE TypeInv'
  <2>0. ASSUME UNCHANGED rows PROVE RowsOK'
    BY <2>0, <1>r DEF rows, RowsOK, HeartbeatKnown
  <2>1. CASE Start(w)
    <3>1. UNCHANGED rows BY <2>1 DEF Start
    <3> QED BY <2>0, <2>1, <3>1, <1>t, <1>j DEF Start, TypeOK, LoopState
  <2>2. CASE Stop(w)
    <3>1. UNCHANGED rows BY <2>2 DEF Stop
    <3> QED BY <2>0, <2>2, <3>1, <1>t, <1>j DEF Stop, TypeOK
  <2>3. CASE Crash(w)
    <3>1. UNCHANGED rows BY <2>3 DEF Crash
    <3> QED BY <2>0, <2>3, <3>1, <1>t, <1>j DEF Crash, TypeOK, LoopState
  <2>4. CASE RequeueStale(w)
    <3>1. RowsOK' BY <2>4, <1>r, ReclaimRowsKeeps DEF RequeueStale
    <3> QED BY <2>4, <3>1, <1>t, <1>j DEF RequeueStale, TypeOK, LoopState
  <2>5. CASE FailStale(w)
    <3>1. RowsOK' BY <2>5, <1>r, ReclaimRowsKeeps DEF FailStale
    <3> QED BY <2>5, <3>1, <1>t, <1>j DEF FailStale, TypeOK, LoopState
  <2>6. CASE ReclaimError(w)
    <3>1. UNCHANGED rows BY <2>6 DEF ReclaimError
    <3> QED BY <2>0, <2>6, <3>1, <1>t, <1>j DEF ReclaimError, TypeOK, LoopState
  <2>7. CASE Drain(w)
    <3>1. UNCHANGED rows BY <2>7 DEF Drain
    <3> QED BY <2>0, <2>7, <3>1, <1>t, <1>j DEF Drain, TypeOK, LoopState
  <2>8. CASE Exit(w)
    <3>1. UNCHANGED rows BY <2>8 DEF Exit
    <3> QED BY <2>0, <2>8, <3>1, <1>t, <1>j DEF Exit, TypeOK, LoopState
  <2>9. ASSUME NEW v \in Video, LostClaim(w, v) PROVE TypeInv'
    <3>1. RowsOK' BY <2>9, <1>r, ClaimRowKeeps DEF LostClaim
    <3> QED BY <2>9, <3>1, <1>t, <1>j DEF LostClaim, TypeOK
  <2> QED BY <1>3, <2>1, <2>2, <2>3, <2>4, <2>5, <2>6, <2>7, <2>8, <2>9 DEF LoopNext
<1>4. ASSUME NEW s \in Slot, JobNext(s) PROVE TypeInv'
  <2>0. Busy(s) => job[s].video \in Video
    BY <1>t, BusyJob
  <2>f. ASSUME FreeUp(s) PROVE job' \in [Slot -> Job \cup {NoJob}]
    BY <2>f, <1>t DEF FreeUp, TypeOK
  <2>u. ASSUME UNCHANGED rows PROVE RowsOK'
    BY <2>u, <1>r DEF rows, RowsOK, HeartbeatKnown
  <2>1. ASSUME NEW v \in Video, Claim(s, v) PROVE TypeInv'
    <3>1. RowsOK' BY <2>1, <1>r, ClaimRowKeeps DEF Claim
    <3>2. [video |-> v, attempts |-> attempts[v] + 1, phase |-> "working"] \in Job
      BY <1>t DEF TypeOK, Job, Phase
    <3> QED BY <2>1, <3>1, <3>2, <1>t, <1>j DEF Claim, TypeOK
  <2>2. CASE Heartbeat(s)
    <3>1. RowsOK' BY <2>2, <2>0, <1>r, NullAssumption DEF Heartbeat, RowsOK, HeartbeatKnown
    <3> QED BY <2>2, <3>1, <1>t, <1>j DEF Heartbeat, TypeOK
  <2>3. CASE Succeed(s)
    <3>1. RowsOK' BY <2>3, <2>0, <1>r, UpdateStatusKeeps DEF Succeed
    <3> QED BY <2>3, <2>f, <3>1, <1>t, <1>j DEF Succeed, TypeOK
  <2>4. CASE ProcessFails(s)
    <3>1. RowsOK' BY <2>4, <2>0, <2>u, <1>r, UpdateStatusKeeps DEF ProcessFails
    <3>2. [video |-> job[s].video, attempts |-> job[s].attempts, phase |-> Verdict(s)] \in Job
      BY <2>4, <1>t, BusyJob DEF ProcessFails, Verdict, Job, Phase
    <3> QED BY <2>4, <3>1, <3>2, <1>t, <1>j DEF ProcessFails, TypeOK
  <2>5. CASE Release(s)
    <3>1. RowsOK' BY <2>5, <2>0, <1>r, ReleaseRowKeeps DEF Release
    <3> QED BY <2>5, <2>f, <3>1, <1>t, <1>j DEF Release, TypeOK
  <2>6. CASE Requeue(s)
    <3>1. RowsOK' BY <2>6, <2>0, <1>r, RequeueRowKeeps DEF Requeue
    <3> QED BY <2>6, <2>f, <3>1, <1>t, <1>j DEF Requeue, TypeOK
  <2>7. CASE Fail(s)
    <3>1. RowsOK' BY <2>7, <2>0, <1>r, UpdateStatusKeeps DEF Fail
    <3> QED BY <2>7, <2>f, <3>1, <1>t, <1>j DEF Fail, TypeOK
  <2>8. CASE RecordLost(s)
    <3>1. RowsOK' BY <2>8, <2>u DEF RecordLost
    <3> QED BY <2>8, <2>f, <3>1, <1>t, <1>j DEF RecordLost, TypeOK
  <2> QED BY <1>4, <2>1, <2>2, <2>3, <2>4, <2>5, <2>6, <2>7, <2>8 DEF JobNext
<1>5. CASE Tick
  <2>1. RowsOK'
    BY <1>5, <1>r, NullAssumption, LimitAssumption DEF Tick, RowsOK, HeartbeatKnown
  <2> QED BY <1>5, <2>1, <1>t, <1>j DEF Tick, TypeOK
<1>6. CASE UNCHANGED vars
  BY <1>6 DEF vars, TypeInv, TypeOK, HeartbeatKnown
<1> QED BY <1>1, <1>2, <1>3, <1>4, <1>5, <1>6 DEF Next, ApiNext

(* Every variable always has its type: the columns of a row, the states of *)
(* the polling loops and of the jobs.                                      *)
THEOREM TypeCorrect == Spec => []TypeOK
<1>1. TypeInv => TypeOK BY DEF TypeInv
<1> QED BY <1>1, TypeInit, TypeStep, PTL DEF Spec

(* A 'processing' row always has a heartbeat_at, so the reclaim pass of    *)
(* repository/video.go:235-249 can see it once its worker is gone.         *)
THEOREM HeartbeatAlwaysKnown == Spec => []HeartbeatKnown
<1>1. TypeInv => HeartbeatKnown BY DEF TypeInv
<1> QED BY <1>1, TypeInit, TypeStep, PTL DEF Spec

-----------------------------------------------------------------------------
(* Terminal rows.  Only the guards of the statements and the values they   *)
(* write are needed: whoever makes the step, a row that is 'ready' or      *)
(* 'failed' is selected by no statement that writes 'pending' or           *)
(* 'processing'.                                                           *)
KeepsTerminal ==
    \A v \in Video : Terminal(v) => status'[v] \in {"ready", "failed", "deleted"}

\* UpdateStatus to ready or failed requeues nothing.
LEMMA UpdateStatusTerminal ==
    ASSUME TypeOK, NEW v \in Video, NEW st \in {"ready", "failed"}, UpdateStatus(v, st)
    PROVE  KeepsTerminal
BY DEF TypeOK, UpdateStatus, KeepsTerminal, Terminal, Exists

\* No step requeues a ready or failed row.
LEMMA TerminalStep == TypeOK /\ [Next]_vars => KeepsTerminal
<1> SUFFICES ASSUME TypeOK, [Next]_vars PROVE KeepsTerminal
  OBVIOUS
<1>u. ASSUME UNCHANGED status PROVE KeepsTerminal
  BY <1>u DEF KeepsTerminal, Terminal
<1>1. ASSUME NEW v \in Video, Upload(v) PROVE KeepsTerminal
  BY <1>1 DEF Upload, TypeOK, KeepsTerminal, Terminal
<1>2. ASSUME NEW v \in Video, Delete(v) PROVE KeepsTerminal
  BY <1>2 DEF Delete, TypeOK, KeepsTerminal, Terminal
<1>3. ASSUME NEW w \in Worker, LoopNext(w) PROVE KeepsTerminal
  <2>1. CASE Start(w) \/ Stop(w) \/ Crash(w) \/ ReclaimError(w) \/ Drain(w) \/ Exit(w)
    BY <2>1, <1>u DEF Start, Stop, Crash, ReclaimError, Drain, Exit, rows
  <2>2. CASE RequeueStale(w)
    BY <2>2 DEF RequeueStale, ReclaimRows, Requeueable, Stale, KeepsTerminal, Terminal
  <2>3. CASE FailStale(w)
    BY <2>3 DEF FailStale, ReclaimRows, Exhausted, Stale, KeepsTerminal, Terminal
  <2>4. ASSUME NEW v \in Video, LostClaim(w, v) PROVE KeepsTerminal
    BY <2>4 DEF LostClaim, Claimable, ClaimRow, TypeOK, KeepsTerminal, Terminal
  <2> QED BY <1>3, <2>1, <2>2, <2>3, <2>4 DEF LoopNext
<1>4. ASSUME NEW s \in Slot, JobNext(s) PROVE KeepsTerminal
  <2>0. Busy(s) => job[s].video \in Video
    BY BusyJob
  <2>1. ASSUME NEW v \in Video, Claim(s, v) PROVE KeepsTerminal
    BY <2>1 DEF Claim, Claimable, ClaimRow, TypeOK, KeepsTerminal, Terminal
  <2>2. CASE Heartbeat(s) \/ RecordLost(s)
    BY <2>2, <1>u DEF Heartbeat, RecordLost, rows
  <2>3. CASE Succeed(s) \/ Fail(s)
    BY <2>3, <2>0, UpdateStatusTerminal DEF Succeed, Fail
  <2>4. CASE ProcessFails(s)
    BY <2>4, <2>0, <1>u, UpdateStatusTerminal DEF ProcessFails, rows
  <2>5. CASE Release(s)
    BY <2>5, <2>0, <1>u DEF Release, ReleaseRow, rows, TypeOK, KeepsTerminal, Terminal
  <2>6. CASE Requeue(s)
    BY <2>6, <2>0, <1>u DEF Requeue, RequeueRow, rows, TypeOK, KeepsTerminal, Terminal
  <2> QED BY <1>4, <2>1, <2>2, <2>3, <2>4, <2>5, <2>6 DEF JobNext
<1>5. CASE Tick \/ UNCHANGED vars
  BY <1>5, <1>u DEF Tick, vars
<1> QED BY <1>1, <1>2, <1>3, <1>4, <1>5 DEF Next, ApiNext

(* A ready or failed video never goes back to the queue, through zombie    *)
(* workers, lost answers, crashes and reclaim passes in any order          *)
(* (repository/video.go:189-254).                                          *)
THEOREM TerminalRowsStay == Spec => TerminalNeverRequeued
<1>1. TypeOK /\ [Next]_vars =>
        [\A v \in Video :
            Terminal(v) => status'[v] \in {"ready", "failed", "deleted"}]_vars
  BY TerminalStep DEF KeepsTerminal
<1> QED BY <1>1, TypeCorrect, PTL DEF Spec, TerminalNeverRequeued

-----------------------------------------------------------------------------
(* Leases.  While heartbeats are timely a job owns its row, and so the     *)
(* attempts the job remembers are the attempts of the row; this is what    *)
(* makes the budget test of runJob a test of the row.  The conjuncts       *)
(* JobShape and Fresh are what the induction needs besides: the verdict of *)
(* a job fits its attempts, and a row that was never inserted has spent    *)
(* nothing.                                                                *)
JobShape(s) == /\ job[s].attempts > 0
               /\ job[s].phase = "requeue" => job[s].attempts < MaxAttempts
               /\ job[s].phase = "fail" => job[s].attempts >= MaxAttempts

Fresh(v) == status[v] = "absent" => attempts[v] = 0

Leases == /\ \A s \in Slot : Busy(s) => JobShape(s) /\ OwnsRow(s)
          /\ \A v \in Video : Fresh(v) /\ RowInBudget(v)

\* No job at first, so every lease holds.
LEMMA LeasesInit == Init => Leases
BY LimitAssumption DEF Init, Leases, Busy, Fresh, RowInBudget

(* A statement that leaves the row of every job alone, and makes no job,   *)
(* keeps every lease.                                                      *)
SameRow(v) == status'[v] = status[v] /\ attempts'[v] = attempts[v] /\ hb'[v] = hb[v]

\* Jobs end or stay as they are, and those that stay keep their rows.
LEMMA LeasesFrame ==
    ASSUME TypeOK, Leases,
           \A s \in Slot : job'[s] \in {job[s], NoJob},
           \A s \in Slot : Busy(s) /\ job'[s] = job[s] => SameRow(job[s].video),
           \A v \in Video : Fresh(v)' /\ RowInBudget(v)'
    PROVE  Leases'
<1>1. ASSUME NEW s \in Slot, Busy(s)'
      PROVE  JobShape(s)' /\ OwnsRow(s)'
  <2>1. Busy(s) /\ job'[s] = job[s] /\ SameRow(job[s].video)
    BY <1>1 DEF Busy
  <2>2. JobShape(s) /\ OwnsRow(s)
    BY <2>1 DEF Leases
  <2>3. \A t \in Slot : Holds(t, job[s].video)' => Holds(t, job[s].video)
    BY <2>1 DEF Holds
  <2> QED BY <2>1, <2>2, <2>3 DEF JobShape, OwnsRow, SameRow
<1> QED BY <1>1 DEF Leases

\* A row that does not change stays within the budget.
LEMMA BudgetFrame ==
    ASSUME Leases, NEW v \in Video, SameRow(v)
    PROVE  Fresh(v)' /\ RowInBudget(v)'
BY DEF Leases, Fresh, RowInBudget, SameRow

(* What a lease says of the rows other actors touch: no job works on a     *)
(* queued, absent or stale row, and no two jobs work on one video.         *)
LEMMA LeasesExclude ==
    ASSUME TypeOK, Leases
    PROVE  /\ \A s \in Slot : Busy(s) =>
                status[job[s].video] \notin {"absent", "pending", "failed"}
           /\ \A s \in Slot : Busy(s) => ~Stale(job[s].video)
           /\ \A s, t \in Slot : Busy(s) /\ Busy(t) /\ job[s].video = job[t].video
                => s = t
<1>1. ASSUME NEW s \in Slot, Busy(s)
      PROVE  status[job[s].video] \notin {"absent", "pending", "failed"}
  BY <1>1 DEF Leases, OwnsRow
<1>2. ASSUME NEW s \in Slot, Busy(s)
      PROVE  ~Stale(job[s].video)
  BY <1>2, LimitAssumption DEF Leases, OwnsRow, Stale
<1>3. ASSUME NEW s \in Slot, NEW t \in Slot, Busy(s), Busy(t), job[s].video = job[t].video
      PROVE  s = t
  BY <1>3 DEF Leases, OwnsRow, Holds, Busy
<1> QED BY <1>1, <1>2, <1>3

(* The end of a job whose row may change: no other lease is touched.       *)
LEMMA LeasesEnd ==
    ASSUME TypeOK, Leases, NEW s \in Slot, Busy(s), FreeUp(s),
           NEW v \in Video, job[s].video = v,
           \A x \in Video : x # v => SameRow(x),
           Fresh(v)' /\ RowInBudget(v)'
    PROVE  Leases'
<1>1. \A t \in Slot : job'[t] \in {job[t], NoJob}
  BY DEF FreeUp, TypeOK
<1>2. ASSUME NEW t \in Slot, Busy(t), job'[t] = job[t]
      PROVE  SameRow(job[t].video)
  <2>1. t # s
    BY <1>2 DEF FreeUp, TypeOK, Busy
  <2> QED BY <1>2, <2>1, LeasesExclude, BusyJob
<1>3. ASSUME NEW x \in Video
      PROVE  Fresh(x)' /\ RowInBudget(x)'
  <2>1. CASE x = v
    BY <2>1
  <2>2. CASE x # v
    BY <2>2, BudgetFrame
  <2> QED BY <2>1, <2>2
<1> QED BY <1>1, <1>2, <1>3, LeasesFrame

\* The steps of the polling loop keep the leases: a reclaim touches stale
\* rows only.
LEMMA LeasesLoop ==
    ASSUME Timely, TypeOK, Leases, NEW w \in Worker, LoopNext(w)
    PROVE  Leases'
<1>u. ASSUME UNCHANGED rows, \A s \in Slot : job'[s] \in {job[s], NoJob}
      PROVE  Leases'
  <2>1. \A v \in Video : SameRow(v)
    BY <1>u DEF rows, SameRow
  <2> QED BY <1>u, <2>1, LeasesFrame, BudgetFrame, BusyJob
<1>r. ASSUME NEW V, NEW st \in {"pending", "failed"}, ReclaimRows(V, st), UNCHANGED job,
             \A v \in V : Stale(v),
             \A v \in V : IF st = "pending" THEN attempts[v] < MaxAttempts
                                            ELSE attempts[v] >= MaxAttempts
      PROVE  Leases'
  <2>1. ASSUME NEW v \in Video, v \notin V PROVE SameRow(v)
    BY <1>r, <2>1 DEF ReclaimRows, SameRow, TypeOK
  <2>2. ASSUME NEW v \in Video PROVE Fresh(v)' /\ RowInBudget(v)'
    <3>1. CASE v \notin V
      BY <2>1, <3>1, BudgetFrame
    <3>2. CASE v \in V
      BY <1>r, <3>2, LimitAssumption
         DEF ReclaimRows, Leases, Fresh, RowInBudget, Stale, TypeOK
    <3> QED BY <3>1, <3>2
  <2>3. ASSUME NEW s \in Slot, Busy(s) PROVE SameRow(job[s].video)
    BY <1>r, <2>1, <2>3, LeasesExclude, BusyJob
  <2> QED BY <1>r, <2>2, <2>3, LeasesFrame
<1>1. CASE Start(w) \/ Stop(w) \/ Crash(w) \/ ReclaimError(w) \/ Drain(w) \/ Exit(w)
  BY <1>1, <1>u DEF Start, Stop, Crash, ReclaimError, Drain, Exit
<1>2. CASE RequeueStale(w)
  <2>1. /\ \A v \in Requeueable : Stale(v)
        /\ \A v \in Requeueable : attempts[v] < MaxAttempts
    BY DEF Requeueable
  <2> QED BY <1>2, <2>1, <1>r DEF RequeueStale
<1>3. CASE FailStale(w)
  <2>1. /\ \A v \in Exhausted : Stale(v)
        /\ \A v \in Exhausted : attempts[v] >= MaxAttempts
    BY DEF Exhausted
  <2> QED BY <1>3, <2>1, <1>r DEF FailStale
<1>4. ASSUME NEW v \in Video, LostClaim(w, v) PROVE Leases'
  <2>1. \A x \in Video : x # v => SameRow(x)
    BY <1>4 DEF LostClaim, ClaimRow, SameRow, TypeOK
  <2>2. Fresh(v)' /\ RowInBudget(v)'
    BY <1>4, LimitAssumption DEF LostClaim, Claimable, ClaimRow, Leases, Fresh, RowInBudget, TypeOK
  <2>3. \A s \in Slot : Busy(s) => job[s].video # v
    BY <1>4, LeasesExclude DEF LostClaim, Claimable
  <2>4. \A x \in Video : Fresh(x)' /\ RowInBudget(x)'
    BY <2>1, <2>2, BudgetFrame
  <2>5. UNCHANGED job
    BY <1>4 DEF LostClaim
  <2> QED BY <2>1, <2>3, <2>4, <2>5, LeasesFrame, BusyJob
<1> QED BY <1>1, <1>2, <1>3, <1>4 DEF LoopNext

\* A claim starts a lease on a row nobody holds.
LEMMA LeasesClaim ==
    ASSUME TypeOK, Leases, NEW s \in Slot, NEW v \in Video, Claim(s, v)
    PROVE  Leases'
<1> DEFINE j == [video |-> v, attempts |-> attempts[v] + 1, phase |-> "working"]
<1>0. /\ status[v] = "pending" /\ ~Busy(s) /\ ClaimRow(v)
      /\ job' = [job EXCEPT ![s] = j]
  BY DEF Claim, Claimable
<1>1. \A x \in Video : x # v => SameRow(x)
  BY <1>0 DEF ClaimRow, SameRow, TypeOK
<1>2. /\ status'[v] = "processing" /\ hb'[v] = 0
      /\ attempts'[v] = attempts[v] + 1
      /\ attempts[v] < MaxAttempts
  BY <1>0 DEF ClaimRow, TypeOK, Leases, RowInBudget
<1>3. \A x \in Video : Fresh(x)' /\ RowInBudget(x)'
  <2>1. Fresh(v)' /\ RowInBudget(v)'
    BY <1>2, LimitAssumption DEF Fresh, RowInBudget, TypeOK
  <2> QED BY <1>1, <2>1, BudgetFrame
<1>4. \A t \in Slot : Busy(t) => job[t].video # v
  BY <1>0, LeasesExclude
<1>5. j # NoJob /\ j.video = v /\ j.attempts = attempts[v] + 1 /\ j.phase = "working"
  <2>1. j \in Job
    BY DEF Job, Phase, TypeOK
  <2> QED BY <2>1, NullAssumption
<1>6. \A t \in Slot : job'[t] = IF t = s THEN j ELSE job[t]
  BY <1>0 DEF TypeOK
<1> HIDE DEF j
<1>7. ASSUME NEW t \in Slot, Busy(t)' PROVE JobShape(t)' /\ OwnsRow(t)'
  <2>1. CASE t = s
    <3>1. JobShape(s)'
      BY <1>5, <1>6, LimitAssumption DEF JobShape, TypeOK
    <3>2. \A u \in Slot : Holds(u, v)' => u = s
      BY <1>4, <1>6 DEF Holds, Busy
    <3> QED BY <2>1, <1>2, <1>5, <1>6, <3>1, <3>2, LimitAssumption DEF OwnsRow
  <2>2. CASE t # s
    <3>1. Busy(t) /\ job'[t] = job[t]
      BY <1>6, <1>7, <2>2 DEF Busy
    <3>2. JobShape(t) /\ OwnsRow(t) /\ SameRow(job[t].video)
      BY <3>1, <1>1, <1>4, BusyJob DEF Leases
    <3>3. \A u \in Slot : Holds(u, job[t].video)' => Holds(u, job[t].video)
      BY <1>4, <1>5, <1>6, <3>1 DEF Holds, Busy
    <3> QED BY <3>1, <3>2, <3>3 DEF JobShape, OwnsRow, SameRow
  <2> QED BY <2>1, <2>2
<1> QED BY <1>3, <1>7 DEF Leases

(* The steps of a job at work on video v.                                  *)
LEMMA LeasesJob ==
    ASSUME TypeOK, Leases, NEW s \in Slot, Busy(s), NEW v \in Video, job[s].video = v,
           \/ Heartbeat(s) \/ Succeed(s) \/ ProcessFails(s)
           \/ Release(s) \/ Requeue(s) \/ Fail(s) \/ RecordLost(s)
    PROVE  Leases'
<1>0. JobShape(s) /\ OwnsRow(s)
  BY DEF Leases
<1>2. CASE Heartbeat(s)
  <2>1. /\ Busy(s) /\ v \in Video /\ UNCHANGED <<status, attempts, job>>
        /\ hb'[v] = 0 /\ \A x \in Video : x # v => hb'[x] = hb[x]
    BY <1>2, <1>0 DEF Heartbeat, TypeOK
  <2>2. ASSUME NEW t \in Slot, Busy(t)' PROVE JobShape(t)' /\ OwnsRow(t)'
    <3>1. Busy(t) /\ JobShape(t) /\ OwnsRow(t)
      BY <2>1, <2>2 DEF Busy, Leases
    <3>2. hb'[job[t].video] \in {0, hb[job[t].video]}
      BY <2>1, <3>1, BusyJob
    <3> QED BY <2>1, <3>1, <3>2, LimitAssumption DEF JobShape, OwnsRow, Holds
  <2>3. ASSUME NEW x \in Video PROVE Fresh(x)' /\ RowInBudget(x)'
    BY <2>1 DEF Leases, Fresh, RowInBudget
  <2> QED BY <2>2, <2>3 DEF Leases
<1>3. ASSUME NEW st \in {"ready", "failed"}, Busy(s), UpdateStatus(v, st),
             st = "failed" => job[s].phase = "fail"
      PROVE  /\ \A x \in Video : x # v => SameRow(x)
             /\ Fresh(v)' /\ RowInBudget(v)'
             /\ attempts'[v] = attempts[v]
             /\ status'[v] \in {st, "deleted"}
             /\ status[v] = "deleted" <=> status'[v] = "deleted"
  <2>1. v \in Video /\ JobShape(s) /\ OwnsRow(s) /\ Fresh(v) /\ RowInBudget(v)
    BY <1>3, <1>0 DEF Leases
  <2>2. /\ \A x \in Video : x # v => SameRow(x)
        /\ attempts' = attempts
        /\ status'[v] = IF Exists(v) THEN st ELSE status[v]
    BY <1>3, <2>1 DEF UpdateStatus, SameRow, TypeOK
  <2>3. status[v] \in {"processing", "deleted", "ready"}
    BY <2>1 DEF OwnsRow
  <2>4. status[v] # "deleted" => attempts[v] = job[s].attempts
    BY <2>1 DEF OwnsRow
  <2>5. /\ attempts[v] \in Nat
        /\ attempts'[v] = attempts[v]
        /\ status'[v] \in {st, "deleted"}
        /\ status[v] = "deleted" <=> status'[v] = "deleted"
    BY <2>1, <2>2, <2>3 DEF TypeOK, Exists
  <2>6. st = "failed" /\ status[v] # "deleted" => attempts[v] = MaxAttempts
    BY <1>3, <2>1, <2>4, <2>5, LimitAssumption DEF JobShape, RowInBudget
  <2>7. Fresh(v)' /\ RowInBudget(v)'
    BY <2>1, <2>3, <2>5, <2>6 DEF Fresh, RowInBudget
  <2> QED BY <2>2, <2>5, <2>7
<1>4. CASE Succeed(s)
  <2>1. Busy(s) /\ FreeUp(s) /\ UpdateStatus(v, "ready")
    BY <1>4 DEF Succeed
  <2> QED BY <2>1, <1>3, LeasesEnd
<1>5. CASE Fail(s)
  <2>1. Busy(s) /\ FreeUp(s) /\ UpdateStatus(v, "failed") /\ job[s].phase = "fail"
    BY <1>5 DEF Fail
  <2> QED BY <2>1, <1>3, LeasesEnd
<1>6. CASE Release(s)
  <2>1. Busy(s) /\ FreeUp(s) /\ ReleaseRow(v) /\ v \in Video /\ JobShape(s) /\ OwnsRow(s)
    BY <1>6, <1>0 DEF Release
  <2>2. \A x \in Video : x # v => SameRow(x)
    BY <2>1 DEF ReleaseRow, rows, SameRow, TypeOK
  <2>3. Fresh(v)' /\ RowInBudget(v)'
    <3>1. CASE status[v] = "processing"
      BY <2>1, <3>1, LimitAssumption DEF ReleaseRow, TypeOK, Fresh, RowInBudget, Leases
    <3>2. CASE status[v] # "processing"
      BY <2>1, <3>2 DEF ReleaseRow, rows, Fresh, RowInBudget, Leases
    <3> QED BY <3>1, <3>2
  <2> QED BY <2>1, <2>2, <2>3, LeasesEnd
<1>7. CASE Requeue(s)
  <2>1. /\ Busy(s) /\ FreeUp(s) /\ RequeueRow(v) /\ v \in Video /\ JobShape(s) /\ OwnsRow(s)
        /\ job[s].phase = "requeue"
    BY <1>7, <1>0 DEF Requeue
  <2>2. \A x \in Video : x # v => SameRow(x)
    BY <2>1 DEF RequeueRow, rows, SameRow, TypeOK
  <2>3. Fresh(v)' /\ RowInBudget(v)'
    <3>1. CASE status[v] = "processing"
      <4>1. attempts[v] < MaxAttempts
        BY <2>1, <3>1 DEF JobShape, OwnsRow
      <4> QED BY <2>1, <3>1, <4>1, LimitAssumption
              DEF RequeueRow, TypeOK, Fresh, RowInBudget, Leases
    <3>2. CASE status[v] # "processing"
      <4> QED BY <2>1, <3>2 DEF RequeueRow, rows, Fresh, RowInBudget, Leases
    <3> QED BY <3>1, <3>2
  <2> QED BY <2>1, <2>2, <2>3, LeasesEnd
<1>8. CASE RecordLost(s)
  <2>1. Busy(s) /\ FreeUp(s) /\ UNCHANGED rows
    BY <1>8 DEF RecordLost
  <2>2. \A x \in Video : SameRow(x)
    BY <2>1 DEF rows, SameRow
  <2> QED BY <2>1, <2>2, <1>0, BudgetFrame, LeasesEnd
<1>9. CASE ProcessFails(s)
  <2> DEFINE j == [video |-> v, attempts |-> job[s].attempts, phase |-> Verdict(s)]
  <2>1. /\ Busy(s) /\ v \in Video /\ JobShape(s) /\ OwnsRow(s)
        /\ UNCHANGED rows \/ (~ReliableDB /\ UpdateStatus(v, "ready"))
        /\ \A t \in Slot : job'[t] = IF t = s THEN j ELSE job[t]
    BY <1>9, <1>0 DEF ProcessFails, TypeOK
  <2>2. /\ j.video = v /\ j.attempts = job[s].attempts /\ j.phase = Verdict(s)
        /\ Verdict(s) \in {"release", "requeue", "fail"}
    BY DEF Verdict
  <2>3. /\ Verdict(s) = "requeue" => job[s].attempts < MaxAttempts
        /\ Verdict(s) = "fail" => job[s].attempts >= MaxAttempts
    BY <2>1, BusyJob, LimitAssumption DEF Verdict
  <2>4. /\ \A x \in Video : x # v => SameRow(x)
        /\ Fresh(v)' /\ RowInBudget(v)'
        /\ attempts'[v] = attempts[v]
        /\ SameRow(v) \/ (~ReliableDB /\ status'[v] \in {"ready", "deleted"})
        /\ status[v] = "deleted" <=> status'[v] = "deleted"
    <3>1. CASE UNCHANGED rows
      BY <2>1, <3>1, BudgetFrame DEF rows, SameRow
    <3>2. CASE ~ReliableDB /\ UpdateStatus(v, "ready")
      BY <2>1, <3>2, <1>3
    <3> QED BY <2>1, <3>1, <3>2
  <2>5. ASSUME NEW t \in Slot, Busy(t)' PROVE JobShape(t)' /\ OwnsRow(t)'
    <3>1. CASE t = s
      <4>1. /\ job'[s].video = v /\ job'[s].attempts = job[s].attempts
            /\ job'[s].phase = Verdict(s)
        BY <2>1, <2>2
      <4>2. JobShape(s)'
        BY <2>1, <2>3, <4>1 DEF JobShape
      <4>3. \A u \in Slot : Holds(u, v)' => Holds(u, v)
        BY <2>1 DEF Holds, Busy
      <4>4. OwnsRow(s)'
        BY <2>1, <2>2, <2>4, <4>1, <4>3 DEF OwnsRow, SameRow
      <4> QED BY <3>1, <4>2, <4>4
    <3>2. CASE t # s
      <4>1. Busy(t) /\ job'[t] = job[t]
        BY <2>1, <2>5, <3>2 DEF Busy
      <4>2. job[t].video # v
        BY <2>1, <3>2, <4>1, LeasesExclude
      <4>3. JobShape(t) /\ OwnsRow(t) /\ SameRow(job[t].video)
        BY <4>1, <4>2, <2>4, BusyJob DEF Leases
      <4>4. \A u \in Slot : Holds(u, job[t].video)' => Holds(u, job[t].video)
        BY <2>1, <2>2, <4>2 DEF Holds
      <4> QED BY <4>1, <4>3, <4>4 DEF JobShape, OwnsRow, SameRow
    <3> QED BY <3>1, <3>2
  <2>6. ASSUME NEW x \in Video PROVE Fresh(x)' /\ RowInBudget(x)'
    <3>1. CASE x = v
      BY <3>1, <2>4
    <3>2. CASE x # v
      BY <3>2, <2>4, BudgetFrame
    <3> QED BY <3>1, <3>2
  <2> QED BY <2>5, <2>6 DEF Leases
<1> QED BY <1>2, <1>4, <1>5, <1>6, <1>7, <1>8, <1>9

\* An upload or a delete keeps the leases.
LEMMA LeasesApi ==
    ASSUME TypeOK, Leases, ApiNext
    PROVE  Leases'
<1>1. ASSUME NEW v \in Video, Upload(v) PROVE Leases'
  <2>1. \A x \in Video : x # v => SameRow(x)
    BY <1>1 DEF Upload, SameRow, TypeOK
  <2>2. Fresh(v)' /\ RowInBudget(v)'
    BY <1>1, LimitAssumption DEF Upload, Leases, Fresh, RowInBudget, TypeOK
  <2>3. \A s \in Slot : Busy(s) => job[s].video # v
    BY <1>1, LeasesExclude DEF Upload
  <2>4. UNCHANGED job
    BY <1>1 DEF Upload
  <2> QED BY <2>1, <2>2, <2>3, <2>4, BudgetFrame, BusyJob, LeasesFrame
<1>2. ASSUME NEW v \in Video, Delete(v) PROVE Leases'
  <2>1. \A x \in Video : x # v => SameRow(x)
    BY <1>2 DEF Delete, SameRow, TypeOK
  <2>2. /\ UNCHANGED job
        /\ status'[v] = "deleted" /\ attempts'[v] = 0
    BY <1>2 DEF Delete, TypeOK
  <2>3. \A x \in Video : Fresh(x)' /\ RowInBudget(x)'
    <3>1. Fresh(v)' /\ RowInBudget(v)'
      BY <2>2, LimitAssumption DEF Fresh, RowInBudget
    <3> QED BY <2>1, <3>1, BudgetFrame
  <2>4. ASSUME NEW s \in Slot, Busy(s)' PROVE JobShape(s)' /\ OwnsRow(s)'
    <3>1. Busy(s) /\ JobShape(s) /\ OwnsRow(s)
      BY <2>2, <2>4 DEF Busy, Leases
    <3>2. CASE job[s].video = v
      BY <2>2, <3>1, <3>2 DEF JobShape, OwnsRow, Holds
    <3>3. CASE job[s].video # v
      BY <2>1, <2>2, <3>1, <3>3, BusyJob DEF JobShape, OwnsRow, Holds, SameRow
    <3> QED BY <3>2, <3>3
  <2> QED BY <2>3, <2>4 DEF Leases
<1> QED BY <1>1, <1>2 DEF ApiNext

(* The clock may not pass StaleAfter under a live job.                     *)
LEMMA LeasesTick ==
    ASSUME Timely, TypeOK, Leases, Tick
    PROVE  Leases'
<1>1. ASSUME NEW s \in Slot, Busy(s)' PROVE JobShape(s)' /\ OwnsRow(s)'
  <2>1. Busy(s) /\ JobShape(s) /\ OwnsRow(s) /\ OnTime(s) /\ job[s].video \in Video
    BY <1>1, BusyJob DEF Tick, Busy, Leases
  <2>2. status[job[s].video] = "processing" => hb'[job[s].video] \in 0 .. StaleAfter
    BY <2>1, LimitAssumption DEF Tick, OwnsRow, OnTime
  <2> QED BY <2>1, <2>2 DEF Tick, JobShape, OwnsRow, Holds
<1>2. ASSUME NEW v \in Video PROVE Fresh(v)' /\ RowInBudget(v)'
  BY DEF Tick, Leases, Fresh, RowInBudget
<1> QED BY <1>1, <1>2 DEF Leases

LeaseInv == TypeInv /\ (Timely => Leases)

\* Every step keeps the lease invariant.
LEMMA LeaseStep == LeaseInv /\ [Next]_vars => LeaseInv'
<1> SUFFICES ASSUME Timely, TypeOK, Leases, [Next]_vars PROVE Leases'
  BY TypeStep DEF LeaseInv, TypeInv
<1>1. CASE ApiNext
  BY <1>1, LeasesApi
<1>2. ASSUME NEW w \in Worker, LoopNext(w) PROVE Leases'
  BY <1>2, LeasesLoop
<1>3. ASSUME NEW s \in Slot, JobNext(s) PROVE Leases'
  <2>1. ASSUME NEW v \in Video, Claim(s, v) PROVE Leases'
    BY <2>1, LeasesClaim
  <2>2. ASSUME \/ Heartbeat(s) \/ Succeed(s) \/ ProcessFails(s)
               \/ Release(s) \/ Requeue(s) \/ Fail(s) \/ RecordLost(s)
        PROVE  Leases'
    <3>1. Busy(s)
      BY <2>2 DEF Heartbeat, Succeed, ProcessFails, Release, Requeue, Fail, RecordLost
    <3> QED BY <2>2, <3>1, BusyJob, LeasesJob
  <2> QED BY <1>3, <2>1, <2>2 DEF JobNext
<1>4. CASE Tick
  BY <1>4, LeasesTick
<1>5. CASE UNCHANGED vars
  BY <1>5 DEF vars, Leases, Busy, JobShape, OwnsRow, Holds, Fresh, RowInBudget
<1> QED BY <1>1, <1>2, <1>3, <1>4, <1>5 DEF Next

\* The lease invariant always holds.
LEMMA LeaseInvariant == Spec => []LeaseInv
<1>1. Init => LeaseInv
  BY TypeInit, LeasesInit DEF LeaseInv
<1> QED BY <1>1, LeaseStep, PTL DEF Spec

(* While heartbeats are timely, a job owns the row its outcome write names *)
(* by video id alone (worker.go:151-186): no other job works on the video, *)
(* and the row is the one this job claimed.                                *)
THEOREM JobsOwnTheirRows == Spec => []JobOwnsRow
<1>1. LeaseInv => JobOwnsRow
  BY DEF LeaseInv, Leases, JobOwnsRow
<1> QED BY <1>1, LeaseInvariant, PTL

(* While heartbeats are timely, no video is attempted more than            *)
(* MaxAttempts times and none is failed with an attempt left.              *)
THEOREM BudgetIsKept == Spec => []AttemptBudget
<1>1. LeaseInv => AttemptBudget
  BY DEF LeaseInv, Leases, AttemptBudget
<1> QED BY <1>1, LeaseInvariant, PTL

\* A release that finds its lease intact gives the attempt back.
LEMMA RefundStep ==
    ASSUME TypeOK, Leases, [Next]_vars, NEW s \in Slot, Released(s)
    PROVE  attempts'[job[s].video] = job[s].attempts - 1
<1>1. PICK v \in Video : v = job[s].video
  BY BusyJob DEF Released
<1>2. /\ Busy(s) /\ job[s].phase = "release" /\ JobShape(s) /\ OwnsRow(s)
      /\ status[v] = "processing" /\ status'[v] = "pending" /\ job'[s] # job[s]
  BY <1>1 DEF Released, Busy, Leases
<1>3. attempts[v] = job[s].attempts /\ job[s].attempts > 0 /\ job[s].attempts \in Nat
  BY <1>1, <1>2, BusyJob DEF OwnsRow, JobShape
<1>4. ~ApiNext /\ ~Tick /\ ~UNCHANGED vars
  BY <1>2 DEF ApiNext, Upload, Delete, Tick, vars
<1>5. ASSUME NEW w \in Worker, LoopNext(w) PROVE FALSE
  <2>1. CASE Crash(w)
    BY <1>2, <2>1 DEF Crash, rows
  <2>2. CASE Start(w) \/ Stop(w) \/ ReclaimError(w) \/ Drain(w) \/ Exit(w)
    BY <1>2, <2>2 DEF Start, Stop, ReclaimError, Drain, Exit
  <2>3. CASE RequeueStale(w) \/ FailStale(w)
    BY <1>2, <2>3 DEF RequeueStale, FailStale
  <2>4. ASSUME NEW x \in Video, LostClaim(w, x) PROVE FALSE
    BY <1>2, <2>4 DEF LostClaim
  <2> QED BY <1>5, <2>1, <2>2, <2>3, <2>4 DEF LoopNext
<1>6. ASSUME NEW t \in Slot, JobNext(t) PROVE attempts'[v] = attempts[v] - 1
  <2>1. t = s
    <3>1. ASSUME t # s PROVE job'[s] = job[s]
      BY <1>6, <3>1 DEF JobNext, Claim, Heartbeat, Succeed, ProcessFails, Release,
                        Requeue, Fail, RecordLost, FreeUp, TypeOK
    <3> QED BY <1>2, <3>1
  <2>2. Release(s) \/ RecordLost(s)
    BY <1>2, <1>6, <2>1 DEF JobNext, Claim, Heartbeat, Succeed, ProcessFails, Requeue, Fail
  <2>3. ~RecordLost(s)
    BY <1>2 DEF RecordLost, rows
  <2>4. ReleaseRow(v)
    BY <1>1, <2>2, <2>3 DEF Release
  <2> QED BY <1>2, <1>3, <2>4 DEF ReleaseRow, TypeOK
<1> QED BY <1>1, <1>3, <1>4, <1>5, <1>6 DEF Next

(* While heartbeats are timely, a job interrupted by a shutdown puts the   *)
(* row back with the attempts it had before the claim (worker.go:8-9).     *)
THEOREM ShutdownGivesBack == Timely => (Spec => ShutdownRefunds)
<1> SUFFICES ASSUME Timely PROVE Spec => ShutdownRefunds
  OBVIOUS
<1>1. LeaseInv /\ [Next]_vars =>
        [\A s \in Slot : Released(s) =>
            attempts'[job[s].video] = job[s].attempts - 1]_vars
  BY RefundStep DEF LeaseInv, TypeInv
<1> QED BY <1>1, LeaseInvariant, PTL DEF Spec, ShutdownRefunds

-----------------------------------------------------------------------------
(* The queue implements the lifecycle, where heartbeats are timely and the *)
(* database answers: every step is, for each video, a step of              *)
(* VideoLifecycle or none.                                                 *)
LifeMove(v) == Life!VideoStep(v) \/ Life!Rest(v)

\* With timely heartbeats and an answering database, a step moves every row
\* as VideoLifecycle allows.
LEMMA LifeMoves ==
    ASSUME Timely, ReliableDB, TypeOK, Leases, [Next]_vars, NEW v \in Video
    PROVE  LifeMove(v)
<1> USE DEF LifeMove
<1>r. ASSUME SameRow(v) PROVE LifeMove(v)
  BY <1>r DEF SameRow, Life!Rest
<1>0. RowInBudget(v) /\ attempts[v] \in Nat /\ attempts[v] + 0 = attempts[v]
  BY DEF Leases, TypeOK
<1>1. ASSUME NEW x \in Video, Upload(x) PROVE LifeMove(v)
  <2>1. x # v => SameRow(v)
    BY <1>1 DEF Upload, SameRow, TypeOK
  <2>2. x = v => Life!Create(v)
    BY <1>0, <1>1 DEF Upload, TypeOK, Life!Create, Life!Moves
  <2> QED BY <1>r, <2>1, <2>2 DEF Life!VideoStep
<1>2. ASSUME NEW x \in Video, Delete(x) PROVE LifeMove(v)
  <2>1. x # v => SameRow(v)
    BY <1>2 DEF Delete, SameRow, TypeOK
  <2>2. x = v => Life!Remove(v)
    BY <1>2 DEF Delete, Exists, TypeOK, Life!Remove
  <2> QED BY <1>r, <2>1, <2>2 DEF Life!VideoStep
<1>c. ASSUME NEW x \in Video, status[x] = "pending", ClaimRow(x) PROVE LifeMove(v)
  <2>1. x # v => SameRow(v)
    BY <1>c DEF ClaimRow, SameRow, TypeOK
  <2>2. x = v => Life!Spend(v)
    BY <1>0, <1>c DEF ClaimRow, TypeOK, RowInBudget, Life!Spend, Life!Moves
  <2> QED BY <1>r, <2>1, <2>2 DEF Life!VideoStep
<1>3. ASSUME NEW w \in Worker, LoopNext(w) PROVE LifeMove(v)
  <2>1. CASE Start(w) \/ Stop(w) \/ Crash(w) \/ ReclaimError(w) \/ Drain(w) \/ Exit(w)
    BY <2>1, <1>r DEF Start, Stop, Crash, ReclaimError, Drain, Exit, rows, SameRow
  <2>2. CASE RequeueStale(w)
    <3>1. v \notin Requeueable => SameRow(v)
      BY <2>2 DEF RequeueStale, ReclaimRows, SameRow, TypeOK
    <3>2. v \in Requeueable => Life!Retry(v)
      BY <2>2, <1>0 DEF RequeueStale, ReclaimRows, Requeueable, Stale, Life!Retry, Life!Moves
    <3> QED BY <1>r, <3>1, <3>2 DEF Life!VideoStep
  <2>3. CASE FailStale(w)
    <3>1. v \notin Exhausted => SameRow(v)
      BY <2>3 DEF FailStale, ReclaimRows, SameRow, TypeOK
    <3>2. v \in Exhausted => attempts[v] = MaxAttempts
      BY <1>0, LimitAssumption DEF Exhausted, RowInBudget
    <3>3. v \in Exhausted => Life!GiveUp(v)
      BY <2>3, <1>0, <3>2 DEF FailStale, ReclaimRows, Exhausted, Stale, Life!GiveUp, Life!Moves
    <3> QED BY <1>r, <3>1, <3>3 DEF Life!VideoStep
  <2>4. ASSUME NEW x \in Video, LostClaim(w, x) PROVE LifeMove(v)
    BY <2>4, <1>c DEF LostClaim, Claimable
  <2> QED BY <1>3, <2>1, <2>2, <2>3, <2>4 DEF LoopNext
<1>4. ASSUME NEW s \in Slot, JobNext(s) PROVE LifeMove(v)
  <2>0. ASSUME Busy(s)
        PROVE  /\ JobShape(s) /\ job[s].video \in Video
               /\ status[job[s].video] \in {"processing", "deleted"}
               /\ status[job[s].video] # "deleted" => attempts[job[s].video] = job[s].attempts
    BY <2>0, BusyJob DEF Leases, OwnsRow
  <2>1. ASSUME NEW x \in Video, Claim(s, x) PROVE LifeMove(v)
    BY <2>1, <1>c DEF Claim, Claimable
  <2>2. CASE Heartbeat(s) \/ RecordLost(s)
    BY <2>2 DEF Heartbeat, RecordLost, rows, Life!Rest
  <2>3. CASE ProcessFails(s)
    BY <2>3, <1>r DEF ProcessFails, rows, SameRow
  <2>4. CASE Succeed(s)
    <3>1. Busy(s) /\ UpdateStatus(job[s].video, "ready")
      BY <2>4 DEF Succeed
    <3>2. CASE job[s].video = v /\ status[v] = "processing"
      <4>1. Life!Finish(v)
        BY <1>0, <3>1, <3>2 DEF UpdateStatus, Exists, TypeOK, Life!Finish, Life!Moves
      <4> QED BY <4>1 DEF Life!VideoStep
    <3>3. CASE ~(job[s].video = v /\ status[v] = "processing")
      BY <2>0, <3>1, <3>3 DEF UpdateStatus, Exists, TypeOK, Life!Rest
    <3> QED BY <3>2, <3>3
  <2>5. CASE Fail(s)
    <3>1. Busy(s) /\ job[s].phase = "fail" /\ UpdateStatus(job[s].video, "failed")
      BY <2>5 DEF Fail
    <3>2. CASE job[s].video = v /\ status[v] = "processing"
      <4>0. attempts[v] = MaxAttempts
        BY <1>0, <2>0, <3>1, <3>2, LimitAssumption DEF JobShape, RowInBudget
      <4>1. Life!GiveUp(v)
        BY <1>0, <3>1, <3>2, <4>0 DEF UpdateStatus, Exists, TypeOK, Life!GiveUp, Life!Moves
      <4> QED BY <4>1 DEF Life!VideoStep
    <3>3. CASE ~(job[s].video = v /\ status[v] = "processing")
      BY <2>0, <3>1, <3>3 DEF UpdateStatus, Exists, TypeOK, Life!Rest
    <3> QED BY <3>2, <3>3
  <2>6. CASE Release(s)
    <3>1. Busy(s) /\ ReleaseRow(job[s].video)
      BY <2>6 DEF Release
    <3>2. CASE job[s].video = v /\ status[v] = "processing"
      <4>1. Life!Refund(v)
        BY <1>0, <3>1, <3>2, LimitAssumption
           DEF ReleaseRow, RowInBudget, TypeOK, Life!Refund, Life!Moves
      <4> QED BY <4>1 DEF Life!VideoStep
    <3>3. CASE ~(job[s].video = v /\ status[v] = "processing")
      BY <2>0, <3>1, <3>3 DEF ReleaseRow, rows, TypeOK, Life!Rest
    <3> QED BY <3>2, <3>3
  <2>7. CASE Requeue(s)
    <3>1. Busy(s) /\ job[s].phase = "requeue" /\ RequeueRow(job[s].video)
      BY <2>7 DEF Requeue
    <3>2. CASE job[s].video = v /\ status[v] = "processing"
      <4>0. attempts[v] < MaxAttempts
        BY <2>0, <3>1, <3>2 DEF JobShape
      <4>1. Life!Retry(v)
        BY <1>0, <3>1, <3>2, <4>0 DEF RequeueRow, TypeOK, Life!Retry, Life!Moves
      <4> QED BY <4>1 DEF Life!VideoStep
    <3>3. CASE ~(job[s].video = v /\ status[v] = "processing")
      BY <2>0, <3>1, <3>3 DEF RequeueRow, rows, TypeOK, Life!Rest
    <3> QED BY <3>2, <3>3
  <2> QED BY <1>4, <2>1, <2>2, <2>3, <2>4, <2>5, <2>6, <2>7 DEF JobNext
<1>5. CASE Tick \/ UNCHANGED vars
  BY <1>5 DEF Tick, vars, Life!Rest
<1> QED BY <1>1, <1>2, <1>3, <1>4, <1>5 DEF Next, ApiNext

(* Where heartbeats are timely and the database answers, the queue does    *)
(* with every video what README.md:232-234 promises: a claim spends an     *)
(* attempt that is left, ready and failed are final, and failed comes only *)
(* with the budget spent.                                                  *)
THEOREM QueueImplementsLifecycle == Timely /\ ReliableDB => (Spec => Lifecycle)
<1> SUFFICES ASSUME Timely, ReliableDB PROVE Spec => Lifecycle
  OBVIOUS
<1>1. Init => Life!Init
  BY DEF Init, Life!Init
<1>2. LeaseInv /\ [Next]_vars => [Life!Next]_(Life!lvars)
  <2> SUFFICES ASSUME LeaseInv, [Next]_vars PROVE Life!Next
    OBVIOUS
  <2>1. TypeInv'
    BY TypeStep DEF LeaseInv
  <2>2. DOMAIN status' = Video /\ DOMAIN attempts' = Video
    BY <2>1 DEF TypeInv, TypeOK
  <2>3. \A v \in Video : LifeMove(v)
    BY LifeMoves DEF LeaseInv, TypeInv
  <2> QED BY <2>2, <2>3 DEF Life!Next, LifeMove
<1> QED BY <1>1, <1>2, LeaseInvariant, PTL DEF Spec, Lifecycle, Life!Spec

-----------------------------------------------------------------------------
(* The bound on the attempts that holds without any lease.  Once the       *)
(* budget of a video is spent, only a job claimed before that              *)
(* (Chances) can put it back in the queue, at most once, and only a row in *)
(* the queue can be claimed again; so the attempts, the chances left and a *)
(* queued row (Waiting) together never grow.                               *)
Chances(v) == {s \in Slot : Holds(s, v) /\ job[s].attempts < MaxAttempts}

Waiting(v) == IF status[v] = "pending" THEN 1 ELSE 0

Overspent(v) ==
    attempts[v] >= MaxAttempts =>
        attempts[v] + Cardinality(Chances(v)) + Waiting(v)
            <= MaxAttempts + Cardinality(Slot) - 1

Verdicts == \A s \in Slot : Busy(s) => JobShape(s)

BoundInv == TypeInv /\ Verdicts /\ \A v \in Video : Fresh(v) /\ Overspent(v)

\* The slots that may yet put a video back are finitely many.
LEMMA ChancesFinite ==
    ASSUME NEW v
    PROVE  /\ IsFiniteSet(Chances(v)) /\ Cardinality(Chances(v)) \in Nat
           /\ Cardinality(Chances(v)) <= Cardinality(Slot)
           /\ Cardinality(Slot) \in Nat
<1>1. Chances(v) \in SUBSET Slot
  BY DEF Chances
<1> QED BY <1>1, SlotAssumption, FS_Subset, FS_CardinalityType

\* The bound holds at first.
LEMMA BoundInit == Init => BoundInv
BY TypeInit, LimitAssumption DEF Init, BoundInv, Verdicts, Busy, Fresh, Overspent

\* A video whose chances do not grow, nor its attempts plus its row's waiting.
LEMMA OverspentFrame ==
    ASSUME NEW v \in Video, TypeOK, TypeOK', Overspent(v),
           Chances(v)' \subseteq Chances(v),
           attempts'[v] + Waiting(v)' <= attempts[v] + Waiting(v),
           attempts'[v] >= MaxAttempts => attempts[v] >= MaxAttempts
    PROVE  Overspent(v)'
<1>1. /\ Cardinality(Chances(v)') \in Nat
      /\ Cardinality(Chances(v)) \in Nat
      /\ Cardinality(Slot) \in Nat
      /\ Cardinality(Chances(v)') <= Cardinality(Chances(v))
  <2>1. Chances(v)' \in SUBSET Chances(v)
    OBVIOUS
  <2> QED BY <2>1, ChancesFinite, FS_Subset, FS_CardinalityType
<1>2. /\ attempts[v] \in Nat /\ attempts'[v] \in Nat
      /\ Waiting(v) \in {0, 1} /\ Waiting(v)' \in {0, 1}
  BY DEF TypeOK, Waiting
<1>3. CASE attempts'[v] >= MaxAttempts
  <2>1. attempts[v] + Cardinality(Chances(v)) + Waiting(v)
           <= MaxAttempts + Cardinality(Slot) - 1
    BY <1>3 DEF Overspent
  <2> HIDE DEF Waiting
  <2>2. attempts'[v] + Cardinality(Chances(v)') + Waiting(v)'
           <= MaxAttempts + Cardinality(Slot) - 1
    BY <1>1, <1>2, <2>1, LimitAssumption
  <2> QED BY <2>2 DEF Overspent
<1>4. CASE ~(attempts'[v] >= MaxAttempts)
  BY <1>4 DEF Overspent
<1> QED BY <1>3, <1>4

\* The claim that spends the last attempt: some slot is not a chance.
LEMMA OverspentLast ==
    ASSUME NEW v \in Video, TypeOK', status'[v] # "pending",
           attempts'[v] <= MaxAttempts,
           NEW s \in Slot, ~(Holds(s, v)' /\ job'[s].attempts < MaxAttempts)
    PROVE  Overspent(v)'
<1>1. Chances(v)' \in SUBSET (Slot \ {s})
  BY DEF Chances
<1>2. /\ Cardinality(Chances(v)') \in Nat
      /\ Cardinality(Slot) \in Nat
      /\ Cardinality(Chances(v)') <= Cardinality(Slot) - 1
  BY <1>1, SlotAssumption, FS_RemoveElement, FS_Subset, FS_CardinalityType
<1>3. attempts'[v] \in Nat /\ Waiting(v)' = 0
  BY DEF TypeOK, Waiting
<1>4. attempts'[v] + Cardinality(Chances(v)') + Waiting(v)'
         <= MaxAttempts + Cardinality(Slot) - 1
  BY <1>2, <1>3, LimitAssumption
<1> QED BY <1>4 DEF Overspent

\* A job ends or keeps its video and its attempts.
Dwindles(s) == Busy(s)' => /\ Busy(s)
                           /\ job'[s].video = job[s].video
                           /\ job'[s].attempts = job[s].attempts

\* A step that starts no job on v leaves v no more chances.
LEMMA ChancesDwindle ==
    ASSUME NEW v \in Video, \A s \in Slot : Dwindles(s)
    PROVE  Chances(v)' \subseteq Chances(v)
BY DEF Chances, Dwindles, Holds, Busy

\* No row is inserted, and beyond the budget nothing is spent.
SpendsNoMore(v) ==
    /\ status'[v] = "absent" => status[v] = "absent" /\ attempts'[v] = attempts[v]
    /\ attempts'[v] >= MaxAttempts =>
           /\ attempts'[v] <= attempts[v]
           /\ attempts'[v] + Waiting(v)' <= attempts[v] + Waiting(v)

(* Steps that make no job.                                                 *)
LEMMA BoundFrame ==
    ASSUME NEW v \in Video, TypeOK, TypeOK', Overspent(v), Fresh(v),
           \A s \in Slot : Dwindles(s),
           SpendsNoMore(v)
    PROVE  Fresh(v)' /\ Overspent(v)'
<1>1. attempts[v] \in Nat /\ attempts'[v] \in Nat
  BY DEF TypeOK
<1>2. Overspent(v)'
  <2>1. CASE attempts'[v] >= MaxAttempts
    <3>1. attempts[v] >= MaxAttempts
      BY <1>1, <2>1, LimitAssumption DEF SpendsNoMore
    <3> QED BY <2>1, <3>1, ChancesDwindle, OverspentFrame DEF SpendsNoMore
  <2>2. CASE ~(attempts'[v] >= MaxAttempts)
    BY <2>2 DEF Overspent
  <2> QED BY <2>1, <2>2
<1> QED BY <1>2 DEF Fresh, SpendsNoMore

\* A step that only ends jobs keeps their verdicts within the budget.
LEMMA VerdictsFrame ==
    ASSUME Verdicts, \A s \in Slot : job'[s] \in {job[s], NoJob}
    PROVE  Verdicts' /\ \A s \in Slot : Dwindles(s)
BY DEF Verdicts, JobShape, Busy, Dwindles

\* A requeue uses up the chance of the job that makes it.
LEMMA OverspentRequeue ==
    ASSUME NEW v \in Video, TypeOK, TypeOK', Overspent(v),
           NEW s \in Chances(v), Chances(v)' \subseteq Chances(v) \ {s},
           attempts'[v] = attempts[v], status[v] # "pending"
    PROVE  Overspent(v)'
<1>1. Chances(v)' \in SUBSET (Chances(v) \ {s})
  OBVIOUS
<1>2. /\ Cardinality(Chances(v)') \in Nat
      /\ Cardinality(Chances(v)) \in Nat
      /\ Cardinality(Slot) \in Nat
      /\ Cardinality(Chances(v)') <= Cardinality(Chances(v)) - 1
  BY <1>1, ChancesFinite, FS_RemoveElement, FS_Subset, FS_CardinalityType
<1>3. attempts[v] \in Nat /\ Waiting(v)' \in {0, 1} /\ Waiting(v) = 0
  BY DEF TypeOK, Waiting
<1> HIDE DEF Waiting
<1>4. attempts[v] >= MaxAttempts =>
        attempts[v] + Cardinality(Chances(v)) <= MaxAttempts + Cardinality(Slot) - 1
  BY <1>2, <1>3, LimitAssumption DEF Overspent
<1>5. attempts[v] >= MaxAttempts =>
        attempts'[v] + Cardinality(Chances(v)') + Waiting(v)'
            <= MaxAttempts + Cardinality(Slot) - 1
  BY <1>2, <1>3, <1>4, LimitAssumption
<1> QED BY <1>5 DEF Overspent

(* A claim of v, whether or not a job comes of it: the slot that made it,  *)
(* or could have, is no chance for v.                                      *)
LEMMA BoundClaim ==
    ASSUME TypeOK, TypeOK', \A v \in Video : Fresh(v) /\ Overspent(v),
           NEW v \in Video, status[v] = "pending", ClaimRow(v),
           NEW s \in Slot, ~Busy(s),
           \A t \in Slot : t # s => Dwindles(t),
           Busy(s)' => job'[s].video = v /\ job'[s].attempts = attempts[v] + 1
    PROVE  \A x \in Video : Fresh(x)' /\ Overspent(x)'
<1>0. attempts[v] \in Nat /\ status'[v] = "processing" /\ attempts'[v] = attempts[v] + 1
  BY DEF ClaimRow, TypeOK
<1>1. ASSUME NEW x \in Video, x # v PROVE Fresh(x)' /\ Overspent(x)'
  <2>1. status'[x] = status[x] /\ attempts'[x] = attempts[x] /\ attempts[x] \in Nat
    BY <1>1 DEF ClaimRow, TypeOK
  <2>2. Chances(x)' \subseteq Chances(x)
    BY <1>1 DEF Chances, Holds, Dwindles, Busy
  <2>3. Overspent(x)'
    BY <1>1, <2>1, <2>2, OverspentFrame DEF Waiting
  <2> QED BY <2>1, <2>3 DEF Fresh
<1>2. Fresh(v)'
  BY <1>0 DEF Fresh
<1>3. CASE attempts[v] >= MaxAttempts
  <2>1. Chances(v)' \subseteq Chances(v)
    BY <1>0, <1>3, LimitAssumption DEF Chances, Holds, Dwindles, Busy
  <2>2. attempts'[v] + Waiting(v)' <= attempts[v] + Waiting(v)
    BY <1>0 DEF Waiting
  <2> QED BY <1>1, <1>2, <1>3, <2>1, <2>2, OverspentFrame
<1>4. CASE attempts[v] < MaxAttempts
  <2>1. CASE attempts[v] + 1 < MaxAttempts
    <3>1. Overspent(v)'
      BY <1>0, <2>1, LimitAssumption DEF Overspent
    <3> QED BY <1>1, <1>2, <3>1
  <2>2. CASE attempts[v] + 1 >= MaxAttempts
    <3>1. ~(Holds(s, v)' /\ job'[s].attempts < MaxAttempts)
      BY <1>0, <2>2, LimitAssumption DEF Holds, Busy
    <3>2. attempts'[v] <= MaxAttempts
      BY <1>0, <1>4, LimitAssumption
    <3>3. Overspent(v)'
      BY <1>0, <3>1, <3>2, OverspentLast
    <3> QED BY <1>1, <1>2, <3>3
  <2> QED BY <1>0, <2>1, <2>2, LimitAssumption
<1> QED BY <1>0, <1>3, <1>4, LimitAssumption

\* Every step keeps the bound.
LEMMA BoundStep == BoundInv /\ [Next]_vars => BoundInv'
<1> SUFFICES ASSUME BoundInv, [Next]_vars
             PROVE  Verdicts' /\ \A v \in Video : Fresh(v)' /\ Overspent(v)'
  BY TypeStep DEF BoundInv
<1>t. TypeOK /\ TypeOK'
  BY TypeStep DEF BoundInv, TypeInv
<1>v. Verdicts /\ \A v \in Video : Fresh(v) /\ Overspent(v)
  BY DEF BoundInv
<1> DEFINE Goal == Verdicts' /\ \A v \in Video : Fresh(v)' /\ Overspent(v)'
<1>d. ASSUME \A s \in Slot : job'[s] \in {job[s], NoJob},
             \A v \in Video : SpendsNoMore(v)
      PROVE  Goal
  BY <1>t, <1>v, <1>d, VerdictsFrame, BoundFrame
<1>n. \A v \in Video : attempts[v] \in Nat
  BY <1>t DEF TypeOK
<1>s. ASSUME UNCHANGED <<status, attempts>>, \A s \in Slot : job'[s] \in {job[s], NoJob}
      PROVE  Goal
  BY <1>s, <1>d, <1>n DEF Waiting, SpendsNoMore, SpendsNoMore
<1> HIDE DEF Goal
<1>1. ASSUME NEW v \in Video, Upload(v) PROVE Goal
  <2>1. attempts[v] = 0
    BY <1>1, <1>v DEF Upload, Fresh
  <2>2. /\ status'[v] = "pending" /\ attempts' = attempts /\ job' = job
        /\ \A x \in Video : x # v => status'[x] = status[x]
    BY <1>1, <1>t DEF Upload, TypeOK
  <2>3. ASSUME NEW x \in Video PROVE Fresh(x)' /\ Overspent(x)'
    <3>1. CASE x = v
      BY <2>1, <2>2, <3>1, LimitAssumption DEF Fresh, Overspent
    <3>2. CASE x # v
      <4>1. \A s \in Slot : Dwindles(s)
        BY <2>2 DEF Dwindles, Busy
      <4> QED BY <1>t, <1>v, <1>n, <2>2, <3>2, <4>1, BoundFrame DEF Waiting, SpendsNoMore
    <3> QED BY <3>1, <3>2
  <2>4. Verdicts'
    BY <1>v, <2>2, VerdictsFrame
  <2> QED BY <2>3, <2>4 DEF Goal
<1>2. ASSUME NEW v \in Video, Delete(v) PROVE Goal
  <2>1. /\ status'[v] = "deleted" /\ attempts'[v] = 0 /\ job' = job
        /\ \A x \in Video : x # v => status'[x] = status[x] /\ attempts'[x] = attempts[x]
    BY <1>2, <1>t DEF Delete, TypeOK
  <2>2. ASSUME NEW x \in Video
        PROVE  SpendsNoMore(x)
    BY <1>n, <2>1, LimitAssumption DEF Waiting, SpendsNoMore
  <2> QED BY <2>1, <2>2, <1>d
<1>3. ASSUME NEW w \in Worker, LoopNext(w) PROVE Goal
  <2>1. CASE Start(w) \/ Stop(w) \/ Crash(w) \/ ReclaimError(w) \/ Drain(w) \/ Exit(w)
    BY <2>1, <1>s DEF Start, Stop, Crash, ReclaimError, Drain, Exit, rows
  <2>2. CASE RequeueStale(w)
    <3>0. UNCHANGED <<attempts, job>>
      BY <2>2 DEF RequeueStale, ReclaimRows
    <3>1. ASSUME NEW x \in Video PROVE Fresh(x)' /\ Overspent(x)'
      <4>1. CASE x \in Requeueable
        BY <2>2, <3>0, <4>1, <1>n, LimitAssumption
           DEF RequeueStale, ReclaimRows, Requeueable, Fresh, Overspent
      <4>2. CASE x \notin Requeueable
        <5>1. status'[x] = status[x]
          BY <2>2, <4>2 DEF RequeueStale, ReclaimRows
        <5>2. \A s \in Slot : Dwindles(s)
          BY <3>0 DEF Dwindles, Busy
        <5> QED BY <1>t, <1>v, <1>n, <3>0, <5>1, <5>2, BoundFrame DEF Waiting, SpendsNoMore
      <4> QED BY <4>1, <4>2
    <3>2. Verdicts'
      BY <1>v, <3>0, VerdictsFrame
    <3> QED BY <3>1, <3>2 DEF Goal
  <2>3. CASE FailStale(w)
    <3>0. UNCHANGED <<attempts, job>>
      BY <2>3 DEF FailStale, ReclaimRows
    <3>1. \A x \in Video : status'[x] \in {status[x], "failed"}
      BY <2>3 DEF FailStale, ReclaimRows
    <3> QED BY <3>0, <3>1, <1>d, <1>n DEF Waiting, SpendsNoMore
  <2>4. ASSUME NEW v \in Video, LostClaim(w, v) PROVE Goal
    <3>1. PICK s \in Slot : ~Busy(s)
      BY <2>4 DEF LostClaim, FreeSlot
    <3>2. job' = job /\ status[v] = "pending" /\ ClaimRow(v)
      BY <2>4 DEF LostClaim, Claimable
    <3>3. \A t \in Slot : Dwindles(t)
      BY <3>2 DEF Dwindles, Busy
    <3>4. ~Busy(s)'
      BY <3>1, <3>2 DEF Busy
    <3>5. \A x \in Video : Fresh(x)' /\ Overspent(x)'
      BY <1>t, <1>v, <3>1, <3>2, <3>3, <3>4, BoundClaim
    <3>6. Verdicts'
      BY <1>v, <3>2, VerdictsFrame
    <3> QED BY <3>5, <3>6 DEF Goal
  <2> QED BY <1>3, <2>1, <2>2, <2>3, <2>4 DEF LoopNext
<1>4. ASSUME NEW s \in Slot, JobNext(s) PROVE Goal
  <2>f. ASSUME FreeUp(s) PROVE \A t \in Slot : job'[t] \in {job[t], NoJob}
    BY <2>f, <1>t DEF FreeUp, TypeOK
  <2>u. ASSUME NEW x \in Video, NEW st \in {"ready", "failed"}, UpdateStatus(x, st)
        PROVE  /\ attempts' = attempts
               /\ \A v \in Video : status'[v] \in {status[v], st}
    BY <2>u, <1>t DEF UpdateStatus, TypeOK
  <2>0. Busy(s) => job[s].video \in Video
    BY <1>t, BusyJob
  <2>1. ASSUME NEW v \in Video, Claim(s, v) PROVE Goal
    <3> DEFINE j == [video |-> v, attempts |-> attempts[v] + 1, phase |-> "working"]
    <3>1. status[v] = "pending" /\ ClaimRow(v) /\ ~Busy(s)
      BY <2>1 DEF Claim, Claimable
    <3>2. \A t \in Slot : job'[t] = IF t = s THEN j ELSE job[t]
      BY <2>1, <1>t DEF Claim, TypeOK
    <3>3. \A t \in Slot : t # s => Dwindles(t)
      BY <3>2 DEF Dwindles, Busy
    <3>4. \A x \in Video : Fresh(x)' /\ Overspent(x)'
      BY <1>t, <1>v, <3>1, <3>2, <3>3, BoundClaim
    <3>5. Verdicts'
      BY <1>v, <1>n, <3>2 DEF Verdicts, JobShape, Busy
    <3> QED BY <3>4, <3>5 DEF Goal
  <2>2. CASE Heartbeat(s)
    BY <2>2, <1>s DEF Heartbeat
  <2>3. CASE RecordLost(s)
    BY <2>3, <2>f, <1>s DEF RecordLost, rows
  <2>4. CASE Succeed(s)
    BY <2>4, <2>0, <2>f, <2>u, <1>d, <1>n DEF Succeed, Waiting, SpendsNoMore
  <2>5. CASE Fail(s)
    BY <2>5, <2>0, <2>f, <2>u, <1>d, <1>n DEF Fail, Waiting, SpendsNoMore
  <2>6. CASE Release(s)
    <3>1. ASSUME NEW v \in Video PROVE SpendsNoMore(v)
      <4>1. CASE job[s].video = v /\ status[v] = "processing"
        <5>1. status'[v] = "pending" /\ attempts'[v] = IF attempts[v] > 0 THEN attempts[v] - 1 ELSE 0
          BY <2>6, <1>t, <4>1 DEF Release, ReleaseRow, TypeOK
        <5> QED BY <4>1, <5>1, <1>n, LimitAssumption DEF Waiting, SpendsNoMore
      <4>2. CASE ~(job[s].video = v /\ status[v] = "processing")
        <5>1. status'[v] = status[v] /\ attempts'[v] = attempts[v]
          BY <2>6, <2>0, <1>t, <4>2 DEF Release, ReleaseRow, rows, TypeOK
        <5> QED BY <5>1, <1>n DEF Waiting, SpendsNoMore
      <4> QED BY <4>1, <4>2
    <3> QED BY <2>6, <2>f, <3>1, <1>d DEF Release
  <2>7. CASE Requeue(s)
    <3>1. /\ Busy(s) /\ job[s].phase = "requeue" /\ RequeueRow(job[s].video)
          /\ \A t \in Slot : job'[t] = IF t = s THEN NoJob ELSE job[t]
      BY <2>7, <1>t DEF Requeue, FreeUp, TypeOK
    <3>2. \A t \in Slot : Dwindles(t)
      BY <3>1 DEF Dwindles, Busy
    <3>3. attempts' = attempts
      BY <3>1 DEF RequeueRow, rows
    <3>4. ASSUME NEW x \in Video PROVE Fresh(x)' /\ Overspent(x)'
      <4>1. CASE job[s].video = x /\ status[x] = "processing"
        <5>1. status'[x] = "pending"
          BY <3>1, <4>1, <1>t DEF RequeueRow, TypeOK
        <5>2. s \in Chances(x)
          BY <1>v, <3>1, <4>1 DEF Verdicts, JobShape, Chances, Holds, Busy
        <5>3. Chances(x)' \subseteq Chances(x) \ {s}
          BY <3>1 DEF Chances, Holds
        <5> QED BY <1>t, <1>v, <3>3, <4>1, <5>1, <5>2, <5>3, OverspentRequeue DEF Fresh
      <4>2. CASE ~(job[s].video = x /\ status[x] = "processing")
        <5>1. status'[x] = status[x]
          BY <3>1, <2>0, <1>t, <4>2 DEF RequeueRow, rows, TypeOK
        <5> QED BY <1>t, <1>v, <1>n, <3>2, <3>3, <5>1, BoundFrame DEF Waiting, SpendsNoMore
      <4> QED BY <4>1, <4>2
    <3>5. Verdicts'
      BY <1>v, <3>1, VerdictsFrame
    <3> QED BY <3>4, <3>5 DEF Goal
  <2>8. CASE ProcessFails(s)
    <3> DEFINE j == [video |-> job[s].video, attempts |-> job[s].attempts,
                     phase |-> Verdict(s)]
    <3>1. /\ Busy(s)
          /\ UNCHANGED rows \/ UpdateStatus(job[s].video, "ready")
          /\ \A t \in Slot : job'[t] = IF t = s THEN j ELSE job[t]
      BY <2>8, <1>t DEF ProcessFails, TypeOK
    <3>2. /\ attempts' = attempts
          /\ \A x \in Video : status'[x] \in {status[x], "ready"}
      BY <3>1, <2>0, <2>u DEF rows
    <3>3. \A t \in Slot : Dwindles(t)
      BY <3>1 DEF Dwindles, Busy
    <3>4. \A x \in Video : Fresh(x)' /\ Overspent(x)'
      BY <1>t, <1>v, <1>n, <3>2, <3>3, BoundFrame DEF Waiting, SpendsNoMore
    <3>5. /\ Verdict(s) = "requeue" => job[s].attempts < MaxAttempts
          /\ Verdict(s) = "fail" => job[s].attempts >= MaxAttempts
      BY <1>t, <3>1, BusyJob, LimitAssumption DEF Verdict
    <3>6. Verdicts'
      BY <1>v, <3>1, <3>5 DEF Verdicts, JobShape, Busy
    <3> QED BY <3>4, <3>6 DEF Goal
  <2> QED BY <1>4, <2>1, <2>2, <2>3, <2>4, <2>5, <2>6, <2>7, <2>8 DEF JobNext
<1>5. CASE Tick
  <2>1. UNCHANGED <<status, attempts>> /\ job' = job
    BY <1>5 DEF Tick
  <2> QED BY <2>1, <1>s DEF Goal
<1>6. CASE UNCHANGED vars
  <2>1. UNCHANGED <<status, attempts>> /\ job' = job
    BY <1>6 DEF vars
  <2> QED BY <2>1, <1>s DEF Goal
<1> QED BY <1>1, <1>2, <1>3, <1>4, <1>5, <1>6 DEF Next, ApiNext, Goal

\* The bound always holds.
LEMMA BoundInvariant == Spec => []BoundInv
BY BoundInit, BoundStep, PTL DEF Spec

(* Retries end without any assumption on heartbeats or answers: a video is *)
(* attempted at most once more per slot beyond the first than the budget   *)
(* has, whatever zombie workers do.                                        *)
THEOREM AttemptsAreBounded == Spec => []AttemptsBounded
<1>1. BoundInv => AttemptsBounded
  <2> SUFFICES ASSUME BoundInv, NEW v \in Video
               PROVE  attempts[v] <= MaxAttempts + Cardinality(Slot) - 1
    BY DEF AttemptsBounded
  <2>1. /\ attempts[v] \in Nat /\ Cardinality(Slot) \in Nat
        /\ Cardinality(Chances(v)) \in Nat /\ Waiting(v) \in Nat
    BY ChancesFinite DEF BoundInv, TypeInv, TypeOK, Waiting
  <2>2. Overspent(v)
    BY DEF BoundInv
  <2> HIDE DEF Waiting
  <2> QED BY <2>1, <2>2, LimitAssumption DEF Overspent
<1> QED BY <1>1, BoundInvariant, PTL
=============================================================================
