------------------------- MODULE JobLifecycleProofs -------------------------
(***************************************************************************)
(* Proofs about JobLifecycle for every number of messages, retries,        *)
(* crashes and lapsed leases: type correctness, one writer per job, the    *)
(* durability of every result shown as complete and the finality of a      *)
(* failure; and, under Calm, the sources kept and the promise to the owner.*)
(***************************************************************************)
EXTENDS JobLifecycle, TLAPS

-----------------------------------------------------------------------------
(* Type correctness.                                                       *)

\* JobStore.update and the failure write keep the record well formed.
LEMMA WriteTyped ==
  ASSUME TypeOK, NEW s \in {"queued", "working", "done", "error", "gone"},
         NEW w \in WorkerStates, NEW c \in {"none", "transient", "final"}
  PROVE  /\ Update(s, w) => job' \in JobRecords
         /\ Fail(w, c) => job' \in JobRecords
<1>1. Update(s, w) => job' \in JobRecords
  BY DEF TypeOK, Update, JobRecords
<1>2. Fail(w, c) => job' \in JobRecords
  BY DEF TypeOK, Fail, JobRecords
<1>3. QED
  BY <1>1, <1>2

\* So does replacing the record of a deleted job.
LEMMA GoneTyped == NewJob \in JobRecords /\ GoneJob \in JobRecords
BY DEF NewJob, GoneJob, JobRecords, WorkerStates

\* Best-effort cleanup leaves sources Boolean.
LEMMA CleanupTyped == ASSUME TypeOK, CleanupSources PROVE sources' \in BOOLEAN
BY DEF TypeOK, CleanupSources

\* fail_unfinished_job writes a well-formed record.
LEMMA FailUnfinishedTyped ==
  ASSUME TypeOK, FailUnfinished
  PROVE  job' \in JobRecords /\ sources' \in BOOLEAN
<1>1. CASE Fail("failed", "transient") /\ CleanupSources
  <2>1. job' \in JobRecords
    BY <1>1 DEF TypeOK, Fail, JobRecords, WorkerStates
  <2>2. sources' \in BOOLEAN
    BY <1>1 DEF TypeOK, CleanupSources
  <2>3. QED
    BY <2>1, <2>2
<1>2. CASE UNCHANGED <<job, sources>>
  BY <1>2 DEF TypeOK
<1>3. QED
  BY <1>1, <1>2 DEF FailUnfinished

\* Acknowledging a message leaves broker, program counters and lock typed.
LEMMA FinishTyped ==
  ASSUME TypeOK, NEW d \in Deliveries, Finish(d)
  PROVE  /\ pc' \in [Deliveries -> Steps]
         /\ msg' \in [Deliveries -> {"unsent", "ready", "held", "acked"}]
         /\ retries' \in [Deliveries -> 0..MaxRetries]
         /\ limit' \in [Deliveries -> {"none", "struck", "failed"}]
         /\ lock' \in Deliveries \cup {"free", "dead", "sweeper", "deleter"}
BY DEF TypeOK, Finish, Goto, Release, Steps

\* task.retry stays within max_retries.
LEMMA RetryTyped ==
  ASSUME TypeOK, NEW d \in Deliveries, retries[d] < MaxRetries, RetryMessage(d)
  PROVE  /\ msg' \in [Deliveries -> {"unsent", "ready", "held", "acked"}]
         /\ retries' \in [Deliveries -> 0..MaxRetries]
         /\ limit' \in [Deliveries -> {"none", "struck", "failed"}]
BY JobAssumption DEF TypeOK, RetryMessage

\* The variables a failing delivery writes stay typed.
LEMMA RetryOrFailTyped ==
  ASSUME TypeOK, NEW d \in Deliveries, RetryOrFail(d) \/ Reject(d)
  PROVE  /\ job' \in JobRecords /\ sources' \in BOOLEAN
         /\ pc' \in [Deliveries -> Steps]
         /\ msg' \in [Deliveries -> {"unsent", "ready", "held", "acked"}]
         /\ retries' \in [Deliveries -> 0..MaxRetries]
         /\ limit' \in [Deliveries -> {"none", "struck", "failed"}]
         /\ lock' \in Deliveries \cup {"free", "dead", "sweeper", "deleter"}
<1>1. CASE UNCHANGED <<job, sources>> /\ Finish(d)
  BY <1>1, FinishTyped DEF TypeOK
<1>2. CASE Fail("failed", "transient") /\ CleanupSources /\ Finish(d)
  BY <1>2, FinishTyped DEF TypeOK, Fail, CleanupSources, JobRecords, WorkerStates
<1>3. CASE Fail("rejected", "final") /\ CleanupSources /\ Finish(d)
  BY <1>3, FinishTyped DEF TypeOK, Fail, CleanupSources, JobRecords, WorkerStates
<1>4. CASE /\ job' = [job EXCEPT !.status = "queued", !.worker = "retrying",
                                 !.code = "none", !.seen = FALSE]
           /\ Goto(d, "requeue") /\ UNCHANGED <<sources, broker, lock>>
  BY <1>4 DEF TypeOK, Goto, broker, Steps, Owning, JobRecords, WorkerStates
<1>5. QED
  BY <1>1, <1>2, <1>3, <1>4 DEF RetryOrFail, Reject

\* TypeOK alone is not inductive: a delivery that is about to requeue itself
\* has a retry left, and a message nobody sent is not being worked on.
RetryBudget ==
  \A d \in Deliveries : /\ pc[d] = "requeue" => retries[d] < MaxRetries
                        /\ msg[d] = "unsent" => pc[d] = "idle" /\ limit[d] = "none"

\* Every step of Next keeps every variable in its type.
LEMMA TypeStep == TypeOK /\ RetryBudget /\ [Next]_vars => TypeOK'
<1> SUFFICES ASSUME TypeOK, RetryBudget, [Next]_vars PROVE TypeOK'
  OBVIOUS
<1> USE JobAssumption DEF storage, broker, others, faults
<1>1. CASE Dispatch
  <2>1. CASE DispatchRejected
    <3>1. job' \in JobRecords
      BY <2>1 DEF TypeOK, DispatchRejected, Fail, JobRecords, WorkerStates
    <3>2. QED
      BY <2>1, <3>1 DEF TypeOK, DispatchRejected
  <2>2. CASE DispatchMissing
    BY <2>2 DEF TypeOK, DispatchMissing
  <2>3. CASE UploadSources
    BY <2>3 DEF TypeOK, UploadSources
  <2>4. CASE MarkQueued
    <3>1. job' \in JobRecords
      BY <2>4 DEF TypeOK, MarkQueued, JobRecords, WorkerStates
    <3>2. QED
      BY <2>4, <3>1 DEF TypeOK, MarkQueued
  <2>5. CASE Enqueue
    BY <2>5 DEF TypeOK, Enqueue
  <2>6. CASE RecordTaskId
    <3>1. job' \in JobRecords
      BY <2>6 DEF TypeOK, RecordTaskId, JobRecords
    <3>2. QED
      BY <2>6, <3>1 DEF TypeOK, RecordTaskId
  <2>7. CASE DispatchFails
    <3>1. sources' \in BOOLEAN
      BY <2>7, CleanupTyped DEF DispatchFails
    <3>2. QED
      BY <2>7, <3>1 DEF TypeOK, DispatchFails
  <2>8. CASE DurabilityUnavailable
    <3>1. job' \in JobRecords
      <4>1. CASE Fail("unavailable", "transient")
        BY <4>1 DEF TypeOK, Fail, JobRecords, WorkerStates
      <4>2. CASE UNCHANGED job
        BY <4>2 DEF TypeOK
      <4>3. QED
        BY <2>8, <4>1, <4>2 DEF DurabilityUnavailable
    <3>2. QED
      BY <2>8, <3>1 DEF TypeOK, DurabilityUnavailable
  <2>9. QED
    BY <1>1, <2>1, <2>2, <2>3, <2>4, <2>5, <2>6, <2>7, <2>8 DEF Dispatch
<1>2. ASSUME NEW d \in Deliveries, Work(d) PROVE TypeOK'
  <2>1. CASE Deliver(d)
    BY <2>1 DEF TypeOK, Deliver, Goto, Steps
  <2>2. CASE AcquireLock(d)
    BY <2>2 DEF TypeOK, AcquireLock, Goto, Steps, Owning
  <2>3. CASE LockedElsewhere(d)
    <3>1. /\ msg' \in [Deliveries -> {"unsent", "ready", "held", "acked"}]
          /\ retries' \in [Deliveries -> 0..MaxRetries]
          /\ limit' \in [Deliveries -> {"none", "struck", "failed"}]
      BY <2>3, RetryTyped DEF TypeOK, LockedElsewhere
    <3>2. pc' \in [Deliveries -> Steps]
      BY <2>3 DEF TypeOK, LockedElsewhere, Goto, Steps
    <3>3. QED
      BY <2>3, <3>1, <3>2 DEF TypeOK, LockedElsewhere
  <2>4. CASE ExhaustedDuplicate(d)
    BY <2>4, FinishTyped DEF TypeOK, ExhaustedDuplicate
  <2>5. CASE ExhaustedUnheld(d)
    BY <2>5 DEF TypeOK, ExhaustedUnheld, Goto, Steps
  <2>6. CASE FailExhausted(d)
    <3>1. FailUnfinished /\ Finish(d)
      BY <2>6 DEF FailExhausted
    <3>2. QED
      BY <2>6, <3>1, FailUnfinishedTyped, FinishTyped DEF TypeOK, FailExhausted
  <2>7. CASE DropFinished(d)
    <3>1. sources' \in BOOLEAN
      BY <2>7, CleanupTyped DEF DropFinished
    <3>2. QED
      BY <2>7, <3>1, FinishTyped DEF TypeOK, DropFinished
  <2>8. CASE ReadJob(d)
    BY <2>8 DEF TypeOK, ReadJob, Goto, Steps, Owning, Timed
  <2>9. CASE Begin(d)
    <3>1. CASE RetryOrFail(d) \/ Reject(d)
      <4>1. result' \in BOOLEAN
        BY <2>9 DEF Begin
      <4>2. /\ job' \in JobRecords /\ sources' \in BOOLEAN
            /\ pc' \in [Deliveries -> Steps]
            /\ msg' \in [Deliveries -> {"unsent", "ready", "held", "acked"}]
            /\ retries' \in [Deliveries -> 0..MaxRetries]
            /\ limit' \in [Deliveries -> {"none", "struck", "failed"}]
            /\ lock' \in Deliveries \cup {"free", "dead", "sweeper", "deleter"}
        BY <3>1, RetryOrFailTyped
      <4>3. QED
        BY <2>9, <4>1, <4>2 DEF TypeOK, Begin
    <3>2. CASE /\ job' = [job EXCEPT !.status = "working", !.worker = "downloading",
                                     !.deadline = "set", !.seen = FALSE]
               /\ Goto(d, "download") /\ UNCHANGED <<sources, broker, lock>>
      <4>1. job' \in JobRecords
        BY <3>2 DEF TypeOK, JobRecords, WorkerStates
      <4>2. result' \in BOOLEAN
        BY <2>9 DEF Begin
      <4>3. QED
        BY <2>9, <3>2, <4>1, <4>2 DEF TypeOK, Begin, Goto, Steps, Owning, Timed
    <3>3. QED
      BY <2>9, <3>1, <3>2 DEF Begin
  <2>10. CASE Download(d)
    <3>1. CASE RetryOrFail(d) \/ Reject(d)
      BY <2>10, <3>1, RetryOrFailTyped DEF TypeOK, Download
    <3>2. CASE /\ \E w \in {"downloading", "preflighting"} : Update(job.status, w)
               /\ Goto(d, "quota") /\ UNCHANGED <<sources, broker, lock>>
      <4>1. job' \in JobRecords
        <5>1. PICK w \in WorkerStates : Update(job.status, w)
          BY <3>2 DEF WorkerStates
        <5>2. job.status \in {"queued", "working", "done", "error", "gone"}
          BY DEF TypeOK, JobRecords
        <5>3. QED
          BY <5>1, <5>2, WriteTyped
      <4>2. QED
        BY <2>10, <3>2, <4>1 DEF TypeOK, Download, Goto, Steps, Owning, Timed
    <3>3. QED
      BY <2>10, <3>1, <3>2 DEF Download
  <2>11. CASE Quota(d)
    <3>1. CASE RetryOrFail(d) \/ Reject(d)
      BY <2>11, <3>1, RetryOrFailTyped DEF TypeOK, Quota
    <3>2. CASE /\ Update(job.status, "processing")
               /\ Goto(d, "start") /\ UNCHANGED <<sources, broker, lock>>
      <4>1. job' \in JobRecords
        BY <3>2 DEF TypeOK, Update, JobRecords, WorkerStates
      <4>2. QED
        BY <2>11, <3>2, <4>1 DEF TypeOK, Quota, Goto, Steps, Owning, Timed
    <3>3. QED
      BY <2>11, <3>1, <3>2 DEF Quota
  <2>12. CASE StartPipeline(d)
    <3>1. job' \in JobRecords
      <4>1. CASE Update("working", job.worker)
        BY <4>1 DEF TypeOK, Update, JobRecords
      <4>2. CASE UNCHANGED job
        BY <4>2 DEF TypeOK
      <4>3. QED
        BY <2>12, <4>1, <4>2 DEF StartPipeline
    <3>2. pc' \in [Deliveries -> Steps]
      BY <2>12 DEF TypeOK, StartPipeline, Goto, Steps, Owning, Timed
    <3>3. QED
      BY <2>12, <3>1, <3>2 DEF TypeOK, StartPipeline
  <2>13. CASE RunPipeline(d)
    <3>1. CASE RetryOrFail(d) /\ UNCHANGED result
      BY <2>13, <3>1, RetryOrFailTyped DEF TypeOK, RunPipeline
    <3>2. CASE /\ Update("done", job.worker) /\ result' = TRUE
               /\ Goto(d, "meter") /\ UNCHANGED <<sources, broker, lock>>
      <4>1. job' \in JobRecords
        BY <3>2 DEF TypeOK, Update, JobRecords
      <4>2. QED
        BY <2>13, <3>2, <4>1 DEF TypeOK, RunPipeline, Goto, Steps, Owning
    <3>3. CASE /\ \/ job' = [job EXCEPT !.status = "error", !.code = "transient",
                                        !.seen = FALSE]
                  \/ Fail(job.worker, "final")
                  \/ Fail("rejected", "final")
               /\ Goto(d, "finished") /\ UNCHANGED <<sources, result, broker, lock>>
      <4>1. job' \in JobRecords
        <5>1. CASE job' = [job EXCEPT !.status = "error", !.code = "transient", !.seen = FALSE]
          BY <5>1 DEF TypeOK, JobRecords
        <5>2. CASE Fail(job.worker, "final")
          BY <5>2 DEF TypeOK, Fail, JobRecords
        <5>3. CASE Fail("rejected", "final")
          BY <5>3 DEF TypeOK, Fail, JobRecords, WorkerStates
        <5>4. QED
          BY <3>3, <5>1, <5>2, <5>3
      <4>2. QED
        BY <2>13, <3>3, <4>1 DEF TypeOK, RunPipeline, Goto, Steps, Owning, Timed
    <3>4. QED
      BY <2>13, <3>1, <3>2, <3>3 DEF RunPipeline
  <2>14. CASE Meter(d)
    BY <2>14 DEF TypeOK, Meter, Goto, Steps, Owning, Timed
  <2>15. CASE ReadFinished(d)
    <3>1. CASE RetryOrFail(d) \/ Reject(d)
      BY <2>15, <3>1, RetryOrFailTyped DEF TypeOK, ReadFinished
    <3>2. CASE Goto(d, "mark") /\ UNCHANGED <<job, sources, broker, lock>>
      BY <2>15, <3>2 DEF TypeOK, ReadFinished, Goto, Steps, Owning, Timed
    <3>3. CASE Fail("rejected", job.code) /\ CleanupSources /\ Finish(d)
      <4>1. job' \in JobRecords
        BY <3>3 DEF TypeOK, Fail, JobRecords, WorkerStates
      <4>2. QED
        BY <2>15, <3>3, <4>1, FinishTyped, CleanupTyped DEF TypeOK, ReadFinished
    <3>4. QED
      BY <2>15, <3>1, <3>2, <3>3 DEF ReadFinished
  <2>16. CASE MarkPublishing(d)
    <3>1. CASE RetryOrFail(d)
      BY <2>16, <3>1, RetryOrFailTyped DEF TypeOK, MarkPublishing
    <3>2. CASE /\ Update("working", "publishing")
               /\ Goto(d, "publish") /\ UNCHANGED <<sources, broker, lock>>
      <4>1. job' \in JobRecords
        BY <3>2 DEF TypeOK, Update, JobRecords, WorkerStates
      <4>2. QED
        BY <2>16, <3>2, <4>1 DEF TypeOK, MarkPublishing, Goto, Steps, Owning, Timed
    <3>3. QED
      BY <2>16, <3>1, <3>2 DEF MarkPublishing
  <2>17. CASE Publish(d)
    <3>1. published' \in BOOLEAN
      BY <2>17 DEF TypeOK, Publish
    <3>2. CASE RetryOrFail(d)
      BY <2>17, <3>1, <3>2, RetryOrFailTyped DEF TypeOK, Publish
    <3>3. CASE Goto(d, "unsource") /\ UNCHANGED <<job, sources, broker, lock>>
      BY <2>17, <3>1, <3>3 DEF TypeOK, Publish, Goto, Steps, Owning, Timed
    <3>4. QED
      BY <2>17, <3>2, <3>3 DEF Publish
  <2>18. CASE DeleteSources(d)
    <3>1. CASE RetryOrFail(d)
      BY <2>18, <3>1, RetryOrFailTyped DEF TypeOK, DeleteSources
    <3>2. CASE sources' = FALSE /\ Goto(d, "complete") /\ UNCHANGED <<job, broker, lock>>
      <4>1. sources' \in BOOLEAN
        BY <3>2
      <4>2. QED
        BY <2>18, <3>2, <4>1 DEF TypeOK, DeleteSources, Goto, Steps, Owning, Timed
    <3>3. QED
      BY <2>18, <3>1, <3>2 DEF DeleteSources
  <2>19. CASE Complete(d)
    <3>1. CASE RetryOrFail(d)
      BY <2>19, <3>1, RetryOrFailTyped DEF TypeOK, Complete
    <3>2. CASE /\ job' = [job EXCEPT !.status = "done", !.worker = "done",
                                     !.remote = TRUE, !.seen = FALSE]
               /\ Finish(d) /\ UNCHANGED sources
      <4>1. job' \in JobRecords
        BY <3>2 DEF TypeOK, JobRecords, WorkerStates
      <4>2. QED
        BY <2>19, <3>2, <4>1, FinishTyped DEF TypeOK, Complete
    <3>3. QED
      BY <2>19, <3>1, <3>2 DEF Complete
  <2>20. CASE Requeue(d)
    <3>1. retries[d] < MaxRetries
      BY <2>20 DEF Requeue, RetryBudget
    <3>2. QED
      BY <2>20, <3>1, RetryTyped DEF TypeOK, Requeue, Goto, Release, Steps
  <2>21. CASE OnTimeout(d)
    <3>1. job' \in JobRecords /\ sources' \in BOOLEAN
      BY <2>21, FailUnfinishedTyped DEF TypeOK, OnTimeout
    <3>2. limit' \in [Deliveries -> {"none", "struck", "failed"}]
      BY <2>21 DEF TypeOK, OnTimeout
    <3>3. QED
      BY <2>21, <3>1, <3>2 DEF TypeOK, OnTimeout
  <2>22. CASE Kill(d)
    BY <2>22 DEF TypeOK, Kill, Goto, Steps
  <2>23. QED
    BY <1>2, <2>1, <2>2, <2>3, <2>4, <2>5, <2>6, <2>7, <2>8, <2>9, <2>10, <2>11, <2>12,
       <2>13, <2>14, <2>15, <2>16, <2>17, <2>18, <2>19, <2>20, <2>21, <2>22 DEF Work, Child
<1>3. ASSUME NEW d \in Deliveries,
             SoftLimit(d) \/ HardLimit(d) \/ WorkerCrash(d) \/ LockLapses(d)
      PROVE  TypeOK'
  <2>1. CASE SoftLimit(d)
    <3>1. job' \in JobRecords /\ sources' \in BOOLEAN
      BY <2>1, FailUnfinishedTyped DEF TypeOK, SoftLimit
    <3>2. Finish(d)
      BY <2>1 DEF SoftLimit
    <3>3. QED
      BY <2>1, <3>1, <3>2, FinishTyped DEF TypeOK, SoftLimit
  <2>2. CASE HardLimit(d)
    BY <2>2 DEF TypeOK, HardLimit
  <2>3. CASE WorkerCrash(d)
    BY <2>3 DEF TypeOK, WorkerCrash, Goto, Steps
  <2>4. CASE LockLapses(d)
    BY <2>4 DEF TypeOK, LockLapses
  <2>5. QED
    BY <1>3, <2>1, <2>2, <2>3, <2>4
<1>4. ASSUME NEW d \in Deliveries, NEW e \in Deliveries, Redeliver(d, e) PROVE TypeOK'
  BY <1>4 DEF TypeOK, Redeliver
<1>5. CASE ApiCrash
  BY <1>5 DEF TypeOK, ApiCrash
<1>6. CASE LockExpires
  BY <1>6 DEF TypeOK, LockExpires
<1>7. CASE DeadlinePasses
  BY <1>7 DEF TypeOK, DeadlinePasses, JobRecords
<1>8. CASE Sweep
  <2>1. CASE SweepPick
    <3>1. job' \in JobRecords
      BY <2>1 DEF TypeOK, SweepPick, JobRecords
    <3>2. QED
      BY <2>1, <3>1 DEF TypeOK, SweepPick
  <2>2. CASE SweepLock
    BY <2>2 DEF TypeOK, SweepLock
  <2>3. CASE SweepFail
    <3>1. job' \in JobRecords /\ sources' \in BOOLEAN
      BY <2>3, FailUnfinishedTyped DEF TypeOK, SweepFail
    <3>2. QED
      BY <2>3, <3>1 DEF TypeOK, SweepFail
  <2>4. QED
    BY <1>8, <2>1, <2>2, <2>3 DEF Sweep
<1>9. CASE Erase
  <2>1. CASE DeleteLock
    BY <2>1 DEF TypeOK, DeleteLock
  <2>2. CASE DeleteObjects
    <3>1. /\ published' \in BOOLEAN /\ sources' \in BOOLEAN
          /\ result' \in BOOLEAN /\ wiped' \in BOOLEAN
      BY <2>2 DEF TypeOK, DeleteObjects
    <3>2. /\ eraser' \in {"idle", "locked", "wiped"}
          /\ lock' \in Deliveries \cup {"free", "dead", "sweeper", "deleter"}
      BY <2>2 DEF TypeOK, DeleteObjects
    <3>3. QED
      BY <2>2, <3>1, <3>2 DEF TypeOK, DeleteObjects
  <2>3. CASE DeleteRecord
    BY <2>3, GoneTyped DEF TypeOK, DeleteRecord
  <2>4. CASE PurgeRecord
    BY <2>4, GoneTyped DEF TypeOK, PurgeRecord
  <2>5. CASE PurgeObjects
    <3>1. /\ published' \in BOOLEAN /\ sources' \in BOOLEAN
          /\ result' \in BOOLEAN /\ wiped' \in BOOLEAN /\ purge' \in {"idle", "pending", "end"}
      BY <2>5 DEF TypeOK, PurgeObjects
    <3>2. QED
      BY <2>5, <3>1, Zenon DEF TypeOK, PurgeObjects, broker, faults
  <2>6. QED
    BY <1>9, <2>1, <2>2, <2>3, <2>4, <2>5 DEF Erase
<1>10. CASE RecoverEnqueue
  BY <1>10 DEF TypeOK, RecoverEnqueue
<1>11. CASE RecoverMark
  <2>1. job' \in JobRecords
    <3>1. CASE Update("queued", "requeued")
      BY <3>1 DEF TypeOK, Update, JobRecords, WorkerStates
    <3>2. CASE UNCHANGED job
      BY <3>2 DEF TypeOK
    <3>3. QED
      BY <1>11, <3>1, <3>2 DEF RecoverMark
  <2>2. QED
    BY <1>11, <2>1 DEF TypeOK, RecoverMark
<1>12. CASE UNCHANGED vars
  BY <1>12 DEF TypeOK, vars
<1>13. QED
  BY <1>1, <1>2, <1>3, <1>4, <1>5, <1>6, <1>7, <1>8, <1>9, <1>10, <1>11, <1>12 DEF Next

-----------------------------------------------------------------------------
(* What a step of one delivery can do to the broker, the program counters  *)
(* and the lock. It leaves other deliveries alone; it enters the locked    *)
(* region only with a free lock, keeps the lock while inside and gives up  *)
(* nobody else's when it leaves.                                           *)
DeliveryStep(d) ==
  /\ \A e \in Deliveries \ {d} : /\ pc'[e] = pc[e] /\ msg'[e] = msg[e]
                                 /\ retries'[e] = retries[e] /\ limit'[e] = limit[e]
  /\ \/ pc[d] \in Owning /\ lock' = lock
     \/ lock = "free" /\ lock' = d
     \/ pc'[d] \notin Owning /\ (lock' = lock \/ lock = d)
  /\ msg'[d] # "unsent"
  /\ pc'[d] = "requeue" => retries'[d] < MaxRetries
  /\ UNCHANGED <<sweep, eraser, lapses>>

\* A message that is being worked on has been sent.
LEMMA BusyIsSent ==
  ASSUME TypeOK, RetryBudget, NEW d \in Deliveries, pc[d] # "idle" \/ limit[d] # "none"
  PROVE  msg[d] # "unsent"
BY DEF RetryBudget

\* A task that returns leaves the locked region and frees only its own lock.
LEMMA FinishShape ==
  ASSUME TypeOK, NEW d \in Deliveries, Finish(d), UNCHANGED <<others, faults>>
  PROVE  DeliveryStep(d)
BY DEF TypeOK, Finish, Goto, Release, DeliveryStep, Owning, Timed, others, faults

\* A step inside the locked region that keeps message and lock.
LEMMA InsideShape ==
  ASSUME TypeOK, RetryBudget, NEW d \in Deliveries, pc[d] \in Owning,
         NEW step \in Steps \ {"requeue"}, Goto(d, step),
         UNCHANGED <<broker, lock>>, UNCHANGED <<others, faults>>
  PROVE  DeliveryStep(d)
<1>1. msg[d] # "unsent"
  BY BusyIsSent DEF Owning, Timed
<1>2. QED
  BY <1>1 DEF TypeOK, Goto, DeliveryStep, broker, others, faults

\* A delivery that fails inside the locked region.
LEMMA FailureShape ==
  ASSUME TypeOK, RetryBudget, NEW d \in Deliveries, pc[d] \in Owning,
         RetryOrFail(d) \/ Reject(d), UNCHANGED <<others, faults>>
  PROVE  DeliveryStep(d)
<1>1. CASE Finish(d)
  BY <1>1, FinishShape
<1>2. CASE /\ retries[d] < MaxRetries /\ Goto(d, "requeue")
           /\ UNCHANGED <<sources, broker, lock>>
  <2>1. msg[d] # "unsent"
    BY BusyIsSent DEF Owning, Timed
  <2>2. QED
    BY <1>2, <2>1 DEF TypeOK, Goto, DeliveryStep, broker, others, faults
<1>3. QED
  BY <1>1, <1>2 DEF RetryOrFail, Reject

\* Every step of a delivery has that shape.
LEMMA DeliveryShape ==
  ASSUME TypeOK, RetryBudget, NEW d \in Deliveries,
         Work(d) \/ SoftLimit(d) \/ HardLimit(d) \/ WorkerCrash(d)
  PROVE  DeliveryStep(d)
<1>1. CASE Deliver(d)
  BY <1>1 DEF TypeOK, Deliver, Goto, DeliveryStep, Owning, Timed, others, faults
<1>2. CASE AcquireLock(d)
  BY <1>2, BusyIsSent DEF TypeOK, AcquireLock, Goto, DeliveryStep, broker, others, faults
<1>3. CASE LockedElsewhere(d)
  BY <1>3, BusyIsSent DEF TypeOK, LockedElsewhere, RetryMessage, Goto, DeliveryStep, Owning,
                          Timed, broker, others, faults
<1>4. CASE ExhaustedDuplicate(d)
  BY <1>4, FinishShape DEF ExhaustedDuplicate
<1>5. CASE ExhaustedUnheld(d)
  BY <1>5, BusyIsSent DEF TypeOK, ExhaustedUnheld, Goto, DeliveryStep, Owning, Timed, broker,
                          others, faults
<1>6. CASE FailExhausted(d)
  BY <1>6, FinishShape DEF FailExhausted
<1>7. CASE DropFinished(d)
  BY <1>7, FinishShape DEF DropFinished
<1>8. CASE ReadJob(d)
  BY <1>8, InsideShape DEF ReadJob, Owning, Timed, Steps
<1>9. CASE Begin(d)
  BY <1>9, InsideShape, FailureShape DEF Begin, Owning, Timed, Steps
<1>10. CASE Download(d)
  BY <1>10, InsideShape, FailureShape DEF Download, Owning, Timed, Steps
<1>11. CASE Quota(d)
  BY <1>11, InsideShape, FailureShape DEF Quota, Owning, Timed, Steps
<1>12. CASE StartPipeline(d)
  BY <1>12, InsideShape DEF StartPipeline, Owning, Timed, Steps
<1>13. CASE RunPipeline(d)
  BY <1>13, InsideShape, FailureShape DEF RunPipeline, Owning, Timed, Steps
<1>14. CASE Meter(d)
  BY <1>14, InsideShape DEF Meter, Owning, Timed, Steps
<1>15. CASE ReadFinished(d)
  BY <1>15, InsideShape, FinishShape, FailureShape DEF ReadFinished, Owning, Timed, Steps
<1>16. CASE MarkPublishing(d)
  BY <1>16, InsideShape, FailureShape DEF MarkPublishing, Owning, Timed, Steps
<1>17. CASE Publish(d)
  BY <1>17, InsideShape, FailureShape DEF Publish, Owning, Timed, Steps
<1>18. CASE DeleteSources(d)
  BY <1>18, InsideShape, FailureShape DEF DeleteSources, Owning, Timed, Steps
<1>19. CASE Complete(d)
  BY <1>19, FinishShape, FailureShape DEF Complete, Owning, Timed
<1>20. CASE Requeue(d)
  BY <1>20 DEF TypeOK, Requeue, RetryMessage, Goto, Release, DeliveryStep, Owning, Timed,
               others, faults
<1>21. CASE OnTimeout(d)
  BY <1>21, BusyIsSent DEF TypeOK, RetryBudget, OnTimeout, DeliveryStep, others, faults
<1>22. CASE SoftLimit(d)
  BY <1>22, FinishShape DEF SoftLimit
<1>23. CASE HardLimit(d)
  BY <1>23 DEF TypeOK, RetryBudget, HardLimit, DeliveryStep, others, faults
<1>24. CASE WorkerCrash(d)
  BY <1>24, BusyIsSent DEF TypeOK, WorkerCrash, Goto, DeliveryStep, Owning, Timed, others,
                           faults
<1>25. CASE Kill(d)
  BY <1>25, BusyIsSent DEF TypeOK, Kill, Goto, DeliveryStep, Owning, Timed, others, faults
<1>26. QED
  BY <1>1, <1>2, <1>3, <1>4, <1>5, <1>6, <1>7, <1>8, <1>9, <1>10, <1>11, <1>12, <1>13,
     <1>14, <1>15, <1>16, <1>17, <1>18, <1>19, <1>20, <1>21, <1>22, <1>23, <1>24, <1>25
     DEF Work, Child

\* Steps of the other actors: they may send a message, or take or free the
\* lock in their own name, and do not touch a delivery's program counter.
OtherStep ==
  \/ Dispatch \/ ApiCrash \/ LockExpires \/ DeadlinePasses \/ Sweep \/ Erase
  \/ RecoverEnqueue \/ RecoverMark \/ UNCHANGED vars

\* Next, sorted by who moves.
LEMMA NextCases ==
  ASSUME [Next]_vars
  PROVE  \/ \E d \in Deliveries : Work(d) \/ SoftLimit(d) \/ HardLimit(d) \/ WorkerCrash(d)
         \/ \E d \in Deliveries : LockLapses(d)
         \/ \E d, e \in Deliveries : Redeliver(d, e)
         \/ OtherStep
BY DEF Next, OtherStep

\* Only dispatch and recovery among the other actors touch the broker, to send.
LEMMA OthersSend ==
  ASSUME TypeOK, OtherStep
  PROVE  /\ UNCHANGED <<pc, retries, limit>>
         /\ \/ UNCHANGED msg
            \/ \E d \in Deliveries : msg' = [msg EXCEPT ![d] = "ready"]
<1>1. CASE Dispatch
  BY <1>1 DEF Dispatch, DispatchRejected, DispatchMissing, UploadSources, MarkQueued, Enqueue,
              RecordTaskId, DispatchFails, DurabilityUnavailable, broker
<1>2. CASE ApiCrash \/ LockExpires \/ DeadlinePasses \/ UNCHANGED vars
  BY <1>2 DEF ApiCrash, LockExpires, DeadlinePasses, broker, vars
<1>3. CASE Sweep
  BY <1>3 DEF Sweep, SweepPick, SweepLock, SweepFail, broker
<1>4. CASE Erase
  BY <1>4 DEF Erase, DeleteLock, DeleteObjects, DeleteRecord, PurgeRecord, PurgeObjects, broker
<1>5. CASE RecoverEnqueue \/ RecoverMark
  BY <1>5 DEF RecoverEnqueue, RecoverMark, broker
<1>6. QED
  BY <1>1, <1>2, <1>3, <1>4, <1>5 DEF OtherStep

\* Every step of Next keeps the strengthening.
LEMMA BudgetStep == TypeOK /\ RetryBudget /\ [Next]_vars => RetryBudget'
<1> SUFFICES ASSUME TypeOK, RetryBudget, [Next]_vars PROVE RetryBudget'
  OBVIOUS
<1>1. ASSUME NEW d \in Deliveries,
             Work(d) \/ SoftLimit(d) \/ HardLimit(d) \/ WorkerCrash(d)
      PROVE  RetryBudget'
  <2>1. DeliveryStep(d)
    BY <1>1, DeliveryShape
  <2>2. QED
    BY <2>1 DEF RetryBudget, DeliveryStep
<1>2. ASSUME NEW d \in Deliveries, LockLapses(d) PROVE RetryBudget'
  BY <1>2 DEF RetryBudget, LockLapses, broker
<1>3. ASSUME NEW d \in Deliveries, NEW e \in Deliveries, Redeliver(d, e)
      PROVE  RetryBudget'
  BY <1>3 DEF TypeOK, RetryBudget, Redeliver
<1>4. CASE OtherStep
  BY <1>4, OthersSend DEF TypeOK, RetryBudget
<1>5. QED
  BY <1>1, <1>2, <1>3, <1>4, NextCases

\* The type invariant with its strengthening holds from the first state on.
LEMMA TypeInit == Init => TypeOK /\ RetryBudget
<1> SUFFICES ASSUME Init PROVE TypeOK /\ RetryBudget
  OBVIOUS
<1>1. TypeOK
  <2>1. job \in JobRecords
    BY GoneTyped DEF Init
  <2>2. /\ sources \in BOOLEAN /\ published \in BOOLEAN
        /\ result \in BOOLEAN /\ wiped \in BOOLEAN
    BY DEF Init
  <2>3. QED
    BY <2>1, <2>2, JobAssumption DEF Init, TypeOK, Steps
<1>2. RetryBudget
  BY DEF Init, RetryBudget
<1>3. QED
  BY <1>1, <1>2

\* Type correctness: every record JobStore holds is well formed, no message
\* carries more than max_retries retries (_job_locked_elsewhere and
\* _retry_or_fail raise no MaxRetriesExceededError), and every process is at
\* one of its steps.
THEOREM TypeCorrect == Spec => [](TypeOK /\ RetryBudget)
<1>1. Init => TypeOK /\ RetryBudget
  BY TypeInit
<1>2. TypeOK /\ RetryBudget /\ [Next]_vars => (TypeOK /\ RetryBudget)'
  BY TypeStep, BudgetStep
<1>3. QED
  BY <1>1, <1>2, PTL DEF Spec

-----------------------------------------------------------------------------
(* One writer per job.                                                     *)

\* While no lease has lapsed, whoever is inside a locked region holds the lock.
LockInv ==
  lapses = 0 =>
    /\ \A d \in Deliveries : pc[d] \in Owning => lock = d
    /\ sweep = "locked" => lock = "sweeper"
    /\ eraser # "idle" => lock = "deleter"

\* The other actors take only a free lock and free only their own or a dead one.
LEMMA OthersLock ==
  ASSUME TypeOK, LockInv, OtherStep
  PROVE  LockInv'
<1>1. CASE UNCHANGED <<pc, lock, sweep, eraser, lapses>>
  BY <1>1 DEF LockInv
<1>2. CASE Dispatch
  BY <1>1, <1>2 DEF Dispatch, DispatchRejected, DispatchMissing, UploadSources, MarkQueued,
       Enqueue, RecordTaskId, DispatchFails, DurabilityUnavailable, faults
<1>3. CASE ApiCrash
  BY <1>3, JobAssumption DEF TypeOK, ApiCrash, LockInv
<1>4. CASE LockExpires
  BY <1>4, JobAssumption DEF LockExpires, LockInv, others, faults
<1>5. CASE DeadlinePasses \/ RecoverEnqueue \/ RecoverMark \/ UNCHANGED vars
  BY <1>1, <1>5 DEF DeadlinePasses, RecoverEnqueue, RecoverMark, vars, others, faults
<1>6. CASE Sweep
  <2>1. CASE SweepPick
    BY <2>1 DEF SweepPick, LockInv, faults
  <2>2. CASE SweepLock
    BY <2>2, JobAssumption DEF SweepLock, LockInv, faults
  <2>3. CASE SweepFail
    BY <2>3, JobAssumption DEF SweepFail, LockInv, faults
  <2>4. QED
    BY <1>6, <2>1, <2>2, <2>3 DEF Sweep
<1>7. CASE Erase
  <2>1. CASE DeleteLock
    BY <2>1, JobAssumption DEF DeleteLock, LockInv, faults
  <2>2. CASE DeleteObjects
    BY <2>2, JobAssumption DEF DeleteObjects, LockInv, faults
  <2>3. CASE DeleteRecord
    BY <2>3, JobAssumption DEF DeleteRecord, LockInv, faults
  <2>4. CASE PurgeRecord \/ PurgeObjects
    BY <1>1, <2>4 DEF PurgeRecord, PurgeObjects, faults
  <2>5. QED
    BY <1>7, <2>1, <2>2, <2>3, <2>4 DEF Erase
<1>8. QED
  BY <1>2, <1>3, <1>4, <1>5, <1>6, <1>7 DEF OtherStep

\* Every step of Next keeps the lock invariant.
LEMMA LockStep == TypeOK /\ RetryBudget /\ LockInv /\ [Next]_vars => LockInv'
<1> SUFFICES ASSUME TypeOK, RetryBudget, LockInv, [Next]_vars PROVE LockInv'
  OBVIOUS
<1>1. ASSUME NEW d \in Deliveries,
             Work(d) \/ SoftLimit(d) \/ HardLimit(d) \/ WorkerCrash(d)
      PROVE  LockInv'
  <2>1. DeliveryStep(d)
    BY <1>1, DeliveryShape
  <2>2. QED
    BY <2>1, JobAssumption DEF LockInv, DeliveryStep
<1>2. ASSUME NEW d \in Deliveries, LockLapses(d) PROVE LockInv'
  BY <1>2 DEF TypeOK, LockInv, LockLapses
<1>3. ASSUME NEW d \in Deliveries, NEW e \in Deliveries, Redeliver(d, e)
      PROVE  LockInv'
  BY <1>3 DEF LockInv, Redeliver, others, faults
<1>4. CASE OtherStep
  BY <1>4, OthersLock
<1>5. QED
  BY <1>1, <1>2, <1>3, <1>4, NextCases

\* processing_lock gives every job one writer at a time, for any number of
\* duplicate messages, crashes, expired leases and redeliveries: only a live
\* holder that loses its lease can break it.
THEOREM OneWriter == Spec => []SingleWriter
<1>1. Init => LockInv
  BY DEF Init, LockInv, Owning, Timed
<1>2. TypeOK /\ RetryBudget /\ LockInv /\ [Next]_vars => LockInv'
  BY LockStep
<1>3. LockInv => SingleWriter
  BY JobAssumption DEF LockInv, SingleWriter
<1>4. QED
  BY <1>1, <1>2, <1>3, TypeCorrect, PTL DEF Spec

-----------------------------------------------------------------------------
(* What is shown as complete is durable.                                   *)

\* Past the upload, and once the record points to a durable copy, that copy
\* exists unless a deletion began; worker_state "done" is written with it.
DurableInv ==
  /\ \A d \in Deliveries : pc[d] \in {"unsource", "complete"} => published \/ wiped
  /\ job.remote => published \/ wiped
  /\ job.worker = "done" => job.remote

\* The copy disappears only in a deletion.
LEMMA CopyKept ==
  ASSUME TypeOK, published \/ wiped, [Next]_vars
  PROVE  published' \/ wiped'
<1>1. ASSUME NEW d \in Deliveries, Work(d) PROVE published' \/ wiped'
  BY <1>1 DEF TypeOK, Work, Child, Deliver, AcquireLock, LockedElsewhere, ExhaustedDuplicate,
       ExhaustedUnheld, FailExhausted, DropFinished, ReadJob, Begin, Download, Quota,
       StartPipeline, RunPipeline, Meter, ReadFinished, MarkPublishing, Publish,
       DeleteSources, Complete, Requeue, OnTimeout, Kill, storage
<1>2. ASSUME NEW d \in Deliveries, SoftLimit(d) \/ HardLimit(d) \/ WorkerCrash(d)
      PROVE  published' \/ wiped'
  BY <1>2 DEF SoftLimit, HardLimit, WorkerCrash, storage
<1>3. ASSUME NEW d \in Deliveries, NEW e \in Deliveries, LockLapses(d) \/ Redeliver(d, e)
      PROVE  published' \/ wiped'
  BY <1>3 DEF LockLapses, Redeliver, storage
<1>4. CASE OtherStep
  BY <1>4 DEF OtherStep, Dispatch, DispatchRejected, DispatchMissing, UploadSources,
       MarkQueued, Enqueue, RecordTaskId, DispatchFails, DurabilityUnavailable, ApiCrash,
       LockExpires, DeadlinePasses, Sweep, SweepPick, SweepLock, SweepFail, Erase, DeleteLock,
       DeleteObjects, DeleteRecord, PurgeRecord, PurgeObjects, RecoverEnqueue, RecoverMark,
       vars, storage
<1>5. QED
  BY <1>1, <1>2, <1>3, <1>4, NextCases

\* A write to the record that neither claims a durable copy nor finishes the job.
PlainWrite ==
  /\ job'.remote => job.remote
  /\ job'.worker = "done" => job.worker = "done" /\ job'.remote = job.remote

\* The writes of update, the failure path and deletion are plain.
LEMMA WritesPlain ==
  ASSUME TypeOK
  PROVE  /\ UNCHANGED job => PlainWrite
         /\ \A st \in {"queued", "working", "done", "error"}, w \in WorkerStates :
              w # "done" \/ w = job.worker => (Update(st, w) => PlainWrite)
         /\ \A w \in WorkerStates, c \in {"none", "transient", "final"} :
              w # "done" \/ w = job.worker => (Fail(w, c) => PlainWrite)
         /\ FailUnfinished => PlainWrite
         /\ job' = GoneJob => PlainWrite
<1>1. UNCHANGED job => PlainWrite
  BY DEF PlainWrite
<1>2. ASSUME NEW st \in {"queued", "working", "done", "error"}, NEW w \in WorkerStates,
             w # "done" \/ w = job.worker, Update(st, w)
      PROVE  PlainWrite
  BY <1>2 DEF TypeOK, JobRecords, Update, PlainWrite
<1>3. ASSUME NEW w \in WorkerStates, NEW c \in {"none", "transient", "final"},
             w # "done" \/ w = job.worker, Fail(w, c)
      PROVE  PlainWrite
  BY <1>3 DEF TypeOK, JobRecords, Fail, PlainWrite
<1>4. FailUnfinished => PlainWrite
  BY <1>1, <1>3 DEF FailUnfinished, WorkerStates
<1>5. job' = GoneJob => PlainWrite
  BY DEF GoneJob, NewJob, PlainWrite
<1>6. QED
  BY <1>1, <1>2, <1>3, <1>4, <1>5

\* So are the writes of a delivery that fails.
LEMMA FailurePlain ==
  ASSUME TypeOK, NEW d \in Deliveries, RetryOrFail(d) \/ Reject(d)
  PROVE  PlainWrite /\ pc'[d] \in {"idle", "requeue"}
<1>1. pc'[d] \in {"idle", "requeue"}
  BY DEF TypeOK, RetryOrFail, Reject, Finish, Goto
<1>2. CASE UNCHANGED job
  BY <1>1, <1>2, WritesPlain
<1>3. CASE Fail("failed", "transient") \/ Fail("rejected", "final")
  BY <1>1, <1>3, WritesPlain DEF WorkerStates
<1>4. CASE job' = [job EXCEPT !.status = "queued", !.worker = "retrying",
                              !.code = "none", !.seen = FALSE]
  BY <1>1, <1>4 DEF TypeOK, JobRecords, PlainWrite
<1>5. QED
  BY <1>2, <1>3, <1>4 DEF RetryOrFail, Reject

\* A delivery reaches the steps after the upload only through the upload, and
\* claims the durable copy only in the last of them.
LEMMA DeliveryDurable ==
  ASSUME TypeOK, NEW d \in Deliveries,
         Work(d) \/ SoftLimit(d) \/ HardLimit(d) \/ WorkerCrash(d)
  PROVE  /\ pc'[d] \in {"unsource", "complete"} =>
              pc[d] \in {"unsource", "complete"} \/ published'
         /\ PlainWrite \/ (pc[d] = "complete" /\ job'.remote)
<1> USE DEF Goto
<1>1. CASE Deliver(d) \/ AcquireLock(d) \/ LockedElsewhere(d) \/ ExhaustedUnheld(d) \/ ReadJob(d)
  BY <1>1, WritesPlain DEF TypeOK, Deliver, AcquireLock, LockedElsewhere, ExhaustedUnheld,
                           ReadJob
<1>2. CASE ExhaustedDuplicate(d) \/ DropFinished(d) \/ Requeue(d)
  BY <1>2, WritesPlain DEF TypeOK, ExhaustedDuplicate, DropFinished, Requeue, Finish
<1>3. CASE FailExhausted(d) \/ SoftLimit(d)
  BY <1>3, WritesPlain DEF TypeOK, FailExhausted, SoftLimit, Finish
<1>4. CASE OnTimeout(d) \/ Kill(d)
  BY <1>4, WritesPlain DEF TypeOK, OnTimeout, Kill
<1>5. CASE Begin(d)
  <2>1. CASE RetryOrFail(d) \/ Reject(d)
    BY <2>1, FailurePlain
  <2>2. CASE /\ job' = [job EXCEPT !.status = "working", !.worker = "downloading",
                                  !.deadline = "set", !.seen = FALSE]
             /\ pc' = [pc EXCEPT ![d] = "download"]
    BY <2>2 DEF TypeOK, JobRecords, PlainWrite
  <2>3. QED
    BY <1>5, <2>1, <2>2 DEF Begin
<1>6. CASE Download(d)
  <2>1. CASE RetryOrFail(d) \/ Reject(d)
    BY <2>1, FailurePlain
  <2>2. CASE /\ \E w \in {"downloading", "preflighting"} : Update(job.status, w)
             /\ pc' = [pc EXCEPT ![d] = "quota"]
    BY <2>2 DEF TypeOK, JobRecords, Update, PlainWrite
  <2>3. QED
    BY <1>6, <2>1, <2>2 DEF Download
<1>7. CASE Quota(d)
  <2>1. CASE RetryOrFail(d) \/ Reject(d)
    BY <2>1, FailurePlain
  <2>2. CASE Update(job.status, "processing") /\ pc' = [pc EXCEPT ![d] = "start"]
    BY <2>2 DEF TypeOK, JobRecords, Update, PlainWrite
  <2>3. QED
    BY <1>7, <2>1, <2>2 DEF Quota
<1>8. CASE StartPipeline(d)
  <2>1. CASE Update("working", job.worker) /\ pc' = [pc EXCEPT ![d] = "pipeline"]
    BY <2>1 DEF TypeOK, JobRecords, Update, PlainWrite
  <2>2. CASE UNCHANGED job /\ pc' = [pc EXCEPT ![d] = "finished"]
    BY <2>2, WritesPlain DEF TypeOK
  <2>3. QED
    BY <1>8, <2>1, <2>2 DEF StartPipeline
<1>9. CASE RunPipeline(d)
  <2>1. CASE RetryOrFail(d)
    BY <2>1, FailurePlain
  <2>2. CASE Update("done", job.worker) /\ pc' = [pc EXCEPT ![d] = "meter"]
    BY <2>2 DEF TypeOK, JobRecords, Update, PlainWrite
  <2>3. CASE /\ \/ job' = [job EXCEPT !.status = "error", !.code = "transient", !.seen = FALSE]
                \/ Fail(job.worker, "final")
                \/ Fail("rejected", "final")
             /\ pc' = [pc EXCEPT ![d] = "finished"]
    BY <2>3 DEF TypeOK, JobRecords, Fail, PlainWrite
  <2>4. QED
    BY <1>9, <2>1, <2>2, <2>3 DEF RunPipeline
<1>10. CASE Meter(d) \/ HardLimit(d) \/ WorkerCrash(d)
  BY <1>10, WritesPlain DEF TypeOK, Meter, HardLimit, WorkerCrash
<1>11. CASE ReadFinished(d)
  <2>1. CASE RetryOrFail(d) \/ Reject(d)
    BY <2>1, FailurePlain
  <2>2. CASE UNCHANGED job /\ pc' = [pc EXCEPT ![d] = "mark"]
    BY <2>2, WritesPlain DEF TypeOK
  <2>3. CASE Fail("rejected", job.code) /\ Finish(d)
    BY <2>3 DEF TypeOK, JobRecords, Fail, Finish, PlainWrite
  <2>4. QED
    BY <1>11, <2>1, <2>2, <2>3 DEF ReadFinished
<1>12. CASE MarkPublishing(d)
  <2>1. CASE RetryOrFail(d)
    BY <2>1, FailurePlain
  <2>2. CASE Update("working", "publishing") /\ pc' = [pc EXCEPT ![d] = "publish"]
    BY <2>2 DEF TypeOK, JobRecords, Update, PlainWrite
  <2>3. QED
    BY <1>12, <2>1, <2>2 DEF MarkPublishing
<1>13. CASE Publish(d)
  <2>1. CASE RetryOrFail(d)
    BY <2>1, FailurePlain
  <2>2. CASE published' = TRUE /\ UNCHANGED job
    BY <2>2, WritesPlain
  <2>3. QED
    BY <1>13, <2>1, <2>2 DEF Publish
<1>14. CASE DeleteSources(d)
  <2>1. CASE RetryOrFail(d)
    BY <2>1, FailurePlain
  <2>2. CASE pc[d] = "unsource" /\ UNCHANGED job
    BY <2>2, WritesPlain
  <2>3. QED
    BY <1>14, <2>1, <2>2 DEF DeleteSources
<1>15. CASE Complete(d)
  <2>1. CASE RetryOrFail(d)
    BY <2>1, FailurePlain
  <2>2. CASE /\ pc[d] = "complete" /\ Finish(d)
             /\ job' = [job EXCEPT !.status = "done", !.worker = "done",
                                   !.remote = TRUE, !.seen = FALSE]
    BY <2>2 DEF TypeOK, JobRecords, Finish
  <2>3. QED
    BY <1>15, <2>1, <2>2 DEF Complete
<1>16. QED
  BY <1>1, <1>2, <1>3, <1>4, <1>5, <1>6, <1>7, <1>8, <1>9, <1>10, <1>11, <1>12, <1>13,
     <1>14, <1>15 DEF Work, Child

\* The other actors write the record plainly.
LEMMA OthersPlain ==
  ASSUME TypeOK, OtherStep
  PROVE  PlainWrite
<1>1. CASE UNCHANGED job
  BY <1>1, WritesPlain
<1>2. CASE Dispatch
  <2>1. CASE DispatchRejected
    BY <2>1 DEF TypeOK, JobRecords, DispatchRejected, Fail, PlainWrite
  <2>2. CASE MarkQueued
    BY <2>2 DEF TypeOK, JobRecords, MarkQueued, PlainWrite
  <2>3. CASE RecordTaskId
    BY <2>3 DEF TypeOK, JobRecords, RecordTaskId, PlainWrite
  <2>4. CASE DurabilityUnavailable
    BY <1>1, <2>4, WritesPlain DEF DurabilityUnavailable, WorkerStates
  <2>5. QED
    BY <1>1, <1>2, <2>1, <2>2, <2>3, <2>4
       DEF Dispatch, DispatchMissing, UploadSources, Enqueue, DispatchFails
<1>3. CASE DeadlinePasses
  BY <1>3 DEF TypeOK, JobRecords, DeadlinePasses, PlainWrite
<1>4. CASE Sweep
  <2>1. CASE SweepPick
    BY <2>1 DEF TypeOK, JobRecords, SweepPick, PlainWrite
  <2>2. CASE SweepLock \/ SweepFail
    BY <2>2, WritesPlain DEF SweepLock, SweepFail
  <2>3. QED
    BY <1>4, <2>1, <2>2 DEF Sweep
<1>5. CASE Erase
  BY <1>5, WritesPlain DEF Erase, DeleteLock, DeleteObjects, DeleteRecord, PurgeRecord,
                           PurgeObjects
<1>6. CASE RecoverMark
  BY <1>1, <1>6, WritesPlain DEF RecoverMark, WorkerStates
<1>7. QED
  BY <1>1, <1>2, <1>3, <1>4, <1>5, <1>6
     DEF OtherStep, ApiCrash, LockExpires, RecoverEnqueue, vars

\* Every step of Next keeps the durability invariant.
LEMMA DurableStep == TypeOK /\ RetryBudget /\ DurableInv /\ [Next]_vars => DurableInv'
<1> SUFFICES ASSUME TypeOK, RetryBudget, DurableInv, [Next]_vars PROVE DurableInv'
  OBVIOUS
<1>1. ASSUME NEW d \in Deliveries,
             Work(d) \/ SoftLimit(d) \/ HardLimit(d) \/ WorkerCrash(d)
      PROVE  DurableInv'
  <2>1. \A e \in Deliveries \ {d} : pc'[e] = pc[e]
    BY <1>1, DeliveryShape DEF DeliveryStep
  <2>2. /\ pc'[d] \in {"unsource", "complete"} =>
             pc[d] \in {"unsource", "complete"} \/ published'
        /\ PlainWrite \/ (pc[d] = "complete" /\ job'.remote)
    BY <1>1, DeliveryDurable
  <2>3. \A e \in Deliveries :
          pc'[e] \in {"unsource", "complete"} => published' \/ wiped'
    BY <2>1, <2>2, CopyKept DEF DurableInv
  <2>4. job'.remote => published' \/ wiped'
    BY <2>2, CopyKept DEF DurableInv, PlainWrite
  <2>5. job'.worker = "done" => job'.remote
    BY <2>2 DEF DurableInv, PlainWrite
  <2>6. QED
    BY <2>3, <2>4, <2>5 DEF DurableInv
<1>2. ASSUME NEW d \in Deliveries, NEW e \in Deliveries, LockLapses(d) \/ Redeliver(d, e)
      PROVE  DurableInv'
  BY <1>2 DEF DurableInv, LockLapses, Redeliver, storage
<1>3. CASE OtherStep
  <2>1. UNCHANGED pc
    BY <1>3, OthersSend
  <2>2. \A e \in Deliveries :
          pc'[e] \in {"unsource", "complete"} => published' \/ wiped'
    BY <2>1, CopyKept DEF DurableInv
  <2>3. PlainWrite
    BY <1>3, OthersPlain
  <2>4. job'.remote => published' \/ wiped'
    BY <2>3, CopyKept DEF DurableInv, PlainWrite
  <2>5. job'.worker = "done" => job'.remote
    BY <2>3 DEF DurableInv, PlainWrite
  <2>6. QED
    BY <2>2, <2>4, <2>5 DEF DurableInv
<1>4. QED
  BY <1>1, <1>2, <1>3, NextCases

\* A result that _job_is_publicly_complete shows is in the object store and the
\* record points to it, unless its deletion has begun: for any interleaving of
\* duplicates, failures, recovery and deletion, lapsed leases included.
THEOREM ShownIsDurable == Spec => []ReadyIsDurable
<1>1. Init => DurableInv
  BY DEF Init, DurableInv, NewJob
<1>2. TypeOK /\ RetryBudget /\ DurableInv /\ [Next]_vars => DurableInv'
  BY DurableStep
<1>3. DurableInv => ReadyIsDurable
  BY DEF DurableInv, ReadyIsDurable, PubliclyComplete
<1>4. QED
  BY <1>1, <1>2, <1>3, TypeCorrect, PTL DEF Spec

-----------------------------------------------------------------------------
(* A job that failed for good is not restarted.                            *)

\* A delivery leaves a settled job alone, whatever step it is at.
LEMMA SettledDelivery ==
  ASSUME TypeOK, Settled, NEW d \in Deliveries,
         Work(d) \/ SoftLimit(d) \/ HardLimit(d) \/ WorkerCrash(d)
  PROVE  job' = job /\ pc'[d] \notin Timed \cup {"meter"} /\ UNCHANGED <<api, recover>>
<1>1. /\ pc[d] \notin Timed \cup {"meter"}
      /\ job.status = "error" /\ ~Unfinished /\ Exists
  BY DEF Settled, Unfinished, Exists
<1>2. FailUnfinished => job' = job
  BY <1>1 DEF FailUnfinished
<1>3. CASE Deliver(d) \/ AcquireLock(d) \/ LockedElsewhere(d) \/ ExhaustedUnheld(d)
  BY <1>1, <1>3 DEF TypeOK, Deliver, AcquireLock, LockedElsewhere, ExhaustedUnheld, Goto, Timed,
                    others
<1>4. CASE ExhaustedDuplicate(d) \/ DropFinished(d) \/ Requeue(d)
  BY <1>4 DEF TypeOK, ExhaustedDuplicate, DropFinished, Requeue, Finish, Goto, Timed, others
<1>5. CASE FailExhausted(d) \/ SoftLimit(d)
  BY <1>1, <1>2, <1>5 DEF TypeOK, FailExhausted, SoftLimit, Finish, Goto, Timed, others
<1>6. CASE OnTimeout(d) \/ HardLimit(d)
  BY <1>1, <1>2, <1>6 DEF OnTimeout, HardLimit, others
<1>7. CASE Kill(d) \/ WorkerCrash(d)
  BY <1>7 DEF TypeOK, Kill, WorkerCrash, Goto, Timed, others
<1>8. ~ReadJob(d)
  BY <1>1 DEF ReadJob
<1>9. ~Begin(d) /\ ~Download(d) /\ ~Quota(d) /\ ~StartPipeline(d) /\ ~RunPipeline(d) /\ ~Meter(d)
  BY <1>1 DEF Begin, Download, Quota, StartPipeline, RunPipeline, Meter, Timed
<1>10. /\ ~ReadFinished(d) /\ ~MarkPublishing(d) /\ ~Publish(d) /\ ~DeleteSources(d)
       /\ ~Complete(d)
  BY <1>1 DEF ReadFinished, MarkPublishing, Publish, DeleteSources, Complete, Timed
<1> QED
  BY <1>3, <1>4, <1>5, <1>6, <1>7, <1>8, <1>9, <1>10 DEF Work, Child

\* So do the other actors, unless they erase it.
LEMMA SettledOthers ==
  ASSUME TypeOK, Settled, OtherStep
  PROVE  \/ job'.status = "gone"
         \/ /\ job'.status = "error" /\ job'.notice
            /\ api' \notin {"accepted", "uploaded"} /\ recover' # "sent"
<1>1. /\ job.status = "error" /\ job.notice /\ ~Unfinished
      /\ api \notin {"accepted", "uploaded"} /\ recover # "sent"
  BY DEF Settled, Unfinished
<1>2. CASE Dispatch
  BY <1>1, <1>2 DEF TypeOK, JobRecords, Dispatch, DispatchRejected, DispatchMissing,
       UploadSources, MarkQueued, Enqueue, RecordTaskId, DispatchFails, DurabilityUnavailable,
       Fail
<1>3. CASE ApiCrash \/ LockExpires \/ UNCHANGED vars
  BY <1>1, <1>3 DEF TypeOK, ApiCrash, LockExpires, vars, others
<1>4. CASE DeadlinePasses
  BY <1>1, <1>4 DEF TypeOK, JobRecords, DeadlinePasses, others
<1>5. CASE Sweep
  BY <1>1, <1>5 DEF Sweep, SweepPick, SweepLock, SweepFail, FailUnfinished
<1>6. CASE Erase
  BY <1>1, <1>6 DEF Erase, DeleteLock, DeleteObjects, DeleteRecord, PurgeRecord, PurgeObjects,
       GoneJob, NewJob
<1>7. CASE RecoverEnqueue \/ RecoverMark
  BY <1>1, <1>7 DEF RecoverEnqueue, RecoverMark
<1> QED
  BY <1>2, <1>3, <1>4, <1>5, <1>6, <1>7 DEF OtherStep

\* Every step leaves a settled job settled, or erases it.
LEMMA SettledStep ==
  TypeOK /\ RetryBudget /\ [Next]_vars => (Settled => Settled' \/ job'.status = "gone")
<1> SUFFICES ASSUME TypeOK, RetryBudget, Settled, [Next]_vars
             PROVE  Settled' \/ job'.status = "gone"
  OBVIOUS
<1>1. ASSUME NEW d \in Deliveries, Work(d) \/ SoftLimit(d) \/ HardLimit(d) \/ WorkerCrash(d)
      PROVE  Settled'
  <2>1. job' = job /\ pc'[d] \notin Timed \cup {"meter"} /\ UNCHANGED <<api, recover>>
    BY <1>1, SettledDelivery
  <2>2. \A e \in Deliveries \ {d} : pc'[e] = pc[e]
    BY <1>1, DeliveryShape DEF DeliveryStep
  <2> QED BY <2>1, <2>2 DEF Settled
<1>2. ASSUME NEW d \in Deliveries, NEW e \in Deliveries, LockLapses(d) \/ Redeliver(d, e)
      PROVE  Settled'
  BY <1>2 DEF Settled, LockLapses, Redeliver, others
<1>3. CASE OtherStep
  BY <1>3, SettledOthers, OthersSend DEF Settled
<1> QED BY <1>1, <1>2, <1>3, NextCases

\* A job that failed for good stays failed until it is erased: for any number of
\* messages of the job, however often each is delivered, retried or requeued by an
\* operator, with lapsed leases, lost processes and failing stores, once nobody is
\* left who had looked at the job before it failed and has yet to write.
THEOREM FailuresAreFinal == Spec => FailureIsFinal
<1>1. TypeOK /\ RetryBudget /\ [Next]_vars => [Settled => Settled' \/ job'.status = "gone"]_vars
  BY SettledStep
<1> QED BY <1>1, TypeCorrect, PTL DEF Spec, FailureIsFinal

-----------------------------------------------------------------------------
(* One message, no faults of the stores: what the owner is promised *)

\* Neither the stores nor the lock's renewal fail, one message is sent, and a child
\* past its hard limit is killed before it acts again.
Calm == ~Redelivers /\ ~LateKill /\ ~StoreFaults /\ ~Recovery /\ MaxLapses = 0

\* The owner was told of the failure, or sees the result.
Closed == job.notice \/ job.worker = "done"

\* Steps of a delivery that is not about to find out how things stand.
Active == Owning \ {"read", "finished"}

LoneMessage == \A d, e \in Deliveries : msg[d] # "unsent" /\ msg[e] # "unsent" => d = e

\* A record says failed or done for good, or what the pipeline reported.
RecordFits ==
  /\ job.notice => job.status = "error"
  /\ job.worker = "done" => job.status = "done" /\ job.remote
  /\ job.status \in {"error", "done"} /\ ~job.notice => job.worker \in {"processing", "done"}

\* Until the message is sent nobody works on the job, and its sources are there.
DispatchFits ==
  /\ api \in {"accepted", "uploaded", "marked"} =>
       /\ \A d \in Deliveries : msg[d] = "unsent"
       /\ job.status \in {"queued", "gone"} /\ ~Closed /\ ~job.seen
  /\ api \in {"uploaded", "marked"} /\ Exists => sources
  /\ api = "failing" => ~Exists

\* Only a job that is over is deleted.
ErasureFits ==
  /\ eraser # "idle" => Closed \/ ~Exists
  /\ purge = "pending" => ~Exists

\* A delivery at work, not overtaken by its hard limit: the job is open, and before
\* the pipeline ends there is no result.
StepFits(d) ==
  IF limit[d] # "none" THEN msg[d] = "acked" ELSE
  /\ pc[d] # "idle" => msg[d] = "held"
  /\ pc[d] \in Active => ~Closed
  /\ pc[d] = "meter" /\ Exists => job.status = "done"
  /\ pc[d] = "finished" => job.worker # "done" /\ (job.notice => job.code = "final")
  /\ pc[d] \in {"download", "quota", "start", "pipeline"} /\ Exists => job.status = "working"
  /\ pc[d] \in {"start", "pipeline"} /\ Exists => job.worker = "processing"

\* Without a lost process, the sources of an open job outlive its message.
SourcesKept ==
  (/\ crashes = 0 /\ Exists /\ ~Closed
   /\ \E d \in Deliveries : msg[d] \in {"ready", "held"}
   /\ \A d \in Deliveries : pc[d] # "complete") => sources

PromiseInv ==
  /\ LoneMessage /\ RecordFits /\ DispatchFits /\ ErasureFits /\ SourcesKept /\ recover = "idle"
  /\ \A d \in Deliveries : StepFits(d)

\* What a step may do to the promise: nothing leaves "gone"; a notice and a
\* shown result stay until the job is gone; usage is recorded once, while the job
\* is open.
PromiseStep ==
  /\ ~Exists => ~Exists'
  /\ job.notice => job'.notice \/ ~Exists'
  /\ job.worker = "done" => job'.worker = "done" \/ ~Exists'
  /\ charges' = charges \/ (charges = 0 /\ charges' = 1 /\ ~Closed /\ job' = job)

\* SourcesKept for one delivery.
SourcesAt(d) ==
  (/\ crashes = 0 /\ Exists /\ ~Closed
   /\ msg[d] \in {"ready", "held"} /\ pc[d] # "complete") => sources

\* The invariant as one delivery meets it, and what its step has to establish.
AtWork(d) == RecordFits /\ StepFits(d) /\ SourcesAt(d)
Keeps(d) == PromiseStep /\ AtWork(d)'

\* A record left alone, failed by a worker, or put back for a retry.
LEMMA RecordKept ==
  ASSUME TypeOK, RecordFits, charges' = charges, job' = job
  PROVE  PromiseStep /\ RecordFits'
BY DEF PromiseStep, RecordFits, Exists

LEMMA FailureWrite ==
  ASSUME TypeOK, RecordFits, charges' = charges, Exists, job.worker # "done",
         NEW w \in WorkerStates \ {"done", "retrying"}, NEW c, Fail(w, c)
  PROVE  PromiseStep /\ RecordFits' /\ Closed'
BY DEF TypeOK, JobRecords, Fail, PromiseStep, RecordFits, Exists, Closed

LEMMA RetryWrite ==
  ASSUME TypeOK, RecordFits, charges' = charges, Exists, ~Closed,
         job' = [job EXCEPT !.status = "queued", !.worker = "retrying",
                            !.code = "none", !.seen = FALSE]
  PROVE  PromiseStep /\ RecordFits' /\ ~Closed'
BY DEF TypeOK, JobRecords, PromiseStep, RecordFits, Exists, Closed

\* A delivery whose message is acknowledged owes nothing more.
LEMMA FinishKeeps ==
  ASSUME TypeOK, NEW d \in Deliveries, Finish(d), PromiseStep, RecordFits'
  PROVE  Keeps(d)
<1>1. pc'[d] = "idle" /\ msg'[d] = "acked"
  BY DEF TypeOK, Finish, Goto
<1> QED BY <1>1 DEF Keeps, AtWork, StepFits, SourcesAt, Active, Owning, Timed

\* _retry_or_fail and the refusals keep the promise of an open job.
LEMMA FailureKeeps ==
  ASSUME TypeOK, NEW d \in Deliveries, AtWork(d), RetryOrFail(d) \/ Reject(d),
         charges' = charges, crashes' = crashes, pc[d] # "idle", limit[d] = "none",
         Exists => ~Closed /\ pc[d] # "complete"
  PROVE  Keeps(d)
<1>1. CASE ~Exists
  <2>1. job' = job /\ Finish(d)
    BY <1>1 DEF RetryOrFail, Reject
  <2> QED BY <2>1, RecordKept, FinishKeeps DEF AtWork
<1>2. CASE Exists /\ Finish(d)
  <2>1. Fail("failed", "transient") \/ Fail("rejected", "final")
    <3>1. CASE Reject(d)
      BY <1>2, <3>1 DEF Reject
    <3>2. CASE RetryOrFail(d)
      <4>1. pc'[d] = "idle"
        BY <1>2 DEF TypeOK, Finish, Goto
      <4> QED BY <1>2, <3>2, <4>1 DEF RetryOrFail, TypeOK, Goto
    <3> QED BY <3>1, <3>2
  <2>2. job.worker # "done"
    BY <1>2 DEF Closed
  <2>3. PromiseStep /\ RecordFits'
    BY <1>2, <2>1, <2>2, FailureWrite DEF AtWork, WorkerStates
  <2> QED BY <1>2, <2>3, FinishKeeps
<1>3. CASE /\ Exists /\ RetryOrFail(d)
           /\ job' = [job EXCEPT !.status = "queued", !.worker = "retrying",
                                 !.code = "none", !.seen = FALSE]
           /\ Goto(d, "requeue") /\ UNCHANGED <<sources, broker, lock>>
  <2>1. PromiseStep /\ RecordFits' /\ ~Closed'
    BY <1>3, RetryWrite DEF AtWork
  <2>2. pc'[d] = "requeue" /\ msg' = msg /\ limit' = limit
    BY <1>3 DEF TypeOK, Goto, broker
  <2>3. StepFits(d)'
    BY <2>1, <2>2 DEF StepFits, AtWork
  <2>4. SourcesAt(d)'
    BY <1>3, <2>2 DEF AtWork, SourcesAt
  <2> QED BY <2>1, <2>3, <2>4 DEF Keeps, AtWork
<1> QED BY <1>1, <1>2, <1>3 DEF RetryOrFail, Reject

\* fail_unfinished_job at the end of a delivery.
LEMMA UnfinishedWrite ==
  ASSUME TypeOK, RecordFits, charges' = charges, FailUnfinished
  PROVE  PromiseStep /\ RecordFits'
<1>1. CASE Unfinished
  <2>1. Exists /\ job.worker # "done"
    BY <1>1 DEF Unfinished, Exists, RecordFits
  <2> QED BY <1>1, <2>1, FailureWrite DEF FailUnfinished, WorkerStates
<1>2. CASE ~Unfinished
  BY <1>2, RecordKept DEF FailUnfinished
<1> QED BY <1>1, <1>2

\* A delivery moves on without touching its message.
LEMMA MoveKeeps ==
  ASSUME TypeOK, NEW d \in Deliveries, NEW step, Goto(d, step), msg' = msg,
         PromiseStep, RecordFits', pc[d] # "complete",
         sources' = sources, crashes' = crashes, SourcesAt(d),
         Exists' => Exists, Closed => Closed',
         (pc'[d] = step) => StepFits(d)'
  PROVE  Keeps(d)
<1>1. pc'[d] = step
  BY DEF TypeOK, Goto
<1>2. SourcesAt(d)'
  BY DEF SourcesAt
<1> QED BY <1>1, <1>2 DEF Keeps, AtWork

\* The task and its messages leave the pool's mark alone.
LEMMA ChildLimit ==
  ASSUME NEW d \in Deliveries, Child(d) \/ Deliver(d) \/ SoftLimit(d)
  PROVE  limit' = limit
BY DEF Child, AcquireLock, LockedElsewhere, ExhaustedDuplicate, ExhaustedUnheld, FailExhausted,
   DropFinished, ReadJob, Begin, Download, Quota, StartPipeline, RunPipeline, Meter,
   ReadFinished, MarkPublishing, Publish, DeleteSources, Complete, Requeue, Deliver, SoftLimit,
   RetryOrFail, Reject, Finish, RetryMessage, broker

\* Every step of the task keeps the promise.
LEMMA ChildKeeps ==
  ASSUME Calm, TypeOK, NEW d \in Deliveries, AtWork(d), limit[d] = "none",
         Child(d) \/ Deliver(d) \/ SoftLimit(d)
  PROVE  Keeps(d)
<1>0. limit' = limit
  BY ChildLimit
<1> USE <1>0 DEF storage, broker, faults
<1>1. CASE Deliver(d) \/ AcquireLock(d) \/ ExhaustedUnheld(d)
  <2>1. /\ job' = job /\ charges' = charges
        /\ sources' = sources /\ crashes' = crashes
    BY <1>1 DEF Deliver, AcquireLock, ExhaustedUnheld
  <2>2. PromiseStep /\ RecordFits'
    BY <2>1, RecordKept DEF AtWork
  <2>3. /\ pc'[d] \in {"lock", "read", "failing"} /\ pc[d] # "complete"
        /\ msg[d] \in {"ready", "held"} /\ msg'[d] = "held"
    BY <1>1 DEF TypeOK, Deliver, AcquireLock, ExhaustedUnheld, Goto, AtWork, StepFits
  <2>4. StepFits(d)'
    BY <2>3 DEF StepFits, Active, Owning, Timed
  <2>5. SourcesAt(d)'
    BY <2>1, <2>3 DEF AtWork, SourcesAt, Exists, Closed
  <2> QED BY <2>2, <2>4, <2>5 DEF Keeps, AtWork
<1>2. CASE LockedElsewhere(d) \/ Requeue(d)
  <2>1. /\ job' = job /\ charges' = charges
        /\ sources' = sources /\ crashes' = crashes
    BY <1>2 DEF LockedElsewhere, Requeue
  <2>2. PromiseStep /\ RecordFits'
    BY <2>1, RecordKept DEF AtWork
  <2>3. /\ pc'[d] = "idle" \/ (pc'[d] = "exhausted" /\ msg'[d] = "held")
        /\ pc[d] # "complete" /\ msg[d] = "held"
    BY <1>2 DEF TypeOK, LockedElsewhere, Requeue, Goto, AtWork, StepFits
  <2>4. StepFits(d)'
    BY <2>3 DEF StepFits, Active, Owning, Timed
  <2>5. SourcesAt(d)'
    BY <2>1, <2>3 DEF AtWork, SourcesAt, Exists, Closed
  <2> QED BY <2>2, <2>4, <2>5 DEF Keeps, AtWork
<1>3. CASE ExhaustedDuplicate(d) \/ DropFinished(d)
  <2>1. job' = job /\ charges' = charges /\ Finish(d)
    <3>1. CASE ExhaustedDuplicate(d)
      BY <3>1 DEF ExhaustedDuplicate
    <3>2. CASE DropFinished(d)
      BY <3>2 DEF DropFinished
    <3> QED BY <1>3, <3>1, <3>2
  <2> QED BY <2>1, RecordKept, FinishKeeps DEF AtWork
<1>4. CASE FailExhausted(d) \/ SoftLimit(d)
  BY <1>4, UnfinishedWrite, RecordKept, FinishKeeps DEF FailExhausted, SoftLimit, AtWork
<1>5. CASE ReadJob(d)
  <2>1. PromiseStep /\ RecordFits'
    BY <1>5, RecordKept DEF ReadJob, AtWork
  <2>2. /\ job' = job /\ charges' = charges /\ sources' = sources /\ crashes' = crashes
        /\ msg' = msg
    BY <1>5 DEF ReadJob
  <2>3. ~Closed
    BY <1>5 DEF ReadJob, AtWork, RecordFits, Closed, Unfinished
  <2>4. /\ pc[d] # "complete"
        /\ pc'[d] \in {"begin", "mark"}
    BY <1>5 DEF ReadJob, TypeOK, Goto
  <2>5. StepFits(d)'
    BY <1>5, <2>2, <2>3, <2>4 DEF ReadJob, AtWork, StepFits, Closed
  <2>6. SourcesAt(d)'
    BY <2>2, <2>4 DEF AtWork, SourcesAt, Exists, Closed
  <2> QED BY <2>1, <2>5, <2>6 DEF Keeps, AtWork
<1>6. CASE Begin(d)
  <2>0. ~Closed /\ pc[d] = "begin" /\ charges' = charges /\ crashes' = crashes
    BY <1>6 DEF Begin, AtWork, StepFits, Active, Owning, Timed
  <2>1. CASE RetryOrFail(d) /\ ~Exists
    BY <2>0, <2>1, FailureKeeps
  <2>2. CASE /\ Exists /\ Goto(d, "download")
             /\ job' = [job EXCEPT !.status = "working", !.worker = "downloading",
                                  !.deadline = "set", !.seen = FALSE]
             /\ UNCHANGED <<sources, broker, lock>>
    <3>1. /\ PromiseStep /\ RecordFits' /\ ~Closed' /\ Exists'
          /\ job'.status = "working"
      BY <2>0, <2>2 DEF TypeOK, JobRecords, PromiseStep, RecordFits, Exists, Closed
    <3>2. pc'[d] = "download"
      BY <2>2 DEF TypeOK, Goto
    <3>3. StepFits(d)'
      BY <2>0, <2>2, <3>1, <3>2 DEF StepFits, AtWork
    <3> QED BY <2>0, <2>2, <3>1, <3>3, MoveKeeps DEF AtWork
  <2> QED BY <1>6, <2>1, <2>2 DEF Begin, Calm
<1>7. CASE Download(d)
  <2>0. /\ ~Closed /\ pc[d] = "download"
        /\ charges' = charges /\ crashes' = crashes
    BY <1>7 DEF Download, AtWork, StepFits, Active, Owning, Timed
  <2>1. CASE RetryOrFail(d) \/ Reject(d)
    BY <2>0, <2>1, FailureKeeps
  <2>2. CASE /\ Exists /\ \E w \in {"downloading", "preflighting"} : Update(job.status, w)
             /\ Goto(d, "quota") /\ UNCHANGED <<sources, broker, lock>>
    <3>0. job.status = "working"
      BY <2>0, <2>2 DEF AtWork, StepFits
    <3>1. /\ PromiseStep /\ RecordFits' /\ ~Closed' /\ Exists'
          /\ job'.status = "working"
      BY <2>0, <2>2, <3>0 DEF TypeOK, JobRecords, Update, PromiseStep, RecordFits, Exists, Closed
    <3>2. pc'[d] = "quota"
      BY <2>2 DEF TypeOK, Goto
    <3>3. StepFits(d)'
      BY <2>0, <2>2, <3>1, <3>2 DEF StepFits, AtWork
    <3> QED BY <2>0, <2>2, <3>1, <3>3, MoveKeeps DEF AtWork
  <2> QED BY <1>7, <2>1, <2>2 DEF Download
<1>8. CASE Quota(d)
  <2>0. /\ ~Closed /\ pc[d] = "quota"
        /\ charges' = charges /\ crashes' = crashes
    BY <1>8 DEF Quota, AtWork, StepFits, Active, Owning, Timed
  <2>1. CASE RetryOrFail(d) \/ Reject(d)
    BY <2>0, <2>1, FailureKeeps
  <2>2. CASE /\ Exists /\ Update(job.status, "processing")
             /\ Goto(d, "start") /\ UNCHANGED <<sources, broker, lock>>
    <3>0. job.status = "working"
      BY <2>0, <2>2 DEF AtWork, StepFits
    <3>1. /\ PromiseStep /\ RecordFits' /\ ~Closed' /\ Exists'
          /\ job'.status = "working" /\ job'.worker = "processing"
      BY <2>0, <2>2, <3>0 DEF TypeOK, JobRecords, Update, PromiseStep, RecordFits, Exists, Closed
    <3>2. pc'[d] = "start"
      BY <2>2 DEF TypeOK, Goto
    <3>3. StepFits(d)'
      BY <2>0, <2>2, <3>1, <3>2 DEF StepFits, AtWork
    <3> QED BY <2>0, <2>2, <3>1, <3>3, MoveKeeps DEF AtWork
  <2> QED BY <1>8, <2>1, <2>2 DEF Quota
<1>9. CASE StartPipeline(d)
  <2>0. /\ ~Closed /\ pc[d] = "start" /\ msg' = msg
        /\ charges' = charges /\ crashes' = crashes /\ sources' = sources
    BY <1>9 DEF StartPipeline, AtWork, StepFits, Active, Owning, Timed
  <2>1. CASE ~Exists /\ job' = job /\ Goto(d, "finished")
    <3>1. PromiseStep /\ RecordFits'
      BY <2>0, <2>1, RecordKept DEF AtWork
    <3>2. pc'[d] = "finished"
      BY <2>1 DEF TypeOK, Goto
    <3>3. StepFits(d)'
      BY <2>0, <2>1, <3>2 DEF StepFits, AtWork, Closed, Exists, Active
    <3> QED BY <2>0, <2>1, <3>1, <3>3, MoveKeeps DEF AtWork, Exists
  <2>2. CASE Exists /\ Update("working", job.worker) /\ Goto(d, "pipeline")
    <3>0. job.worker = "processing"
      BY <2>0, <2>2 DEF AtWork, StepFits
    <3>1. /\ PromiseStep /\ RecordFits' /\ ~Closed' /\ Exists'
          /\ job'.status = "working" /\ job'.worker = "processing"
      BY <2>0, <2>2, <3>0 DEF TypeOK, JobRecords, Update, PromiseStep, RecordFits, Exists, Closed
    <3>2. pc'[d] = "pipeline"
      BY <2>2 DEF TypeOK, Goto
    <3>3. StepFits(d)'
      BY <2>0, <2>2, <3>1, <3>2 DEF StepFits, AtWork
    <3> QED BY <2>0, <2>2, <3>1, <3>3, MoveKeeps DEF AtWork
  <2> QED BY <1>9, <2>1, <2>2 DEF StartPipeline
<1>10. CASE RunPipeline(d)
  <2>0. /\ ~Closed /\ pc[d] = "pipeline"
        /\ charges' = charges /\ crashes' = crashes
    BY <1>10 DEF RunPipeline, AtWork, StepFits, Active, Owning, Timed
  <2>1. CASE ~Exists /\ RetryOrFail(d) /\ UNCHANGED result
    BY <2>0, <2>1, FailureKeeps
  <2>2. CASE /\ Exists /\ Update("done", job.worker)
             /\ Goto(d, "meter") /\ UNCHANGED <<sources, broker, lock>>
    <3>0. job.worker = "processing"
      BY <2>0, <2>2 DEF AtWork, StepFits
    <3>1. /\ PromiseStep /\ RecordFits' /\ ~Closed' /\ Exists'
          /\ job'.status = "done" /\ job'.worker = "processing"
      BY <2>0, <2>2, <3>0 DEF TypeOK, JobRecords, Update, PromiseStep, RecordFits, Exists, Closed
    <3>2. pc'[d] = "meter"
      BY <2>2 DEF TypeOK, Goto
    <3>3. StepFits(d)'
      BY <2>0, <2>2, <3>1, <3>2 DEF StepFits, AtWork
    <3> QED BY <2>0, <2>2, <3>1, <3>3, MoveKeeps DEF AtWork
  <2>3. CASE /\ Exists
             /\ \/ job' = [job EXCEPT !.status = "error", !.code = "transient", !.seen = FALSE]
                \/ Fail(job.worker, "final")
                \/ Fail("rejected", "final")
             /\ Goto(d, "finished") /\ UNCHANGED <<sources, result, broker, lock>>
    <3>0. job.worker = "processing"
      BY <2>0, <2>3 DEF AtWork, StepFits
    <3>1. CASE job' = [job EXCEPT !.status = "error", !.code = "transient", !.seen = FALSE]
      <4>1. /\ PromiseStep /\ RecordFits' /\ ~Closed' /\ Exists' /\ job'.status = "error"
        BY <2>0, <2>3, <3>0, <3>1 DEF TypeOK, JobRecords, PromiseStep, RecordFits, Exists, Closed
      <4>2. pc'[d] = "finished"
        BY <2>3 DEF TypeOK, Goto
      <4>3. StepFits(d)'
        BY <2>0, <2>3, <4>1, <4>2 DEF StepFits, AtWork, Active, Closed
      <4> QED BY <2>0, <2>3, <4>1, <4>3, MoveKeeps DEF AtWork
    <3>2. CASE Fail(job.worker, "final") \/ Fail("rejected", "final")
      <4>1. PromiseStep /\ RecordFits' /\ Closed'
        BY <2>0, <2>3, <3>0, <3>2, FailureWrite DEF AtWork, WorkerStates
      <4>2. job'.status = "error" /\ job'.worker # "done" /\ job'.code = "final"
        BY <3>0, <3>2 DEF TypeOK, JobRecords, Fail
      <4>3. pc'[d] = "finished"
        BY <2>3 DEF TypeOK, Goto
      <4>4. StepFits(d)'
        BY <2>0, <2>3, <4>2, <4>3 DEF StepFits, AtWork, Active
      <4> QED BY <2>0, <2>3, <4>1, <4>4, MoveKeeps DEF AtWork
    <3> QED BY <2>3, <3>1, <3>2
  <2> QED BY <1>10, <2>1, <2>2, <2>3 DEF RunPipeline
<1>11. CASE Meter(d)
  <2>0. /\ ~Closed /\ pc[d] = "meter" /\ job' = job /\ msg' = msg
        /\ sources' = sources /\ crashes' = crashes /\ Goto(d, "finished")
        /\ charges' \in {charges, 1}
    BY <1>11 DEF Meter, AtWork, StepFits, Active, Owning, Timed
  <2>1. charges' = charges \/ (charges = 0 /\ charges' = 1)
    BY <2>0 DEF TypeOK
  <2>2. PromiseStep /\ RecordFits'
    BY <2>0, <2>1 DEF AtWork, PromiseStep, RecordFits, Exists
  <2>3. pc'[d] = "finished"
    BY <2>0 DEF TypeOK, Goto
  <2>4. StepFits(d)'
    BY <2>0, <2>1, <2>3 DEF StepFits, AtWork, Active, Closed, Exists
  <2> QED BY <2>0, <2>2, <2>4, MoveKeeps DEF AtWork, Exists, Closed
<1>12. CASE ReadFinished(d)
  <2>0. /\ pc[d] = "finished" /\ job.worker # "done"
        /\ charges' = charges /\ crashes' = crashes
    BY <1>12 DEF ReadFinished, AtWork, StepFits
  <2>1. CASE ~Exists /\ RetryOrFail(d)
    BY <2>0, <2>1, FailureKeeps
  <2>2. CASE job.status = "done" /\ Goto(d, "mark") /\ UNCHANGED <<job, sources, broker, lock>>
    <3>1. PromiseStep /\ RecordFits'
      BY <2>0, <2>2, RecordKept DEF AtWork
    <3>2. ~Closed /\ Exists
      BY <2>0, <2>2 DEF AtWork, RecordFits, StepFits, Closed, Exists
    <3>3. pc'[d] = "mark"
      BY <2>2 DEF TypeOK, Goto
    <3>4. StepFits(d)'
      BY <2>0, <2>2, <3>2, <3>3 DEF StepFits, AtWork, Active, Closed
    <3> QED BY <2>0, <2>2, <3>1, <3>2, <3>4, MoveKeeps DEF AtWork, Closed
  <2>3. CASE /\ job.status # "done" /\ Exists /\ job.code = "transient"
             /\ RetryOrFail(d)
    <3>1. ~Closed
      BY <2>0, <2>3 DEF AtWork, StepFits, Closed
    <3> QED BY <2>0, <2>3, <3>1, FailureKeeps
  <2>4. CASE Exists /\ Fail("rejected", job.code) /\ Finish(d)
    <3>1. PromiseStep /\ RecordFits'
      BY <2>0, <2>4, FailureWrite DEF AtWork, WorkerStates
    <3> QED BY <2>4, <3>1, FinishKeeps
  <2> QED BY <1>12, <2>1, <2>2, <2>3, <2>4 DEF ReadFinished, Calm
<1>13. CASE MarkPublishing(d)
  <2>0. /\ ~Closed /\ pc[d] = "mark"
        /\ charges' = charges /\ crashes' = crashes
    BY <1>13 DEF MarkPublishing, AtWork, StepFits, Active, Owning, Timed
  <2>1. CASE RetryOrFail(d)
    BY <2>0, <2>1, FailureKeeps
  <2>2. CASE /\ Exists /\ Update("working", "publishing")
             /\ Goto(d, "publish") /\ UNCHANGED <<sources, broker, lock>>
    <3>1. /\ PromiseStep /\ RecordFits' /\ ~Closed' /\ Exists'
      BY <2>0, <2>2 DEF TypeOK, JobRecords, Update, PromiseStep, RecordFits, Exists, Closed
    <3>2. pc'[d] = "publish"
      BY <2>2 DEF TypeOK, Goto
    <3>3. StepFits(d)'
      BY <2>0, <2>2, <3>1, <3>2 DEF StepFits, AtWork
    <3> QED BY <2>0, <2>2, <3>1, <3>3, MoveKeeps DEF AtWork
  <2> QED BY <1>13, <2>1, <2>2 DEF MarkPublishing
<1>14. CASE Publish(d)
  <2>0. /\ ~Closed /\ pc[d] = "publish"
        /\ charges' = charges /\ crashes' = crashes
    BY <1>14 DEF Publish, AtWork, StepFits, Active, Owning, Timed
  <2>1. CASE RetryOrFail(d)
    BY <2>0, <2>1, FailureKeeps
  <2>2. CASE Goto(d, "unsource") /\ UNCHANGED <<job, sources, broker, lock>>
    <3>1. PromiseStep /\ RecordFits'
      BY <2>0, <2>2, RecordKept DEF AtWork
    <3>2. pc'[d] = "unsource"
      BY <2>2 DEF TypeOK, Goto
    <3>3. StepFits(d)'
      BY <2>0, <2>2, <3>2 DEF StepFits, AtWork, Closed
    <3> QED BY <2>0, <2>2, <3>1, <3>3, MoveKeeps DEF AtWork, Exists, Closed
  <2> QED BY <1>14, <2>1, <2>2 DEF Publish
<1>15. CASE DeleteSources(d)
  <2>0. /\ ~Closed /\ pc[d] = "unsource" /\ job' = job
        /\ charges' = charges /\ msg' = msg /\ Goto(d, "complete")
    BY <1>15 DEF DeleteSources, Calm, AtWork, StepFits, Active, Owning, Timed
  <2>1. PromiseStep /\ RecordFits'
    BY <2>0, RecordKept DEF AtWork
  <2>2. pc'[d] = "complete"
    BY <2>0 DEF TypeOK, Goto
  <2>3. StepFits(d)'
    BY <2>0, <2>2 DEF StepFits, AtWork, Closed
  <2>4. SourcesAt(d)'
    BY <2>2 DEF SourcesAt
  <2> QED BY <2>1, <2>3, <2>4 DEF Keeps, AtWork
<1>16. CASE Complete(d)
  <2>0. /\ ~Closed /\ pc[d] = "complete"
        /\ charges' = charges /\ crashes' = crashes
    BY <1>16 DEF Complete, AtWork, StepFits, Active, Owning, Timed
  <2>1. CASE ~Exists /\ RetryOrFail(d)
    BY <2>0, <2>1, FailureKeeps
  <2>2. CASE /\ Exists /\ Finish(d)
             /\ job' = [job EXCEPT !.status = "done", !.worker = "done",
                                   !.remote = TRUE, !.seen = FALSE]
    <3>1. PromiseStep /\ RecordFits'
      BY <2>0, <2>2 DEF TypeOK, JobRecords, PromiseStep, RecordFits, Exists, Closed
    <3> QED BY <2>2, <3>1, FinishKeeps
  <2> QED BY <1>16, <2>1, <2>2 DEF Complete
<1> QED
  BY <1>1, <1>2, <1>3, <1>4, <1>5, <1>6, <1>7, <1>8, <1>9, <1>10, <1>11, <1>12, <1>13,
     <1>14, <1>15, <1>16 DEF Child

\* So do the steps of the pool's main process, and a lost worker.
LEMMA WorkKeeps ==
  ASSUME Calm, TypeOK, NEW d \in Deliveries, AtWork(d),
         Work(d) \/ SoftLimit(d) \/ HardLimit(d) \/ WorkerCrash(d)
  PROVE  Keeps(d)
<1> USE DEF storage, broker, faults
<1>1. CASE Child(d) /\ limit[d] = "none"
  BY <1>1, ChildKeeps
<1>2. CASE Deliver(d) \/ SoftLimit(d)
  BY <1>2, ChildKeeps DEF Deliver, SoftLimit
<1>3. CASE OnTimeout(d)
  <2>1. PromiseStep /\ RecordFits'
    BY <1>3, UnfinishedWrite DEF OnTimeout, Calm, AtWork
  <2>2. msg'[d] = "acked"
    BY <1>3 DEF OnTimeout, AtWork, StepFits
  <2>3. limit'[d] = "failed"
    BY <1>3 DEF OnTimeout, TypeOK
  <2> QED BY <2>1, <2>2, <2>3 DEF Keeps, AtWork, StepFits, SourcesAt
<1>4. CASE HardLimit(d)
  <2>1. PromiseStep /\ RecordFits'
    BY <1>4, RecordKept DEF HardLimit, AtWork
  <2>2. msg'[d] = "acked" /\ limit'[d] = "struck"
    BY <1>4 DEF HardLimit, TypeOK
  <2> QED BY <2>1, <2>2 DEF Keeps, AtWork, StepFits, SourcesAt
<1>5. CASE Kill(d) \/ WorkerCrash(d)
  <2>1. PromiseStep /\ RecordFits'
    BY <1>5, RecordKept DEF Kill, WorkerCrash, AtWork
  <2>2. /\ pc'[d] = "idle" /\ limit'[d] = "none"
        /\ crashes' # 0 \/ msg'[d] = "acked"
    BY <1>5 DEF Kill, WorkerCrash, TypeOK, Goto, AtWork, StepFits
  <2>3. StepFits(d)'
    BY <2>2 DEF StepFits, Active, Owning, Timed
  <2>4. SourcesAt(d)'
    BY <2>2 DEF SourcesAt
  <2> QED BY <2>1, <2>3, <2>4 DEF Keeps, AtWork
<1> QED
  BY <1>1, <1>2, <1>3, <1>4, <1>5 DEF Work, Calm

\* The one message that is on its way: nobody else works on the job, and
\* dispatch is past the enqueue.
LEMMA LoneWork ==
  ASSUME TypeOK, RetryBudget, PromiseInv, NEW d \in Deliveries, msg[d] # "unsent"
  PROVE  /\ AtWork(d)
         /\ \A e \in Deliveries \ {d} : msg[e] = "unsent" /\ pc[e] = "idle" /\ limit[e] = "none"
         /\ api \notin {"accepted", "uploaded", "marked"}
<1>1. \A e \in Deliveries \ {d} : msg[e] = "unsent" /\ pc[e] = "idle" /\ limit[e] = "none"
  BY DEF PromiseInv, LoneMessage, RetryBudget
<1>2. api \notin {"accepted", "uploaded", "marked"}
  BY DEF PromiseInv, DispatchFits
<1>3. SourcesAt(d)
  BY <1>1 DEF PromiseInv, SourcesKept, SourcesAt
<1> QED BY <1>1, <1>2, <1>3 DEF PromiseInv, AtWork

\* A step of a delivery keeps the invariant.
LEMMA DeliveryPromise ==
  ASSUME Calm, TypeOK, RetryBudget, PromiseInv, NEW d \in Deliveries,
         Work(d) \/ SoftLimit(d) \/ HardLimit(d) \/ WorkerCrash(d)
  PROVE  PromiseStep /\ PromiseInv'
<1>1. msg[d] # "unsent"
  <2>1. CASE Deliver(d)
    BY <2>1 DEF Deliver
  <2>2. CASE ~Deliver(d)
    <3>1. pc[d] # "idle" \/ limit[d] # "none"
      BY <2>2 DEF Work, Child, AcquireLock, LockedElsewhere, ExhaustedDuplicate, ExhaustedUnheld,
           FailExhausted, DropFinished, ReadJob, Begin, Download, Quota, StartPipeline,
           RunPipeline, Meter, ReadFinished, MarkPublishing, Publish, DeleteSources, Complete,
           Requeue, OnTimeout, Kill, SoftLimit, HardLimit, WorkerCrash
    <3> QED BY <3>1, BusyIsSent
  <2> QED BY <2>1, <2>2
<1>2. /\ AtWork(d)
      /\ \A e \in Deliveries \ {d} : msg[e] = "unsent" /\ pc[e] = "idle" /\ limit[e] = "none"
      /\ api \notin {"accepted", "uploaded", "marked"}
  BY <1>1, LoneWork
<1>3. PromiseStep /\ AtWork(d)'
  BY <1>2, WorkKeeps DEF Keeps
<1>4. \A e \in Deliveries \ {d} : msg'[e] = "unsent" /\ pc'[e] = "idle" /\ limit'[e] = "none"
  BY <1>2, DeliveryShape DEF DeliveryStep
<1>5. api' = api /\ eraser' = eraser /\ purge' = purge /\ recover' = recover
  BY DEF Work, Child, Deliver, AcquireLock, LockedElsewhere, ExhaustedDuplicate, ExhaustedUnheld,
       FailExhausted, DropFinished, ReadJob, Begin, Download, Quota, StartPipeline,
       RunPipeline, Meter, ReadFinished, MarkPublishing, Publish, DeleteSources, Complete,
       Requeue, OnTimeout, Kill, SoftLimit, HardLimit, WorkerCrash, others
<1>6. LoneMessage'
  BY <1>4 DEF LoneMessage
<1>7. DispatchFits'
  BY <1>2, <1>3, <1>5 DEF PromiseInv, DispatchFits, PromiseStep
<1>8. ErasureFits'
  BY <1>3, <1>5 DEF PromiseInv, ErasureFits, PromiseStep, Closed
<1>9. SourcesKept'
  BY <1>3, <1>4 DEF AtWork, SourcesAt, SourcesKept
<1>10. \A e \in Deliveries : StepFits(e)'
  <2> TAKE e \in Deliveries
  <2>1. CASE e = d
    BY <1>3, <2>1 DEF AtWork
  <2>2. CASE e # d
    <3>1. pc'[e] = "idle" /\ limit'[e] = "none"
      BY <1>4, <2>2
    <3> QED BY <3>1 DEF StepFits, Active, Owning, Timed
  <2> QED BY <2>1, <2>2
<1> QED BY <1>3, <1>5, <1>6, <1>7, <1>8, <1>9, <1>10 DEF PromiseInv, AtWork

\* Nobody but the sweep and the deletion meets a job that is being worked on,
\* and the lock keeps those two away.
LEMMA NobodyInside ==
  ASSUME Calm, TypeOK, LockInv, sweep = "locked" \/ eraser # "idle"
  PROVE  \A d \in Deliveries : pc[d] \notin Owning
<1>1. lapses = 0
  BY JobAssumption DEF Calm, TypeOK
<1> QED BY <1>1, JobAssumption DEF LockInv

\* Actors that leave the record, the messages and the usage rows alone.
LEMMA QuietKeeps ==
  ASSUME TypeOK, PromiseInv, UNCHANGED <<job, charges, msg, limit, pc>>, recover' = recover,
         crashes' = 0 => crashes = 0,
         sources' = sources \/ Closed \/ ~Exists,
         DispatchFits', ErasureFits'
  PROVE  PromiseStep /\ PromiseInv'
<1>1. PromiseStep /\ RecordFits'
  BY DEF PromiseInv, PromiseStep, RecordFits, Exists
<1>2. LoneMessage' /\ \A d \in Deliveries : StepFits(d)'
  BY DEF PromiseInv, LoneMessage, StepFits, Closed, Exists
<1>3. SourcesKept'
  BY DEF PromiseInv, SourcesKept, Closed, Exists
<1> QED BY <1>1, <1>2, <1>3 DEF PromiseInv

\* A record that is erased takes every claim with it.
LEMMA GoneKeeps ==
  ASSUME TypeOK, PromiseInv, job' = GoneJob, UNCHANGED <<charges, msg, limit, pc, api>>,
         recover' = recover
  PROVE  PromiseStep /\ PromiseInv'
<1>1. /\ ~Exists' /\ ~Closed' /\ job'.status = "gone" /\ job'.worker = "none"
      /\ ~job'.notice /\ ~job'.seen
  BY DEF GoneJob, NewJob, Exists, Closed
<1>2. PromiseStep /\ RecordFits'
  BY <1>1 DEF PromiseStep, RecordFits
<1>3. DispatchFits' /\ ErasureFits' /\ SourcesKept' /\ LoneMessage'
  BY <1>1 DEF PromiseInv, DispatchFits, ErasureFits, SourcesKept, LoneMessage
<1>4. \A d \in Deliveries : StepFits(d)'
  BY <1>1 DEF PromiseInv, StepFits
<1> QED BY <1>2, <1>3, <1>4 DEF PromiseInv

\* Nor does a write to the record's bookkeeping (task id, deadline, sweep).
LEMMA BookKeeps ==
  ASSUME TypeOK, PromiseInv, UNCHANGED <<charges, msg, limit, pc, crashes, sources, recover>>,
         job'.status = job.status, job'.worker = job.worker, job'.notice = job.notice,
         job'.remote = job.remote, job'.code = job.code,
         DispatchFits', ErasureFits'
  PROVE  PromiseStep /\ PromiseInv'
<1>1. PromiseStep /\ RecordFits'
  BY DEF PromiseInv, PromiseStep, RecordFits, Exists
<1>2. LoneMessage' /\ \A d \in Deliveries : StepFits(d)'
  BY DEF PromiseInv, LoneMessage, StepFits, Closed, Exists
<1>3. SourcesKept'
  BY DEF PromiseInv, SourcesKept, Closed, Exists
<1> QED BY <1>1, <1>2, <1>3 DEF PromiseInv

\* Dispatch keeps the invariant.
LEMMA DispatchPromise ==
  ASSUME Calm, TypeOK, RetryBudget, PromiseInv, Dispatch
  PROVE  PromiseStep /\ PromiseInv'
<1> USE DEF storage, broker, faults
<1>1. CASE DispatchMissing
  BY <1>1, QuietKeeps DEF DispatchMissing, PromiseInv, DispatchFits, ErasureFits, Closed, Exists
<1>2. CASE DispatchFails
  <2>1. ~Exists /\ api' = "failing" /\ UNCHANGED <<job, eraser, purge>>
    BY <1>2 DEF DispatchFails, Calm
  <2>2. DispatchFits' /\ ErasureFits'
    BY <2>1 DEF PromiseInv, DispatchFits, ErasureFits, Closed, Exists
  <2> QED BY <1>2, <2>1, <2>2, QuietKeeps DEF DispatchFails
<1>3. CASE DurabilityUnavailable
  <2>1. ~Exists /\ api' = "end" /\ UNCHANGED <<job, eraser, purge>>
    BY <1>3 DEF DurabilityUnavailable, PromiseInv, DispatchFits
  <2>2. DispatchFits' /\ ErasureFits'
    BY <2>1 DEF PromiseInv, DispatchFits, ErasureFits, Closed, Exists
  <2> QED BY <1>3, <2>1, <2>2, QuietKeeps DEF DurabilityUnavailable
<1>4. CASE UploadSources
  <2>1. /\ UNCHANGED <<job, charges, msg, limit, pc, eraser, purge, recover, crashes>>
        /\ sources' /\ api' = "uploaded" /\ api = "accepted"
    BY <1>4 DEF UploadSources
  <2>2. DispatchFits' /\ ErasureFits'
    BY <2>1 DEF PromiseInv, DispatchFits, ErasureFits, Closed, Exists
  <2>3. PromiseStep /\ RecordFits'
    BY <2>1 DEF PromiseInv, PromiseStep, RecordFits, Exists
  <2>4. LoneMessage' /\ \A d \in Deliveries : StepFits(d)'
    BY <2>1 DEF PromiseInv, LoneMessage, StepFits, Closed, Exists
  <2>5. SourcesKept'
    BY <2>1 DEF SourcesKept
  <2> QED BY <2>1, <2>2, <2>3, <2>4, <2>5 DEF PromiseInv
<1>5. CASE Enqueue
  <2>1. PICK d \in Deliveries : msg[d] = "unsent" /\ msg' = [msg EXCEPT ![d] = "ready"]
    BY <1>5 DEF Enqueue
  <2>2. /\ UNCHANGED <<job, charges, limit, pc, eraser, purge, recover, crashes, sources>>
        /\ api' = "enqueued" /\ api = "marked"
    BY <1>5 DEF Enqueue
  <2>3. \A e \in Deliveries : msg[e] = "unsent" /\ pc[e] = "idle" /\ limit[e] = "none"
    BY <2>2 DEF PromiseInv, DispatchFits, RetryBudget
  <2>4. DispatchFits' /\ ErasureFits'
    BY <2>2 DEF PromiseInv, DispatchFits, ErasureFits, Closed, Exists
  <2>5. PromiseStep /\ RecordFits'
    BY <2>2 DEF PromiseInv, PromiseStep, RecordFits, Exists
  <2>6. LoneMessage'
    BY <2>1, <2>3 DEF TypeOK, LoneMessage
  <2>7. \A e \in Deliveries : StepFits(e)'
    BY <2>2, <2>3 DEF StepFits, Active, Owning, Timed
  <2>8. SourcesKept'
    BY <2>2 DEF PromiseInv, DispatchFits, SourcesKept, Exists
  <2> QED BY <2>2, <2>4, <2>5, <2>6, <2>7, <2>8 DEF PromiseInv
<1>6. CASE DispatchRejected \/ MarkQueued
  <2>1. /\ UNCHANGED <<charges, msg, limit, pc, eraser, purge, recover, crashes, sources>>
        /\ api \in {"accepted", "uploaded"} /\ Exists
    BY <1>6 DEF DispatchRejected, MarkQueued
  <2>2. /\ \A e \in Deliveries : msg[e] = "unsent" /\ pc[e] = "idle" /\ limit[e] = "none"
        /\ ~Closed
    BY <2>1 DEF PromiseInv, DispatchFits, RetryBudget
  <2>3. LoneMessage' /\ SourcesKept' /\ \A e \in Deliveries : StepFits(e)'
    BY <2>1, <2>2 DEF LoneMessage, SourcesKept, StepFits, Active, Owning, Timed
  <2>4. PromiseStep /\ RecordFits' /\ DispatchFits' /\ Exists'
    <3>1. CASE DispatchRejected
      <4>1. PromiseStep /\ RecordFits'
        BY <2>1, <2>2, <3>1, FailureWrite DEF DispatchRejected, PromiseInv, Closed, WorkerStates
      <4>2. api' = "end" /\ Exists'
        BY <3>1 DEF DispatchRejected, Fail, TypeOK, JobRecords, Exists
      <4> QED BY <4>1, <4>2 DEF DispatchFits
    <3>2. CASE MarkQueued
      <4>1. /\ api = "uploaded" /\ api' = "marked"
            /\ job' = [job EXCEPT !.status = "queued", !.worker = "queued", !.keys = TRUE,
                                  !.seen = FALSE]
        BY <3>2 DEF MarkQueued
      <4>2. /\ job'.status = "queued" /\ job'.worker = "queued" /\ job'.notice = job.notice
            /\ ~job'.seen
        BY <4>1 DEF TypeOK, JobRecords
      <4>3. PromiseStep /\ RecordFits' /\ ~Closed' /\ Exists'
        BY <2>1, <2>2, <4>2 DEF PromiseStep, RecordFits, Exists, Closed
      <4>4. DispatchFits'
        BY <2>1, <2>2, <4>1, <4>2, <4>3 DEF PromiseInv, DispatchFits
      <4> QED BY <4>3, <4>4
    <3> QED BY <1>6, <3>1, <3>2
  <2>5. ErasureFits'
    BY <2>1, <2>2 DEF PromiseInv, ErasureFits
  <2> QED BY <2>1, <2>3, <2>4, <2>5 DEF PromiseInv
<1>7. CASE RecordTaskId
  <2>1. /\ UNCHANGED <<charges, msg, limit, pc, eraser, purge, recover, crashes, sources>>
        /\ api' = "end"
    BY <1>7 DEF RecordTaskId
  <2>2. /\ job'.status = job.status /\ job'.worker = job.worker /\ job'.notice = job.notice
        /\ job'.remote = job.remote /\ job'.code = job.code
    BY <1>7 DEF RecordTaskId, TypeOK, JobRecords
  <2>3. DispatchFits' /\ ErasureFits'
    BY <2>1, <2>2 DEF PromiseInv, DispatchFits, ErasureFits, Closed, Exists
  <2> QED BY <2>1, <2>2, <2>3, BookKeeps
<1> QED BY <1>1, <1>2, <1>3, <1>4, <1>5, <1>6, <1>7 DEF Dispatch

\* The sweep, the deletions, the passing time and a lost API process keep the
\* invariant; the operator's recovery is not used.
LEMMA OtherPromise ==
  ASSUME Calm, TypeOK, RetryBudget, LockInv, PromiseInv, OtherStep, ~Dispatch
  PROVE  PromiseStep /\ PromiseInv'
<1> USE DEF storage, broker, faults, others
<1>1. CASE LockExpires \/ SweepLock \/ UNCHANGED vars
  <2>1. UNCHANGED <<job, charges, msg, limit, pc, crashes, sources, api, eraser, purge, recover>>
    BY <1>1 DEF LockExpires, SweepLock, vars
  <2>2. DispatchFits' /\ ErasureFits'
    BY <2>1 DEF PromiseInv, DispatchFits, ErasureFits, Closed, Exists
  <2> QED BY <2>1, <2>2, QuietKeeps
<1>2. CASE ApiCrash
  <2>1. /\ UNCHANGED <<job, charges, msg, limit, pc, sources>>
        /\ api' = "end" /\ eraser' = "idle" /\ purge' # "pending" /\ crashes' # 0
        /\ recover' = recover
    BY <1>2 DEF ApiCrash, TypeOK, PromiseInv
  <2>2. DispatchFits' /\ ErasureFits'
    BY <2>1 DEF DispatchFits, ErasureFits
  <2> QED BY <2>1, <2>2, QuietKeeps
<1>3. CASE DeadlinePasses \/ SweepPick
  <2>1. UNCHANGED <<charges, msg, limit, pc, crashes, sources, api, eraser, purge, recover>>
    BY <1>3 DEF DeadlinePasses, SweepPick
  <2>2. /\ job'.status = job.status /\ job'.worker = job.worker /\ job'.notice = job.notice
        /\ job'.remote = job.remote /\ job'.code = job.code
    BY <1>3 DEF DeadlinePasses, SweepPick, TypeOK, JobRecords
  <2>3. job'.seen => job.seen \/ job.status = "working"
    BY <1>3 DEF DeadlinePasses, SweepPick, TypeOK, JobRecords
  <2>4. DispatchFits' /\ ErasureFits'
    BY <2>1, <2>2, <2>3 DEF PromiseInv, DispatchFits, ErasureFits, Closed, Exists
  <2> QED BY <2>1, <2>2, <2>4, BookKeeps
<1>4. CASE SweepFail
  <2>1. /\ UNCHANGED <<charges, msg, limit, pc, crashes, api, eraser, purge, recover>>
        /\ sweep = "locked"
    BY <1>4 DEF SweepFail
  <2>2. CASE UNCHANGED <<job, sources>>
    <3>1. DispatchFits' /\ ErasureFits'
      BY <2>1, <2>2 DEF PromiseInv, DispatchFits, ErasureFits, Closed, Exists
    <3> QED BY <2>1, <2>2, <3>1, QuietKeeps
  <2>3. CASE Unfinished /\ Fail("failed", "transient") /\ job.seen
    <3>1. Exists /\ job.worker # "done" /\ ~job.notice
      BY <2>3 DEF Unfinished, Exists, PromiseInv, RecordFits
    <3>2. PromiseStep /\ RecordFits' /\ Closed'
      BY <2>1, <2>3, <3>1, FailureWrite DEF PromiseInv, WorkerStates
    <3>3. \A d \in Deliveries : pc[d] \notin Owning
      BY <2>1, NobodyInside
    <3>4. LoneMessage' /\ \A d \in Deliveries : StepFits(d)'
      BY <2>1, <3>3 DEF PromiseInv, LoneMessage, StepFits, Active, Owning, Timed
    <3>5. SourcesKept' /\ ErasureFits'
      BY <2>1, <3>1, <3>2 DEF PromiseInv, SourcesKept, ErasureFits
    <3>6. api \notin {"accepted", "uploaded", "marked", "failing"}
      BY <2>3, <3>1 DEF PromiseInv, DispatchFits
    <3>7. DispatchFits'
      BY <2>1, <3>6 DEF DispatchFits
    <3> QED BY <2>1, <3>2, <3>4, <3>5, <3>7 DEF PromiseInv
  <2> QED BY <1>4, <2>2, <2>3 DEF SweepFail, FailUnfinished
<1>5. CASE DeleteLock
  <2>1. /\ UNCHANGED <<job, charges, msg, limit, pc, crashes, sources, api, purge, recover>>
        /\ Deletable
    BY <1>5 DEF DeleteLock
  <2>2. Closed
    BY <2>1 DEF Deletable, PromiseInv, RecordFits, Closed
  <2>3. DispatchFits' /\ ErasureFits'
    BY <2>1, <2>2 DEF PromiseInv, DispatchFits, ErasureFits, Closed, Exists
  <2> QED BY <2>1, <2>3, QuietKeeps
<1>6. CASE DeleteObjects
  <2>1. /\ UNCHANGED <<job, charges, msg, limit, pc, crashes, api, purge, recover>>
        /\ eraser # "idle" /\ ~sources'
    BY <1>6 DEF DeleteObjects, Calm
  <2>2. Closed \/ ~Exists
    BY <2>1 DEF PromiseInv, ErasureFits
  <2>3. DispatchFits' /\ ErasureFits'
    BY <2>1, <2>2 DEF PromiseInv, DispatchFits, ErasureFits, Closed, Exists
  <2> QED BY <2>1, <2>2, <2>3, QuietKeeps
<1>7. CASE PurgeObjects
  <2>1. /\ UNCHANGED <<job, charges, msg, limit, pc, crashes, api, eraser, recover>>
        /\ purge = "pending" /\ purge' = "end"
    BY <1>7 DEF PurgeObjects, Calm
  <2>2. ~Exists
    BY <2>1 DEF PromiseInv, ErasureFits
  <2>3. DispatchFits' /\ ErasureFits'
    BY <2>1, <2>2 DEF PromiseInv, DispatchFits, ErasureFits, Closed, Exists
  <2> QED BY <2>1, <2>2, <2>3, QuietKeeps
<1>8. CASE DeleteRecord \/ PurgeRecord
  BY <1>8, GoneKeeps DEF DeleteRecord, PurgeRecord
<1>9. ~RecoverEnqueue /\ ~RecoverMark
  BY DEF RecoverEnqueue, RecoverMark, Calm, PromiseInv
<1> QED BY <1>1, <1>2, <1>3, <1>4, <1>5, <1>6, <1>7, <1>8, <1>9 DEF OtherStep, Sweep, Erase

\* Every step of Next keeps the promise.
LEMMA PromiseKept ==
  ASSUME Calm
  PROVE  TypeOK /\ RetryBudget /\ LockInv /\ PromiseInv /\ [Next]_vars => PromiseStep /\ PromiseInv'
<1> SUFFICES ASSUME TypeOK, RetryBudget, LockInv, PromiseInv, [Next]_vars
             PROVE  PromiseStep /\ PromiseInv'
  OBVIOUS
<1>1. CASE \E d \in Deliveries : Work(d) \/ SoftLimit(d) \/ HardLimit(d) \/ WorkerCrash(d)
  BY <1>1, DeliveryPromise
<1>2. CASE OtherStep
  BY <1>2, DispatchPromise, OtherPromise
<1>3. \A d, e \in Deliveries : ~LockLapses(d) /\ ~Redeliver(d, e)
  BY JobAssumption DEF Calm, TypeOK, LockLapses, Redeliver
<1> QED BY <1>1, <1>2, <1>3, NextCases

LEMMA PromiseInit == Init => PromiseInv
<1> SUFFICES ASSUME Init PROVE PromiseInv
  OBVIOUS
<1>1. /\ job.status = "queued" /\ job.worker = "none" /\ ~job.notice /\ ~job.seen
  BY DEF Init, NewJob
<1>2. ~Closed
  BY <1>1 DEF Closed
<1>3. LoneMessage /\ DispatchFits /\ ErasureFits /\ SourcesKept
  BY <1>1, <1>2 DEF Init, LoneMessage, DispatchFits, ErasureFits, SourcesKept
<1>4. RecordFits /\ \A d \in Deliveries : StepFits(d)
  BY <1>1 DEF Init, RecordFits, StepFits, Active, Owning, Timed
<1> QED BY <1>3, <1>4 DEF Init, PromiseInv

\* The lock invariant on its own, for the theorems below.
LEMMA LockHeld == Spec => [](TypeOK /\ RetryBudget /\ LockInv)
<1>1. Init => LockInv
  BY DEF Init, LockInv, Owning, Timed
<1> QED BY <1>1, LockStep, TypeCorrect, PTL DEF Spec

LEMMA Promised ==
  ASSUME Calm
  PROVE  Spec => []PromiseInv
<1> QED BY PromiseInit, PromiseKept, LockHeld, PTL DEF Spec

\* While no process was lost, the sources that a message still needs are in
\* storage, however often it is retried and whatever its owner erases: no step of
\* process_uploaded_job releases them before its last one, given one message per
\* job and stores that answer.
THEOREM SourcesAreKept ==
  ASSUME Calm
  PROVE  Spec => []SourcesOutliveWork
<1>1. PromiseInv => SourcesOutliveWork
  BY DEF PromiseInv, RecordFits, SourcesKept, SourcesOutliveWork, Unfinished, Exists, Closed
<1> QED BY <1>1, Promised, PTL

\* What the owner sees follows from the notice and the worker's last mark.
LEMMA PhaseOf ==
  ASSUME RecordFits
  PROVE  /\ ~Exists => Phase = "gone"
         /\ Exists /\ job.worker = "done" => Phase = "ready"
         /\ Exists /\ job.notice => Phase = "failed"
         /\ Exists /\ ~Closed => Phase = "pending"
         /\ job.notice => job.worker # "done"
BY DEF RecordFits, Phase, Exists, Closed, PubliclyComplete

\* A step that keeps the promise is a step of the contract.
LEMMA ContractStep ==
  ASSUME TypeOK, TypeOK', RecordFits, RecordFits', PromiseStep
  PROVE  [Contract!Next]_(Contract!vars)
<1>0. charges \in Nat /\ charges' \in Nat
  BY DEF TypeOK
<1>1. /\ ~Exists => Phase = "gone"
      /\ Exists /\ job.worker = "done" => Phase = "ready"
      /\ Exists /\ job.notice => Phase = "failed"
      /\ Exists /\ ~Closed => Phase = "pending"
      /\ job.notice => job.worker # "done"
  BY PhaseOf
<1>2. /\ ~Exists' => Phase' = "gone"
      /\ Exists' /\ job'.worker = "done" => Phase' = "ready"
      /\ Exists' /\ job'.notice => Phase' = "failed"
      /\ Exists' /\ ~Closed' => Phase' = "pending"
      /\ job'.notice => job'.worker # "done"
  BY DEF RecordFits, Phase, Exists, Closed, PubliclyComplete
<1>3. CASE charges' # charges
  <2>1. /\ charges = 0 /\ charges' = 1 /\ ~Closed /\ job' = job
    BY <1>3 DEF PromiseStep
  <2>2. Phase' = Phase /\ Phase \in {"pending", "gone"}
    BY <1>1, <2>1 DEF Phase, PubliclyComplete
  <2> QED BY <2>1, <2>2 DEF Contract!Next, Contract!Bill
<1>4. CASE charges' = charges
  <2>1. CASE ~Exists'
    BY <1>1, <1>2, <1>4, <2>1 DEF Contract!Next, Contract!Erase, Contract!vars, Closed
  <2>2. CASE Exists' /\ job'.worker = "done"
    BY <1>0, <1>1, <1>2, <1>4, <2>2
    DEF Contract!Next, Contract!Succeed, Contract!vars, PromiseStep, Closed
  <2>3. CASE Exists' /\ job'.notice
    BY <1>1, <1>2, <1>4, <2>3 DEF Contract!Next, Contract!Fail, Contract!vars, PromiseStep, Closed
  <2>4. CASE Exists' /\ ~Closed'
    BY <1>1, <1>2, <1>4, <2>4 DEF Contract!vars, PromiseStep, Closed
  <2> QED BY <2>1, <2>2, <2>3, <2>4 DEF Closed
<1> QED BY <1>3, <1>4

\* The detailed protocol implements JobContract, step by step: for any number of
\* retries, lost workers and API processes, time limits, sweeps and erasures, given
\* one message per job, stores that answer and leases that are renewed.
THEOREM ContractIsKept ==
  ASSUME Calm
  PROVE  Spec => KeepsContract
<1>1. Init => Contract!Init
  BY PhaseOf, PromiseInit DEF Init, NewJob, PromiseInv, Contract!Init, Phase, PubliclyComplete
<1>2. TypeOK /\ TypeOK' /\ PromiseInv /\ PromiseInv' /\ PromiseStep => [Contract!Next]_(Contract!vars)
  BY ContractStep DEF PromiseInv
<1> QED BY <1>1, <1>2, Promised, PromiseKept, LockHeld, PTL DEF Spec, KeepsContract, Contract!Spec
=============================================================================
