---------------------------- MODULE JobLifecycle ----------------------------
(***************************************************************************)
(* The life of one study-pack job, from JobStore.create to a published     *)
(* result, a failure or a deletion.                                        *)
(*                                                                         *)
(* Actors: the API thread that dispatches the upload (durable_runtime.py), *)
(* the Celery deliveries of the job's message (tasks.py, queue.py) with    *)
(* the pipeline they run (pipeline.py), the stuck-job sweep, an operator's *)
(* recovery, a user's deletion and the account/retention purge (jobs.py).  *)
(* Shared state: the job record in Redis (each JobStore write is atomic,   *)
(* under the distributed write lock), the per-job processing lock, the     *)
(* object store and the usage row of the billing database.                 *)
(*                                                                         *)
(* A delivery's program counter names the step it is about to take, so     *)
(* every JobStore write, storage call and metering call is a step of its   *)
(* own and any other actor may run between two of them.                    *)
(***************************************************************************)
EXTENDS Naturals, FiniteSets

CONSTANTS
  Deliveries,   \* broker messages that can exist for the job
  MaxRetries,   \* max_retries of process_uploaded_job (6 in the code)
  MaxCrashes,   \* bound: processes lost (worker child, worker host or API)
  MaxLapses,    \* bound: live lock holders whose renewal thread has died
  Redelivers,   \* the broker's visibility timeout may elapse on a running message
  LateKill,     \* a child past its hard limit may act until it is killed
  StoreFaults,  \* Redis, the broker or the object store may fail a call
  Recovery,     \* an operator may call recover_durable_jobs once
  Erasure       \* the owner may delete the lesson, or the account may be purged

ASSUME JobAssumption ==
  /\ IsFiniteSet(Deliveries) /\ Deliveries # {}
  /\ Deliveries \cap {"free", "dead", "sweeper", "deleter"} = {}
  /\ MaxRetries \in Nat /\ MaxCrashes \in Nat /\ MaxLapses \in Nat
  /\ Redelivers \in BOOLEAN /\ LateKill \in BOOLEAN /\ StoreFaults \in BOOLEAN
  /\ Recovery \in BOOLEAN /\ Erasure \in BOOLEAN

VARIABLES
  job,        \* the record JobStore keeps for the job
  sources,    \* the uploaded source objects are in the object store
  published,  \* the result objects are in the object store
  result,     \* the worker's disk holds the finished, unpublished result
  charges,    \* usage rows recorded for the job
  msg,        \* msg[d]: broker state of message d
  retries,    \* retries[d]: request.retries carried by message d
  limit,      \* limit[d]: the pool's handling of d's hard time limit
  pc,         \* pc[d]: next step of the worker process running d
  lock,       \* holder of the processing lock
  api,        \* next step of the dispatching API thread
  sweep,      \* next step of the stuck-job sweep
  eraser,     \* next step of delete_owned
  purge,      \* next step of delete_for_user / cleanup_expired
  recover,    \* next step of recover_durable_jobs
  wiped,      \* some deletion of stored objects has started
  crashes,    \* processes lost so far
  lapses      \* live lock holders that lost their lock so far

storage == <<sources, published, result, wiped>>
broker  == <<msg, retries, limit>>
others  == <<api, sweep, eraser, purge, recover>>
faults  == <<crashes, lapses>>
vars == <<job, storage, charges, broker, pc, lock, others, faults>>

WorkerStates == {"none", "queued", "downloading", "preflighting", "processing",
                 "publishing", "retrying", "failed", "rejected", "unavailable",
                 "requeued", "done"}
JobRecords ==
  [status : {"queued", "working", "done", "error", "gone"},
   worker : WorkerStates,                  \* worker_state
   code : {"none", "transient", "final"},  \* class of error_code
   notice : BOOLEAN,                       \* _failure_notification was queued
   remote : BOOLEAN,                       \* remote_prefix was recorded
   keys : BOOLEAN,                         \* source_keys were recorded
   deadline : {"none", "set", "past"},     \* processing_deadline (+ window)
   seen : BOOLEAN]                         \* unchanged since the sweep read it

\* Steps of process_uploaded_job taken while it believes it holds the lock.
Timed == {"begin", "download", "quota", "start", "pipeline", "finished",
          "mark", "publish", "unsource", "complete"}
Owning == Timed \cup {"read", "meter", "requeue"}
Steps == Owning \cup {"idle", "lock", "exhausted", "failing"}

TypeOK ==
  /\ job \in JobRecords
  /\ sources \in BOOLEAN /\ published \in BOOLEAN
  /\ result \in BOOLEAN /\ wiped \in BOOLEAN
  /\ charges \in {0, 1}
  /\ msg \in [Deliveries -> {"unsent", "ready", "held", "acked"}]
  /\ retries \in [Deliveries -> 0..MaxRetries]
  /\ limit \in [Deliveries -> {"none", "struck", "failed"}]
  /\ pc \in [Deliveries -> Steps]
  /\ lock \in Deliveries \cup {"free", "dead", "sweeper", "deleter"}
  /\ api \in {"accepted", "uploaded", "marked", "enqueued", "failing", "end"}
  /\ sweep \in {"idle", "picked", "locked"}
  /\ eraser \in {"idle", "locked", "wiped"}
  /\ purge \in {"idle", "pending", "end"}
  /\ recover \in {"idle", "sent", "end"}
  /\ crashes \in 0..MaxCrashes /\ lapses \in 0..MaxLapses

\* JobStore.create: the record a fresh upload starts from.
NewJob == [status |-> "queued", worker |-> "none", code |-> "none",
           notice |-> FALSE, remote |-> FALSE, keys |-> FALSE,
           deadline |-> "none", seen |-> FALSE]
GoneJob == [NewJob EXCEPT !.status = "gone"]

Init ==
  /\ job = NewJob
  /\ sources = FALSE /\ published = FALSE /\ result = FALSE /\ wiped = FALSE
  /\ charges = 0
  /\ msg = [d \in Deliveries |-> "unsent"]
  /\ retries = [d \in Deliveries |-> 0]
  /\ limit = [d \in Deliveries |-> "none"]
  /\ pc = [d \in Deliveries |-> "idle"]
  /\ lock = "free"
  /\ api = "accepted" /\ sweep = "idle" /\ eraser = "idle"
  /\ purge = "idle" /\ recover = "idle"
  /\ crashes = 0 /\ lapses = 0

Exists == job.status # "gone"
Unfinished == job.status \in {"queued", "working"}
\* _job_is_publicly_complete, for queue_mode "celery".
PubliclyComplete == job.status = "done" /\ job.worker = "done"

-----------------------------------------------------------------------------
(* JobStore writes.                                                        *)

\* update(status, worker_state): refreshes "updated", so the sweep's read is stale.
Update(s, w) == job' = [job EXCEPT !.status = s, !.worker = w, !.seen = FALSE]

\* update(status="error", ..., notify_failure=True): the notice is queued once.
Fail(w, c) == job' = [job EXCEPT !.status = "error", !.worker = w, !.code = c,
                                 !.notice = TRUE, !.seen = FALSE]

\* _cleanup_terminal_sources and delete_keys: best effort.
CleanupSources == \/ sources' = FALSE
                  \/ StoreFaults /\ UNCHANGED sources

\* fail_unfinished_job: nothing happens to a job that is finished or gone.
FailUnfinished ==
  IF Unfinished
  THEN Fail("failed", "transient") /\ CleanupSources
  ELSE UNCHANGED <<job, sources>>

-----------------------------------------------------------------------------
(* The API thread: dispatch.                                               *)

\* The entitlement check refuses the upload before anything is stored.
DispatchRejected ==
  /\ api = "accepted" /\ Exists
  /\ Fail("none", "final")
  /\ api' = "end"
  /\ UNCHANGED <<storage, charges, broker, pc, lock, sweep, eraser, purge, recover, faults>>

\* dispatch finds no record: it was deleted before the thread started.
DispatchMissing ==
  /\ api = "accepted" /\ ~Exists
  /\ api' = "end"
  /\ UNCHANGED <<job, storage, charges, broker, pc, lock, sweep, eraser, purge, recover, faults>>

UploadSources ==
  /\ api = "accepted" /\ Exists
  /\ sources' = TRUE
  /\ api' = "uploaded"
  /\ UNCHANGED <<job, published, result, wiped, charges, broker, pc, lock, sweep,
                 eraser, purge, recover, faults>>

MarkQueued ==
  /\ api = "uploaded" /\ Exists
  /\ job' = [job EXCEPT !.status = "queued", !.worker = "queued", !.keys = TRUE,
                        !.seen = FALSE]
  /\ api' = "marked"
  /\ UNCHANGED <<storage, charges, broker, pc, lock, sweep, eraser, purge, recover, faults>>

Enqueue ==
  /\ api = "marked"
  /\ \E d \in Deliveries :
       /\ msg[d] = "unsent"
       /\ msg' = [msg EXCEPT ![d] = "ready"]
  /\ api' = "enqueued"
  /\ UNCHANGED <<job, storage, charges, retries, limit, pc, lock, sweep, eraser, purge, recover, faults>>

RecordTaskId ==
  /\ api = "enqueued" /\ Exists
  /\ job' = [job EXCEPT !.seen = FALSE]
  /\ api' = "end"
  /\ UNCHANGED <<storage, charges, broker, pc, lock, sweep, eraser, purge, recover, faults>>

\* Any exception between the upload and the end of dispatch: an update of a
\* deleted record, or a failing store, broker or upload. The sources go first.
DispatchFails ==
  /\ api \in {"accepted", "uploaded", "marked", "enqueued"}
  /\ StoreFaults \/ (~Exists /\ api \in {"uploaded", "enqueued"})
  /\ CleanupSources
  /\ api' = "failing"
  /\ UNCHANGED <<job, published, result, wiped, charges, broker, pc, lock, sweep,
                 eraser, purge, recover, faults>>

\* _durability_unavailable (REQUIRE_DURABLE_PROCESSING); a gone record raises.
DurabilityUnavailable ==
  /\ api = "failing"
  /\ IF Exists THEN Fail("unavailable", "transient") ELSE UNCHANGED job
  /\ api' = "end"
  /\ UNCHANGED <<storage, charges, broker, pc, lock, sweep, eraser, purge, recover, faults>>

Dispatch == \/ DispatchRejected \/ DispatchMissing \/ UploadSources \/ MarkQueued
            \/ Enqueue \/ RecordTaskId \/ DispatchFails \/ DurabilityUnavailable

-----------------------------------------------------------------------------
(* A delivery: process_uploaded_job.                                       *)

Goto(d, step) == pc' = [pc EXCEPT ![d] = step]

\* Leaving processing_lock: release() only frees a lock this holder still owns.
Release(d) == lock' = IF lock = d THEN "free" ELSE lock

\* The task returned or raised for good: its message is acknowledged.
Finish(d) == /\ Goto(d, "idle") /\ Release(d)
             /\ msg' = [msg EXCEPT ![d] = "acked"] /\ UNCHANGED <<retries, limit>>

\* Mutant: the retry is published without counting it.
RetryUncounted(d) == msg' = [msg EXCEPT ![d] = "ready"] /\ UNCHANGED <<retries, limit>>

\* task.retry: a new message with one more retry replaces the current one.
RetryMessage(d) == /\ msg' = [msg EXCEPT ![d] = "ready"]
                   /\ retries' = [retries EXCEPT ![d] = @ + 1]
                   /\ UNCHANGED limit

\* _retry_or_fail on a transient error (LS-AI-02, LS-SYSTEM-01).
RetryOrFail(d) ==
  \/ /\ Exists /\ retries[d] < MaxRetries
     /\ job' = [job EXCEPT !.status = "queued", !.worker = "retrying",
                           !.code = "none", !.seen = FALSE]
     /\ Goto(d, "requeue")
     /\ UNCHANGED <<sources, broker, lock>>
  \/ /\ Exists /\ retries[d] = MaxRetries
     /\ Fail("failed", "transient") /\ CleanupSources
     /\ Finish(d)
  \/ /\ ~Exists       \* the update raises KeyError out of the handler
     /\ UNCHANGED <<job, sources>>
     /\ Finish(d)

\* _retry_or_fail on any other error, and _quota_error: the job is refused.
Reject(d) ==
  /\ IF Exists THEN Fail("rejected", "final") /\ CleanupSources
               ELSE UNCHANGED <<job, sources>>
  /\ Finish(d)

\* A retry waits 15 s or more, so the pool has dealt with the old child by then.
Deliver(d) ==
  /\ msg[d] = "ready"
  /\ pc[d] = "idle" /\ limit[d] = "none"
  /\ msg' = [msg EXCEPT ![d] = "held"]
  /\ Goto(d, "lock")
  /\ UNCHANGED <<job, storage, charges, retries, limit, lock, others, faults>>

\* Mutant: SET without NX, the lock is taken whoever holds it.
AcquireHeldLock(d) ==
  /\ pc[d] = "lock"
  /\ lock' = d
  /\ Goto(d, "read")
  /\ UNCHANGED <<job, storage, charges, broker, others, faults>>

\* processing_lock(blocking=False) succeeds.
AcquireLock(d) ==
  /\ pc[d] = "lock"
  /\ lock = "free"
  /\ lock' = d
  /\ Goto(d, "read")
  /\ UNCHANGED <<job, storage, charges, broker, others, faults>>

\* Mutant: retries <= max_retries, one retry too many.
LockedElsewhereOffByOne(d) ==
  /\ pc[d] = "lock"
  /\ lock # "free" \/ StoreFaults
  /\ retries[d] <= MaxRetries
  /\ RetryMessage(d) /\ Goto(d, "idle")
  /\ UNCHANGED <<job, storage, charges, lock, others, faults>>

\* _job_locked_elsewhere: wait a minute and try again while retries last.
LockedElsewhere(d) ==
  /\ pc[d] = "lock"
  /\ lock # "free" \/ StoreFaults
  /\ \/ /\ retries[d] < MaxRetries
        /\ RetryMessage(d) /\ Goto(d, "idle")
     \/ /\ retries[d] = MaxRetries
        /\ Goto(d, "exhausted") /\ UNCHANGED broker
  /\ UNCHANGED <<job, storage, charges, lock, others, faults>>

\* Out of retries: a finished job or one whose lock is held is dropped.
ExhaustedDuplicate(d) ==
  /\ pc[d] = "exhausted"
  /\ ~Unfinished \/ lock # "free" \/ StoreFaults
  /\ Finish(d)
  /\ UNCHANGED <<job, storage, charges, others, faults>>

\* Out of retries and processing_lock_held said the lock is free.
ExhaustedUnheld(d) ==
  /\ pc[d] = "exhausted"
  /\ Unfinished /\ lock = "free"
  /\ Goto(d, "failing")
  /\ UNCHANGED <<job, storage, charges, broker, lock, others, faults>>

FailExhausted(d) ==
  /\ pc[d] = "failing"
  /\ FailUnfinished
  /\ Finish(d)
  /\ UNCHANGED <<published, result, wiped, charges, others, faults>>

\* JOBS.get under the lock: a missing, published or failed job is left alone.
DropFinished(d) ==
  /\ pc[d] = "read"
  /\ \/ ~Exists
     \/ job.status = "done" /\ job.remote
     \/ job.status = "error"
  /\ CleanupSources
  /\ Finish(d)
  /\ UNCHANGED <<job, published, result, wiped, charges, others, faults>>

\* Mutant: only a published job is recognised as finished.
ReadFailedJob(d) ==
  /\ pc[d] = "read"
  /\ Exists /\ ~(job.status = "done" /\ job.remote)
  /\ Goto(d, IF job.worker = "retrying" /\ result THEN "mark" ELSE "begin")
  /\ UNCHANGED <<job, storage, charges, broker, lock, others, faults>>

\* _resume_publish applies when a retried delivery finds the local result.
ReadJob(d) ==
  /\ pc[d] = "read"
  /\ Unfinished \/ (job.status = "done" /\ ~job.remote)
  /\ Goto(d, IF job.worker = "retrying" /\ result THEN "mark" ELSE "begin")
  /\ UNCHANGED <<job, storage, charges, broker, lock, others, faults>>

\* The workspace is emptied, the job is working and its deadline is recorded.
Begin(d) ==
  /\ pc[d] = "begin"
  /\ result' = FALSE
  /\ \/ /\ Exists
        /\ job' = [job EXCEPT !.status = "working", !.worker = "downloading",
                              !.deadline = "set", !.seen = FALSE]
        /\ Goto(d, "download")
        /\ UNCHANGED <<sources, broker, lock>>
     \/ ~Exists /\ RetryOrFail(d)
     \/ StoreFaults /\ Reject(d)        \* LS-STORAGE: no workspace budget
  /\ UNCHANGED <<published, wiped, charges, others, faults>>

\* Downloading fails when the sources are gone; documents are preflighted.
Download(d) ==
  /\ pc[d] = "download"
  /\ \/ /\ sources /\ Exists
        /\ \E w \in {"downloading", "preflighting"} : Update(job.status, w)
        /\ Goto(d, "quota")
        /\ UNCHANGED <<sources, broker, lock>>
     \/ (~sources \/ ~Exists \/ StoreFaults) /\ RetryOrFail(d)
     \/ sources /\ Reject(d)            \* an unreadable source
  /\ UNCHANGED <<published, result, wiped, charges, others, faults>>

\* The worker-side entitlement check, then worker_state="processing".
Quota(d) ==
  /\ pc[d] = "quota"
  /\ \/ /\ Exists
        /\ Update(job.status, "processing")
        /\ Goto(d, "start")
        /\ UNCHANGED <<sources, broker, lock>>
     \/ ~Exists /\ RetryOrFail(d)
     \/ Reject(d)
  /\ UNCHANGED <<published, result, wiped, charges, others, faults>>

\* _process_job marks the job working; a missing job returns at once.
StartPipeline(d) ==
  /\ pc[d] = "start"
  /\ IF Exists THEN Update("working", job.worker) /\ Goto(d, "pipeline")
               ELSE UNCHANGED job /\ Goto(d, "finished")
  /\ UNCHANGED <<storage, charges, broker, lock, others, faults>>

\* The pipeline ends: a local result, a transient error that is written to the
\* record without a notice, a final error, or a refusal after OCR.
RunPipeline(d) ==
  /\ pc[d] = "pipeline"
  /\ \/ /\ Exists
        /\ Update("done", job.worker)
        /\ result' = TRUE
        /\ Goto(d, "meter")
        /\ UNCHANGED <<sources, broker, lock>>
     \/ /\ Exists
        /\ \/ job' = [job EXCEPT !.status = "error", !.code = "transient", !.seen = FALSE]
           \/ Fail(job.worker, "final")
           \/ Fail("rejected", "final")
        /\ Goto(d, "finished")
        /\ UNCHANGED <<sources, result, broker, lock>>
     \/ ~Exists /\ RetryOrFail(d) /\ UNCHANGED result
  /\ UNCHANGED <<published, wiped, charges, others, faults>>

\* _record_billing_usage: the usage row is unique per job_id. Whatever goes wrong
\* is swallowed (the billing database, the soft time limit), and a lesson without
\* an open owner account is not charged.
Meter(d) ==
  /\ pc[d] = "meter"
  /\ charges' \in {charges, 1}
  /\ Goto(d, "finished")
  /\ UNCHANGED <<job, storage, broker, lock, others, faults>>

\* The worker reads how the pipeline ended.
ReadFinished(d) ==
  /\ pc[d] = "finished"
  /\ \/ /\ job.status = "done"
        /\ Goto(d, "mark")
        /\ UNCHANGED <<job, sources, broker, lock>>
     \/ /\ job.status # "done" /\ Exists /\ job.code = "transient"
        /\ RetryOrFail(d)
     \/ /\ job.status # "done" /\ Exists /\ job.code # "transient"
        /\ Fail("rejected", job.code) /\ CleanupSources
        /\ Finish(d)
     \/ ~Exists /\ RetryOrFail(d)
     \/ StoreFaults /\ Reject(d)        \* LS-STORAGE: the workspace overflowed
  /\ UNCHANGED <<published, result, wiped, charges, others, faults>>

\* Mutant: the sources are released when publishing starts.
MarkPublishingEarlyCleanup(d) ==
  /\ pc[d] = "mark"
  /\ Exists
  /\ Update("working", "publishing")
  /\ sources' = FALSE
  /\ Goto(d, "publish")
  /\ UNCHANGED <<broker, lock, published, result, wiped, charges, others, faults>>

\* Mutant: the result is announced before the durable copy exists.
MarkDone(d) ==
  /\ pc[d] = "mark"
  /\ Exists
  /\ Update("done", "done")
  /\ Goto(d, "publish")
  /\ UNCHANGED <<sources, broker, lock, published, result, wiped, charges, others, faults>>

\* Back to working until the durable copy exists; also _resume_publish's mark.
MarkPublishing(d) ==
  /\ pc[d] = "mark"
  /\ \/ /\ Exists
        /\ Update("working", "publishing")
        /\ Goto(d, "publish")
        /\ UNCHANGED <<sources, broker, lock>>
     \/ ~Exists /\ RetryOrFail(d)
  /\ UNCHANGED <<published, result, wiped, charges, others, faults>>

\* Mutant: a failed upload is swallowed.
PublishUnchecked(d) ==
  /\ pc[d] = "publish"
  /\ published' \in {published, TRUE}
  /\ Goto(d, "unsource")
  /\ UNCHANGED <<job, sources, broker, lock, result, wiped, charges, others, faults>>

\* STORAGE.publish_job; a failure may leave some objects behind.
Publish(d) ==
  /\ pc[d] = "publish"
  /\ \/ /\ published' = TRUE
        /\ Goto(d, "unsource")
        /\ UNCHANGED <<job, sources, broker, lock>>
     \/ /\ published' \in {published, TRUE}
        /\ RetryOrFail(d)
  /\ UNCHANGED <<result, wiped, charges, others, faults>>

\* _delete_remote_sources, before the record says done.
DeleteSources(d) ==
  /\ pc[d] = "unsource"
  /\ \/ /\ sources' = FALSE
        /\ Goto(d, "complete")
        /\ UNCHANGED <<job, broker, lock>>
     \/ StoreFaults /\ RetryOrFail(d)
  /\ UNCHANGED <<published, result, wiped, charges, others, faults>>

Complete(d) ==
  /\ pc[d] = "complete"
  /\ \/ /\ Exists
        /\ job' = [job EXCEPT !.status = "done", !.worker = "done",
                              !.remote = TRUE, !.seen = FALSE]
        /\ Finish(d)
        /\ UNCHANGED sources
     \/ ~Exists /\ RetryOrFail(d)
  /\ UNCHANGED <<published, result, wiped, charges, others, faults>>

\* raise task.retry: the retry is published, then the lock is released.
Requeue(d) ==
  /\ pc[d] = "requeue"
  /\ RetryMessage(d)
  /\ Goto(d, "idle") /\ Release(d)
  /\ UNCHANGED <<job, storage, charges, others, faults>>

\* SoftTimeLimitExceeded. The handlers of process_uploaded_job fail the job; raised
\* before they are set up, or while one of them is at work (a retry is recorded but
\* not yet published), it ends the task and leaves the record as it is.
SoftLimit(d) ==
  /\ pc[d] \notin {"idle", "meter"} /\ limit[d] = "none"
  /\ IF pc[d] \in Timed THEN FailUnfinished ELSE UNCHANGED <<job, sources>>
  /\ Finish(d)
  /\ UNCHANGED <<published, result, wiped, charges, others, faults>>

\* The hard limit: the pool's main process acknowledges the message first ...
HardLimit(d) ==
  /\ pc[d] # "idle" /\ limit[d] = "none"
  /\ limit' = [limit EXCEPT ![d] = "struck"]
  /\ msg' = [msg EXCEPT ![d] = "acked"]
  /\ UNCHANGED <<job, storage, charges, retries, pc, lock, others, faults>>

\* ... then runs JobRequest.on_timeout ...
OnTimeout(d) ==
  /\ limit[d] = "struck"
  /\ FailUnfinished \/ (StoreFaults /\ UNCHANGED <<job, sources>>)
  /\ limit' = [limit EXCEPT ![d] = "failed"]
  /\ UNCHANGED <<published, result, wiped, charges, msg, retries, pc, lock, others, faults>>

\* ... and only then kills the child; a lock it holds waits for its TTL.
Kill(d) ==
  /\ limit[d] = "failed"
  /\ limit' = [limit EXCEPT ![d] = "none"]
  /\ Goto(d, "idle")
  /\ lock' = IF lock = d THEN "dead" ELSE lock
  /\ UNCHANGED <<job, storage, charges, msg, retries, others, faults>>

\* The steps of the task, in the child process.
Child(d) ==
  \/ AcquireLock(d) \/ LockedElsewhere(d) \/ ExhaustedDuplicate(d)
  \/ ExhaustedUnheld(d) \/ FailExhausted(d) \/ DropFinished(d) \/ ReadJob(d)
  \/ Begin(d) \/ Download(d) \/ Quota(d) \/ StartPipeline(d) \/ RunPipeline(d)
  \/ Meter(d) \/ ReadFinished(d) \/ MarkPublishing(d) \/ Publish(d)
  \/ DeleteSources(d) \/ Complete(d) \/ Requeue(d)

Work(d) ==
  \/ Deliver(d)
  \/ (limit[d] = "none" \/ LateKill) /\ Child(d)
  \/ OnTimeout(d) \/ Kill(d)

-----------------------------------------------------------------------------
(* Losses: processes, the lock's lease, the broker's visibility timeout.   *)

\* The worker is lost; task_reject_on_worker_lost and the visibility
\* timeout put the unacknowledged message back. Its lock waits for its TTL.
WorkerCrash(d) ==
  /\ pc[d] # "idle" /\ crashes < MaxCrashes
  /\ crashes' = crashes + 1
  /\ Goto(d, "idle")
  /\ msg' = [msg EXCEPT ![d] = IF @ = "held" THEN "ready" ELSE @]
  /\ limit' = [limit EXCEPT ![d] = "none"]
  /\ lock' = IF lock = d THEN "dead" ELSE lock
  /\ UNCHANGED <<job, storage, charges, retries, others, lapses>>

\* The API process is lost with its dispatch thread, sweep, deletion and recovery.
ApiCrash ==
  /\ crashes < MaxCrashes
  /\ crashes' = crashes + 1
  /\ api' = "end" /\ sweep' = "idle" /\ eraser' = "idle"
  /\ purge' = (IF purge = "pending" THEN "end" ELSE purge)
  /\ recover' = (IF recover = "sent" THEN "end" ELSE recover)
  /\ lock' = IF lock \in {"sweeper", "deleter"} THEN "dead" ELSE lock
  /\ UNCHANGED <<job, storage, charges, broker, pc, lapses>>

\* The 180 s lease of a holder that is gone runs out.
LockExpires ==
  /\ lock = "dead"
  /\ lock' = "free"
  /\ UNCHANGED <<job, storage, charges, broker, pc, others, faults>>

\* renew() returned on its first exception, so a live holder's lease ran out.
LockLapses(d) ==
  /\ lock = d /\ lapses < MaxLapses
  /\ lapses' = lapses + 1
  /\ lock' = "free"
  /\ UNCHANGED <<job, storage, charges, broker, pc, others, crashes>>

\* The visibility timeout elapses on a message whose worker is still busy.
Redeliver(d, e) ==
  /\ Redelivers
  /\ msg[d] = "held" /\ msg[e] = "unsent"
  /\ msg' = [msg EXCEPT ![e] = "ready"]
  /\ retries' = [retries EXCEPT ![e] = retries[d]]
  /\ UNCHANGED <<job, storage, charges, limit, pc, lock, others, faults>>

-----------------------------------------------------------------------------
(* The stuck-job sweep.                                                    *)

\* Deadline plus redelivery window: the delivery that set it was killed by then.
DeadlinePasses ==
  /\ job.deadline = "set"
  /\ \A d \in Deliveries : pc[d] \notin Owning
  /\ job' = [job EXCEPT !.deadline = "past"]
  /\ UNCHANGED <<storage, charges, broker, pc, lock, others, faults>>

SweepPick ==
  /\ sweep = "idle"
  /\ job.status = "working" /\ job.deadline = "past"
  /\ job' = [job EXCEPT !.seen = TRUE]
  /\ sweep' = "picked"
  /\ UNCHANGED <<storage, charges, broker, pc, lock, api, eraser, purge, recover, faults>>

SweepLock ==
  /\ sweep = "picked"
  /\ IF lock = "free" THEN lock' = "sweeper" /\ sweep' = "locked"
                      ELSE sweep' = "idle" /\ UNCHANGED lock
  /\ UNCHANGED <<job, storage, charges, broker, pc, api, eraser, purge, recover, faults>>

\* Mutant: stale_before=updated, which no record can be older than.
SweepFailStale ==
  /\ sweep = "locked"
  /\ sweep' = "idle"
  /\ lock' = IF lock = "sweeper" THEN "free" ELSE lock
  /\ UNCHANGED <<job, storage, charges, broker, pc, api, eraser, purge, recover, faults>>

\* fail_unfinished_job(stale_before): only a job untouched since it was read.
SweepFail ==
  /\ sweep = "locked"
  /\ IF job.seen THEN FailUnfinished ELSE UNCHANGED <<job, sources>>
  /\ sweep' = "idle"
  /\ lock' = IF lock = "sweeper" THEN "free" ELSE lock
  /\ UNCHANGED <<published, result, wiped, charges, broker, pc, api, eraser, purge,
                 recover, faults>>

Sweep == SweepPick \/ SweepLock \/ SweepFail

-----------------------------------------------------------------------------
(* Deletion, purge and operator recovery.                                  *)

\* is_job_deletable: the persisted lifecycle state permits a locked deletion.
Deletable ==
  \/ job.status = "done" /\ job.worker \in {"none", "done", "failed", "rejected"}
  \/ job.status = "error" /\ job.worker \in {"none", "done", "failed", "rejected",
                                             "unavailable"}

DeleteLock ==
  /\ Erasure
  /\ eraser = "idle" /\ lock = "free" /\ Deletable
  /\ lock' = "deleter"
  /\ eraser' = "locked"
  /\ UNCHANGED <<job, storage, charges, broker, pc, api, sweep, purge, recover, faults>>

\* STORAGE.delete_job and the local directory; a failure keeps the metadata.
DeleteObjects ==
  /\ eraser = "locked"
  /\ wiped' = TRUE
  /\ \/ /\ published' = FALSE /\ sources' = FALSE /\ result' = FALSE
        /\ eraser' = "wiped" /\ UNCHANGED lock
     \/ /\ StoreFaults
        /\ published' \in {published, FALSE} /\ sources' \in {sources, FALSE}
        /\ UNCHANGED result
        /\ eraser' = "idle" /\ lock' = IF lock = "deleter" THEN "free" ELSE lock
  /\ UNCHANGED <<job, charges, broker, pc, api, sweep, purge, recover, faults>>

DeleteRecord ==
  /\ eraser = "wiped"
  /\ job' = GoneJob
  /\ eraser' = "idle"
  /\ lock' = IF lock = "deleter" THEN "free" ELSE lock
  /\ UNCHANGED <<storage, charges, broker, pc, api, sweep, purge, recover, faults>>

\* delete_for_user and cleanup_expired: the record first, without any lock.
PurgeRecord ==
  /\ Erasure
  /\ purge = "idle" /\ Exists
  /\ job' = GoneJob
  /\ purge' = "pending"
  /\ UNCHANGED <<storage, charges, broker, pc, lock, api, sweep, eraser, recover, faults>>

PurgeObjects ==
  /\ purge = "pending"
  /\ wiped' = TRUE
  /\ result' = FALSE
  /\ \/ published' = FALSE /\ sources' = FALSE
     \/ StoreFaults /\ UNCHANGED <<published, sources>>
  /\ purge' = "end"
  /\ UNCHANGED <<job, charges, broker, pc, lock, api, sweep, eraser, recover, faults>>

\* recover_durable_jobs sends a second message for an unfinished job ...
RecoverEnqueue ==
  /\ Recovery
  /\ recover = "idle" /\ Unfinished /\ job.keys
  /\ \E d \in Deliveries :
       /\ msg[d] = "unsent"
       /\ msg' = [msg EXCEPT ![d] = "ready"]
  /\ recover' = "sent"
  /\ UNCHANGED <<job, storage, charges, retries, limit, pc, lock, api, sweep, eraser, purge, faults>>

\* ... and then writes status="queued" whatever happened meanwhile.
RecoverMark ==
  /\ recover = "sent"
  /\ IF Exists THEN Update("queued", "requeued") ELSE UNCHANGED job
  /\ recover' = "end"
  /\ UNCHANGED <<storage, charges, broker, pc, lock, api, sweep, eraser, purge, faults>>

Erase == DeleteLock \/ DeleteObjects \/ DeleteRecord \/ PurgeRecord \/ PurgeObjects

Next ==
  \/ Dispatch
  \/ \E d \in Deliveries : \/ Work(d) \/ SoftLimit(d) \/ HardLimit(d)
                           \/ WorkerCrash(d) \/ LockLapses(d)
  \/ \E d, e \in Deliveries : Redeliver(d, e)
  \/ ApiCrash \/ LockExpires
  \/ DeadlinePasses \/ Sweep
  \/ Erase
  \/ RecoverEnqueue \/ RecoverMark

Spec == Init /\ [][Next]_vars

-----------------------------------------------------------------------------
(* Fairness. Worker processes, the API thread and the sweep loop keep      *)
(* running, leases run out and time passes; users, operators, time limits  *)
(* and faults owe nothing.                                                 *)
Fairness ==
  /\ \A d \in Deliveries : WF_vars(Work(d))
  /\ WF_vars(Dispatch)
  /\ WF_vars(LockExpires)
  /\ WF_vars(DeadlinePasses)
  /\ WF_vars(Sweep)

FairSpec == Spec /\ Fairness

-----------------------------------------------------------------------------
(* Properties.                                                             *)

\* processing_lock keeps one actor on the job: while no live holder's lease
\* has lapsed, at most one delivery is inside the locked region of
\* process_uploaded_job, and none is while the sweep or a deletion is inside
\* its own, whatever crashes, redeliveries and expiring leases happen.
SingleWriter ==
  lapses = 0 =>
    \A d \in Deliveries : pc[d] \in Owning =>
      /\ \A e \in Deliveries : pc[e] \in Owning => e = d
      /\ sweep # "locked" /\ eraser = "idle"

\* The result is shown as complete (_job_is_publicly_complete) only when the
\* durable copy exists and the record points to it, unless its deletion began.
ReadyIsDurable == PubliclyComplete => (published /\ job.remote) \/ wiped

\* Failed for good, its owner notified, and nobody is left who looked at the job
\* before it failed and has yet to write: a delivery past its read, the dispatching
\* thread before its mark, an operator's recovery between its two steps.
Settled ==
  /\ job.status = "error" /\ job.notice
  /\ \A d \in Deliveries : pc[d] \notin Timed \cup {"meter"}
  /\ api \notin {"accepted", "uploaded"} /\ recover # "sent"

\* "A late or redelivered message must not restart it": from then on no message,
\* whoever sent it and however often it is delivered, no retry, sweep, recovery or
\* resumed publish takes the job out of "error"; it can only be erased.
FailureIsFinal == [][Settled => Settled' \/ job'.status = "gone"]_vars

\* While no process was lost: until the record says done, the sources that a
\* message still needs are in storage, the last step of a delivery apart.
SourcesOutliveWork ==
  (/\ crashes = 0 /\ Unfinished
   /\ \E d \in Deliveries : msg[d] \in {"ready", "held"}
   /\ \A d \in Deliveries : pc[d] # "complete") => sources

\* However many processes are lost, deliveries come to an end: retries, lock waits,
\* time limits and redelivered messages keep no message of the job going for ever.
EveryDeliveryEnds ==
  <>[](\A d \in Deliveries : msg[d] \notin {"ready", "held"} /\ pc[d] = "idle")

\* However many processes are lost, the sweep lets no job stay working for ever.
NoJobStuckWorking == <>[](job.status # "working")

\* What the owner of the lesson sees. A record in "error" without a notice is
\* the pipeline's report to its worker, still pending.
Phase == CASE job.status = "gone" -> "gone"
           [] PubliclyComplete -> "ready"
           [] job.status = "error" /\ job.notice -> "failed"
           [] OTHER -> "pending"

\* The detailed protocol keeps the promise to the owner.
Contract == INSTANCE JobContract WITH phase <- Phase, billed <- charges > 0
KeepsContract == Contract!Spec

-----------------------------------------------------------------------------
(* What comments of the code say and the code does not do.                 *)

\* fail_unfinished_job: "Nothing is charged: usage is recorded only when a
\* job completes."
FailedIsNotCharged == job.status = "error" /\ job.notice => charges = 0

\* _public_job: a result that is done but not yet durably published is a "brief
\* internal state", shown as working: it is published, failed or erased.
UnpublishedIsBrief ==
  (job.status = "done" /\ job.worker # "done") ~> (job.status # "done" \/ job.worker = "done")
=============================================================================
