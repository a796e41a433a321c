------------------------------- MODULE SyncJob -------------------------------
(***************************************************************************)
(* The status syncs users ask for (src/app/application/sync_jobs.py): a    *)
(* request of one scope answers with the active job of that scope or makes *)
(* a job of its own, a worker runs it, and the watchdog closes the jobs    *)
(* whose heartbeat is stale.  A job is named by the request that made it.  *)
(***************************************************************************)

CONSTANTS
  Requests,  \* POST /sync-jobs with the same scope
  Places,    \* where a job may run: the Celery queue, a thread of the API
  JobFaults  \* what goes wrong: late beats, crashes, a queue that is down

ASSUME SyncJobAssumption ==
  /\ Places \subseteq {"celery", "local"}
  /\ JobFaults \subseteq {"late", "crash"}

VARIABLES
  request,  \* where each request is
  job,      \* the rows, by request
  worker,   \* the workers of each job
  ousted,   \* _lease_lost of each worker
  silent    \* beats of the worker may stay out for longer than the stale window

jobVars == <<request, job, worker, ousted, silent>>

Active   == {"queued", "running"}
Terminal == {"succeeded", "failed"}
Workers  == Requests \X Places

Job == [status : {"none"} \cup Active \cup Terminal, owner : Places \cup {"nobody"},
        stale : BOOLEAN]
RequestSteps == {"idle", "insert", "dispatch", "answered"}
WorkerSteps  == {"none", "sent", "working", "failing", "done"}

JobInit ==
  /\ request = [r \in Requests |-> "idle"]
  /\ job = [r \in Requests |-> [status |-> "none", owner |-> "nobody", stale |-> FALSE]]
  /\ worker = [w \in Workers |-> "none"]
  /\ ousted = [w \in Workers |-> FALSE]
  /\ silent = [w \in Workers |-> FALSE]

SomeActive == \E r \in Requests : job[r].status \in Active

Ask(r, step) == request' = [request EXCEPT ![r] = step]
Proceed(w, step)  == worker' = [worker EXCEPT ![w] = step]
-----------------------------------------------------------------------------
(* create_or_get_status_sync_job: an active job of the scope is the answer. *)
Look(r) ==
  /\ request[r] = "idle"
  /\ Ask(r, IF SomeActive THEN "answered" ELSE "insert")
  /\ UNCHANGED <<job, worker, ousted, silent>>

Bug_NoScopeIndex == TRUE

(* ix_sync_jobs_active_scope: one active job per scope. *)
ScopeIsFree == ~SomeActive

Insert(r) ==
  /\ request[r] = "insert"
  /\ IF ScopeIsFree
     THEN /\ job' = [job EXCEPT ![r].status = "queued"]
          /\ Ask(r, "dispatch")
     ELSE Ask(r, "answered") /\ UNCHANGED job
  /\ UNCHANGED <<worker, ousted, silent>>

(* _dispatch_status_job: when delay() raises, whether or not the queue     *)
(* took the task, a thread of the API runs the job.                        *)
Dispatch(r) ==
  /\ request[r] = "dispatch"
  /\ \E sent \in SUBSET Places :
       /\ sent # {} \/ "crash" \in JobFaults
       /\ worker' = [w \in Workers |-> IF w[1] = r /\ w[2] \in sent THEN "sent" ELSE worker[w]]
  /\ Ask(r, "answered")
  /\ UNCHANGED <<job, ousted, silent>>
-----------------------------------------------------------------------------
Bug_StartsAnyJob(w) ==
  /\ worker[w] = "sent"
  /\ job' = [job EXCEPT ![w[1]] = [status |-> "running", owner |-> w[2], stale |-> FALSE]]
  /\ Proceed(w, "working")
  /\ UNCHANGED <<request, ousted, silent>>

(* run_status_sync_job locks the row and takes over any active job. *)
Start(w) ==
  /\ worker[w] = "sent"
  /\ IF job[w[1]].status \in Active
     THEN /\ job' = [job EXCEPT ![w[1]] = [status |-> "running", owner |-> w[2],
                                           stale |-> FALSE]]
          /\ Proceed(w, "working")
     ELSE Proceed(w, "done") /\ UNCHANGED job
  /\ UNCHANGED <<request, ousted, silent>>

Owns(w) == job[w[1]].status \in Active /\ job[w[1]].owner = w[2]

(* _persist: a beat writes its progress and the heartbeat. *)
Persist(w) ==
  /\ worker[w] = "working" /\ ~ousted[w]
  /\ IF Owns(w)
     THEN job' = [job EXCEPT ![w[1]].stale = FALSE] /\ UNCHANGED ousted
     ELSE ousted' = [ousted EXCEPT ![w] = TRUE] /\ UNCHANGED job
  /\ UNCHANGED <<request, worker, silent>>

(* The sync ends well: the status is written over whatever the row says,   *)
(* by a worker that lost the job since it last reported progress, too.     *)
Succeed(w) ==
  /\ worker[w] = "working"
  /\ job' = [job EXCEPT ![w[1]].status = "succeeded", ![w[1]].stale = FALSE]
  /\ Proceed(w, "done")
  /\ UNCHANGED <<request, ousted, silent>>

(* It raises, on a lost lease too: the row is read again ... *)
Raise(w) ==
  /\ worker[w] = "working"
  /\ Proceed(w, IF Owns(w) THEN "failing" ELSE "done")
  /\ UNCHANGED <<request, job, ousted, silent>>

(* ... and marked as failed. *)
RecordFailure(w) ==
  /\ worker[w] = "failing"
  /\ job' = [job EXCEPT ![w[1]].status = "failed", ![w[1]].stale = FALSE]
  /\ Proceed(w, "done")
  /\ UNCHANGED <<request, ousted, silent>>

WorkerDies(w) ==
  /\ "crash" \in JobFaults
  /\ worker[w] \in {"sent", "working", "failing"}
  /\ Proceed(w, "done")
  /\ UNCHANGED <<request, job, ousted, silent>>

FallSilent(w) ==
  /\ "late" \in JobFaults
  /\ worker[w] \in {"working", "failing"} /\ ~silent[w]
  /\ silent' = [silent EXCEPT ![w] = TRUE]
  /\ UNCHANGED <<request, job, worker, ousted>>
-----------------------------------------------------------------------------
(* The stale window passes: a job is in the queue, its owner is silent, or *)
(* nobody works on it.                                                     *)
JobAges(r) ==
  /\ job[r].status \in Active /\ ~job[r].stale
  /\ \A w \in Workers : w[1] = r /\ Owns(w) /\ worker[w] \in {"working", "failing"} => silent[w]
  /\ job' = [job EXCEPT ![r].stale = TRUE]
  /\ UNCHANGED <<request, worker, ousted, silent>>

Bug_OnlyRunning == {"running"}

(* The jobs reclaim_stale_sync_jobs looks at. *)
Watched == Active

ReclaimJob(r) ==
  /\ job[r].status \in Watched /\ job[r].stale
  /\ job' = [job EXCEPT ![r].status = "failed", ![r].stale = FALSE]
  /\ UNCHANGED <<request, worker, ousted, silent>>

AllAnswered ==
  /\ \A r \in Requests : request[r] = "answered"
  /\ \A w \in Workers : worker[w] \in {"none", "done"}
  /\ ~SomeActive
  /\ UNCHANGED jobVars

Run(w) == Start(w) \/ Persist(w) \/ Succeed(w) \/ Raise(w) \/ RecordFailure(w)

JobNext ==
  \/ \E r \in Requests : Look(r) \/ Insert(r) \/ Dispatch(r) \/ JobAges(r) \/ ReclaimJob(r)
  \/ \E w \in Workers : Run(w) \/ WorkerDies(w) \/ FallSilent(w)
  \/ AllAnswered

JobSpec == JobInit /\ [][JobNext]_jobVars

(* Time passes, Celery beat runs the watchdog, and a sync ends: every call *)
(* it makes has a timeout.                                                 *)
JobFairSpec ==
  /\ JobSpec
  /\ \A r \in Requests : WF_jobVars(JobAges(r)) /\ WF_jobVars(ReclaimJob(r))
  /\ \A w \in Workers : WF_jobVars(Succeed(w) \/ Raise(w) \/ RecordFailure(w))
-----------------------------------------------------------------------------
(* The columns keep their values; a job that is queued has no worker yet. *)
JobTypeOK ==
  /\ request \in [Requests -> RequestSteps]
  /\ job \in [Requests -> Job]
  /\ worker \in [Workers -> WorkerSteps]
  /\ ousted \in [Workers -> BOOLEAN] /\ silent \in [Workers -> BOOLEAN]
  /\ \A r \in Requests : job[r].status \in {"none", "queued"} => job[r].owner = "nobody"

(* However the requests of one scope race, one job of it is active         *)
(* (test_status_sync_job_is_platform_scoped_and_deduplicated).             *)
OneActiveJob ==
  \A r, s \in Requests : job[r].status \in Active /\ job[s].status \in Active => r = s

(* A job that ended is never run again: neither a task that was late in    *)
(* the queue nor a beat reopens it.                                        *)
EndedStaysEnded ==
  [][\A r \in Requests : job[r].status \in Terminal => job'[r].status \in Terminal]_jobVars

(* "Must not leave a job in running forever" (sync_jobs.py:176): lost in   *)
(* the queue, crashed or silent, it ends.                                  *)
JobEnds == \A r \in Requests : job[r].status \in Active ~> job[r].status \in Terminal
=============================================================================
