----------------------------- MODULE SyncProofs ------------------------------
(***************************************************************************)
(* Safety of the syncs of a platform, for any number of runs and requests  *)
(* and any faults.  The lease of the scheduled runs: the token in the row  *)
(* is a run that claimed it, a claim is the only way to get it, and a run  *)
(* claims once.  The jobs users ask for: a job gets its row once, since    *)
(* the request that makes it has none before, and no worker exists before  *)
(* the request has dispatched it.                                          *)
(***************************************************************************)
EXTENDS SyncLease, SyncJob, TLAPS

(* Only a run that claimed the lease is ever told it lost it. *)
IInv ==
  /\ TypeOK
  /\ LostHoldsNothing
  /\ \A r \in Runs : lost[r] => run[r] \notin {"idle", "skipped"}

(* A step that only moves a run that has claimed, and leaves the row and   *)
(* what the runs were told alone, keeps the invariant.                     *)
LEMMA GoOK ==
  ASSUME IInv, NEW r \in Runs, NEW s \in Steps \ {"idle", "skipped"},
         Go(r, s), UNCHANGED <<lease, lost>>, late' \in [Runs -> BOOLEAN]
  PROVE  IInv'
  BY DEF IInv, TypeOK, LostHoldsNothing, Holds, Go

(* A row that is released, or only dated, has no holder it did not have. *)
LEMMA RowOK ==
  ASSUME IInv, lease' \in Lease, lease'.token = lease.token, lease'.running => lease.running,
         run' \in [Runs -> Steps], UNCHANGED <<lost, late>>,
         \A r \in Runs : run[r] \notin {"idle", "skipped"} => run'[r] \notin {"idle", "skipped"}
  PROVE  IInv'
  BY DEF IInv, TypeOK, LostHoldsNothing, Holds

(* At first nobody holds the lease. *)
LEMMA InitOK == Init => IInv
  BY DEF Init, IInv, TypeOK, LostHoldsNothing, Lease, Steps, Holds

(* Every step of a run, of the watchdog and of the Admin keeps it. *)
LEMMA StepOK == IInv /\ [Next]_vars => IInv'
<1> SUFFICES ASSUME IInv, [Next]_vars PROVE IInv'
  OBVIOUS
<1>0. TypeOK /\ lease \in Lease /\ run \in [Runs -> Steps]
  BY DEF IInv, TypeOK
<1>1. ASSUME NEW r \in Runs, Claim(r) PROVE IInv'
  <2>1. CASE lease.running /\ ~lease.stale
    BY <1>1, <2>1 DEF Claim, Take, Go, IInv, TypeOK, Steps, LostHoldsNothing, Holds
  <2>2. CASE ~(lease.running /\ ~lease.stale)
    <3>1. /\ lease' \in Lease /\ lease'.running /\ lease'.token = r
          /\ run[r] = "idle" /\ run' = [run EXCEPT ![r] = "working"] /\ UNCHANGED <<lost, late>>
      BY <1>0, <1>1, <2>2 DEF Claim, Take, Go, Lease
    <3>2. ~lost[r]
      BY <3>1 DEF IInv
    <3> QED
      BY <3>1, <3>2 DEF IInv, TypeOK, Steps, LostHoldsNothing, Holds
  <2> QED
    BY <2>1, <2>2
<1>2. ASSUME NEW r \in Runs, Beat(r) PROVE IInv'
  <2>1. CASE Holds(r)
    BY <1>0, <1>2, <2>1, RowOK DEF Beat, Lease
  <2>2. CASE ~Holds(r)
    BY <1>2, <2>2 DEF Beat, IInv, TypeOK, LostHoldsNothing, Holds
  <2> QED
    BY <2>1, <2>2
<1>3. ASSUME NEW r \in Runs, EndWork(r) \/ ReadForFinish(r) \/ FinishRefused(r) \/ Crash(r)
      PROVE  IInv'
  <2>1. \E s \in {"finishOk", "finishErr", "writeOk", "writeErr", "done", "crashed"} : Go(r, s)
    BY <1>3 DEF EndWork, ReadForFinish, FinishRefused, Crash
  <2>2. UNCHANGED <<lease, lost, late>>
    BY <1>3 DEF EndWork, ReadForFinish, FinishRefused, Crash
  <2>3. late' \in [Runs -> BOOLEAN]
    BY <1>0, <2>2 DEF TypeOK
  <2> QED
    BY <2>1, <2>2, <2>3, GoOK DEF Steps
<1>4. ASSUME NEW r \in Runs, WriteFinish(r) PROVE IInv'
  <2>1. Released(r) \in Lease /\ Released(r).token = lease.token /\ ~Released(r).running
    BY <1>0 DEF Released, Lease
  <2>2. lease' = Released(r) /\ run' = [run EXCEPT ![r] = "done"] /\ UNCHANGED <<lost, late>>
    BY <1>4 DEF WriteFinish, Go
  <2>3. /\ run' \in [Runs -> Steps]
        /\ \A q \in Runs : run'[q] = run[q] \/ run'[q] = "done"
    BY <1>0, <2>2 DEF Steps
  <2> QED
    BY <2>1, <2>2, <2>3, RowOK
<1>5. ASSUME NEW r \in Runs, MissBeats(r) PROVE IInv'
  BY <1>5 DEF MissBeats, IInv, TypeOK, LostHoldsNothing, Holds
<1>6. CASE HeartbeatAges \/ Watchdog \/ Reset
  BY <1>0, <1>6, RowOK DEF HeartbeatAges, Watchdog, Reset, Reclaimed, Lease
<1>7. CASE AllOver \/ UNCHANGED vars
  BY <1>7 DEF AllOver, vars, IInv, TypeOK, LostHoldsNothing, Holds
<1> QED
  BY <1>1, <1>2, <1>3, <1>4, <1>5, <1>6, <1>7 DEF Next, Work

(* The inductive invariant, for any number of runs and any faults. *)
THEOREM Invariance == Spec => []IInv
  BY InitOK, StepOK, PTL DEF Spec

(* The row keeps its types, and a running lease names a run that took it. *)
THEOREM LeaseHasAHolder == Spec => []TypeOK
<1>1. IInv => TypeOK
  BY DEF IInv
<1> QED
  BY <1>1, Invariance, PTL

(* A run that a beat turned away does not hold the lease                   *)
(* (status_sync.py:166-168).                                               *)
THEOREM LoserHoldsNothing == Spec => []LostHoldsNothing
<1>1. IInv => LostHoldsNothing
  BY DEF IInv
<1> QED
  BY <1>1, Invariance, PTL

(* A run that claimed and no longer holds the lease never holds it again   *)
(* (operations.md:194).                                                    *)
THEOREM LossCannotBeUndone == Spec => LossIsFinal
<1> DEFINE Final == \A r \in Runs :
             run[r] \notin {"idle", "skipped"} /\ ~Holds(r) => ~(Holds(r)')
<1>1. IInv /\ [Next]_vars => [Final]_vars
  <2> SUFFICES ASSUME IInv, Next, NEW r \in Runs,
                      run[r] \notin {"idle", "skipped"}, ~Holds(r)
               PROVE  ~(Holds(r)')
    OBVIOUS
  <2>0. lease \in Lease
    BY DEF IInv, TypeOK
  <2>1. ASSUME NEW q \in Runs, Claim(q) PROVE ~(Holds(r)')
    <3>1. q # r
      BY <2>1 DEF Claim
    <3> QED
      BY <2>0, <2>1, <3>1 DEF Claim, Take, Holds, Lease
  <2>2. ASSUME NEW q \in Runs, Beat(q) PROVE ~(Holds(r)')
    BY <2>0, <2>2 DEF Beat, Holds, Lease
  <2>3. ASSUME NEW q \in Runs, WriteFinish(q) PROVE ~(Holds(r)')
    BY <2>0, <2>3 DEF WriteFinish, Released, Holds, Lease
  <2>4. CASE HeartbeatAges \/ Watchdog \/ Reset
    BY <2>0, <2>4 DEF HeartbeatAges, Watchdog, Reset, Reclaimed, Holds, Lease
  <2>5. ASSUME NEW q \in Runs, EndWork(q) \/ ReadForFinish(q) \/ FinishRefused(q) \/ Crash(q)
                               \/ MissBeats(q)
        PROVE  ~(Holds(r)')
    BY <2>5 DEF EndWork, ReadForFinish, FinishRefused, Crash, MissBeats, Holds
  <2>6. CASE AllOver
    BY <2>6 DEF AllOver, vars, Holds
  <2> QED
    BY <2>1, <2>2, <2>3, <2>4, <2>5, <2>6 DEF Next, Work
<1> QED
  BY <1>1, Invariance, PTL DEF Spec, LossIsFinal
-----------------------------------------------------------------------------
(* A request that has not inserted its job has no row, and one that has    *)
(* not dispatched it has no worker.                                        *)
RowsFollowRequests ==
  /\ \A r \in Requests : request[r] \in {"idle", "insert"} => job[r].status = "none"
  /\ \A w \in Workers : request[w[1]] # "answered" => worker[w] = "none"

JobInv == JobTypeOK /\ OneActiveJob /\ RowsFollowRequests

(* Whoever works on a job does so for a request that is answered. *)
LEMMA WorkerOf ==
  ASSUME NEW w \in Workers
  PROVE  w[1] \in Requests /\ w[2] \in Places
  BY DEF Workers

(* A row that is closed, or started by a worker while it is active, keeps  *)
(* the invariant.                                                          *)
LEMMA JobRowOK ==
  ASSUME JobInv, NEW r \in Requests, NEW j \in Job, job' = [job EXCEPT ![r] = j],
         j.status \in Active => job[r].status \in Active,
         j.status \notin {"none", "queued"} \/ (j.status = job[r].status /\ j.owner = job[r].owner),
         request[r] \in {"idle", "insert"} => j.status = "none",
         request' = request, worker' \in [Workers -> WorkerSteps],
         \A w \in Workers : worker'[w] = worker[w] \/ request[w[1]] = "answered",
         ousted' \in [Workers -> BOOLEAN], silent' \in [Workers -> BOOLEAN]
  PROVE  JobInv'
<1>1. \A q \in Requests : job'[q] = IF q = r THEN j ELSE job[q]
  BY DEF JobInv, JobTypeOK
<1>2. JobTypeOK'
  BY <1>1 DEF JobInv, JobTypeOK
<1>3. OneActiveJob'
  BY <1>1 DEF JobInv, OneActiveJob
<1>4. RowsFollowRequests'
  BY <1>1 DEF JobInv, RowsFollowRequests
<1> QED
  BY <1>2, <1>3, <1>4 DEF JobInv

(* A step of a worker that leaves every row alone keeps the invariant. *)
LEMMA ProceedOK ==
  ASSUME JobInv, UNCHANGED <<request, job>>, worker' \in [Workers -> WorkerSteps],
         \A w \in Workers : worker'[w] = worker[w] \/ request[w[1]] = "answered",
         ousted' \in [Workers -> BOOLEAN], silent' \in [Workers -> BOOLEAN]
  PROVE  JobInv'
  BY DEF JobInv, JobTypeOK, OneActiveJob, RowsFollowRequests

(* At first there is no job. *)
LEMMA JobInitOK == JobInit => JobInv
  BY DEF JobInit, JobInv, JobTypeOK, OneActiveJob, RowsFollowRequests, Job, Active, Terminal,
         RequestSteps, WorkerSteps

(* The steps of a worker and of the watchdog. *)
LEMMA WorkOK ==
  ASSUME JobInv, NEW w \in Workers, Run(w) \/ WorkerDies(w) \/ FallSilent(w)
  PROVE  JobInv'
<1> DEFINE r == w[1]
<1>0. /\ r \in Requests /\ job \in [Requests -> Job] /\ job[r] \in Job
      /\ worker \in [Workers -> WorkerSteps] /\ w[2] \in Places
      /\ ousted \in [Workers -> BOOLEAN] /\ silent \in [Workers -> BOOLEAN]
  BY WorkerOf DEF JobInv, JobTypeOK
<1>1. worker[w] # "none" => request[r] = "answered"
  BY DEF JobInv, RowsFollowRequests
<1>a. ASSUME NEW s \in WorkerSteps, Proceed(w, s), worker[w] # "none"
      PROVE  /\ worker' \in [Workers -> WorkerSteps]
             /\ \A v \in Workers : worker'[v] = worker[v] \/ request[v[1]] = "answered"
  BY <1>0, <1>1, <1>a DEF Proceed
<1>b. ASSUME NEW j \in Job, job' = [job EXCEPT ![r] = j], j.status \in Active \cup Terminal,
             j.status \in Active => job[r].status \in Active, j.status # "queued",
             NEW s \in WorkerSteps, Proceed(w, s), worker[w] # "none",
             UNCHANGED <<request, ousted, silent>>
      PROVE  JobInv'
  <2>1. j.status \notin {"none", "queued"}
    BY <1>b DEF Active, Terminal
  <2> QED
    BY <1>0, <1>1, <1>a, <1>b, <2>1, JobRowOK
<1>2. CASE Start(w)
  <2>1. CASE job[r].status \in Active
    <3> DEFINE j == [status |-> "running", owner |-> w[2], stale |-> FALSE]
    <3>1. j \in Job
      BY <1>0 DEF Job, Active
    <3>2. job' = [job EXCEPT ![r] = j] /\ Proceed(w, "working") /\ worker[w] = "sent"
          /\ UNCHANGED <<request, ousted, silent>>
      BY <1>2, <2>1 DEF Start
    <3> QED
      BY <2>1, <3>1, <3>2, <1>b DEF Active, Terminal, WorkerSteps
  <2>2. CASE job[r].status \notin Active
    <3>1. Proceed(w, "done") /\ worker[w] = "sent" /\ UNCHANGED <<request, job, ousted, silent>>
      BY <1>2, <2>2 DEF Start
    <3> QED
      BY <1>0, <1>a, <3>1, ProceedOK DEF WorkerSteps
  <2> QED
    BY <2>1, <2>2
<1>3. CASE Persist(w)
  <2>1. CASE Owns(w)
    <3> DEFINE j == [job[r] EXCEPT !.stale = FALSE]
    <3>1. j \in Job /\ j.status = job[r].status /\ j.owner = job[r].owner
      BY <1>0 DEF Job
    <3>2. job' = [job EXCEPT ![r] = j] /\ UNCHANGED <<request, worker, ousted, silent>>
      BY <1>0, <1>3, <2>1 DEF Persist
    <3>3. request[r] \notin {"idle", "insert"}
      BY <1>1, <1>3 DEF Persist
    <3> HIDE DEF j
    <3> QED
      BY <1>0, <3>1, <3>2, <3>3, JobRowOK
  <2>2. CASE ~Owns(w)
    BY <1>0, <1>3, <2>2, ProceedOK DEF Persist
  <2> QED
    BY <2>1, <2>2
<1>4. CASE Succeed(w) \/ RecordFailure(w)
  <2>1. PICK status \in {"succeeded", "failed"} :
          job' = [job EXCEPT ![r].status = status, ![r].stale = FALSE]
    BY <1>4 DEF Succeed, RecordFailure
  <2> DEFINE j == [job[r] EXCEPT !.status = status, !.stale = FALSE]
  <2>2. j \in Job /\ j.status \in Terminal
    BY <1>0, <2>1 DEF Job, Terminal
  <2>3. job' = [job EXCEPT ![r] = j]
    BY <1>0, <2>1
  <2>4. Proceed(w, "done") /\ worker[w] # "none" /\ UNCHANGED <<request, ousted, silent>>
    BY <1>4 DEF Succeed, RecordFailure
  <2> HIDE DEF j
  <2> QED
    BY <2>2, <2>3, <2>4, <1>b DEF Active, Terminal, WorkerSteps
<1>5. CASE Raise(w) \/ WorkerDies(w)
  <2>1. /\ \E s \in {"failing", "done"} : Proceed(w, s)
        /\ worker[w] # "none" /\ UNCHANGED <<request, job, ousted, silent>>
    BY <1>5 DEF Raise, WorkerDies
  <2> QED
    BY <1>0, <1>a, <2>1, ProceedOK DEF WorkerSteps
<1>6. CASE FallSilent(w)
  BY <1>0, <1>6, ProceedOK DEF FallSilent
<1> QED
  BY <1>2, <1>3, <1>4, <1>5, <1>6 DEF Run

(* Every step keeps the invariant. *)
LEMMA JobStepOK == JobInv /\ [JobNext]_jobVars => JobInv'
<1> SUFFICES ASSUME JobInv, [JobNext]_jobVars PROVE JobInv'
  OBVIOUS
<1>0. /\ JobTypeOK /\ OneActiveJob /\ RowsFollowRequests /\ job \in [Requests -> Job]
      /\ request \in [Requests -> RequestSteps]
  BY DEF JobInv, JobTypeOK
<1>1. ASSUME NEW r \in Requests, Look(r) PROVE JobInv'
  <2>1. \A w \in Workers : request[w[1]] = "answered" => request'[w[1]] = "answered"
    BY <1>0, <1>1, WorkerOf DEF Look, Ask
  <2>2. CASE SomeActive
    BY <1>0, <1>1, <2>1, <2>2 DEF Look, Ask, JobInv, JobTypeOK, OneActiveJob, RowsFollowRequests,
                                  RequestSteps
  <2>3. CASE ~SomeActive
    BY <1>0, <1>1, <2>1, <2>3 DEF Look, Ask, JobInv, JobTypeOK, OneActiveJob, RowsFollowRequests,
                                  RequestSteps
  <2> QED
    BY <2>2, <2>3
<1>2. ASSUME NEW r \in Requests, Insert(r) PROVE JobInv'
  <2>1. request[r] = "insert" /\ UNCHANGED <<worker, ousted, silent>>
    BY <1>2 DEF Insert
  <2>2. CASE ScopeIsFree
    <3>1. request' = [request EXCEPT ![r] = "dispatch"] /\ job' = [job EXCEPT ![r].status = "queued"]
      BY <1>2, <2>2 DEF Insert, Ask
    <3>2. \A q \in Requests : /\ job'[q].status = IF q = r THEN "queued" ELSE job[q].status
                              /\ job'[q].owner = job[q].owner
      BY <1>0, <3>1 DEF Job
    <3>3. job' \in [Requests -> Job]
      BY <1>0, <3>1 DEF Job, Active
    <3>4. job[r].owner = "nobody"
      BY <1>0, <2>1 DEF RowsFollowRequests, JobTypeOK
    <3>5. JobTypeOK'
      BY <1>0, <2>1, <3>1, <3>2, <3>3, <3>4 DEF JobTypeOK, RequestSteps
    <3>6. OneActiveJob'
      BY <2>2, <3>2 DEF OneActiveJob, ScopeIsFree, SomeActive
    <3>7. RowsFollowRequests'
      BY <1>0, <2>1, <3>1, <3>2, WorkerOf DEF RowsFollowRequests
    <3> QED
      BY <3>5, <3>6, <3>7 DEF JobInv
  <2>3. CASE ~ScopeIsFree
    <3>1. request' = [request EXCEPT ![r] = "answered"] /\ job' = job
      BY <1>2, <2>3 DEF Insert, Ask
    <3> QED
      BY <1>0, <2>1, <3>1, WorkerOf DEF JobInv, JobTypeOK, OneActiveJob, RowsFollowRequests, RequestSteps
  <2> QED
    BY <2>2, <2>3
<1>3. ASSUME NEW r \in Requests, Dispatch(r) PROVE JobInv'
  <2>1. PICK sent \in SUBSET Places :
          worker' = [w \in Workers |-> IF w[1] = r /\ w[2] \in sent THEN "sent" ELSE worker[w]]
    BY <1>3 DEF Dispatch
  <2>2. /\ request[r] = "dispatch" /\ request' = [request EXCEPT ![r] = "answered"]
        /\ UNCHANGED <<job, ousted, silent>>
    BY <1>3 DEF Dispatch, Ask
  <2>3. worker' \in [Workers -> WorkerSteps]
    BY <1>0, <2>1 DEF JobTypeOK, WorkerSteps
  <2>4. \A w \in Workers : request'[w[1]] # "answered" => worker'[w] = "none"
    BY <1>0, <2>1, <2>2, WorkerOf DEF RowsFollowRequests
  <2> QED
    BY <1>0, <2>2, <2>3, <2>4 DEF JobInv, JobTypeOK, OneActiveJob, RowsFollowRequests, RequestSteps
<1>4. ASSUME NEW r \in Requests, JobAges(r) \/ ReclaimJob(r) PROVE JobInv'
  <2>1. PICK j \in Job : /\ job' = [job EXCEPT ![r] = j] /\ job[r].status \in Active
                         /\ j.owner = job[r].owner /\ j.status \in {job[r].status, "failed"}
    <3> DEFINE aged == [job[r] EXCEPT !.stale = TRUE]
               ended == [job[r] EXCEPT !.status = "failed", !.stale = FALSE]
    <3>1. /\ aged \in Job /\ aged.status = job[r].status /\ aged.owner = job[r].owner
          /\ ended \in Job /\ ended.status = "failed" /\ ended.owner = job[r].owner
      BY <1>0 DEF Job, Terminal
    <3>2. job[r].status \in Active /\ job' \in {[job EXCEPT ![r] = aged], [job EXCEPT ![r] = ended]}
      BY <1>0, <1>4 DEF JobAges, ReclaimJob, Watched
    <3> HIDE DEF aged, ended
    <3> QED
      BY <3>1, <3>2
  <2>2. UNCHANGED <<request, worker, ousted, silent>>
    BY <1>4 DEF JobAges, ReclaimJob
  <2>3. request[r] \notin {"idle", "insert"}
    BY <1>0, <2>1 DEF RowsFollowRequests, Active
  <2> QED
    BY <1>0, <2>1, <2>2, <2>3, JobRowOK DEF JobTypeOK, Active
<1>5. ASSUME NEW w \in Workers, Run(w) \/ WorkerDies(w) \/ FallSilent(w) PROVE JobInv'
  BY <1>5, WorkOK
<1>6. CASE AllAnswered \/ UNCHANGED jobVars
  BY <1>6 DEF AllAnswered, jobVars, JobInv, JobTypeOK, OneActiveJob, RowsFollowRequests
<1> QED
  BY <1>1, <1>2, <1>3, <1>4, <1>5, <1>6 DEF JobNext

(* The inductive invariant, for any number of requests and any faults. *)
THEOREM JobInvariance == JobSpec => []JobInv
  BY JobInitOK, JobStepOK, PTL DEF JobSpec

(* The rows keep their values, and a job nobody started has no owner. *)
THEOREM JobsAreWellFormed == JobSpec => []JobTypeOK
<1>1. JobInv => JobTypeOK
  BY DEF JobInv
<1> QED
  BY <1>1, JobInvariance, PTL

(* However the requests of one scope race, one job of it is active         *)
(* (ix_sync_jobs_active_scope).                                            *)
THEOREM ScopeHasOneActiveJob == JobSpec => []OneActiveJob
<1>1. JobInv => OneActiveJob
  BY DEF JobInv
<1> QED
  BY <1>1, JobInvariance, PTL

(* A job that ended is never active again, whatever task or beat of it is  *)
(* still on its way.                                                       *)
THEOREM EndIsFinal == JobSpec => EndedStaysEnded
<1> DEFINE Ended == \A r \in Requests : job[r].status \in Terminal => job'[r].status \in Terminal
<1>1. JobInv /\ [JobNext]_jobVars => [Ended]_jobVars
  <2> SUFFICES ASSUME JobInv, JobNext, NEW r \in Requests, job[r].status \in Terminal
               PROVE  job'[r].status \in Terminal
    OBVIOUS
  <2>0. /\ job \in [Requests -> Job] /\ job[r].status \notin Active \cup {"none"}
        /\ request[r] \notin {"idle", "insert"}
    BY DEF JobInv, JobTypeOK, RowsFollowRequests, Active, Terminal
  <2>1. ASSUME NEW q \in Requests,
               Look(q) \/ Insert(q) \/ Dispatch(q) \/ JobAges(q) \/ ReclaimJob(q)
        PROVE  job'[r].status \in Terminal
    <3>1. CASE Insert(q)
      <4>1. q # r
        BY <2>0, <3>1 DEF Insert
      <4> QED
        BY <2>0, <3>1, <4>1 DEF Insert
    <3>2. CASE JobAges(q) \/ ReclaimJob(q)
      <4>1. job[q].status \in Active
        BY <3>2 DEF JobAges, ReclaimJob, Watched
      <4>2. q # r
        BY <2>0, <4>1
      <4> QED
        BY <2>0, <3>2, <4>2 DEF JobAges, ReclaimJob
    <3>3. CASE Look(q) \/ Dispatch(q)
      BY <3>3 DEF Look, Dispatch
    <3> QED
      BY <2>1, <3>1, <3>2, <3>3
  <2>2. ASSUME NEW w \in Workers, Run(w) \/ WorkerDies(w) \/ FallSilent(w)
        PROVE  job'[r].status \in Terminal
    <3>0. w[1] \in Requests
      BY WorkerOf
    <3>1. CASE Start(w)
      <4>1. job' = job \/ (w[1] # r /\ \A q \in Requests \ {w[1]} : job'[q] = job[q])
        BY <2>0, <3>0, <3>1 DEF Start
      <4> QED
        BY <4>1
    <3>2. CASE Persist(w)
      BY <2>0, <3>0, <3>2 DEF Persist, Job
    <3>3. CASE Succeed(w) \/ RecordFailure(w)
      BY <2>0, <3>0, <3>3 DEF Succeed, RecordFailure, Job, Terminal
    <3>4. CASE Raise(w) \/ WorkerDies(w) \/ FallSilent(w)
      BY <3>4 DEF Raise, WorkerDies, FallSilent
    <3> QED
      BY <2>2, <3>1, <3>2, <3>3, <3>4 DEF Run
  <2>3. CASE AllAnswered
    BY <2>3 DEF AllAnswered, jobVars
  <2> QED
    BY <2>1, <2>2, <2>3 DEF JobNext
<1> QED
  BY <1>1, JobInvariance, PTL DEF JobSpec, EndedStaysEnded
=============================================================================
