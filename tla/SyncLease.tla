------------------------------ MODULE SyncLease ------------------------------
(***************************************************************************)
(* The lease that keeps the scheduled status syncs of one platform apart   *)
(* (PlatformSyncState, src/app/application/status_sync.py).  A run is one  *)
(* Celery task; its run_token is the run itself.  Claim and watchdog lock  *)
(* the row; the end of a run reads it and writes it back in two steps.     *)
(* The only heartbeat kept is whether it is older than the stale window.   *)
(* A beat writes nothing else, so reading and writing it is one step.      *)
(***************************************************************************)

CONSTANTS
  Runs,    \* the scheduled runs of the platform
  NoRun,   \* run_token or last_result is NULL
  Faults   \* what goes wrong: late beats, crashes, the DB refusing a finish, an Admin's reset

ASSUME SyncLeaseAssumption ==
  /\ NoRun \notin Runs
  /\ Faults \subseteq {"late", "crash", "db", "reset"}

VARIABLES
  lease,  \* the row of the platform
  run,    \* where each run is
  lost,   \* _lease_lost: a beat of the run did not find its token
  late    \* beats of the run may stay out for longer than the stale window

vars == <<lease, run, lost, late>>

(* The two ways to finish: with the result, or with an error. *)
Steps == {"idle", "skipped", "working", "finishOk", "finishErr", "writeOk", "writeErr",
          "done", "crashed"}
Lease == [running : BOOLEAN, token : Runs \cup {NoRun}, stale : BOOLEAN,
          result : Runs \cup {NoRun}]

Init ==
  /\ lease = [running |-> FALSE, token |-> NoRun, stale |-> FALSE, result |-> NoRun]
  /\ run = [r \in Runs |-> "idle"]
  /\ lost = [r \in Runs |-> FALSE]
  /\ late = [r \in Runs |-> FALSE]

(* What a beat and the end of a run look for. *)
Holds(r) == lease.running /\ lease.token = r

Go(r, step) == run' = [run EXCEPT ![r] = step]
-----------------------------------------------------------------------------
(* _claim_platform_sync_lease: a lease with a fresh heartbeat is left alone. *)
Take(r) ==
  IF lease.running /\ ~lease.stale
  THEN Go(r, "skipped") /\ UNCHANGED lease
  ELSE /\ lease' = [lease EXCEPT !.running = TRUE, !.token = r, !.stale = FALSE]
       /\ Go(r, "working")

Claim(r) == run[r] = "idle" /\ Take(r) /\ UNCHANGED <<lost, late>>

Bug_BeatUpserts(r) ==
  /\ run[r] = "working" /\ ~lost[r]
  /\ lease' = [lease EXCEPT !.running = TRUE, !.token = r, !.stale = FALSE]
  /\ UNCHANGED <<run, lost, late>>

(* _persist_heartbeat: no beat follows one that did not find its token. A  *)
(* beat the database refuses changes nothing and is not a loss.            *)
Beat(r) ==
  /\ run[r] = "working" /\ ~lost[r]
  /\ IF Holds(r)
     THEN lease' = [lease EXCEPT !.stale = FALSE] /\ UNCHANGED lost
     ELSE lost' = [lost EXCEPT ![r] = TRUE] /\ UNCHANGED lease
  /\ UNCHANGED <<run, late>>

(* The work is over, well or not.  A lost lease is noticed only when the   *)
(* work reports progress, so a run may lose it and still end well.  The    *)
(* beats stop here.                                                        *)
EndWork(r) ==
  /\ run[r] = "working"
  /\ \E step \in {"finishOk", "finishErr"} : Go(r, step)
  /\ UNCHANGED <<lease, lost, late>>

(* _finish_platform_sync_lease, which reads the row without a lock ... *)
ReadForFinish(r) ==
  /\ run[r] \in {"finishOk", "finishErr"}
  /\ Go(r, CASE ~Holds(r) -> "done"
             [] Holds(r) /\ run[r] = "finishOk" -> "writeOk"
             [] OTHER -> "writeErr")
  /\ UNCHANGED <<lease, lost, late>>

Released(r) ==
  [lease EXCEPT !.running = FALSE, !.stale = FALSE,
                !.result = IF run[r] = "writeOk" THEN r ELSE @]

(* ... and writes the columns it changed, by primary key. *)
WriteFinish(r) ==
  /\ run[r] \in {"writeOk", "writeErr"}
  /\ lease' = Released(r)
  /\ Go(r, "done")
  /\ UNCHANGED <<lost, late>>

(* A finish the database refuses is made again as an error, and that one  *)
(* is given up: the lease stays taken.                                    *)
FinishRefused(r) ==
  /\ "db" \in Faults
  /\ \/ run[r] \in {"finishOk", "writeOk"} /\ Go(r, "finishErr")
     \/ run[r] \in {"finishErr", "writeErr"} /\ Go(r, "done")
  /\ UNCHANGED <<lease, lost, late>>

Crash(r) ==
  /\ "crash" \in Faults
  /\ run[r] \in {"working", "finishOk", "finishErr", "writeOk", "writeErr"}
  /\ Go(r, "crashed")
  /\ UNCHANGED <<lease, lost, late>>

(* A pause longer than the stale window: the database refuses the beats,  *)
(* or the process is suspended.                                           *)
MissBeats(r) ==
  /\ "late" \in Faults
  /\ run[r] \notin {"idle", "skipped", "done", "crashed"} /\ ~late[r]
  /\ late' = [late EXCEPT ![r] = TRUE]
  /\ UNCHANGED <<lease, run, lost>>
-----------------------------------------------------------------------------
(* The stale window passes without a beat of the holder. *)
HeartbeatAges ==
  /\ lease.running /\ ~lease.stale
  /\ \E r \in Runs : lease.token = r /\ (late[r] \/ run[r] \in {"done", "crashed"})
  /\ lease' = [lease EXCEPT !.stale = TRUE]
  /\ UNCHANGED <<run, lost, late>>

Bug_OnlyLogs == lease

Reclaimed == [lease EXCEPT !.running = FALSE, !.stale = FALSE]

(* reclaim_stale_platform_sync_leases, every minute. *)
Watchdog ==
  /\ lease.running /\ lease.stale
  /\ lease' = Reclaimed
  /\ UNCHANGED <<run, lost, late>>

(* The Admin's endpoint "force reset the is_running lock if stuck". *)
Reset ==
  /\ "reset" \in Faults
  /\ lease.running
  /\ lease' = Reclaimed
  /\ UNCHANGED <<run, lost, late>>

Work(r) == Beat(r) \/ EndWork(r) \/ ReadForFinish(r) \/ WriteFinish(r)

AllOver ==
  /\ \A r \in Runs : run[r] \in {"skipped", "done", "crashed"}
  /\ ~lease.running
  /\ UNCHANGED vars

Next ==
  \/ \E r \in Runs : Claim(r) \/ Work(r) \/ FinishRefused(r) \/ Crash(r) \/ MissBeats(r)
  \/ HeartbeatAges \/ Watchdog \/ Reset
  \/ AllOver

Spec == Init /\ [][Next]_vars

(* Celery beat runs the watchdog, time passes, and a run that is alive     *)
(* goes on beating.                                                        *)
FairSpec ==
  /\ Spec
  /\ WF_vars(Watchdog) /\ WF_vars(HeartbeatAges)
  /\ \A r \in Runs : WF_vars(Beat(r)) /\ WF_vars(ReadForFinish(r) \/ WriteFinish(r))
-----------------------------------------------------------------------------
(* The columns keep their values, a running lease has a token, and that    *)
(* token was given to a run by its claim.                                  *)
TypeOK ==
  /\ lease \in Lease
  /\ run \in [Runs -> Steps]
  /\ lost \in [Runs -> BOOLEAN] /\ late \in [Runs -> BOOLEAN]
  /\ lease.running => lease.token \in Runs /\ run[lease.token] \notin {"idle", "skipped"}

(* A run that lost its lease never holds one again (run_token, "lease of   *)
(* the run", operations.md:194): a late beat or finish cannot revive it.   *)
LossIsFinal ==
  [][\A r \in Runs : run[r] \notin {"idle", "skipped"} /\ ~Holds(r) => ~Holds(r)']_vars

(* A run that was told it lost its lease holds none: a beat is only ever   *)
(* turned away when "another worker reclaimed this run"                    *)
(* (status_sync.py:168) or the run was closed, never a holder.             *)
LostHoldsNothing == \A r \in Runs : lost[r] => ~Holds(r)

(* A lease whose run died, or could not give it back, is freed by the      *)
(* watchdog (reclaim_stale_platform_sync_leases).                          *)
AbandonedLeaseIsFreed ==
  \A r \in Runs : Holds(r) /\ run[r] \in {"done", "crashed"} ~> ~Holds(r)

(* A run whose lease was reclaimed finds out, and gets no further than the *)
(* next report of its progress.                                            *)
ReclaimedRunFindsOut ==
  \A r \in Runs : run[r] = "working" /\ ~Holds(r) ~> lost[r] \/ run[r] # "working"
=============================================================================
