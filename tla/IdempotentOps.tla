---------------------------- MODULE IdempotentOps ----------------------------
(***************************************************************************)
(* run_idempotent (src/app/application/operations.py): several requests    *)
(* carry the same idempotency key, and each runs the command fn, answers   *)
(* with the stored result, or is turned away.  What fn writes is pending   *)
(* in the caller's session and is committed with the row of the operation. *)
(* The result of fn is the caller it ran for.                              *)
(***************************************************************************)
EXTENDS Naturals, FiniteSets

CONSTANTS
  Callers,   \* the requests with this key
  NoCaller,  \* the result is NULL
  Faults     \* what goes wrong: fn raises, runs past PENDING_LEASE, the process dies

ASSUME IdempotentOpsAssumption ==
  /\ NoCaller \notin Callers
  /\ Faults \subseteq {"raise", "slow", "crash"}

VARIABLES
  op,       \* the row of the operation
  step,     \* where each caller is
  answer,   \* what each caller was answered
  effects,  \* the callers whose fn's writes are committed
  calm      \* history: no fn has raised, died or outlived its lease

vars == <<op, step, answer, effects, calm>>

Steps == {"idle", "insert", "retry", "renew", "running", "done"}
Op == [status : {"none", "pending", "failed", "completed"}, expired : BOOLEAN,
       result : Callers \cup {NoCaller}]

Init ==
  /\ op = [status |-> "none", expired |-> FALSE, result |-> NoCaller]
  /\ step = [c \in Callers |-> "idle"]
  /\ answer = [c \in Callers |-> NoCaller]
  /\ effects = {}
  /\ calm = TRUE

Go(c, s) == step' = [step EXCEPT ![c] = s]

Claimed == [op EXCEPT !.status = "pending", !.expired = FALSE]

(* What a caller does with the row it has read: a completed operation      *)
(* answers with its result, a pending one turns the caller away unless its *)
(* lease is over, and a failed one is tried again.                         *)
Decide(c) ==
  \/ /\ op.status = "completed"
     /\ answer' = [answer EXCEPT ![c] = op.result]
     /\ Go(c, "done")
  \/ /\ op.status = "pending" /\ ~op.expired
     /\ Go(c, "done") /\ UNCHANGED answer
  \/ op.status = "failed" /\ Go(c, "retry") /\ UNCHANGED answer
  \/ op.status = "pending" /\ op.expired /\ Go(c, "renew") /\ UNCHANGED answer

Look(c) ==
  /\ step[c] = "idle"
  /\ IF op.status = "none" THEN Go(c, "insert") /\ UNCHANGED answer ELSE Decide(c)
  /\ UNCHANGED <<op, effects, calm>>

Bug_NoUniqueKey(c) ==
  /\ step[c] = "insert"
  /\ op' = Claimed /\ Go(c, "running")
  /\ UNCHANGED <<answer, effects, calm>>

(* The key is unique: the loser of a race goes by the winner's row. *)
Insert(c) ==
  /\ step[c] = "insert"
  /\ IF op.status = "none"
     THEN op' = Claimed /\ Go(c, "running") /\ UNCHANGED answer
     ELSE Decide(c) /\ UNCHANGED op
  /\ UNCHANGED <<effects, calm>>

(* The row that was read is saved without a lock.  A failed one becomes    *)
(* pending again; of a pending one only the lease is renewed, since its    *)
(* status has not changed for the session.                                 *)
Reclaim(c) ==
  /\ \/ step[c] = "retry" /\ op' = Claimed
     \/ step[c] = "renew" /\ op' = [op EXCEPT !.expired = FALSE]
  /\ Go(c, "running")
  /\ UNCHANGED <<answer, effects, calm>>

Bug_CompletesBeforeRunning(c) ==
  /\ step[c] = "running"
  /\ op' = [op EXCEPT !.status = "completed", !.result = c]
  /\ \/ effects' = effects \cup {c} /\ answer' = [answer EXCEPT ![c] = c]
     \/ UNCHANGED <<effects, answer>>
  /\ Go(c, "done")
  /\ UNCHANGED calm

(* fn returns: its writes and the result are committed together. *)
Complete(c) ==
  /\ step[c] = "running"
  /\ op' = [op EXCEPT !.status = "completed", !.result = c]
  /\ effects' = effects \cup {c}
  /\ answer' = [answer EXCEPT ![c] = c]
  /\ Go(c, "done")
  /\ UNCHANGED calm

(* fn raises: what it had written is rolled back only when the session is  *)
(* no longer active, and committed with the status otherwise.              *)
Raise(c) ==
  /\ "raise" \in Faults
  /\ step[c] = "running"
  /\ op' = [op EXCEPT !.status = "failed"]
  /\ effects' \in {effects, effects \cup {c}}
  /\ calm' = FALSE
  /\ Go(c, "done")
  /\ UNCHANGED answer

Crash(c) ==
  /\ "crash" \in Faults
  /\ step[c] = "running"
  /\ calm' = FALSE
  /\ Go(c, "done")
  /\ UNCHANGED <<op, answer, effects>>

(* PENDING_LEASE passes: fn takes longer, or its process is gone. *)
LeaseExpires ==
  /\ op.status = "pending" /\ ~op.expired
  /\ "slow" \in Faults \/ \A c \in Callers : step[c] # "running"
  /\ op' = [op EXCEPT !.expired = TRUE]
  /\ calm' = FALSE
  /\ UNCHANGED <<step, answer, effects>>

AllOver == (\A c \in Callers : step[c] = "done") /\ UNCHANGED vars

Next ==
  \/ \E c \in Callers : Look(c) \/ Insert(c) \/ Reclaim(c) \/ Complete(c) \/ Raise(c) \/ Crash(c)
  \/ LeaseExpires
  \/ AllOver

Spec == Init /\ [][Next]_vars
-----------------------------------------------------------------------------
(* The columns keep their values; a completed operation has a result and   *)
(* an unclaimed one has none.                                              *)
TypeOK ==
  /\ op.status = "completed" => op.result # NoCaller
  /\ op \in Op
  /\ step \in [Callers -> Steps]
  /\ answer \in [Callers -> Callers \cup {NoCaller}]
  /\ effects \subseteq Callers /\ calm \in BOOLEAN

(* Whatever fails, is slow or dies: an answer the API gave, and the result *)
(* it would replay, stand on writes that are committed                     *)
(* (status, result and writes share one commit, operations.py:119-121).    *)
AnswersStand ==
  /\ \A c \in Callers : answer[c] # NoCaller => answer[c] \in effects
  /\ op.status = "completed" => op.result \in effects

(* However many requests race with the same key, fn takes effect once and  *)
(* everyone answered is answered the same, for as long as no fn has        *)
(* raised, died or outlived its lease (after that two callers may run it). *)
EffectOnce ==
  calm => /\ \A c, d \in effects : c = d
          /\ \A c, d \in Callers :
               {answer[c], answer[d]} \subseteq Callers => answer[c] = answer[d]
=============================================================================
