------------------------------ MODULE FixReview ------------------------------
(***************************************************************************)
(* One order going between Tacahu and Printerval around Review and Fix:    *)
(* the web and Telegram commands that move it, the Celery tasks that push  *)
(* the move to Printerval (one at a time: the assignment queue runs with   *)
(* --pool=solo), the status syncs that read Printerval and apply what they *)
(* read later, and Printerval's QC, which is external.                     *)
(*                                                                         *)
(* The 1 to 3 mockups of one submission are one image, named by the number *)
(* of the submission.  A task is a slot; its retries stay in the slot.     *)
(***************************************************************************)
EXTENDS FixDispute, OrderStates, FiniteSets

CONSTANTS
  NumSlots,     \* tasks the assignment queue holds at once
  MaxImages,    \* submissions of the order
  MaxRounds,    \* Fix rounds QC opens
  MaxCount,     \* bound on fix_return_count
  MaxRetries,   \* len(REVIEW_SYNC_RETRY_DELAYS)
  Syncs,        \* which of the two status syncs run
  Features      \* the optional parts of the environment that are on

FeatureNames ==
  {"dispute", "template", "paid", "patch", "start", "no_image", "expire", "crash"}

ASSUME FixReviewAssumption ==
  /\ NumSlots \in Nat /\ MaxImages \in Nat /\ MaxRounds \in Nat
  /\ MaxCount \in Nat /\ MaxRetries \in Nat
  /\ Syncs \subseteq {"active", "selected"}
  /\ Features \subseteq FeatureNames

VARIABLES
  order,     \* the row of the order, as committed
  attached,  \* submissions so far: images 1..attached carry attached_at
  pushed,    \* images whose pushed_at is committed
  failed,    \* submissions whose push left a DeadLetter for the Admins
  questions, \* open template_confirm DeadLetters, by submission
  released,  \* history: an Admin released the Fix the order is in
  tasks,     \* the assignment queue and its worker
  dirty,     \* the order was saved since the running dispute task loaded it
  syncs,     \* per status sync: the row it has read and not applied yet
  job        \* external: the job on Printerval

images == <<attached, pushed>>
alerts == <<failed, questions>>
vars   == <<order, images, alerts, released, tasks, dirty, syncs, job>>

Slots  == 1..NumSlots
Images == 1..MaxImages

JobStatus   == {"doing", "review", "fix", "confirm"}
Arbitration == {"none", "pending", "rejected", "accepted"}
Row == [status : JobStatus, dispute : Arbitration, can : BOOLEAN]

Order ==
  [state    : {"WAITING", "IN_PROGRESS", "QC_PENDING", "REVISION", "DONE"},
   since    : [fresh : BOOLEAN, opened : BOOLEAN, outlived : BOOLEAN],
   count    : 0..MaxCount,
   approved : BOOLEAN,
   rejected : BOOLEAN,
   paid     : BOOLEAN,
   pstat    : JobStatus,
   dispute  : [round : 0..MaxCount, push : {"none", "queued", "sent", "failed"},
               remote : Arbitration, can : BOOLEAN, outcome : Arbitration]]

Job == [status : JobStatus, dispute : Arbitration, round : 0..MaxRounds, asks : BOOLEAN,
        filed : 0..2, stored : [Images -> 0..2]]

PushSteps    == {"images", "stored", "status", "sending", "recording"}
DisputeSteps == {"filing", "saving", "refused"}
Task ==
  [pc : {"free", "push", "dispute"} \cup PushSteps \cup DisputeSteps,
   expState    : {"QC_PENDING", "DONE"},    \* expected_state
   expApproved : {"yes", "no", "any"},      \* expected_fix_approved
   answers     : BOOLEAN,                   \* template_confirm is sent along
   sub         : 0..MaxImages,              \* the submission it is for
   retries     : 0..MaxRetries,
   todo        : SUBSET Images,             \* images_to_push, as read
   row         : Row]                       \* the job, as a dispute task read it

NoRow == [status |-> "doing", dispute |-> "none", can |-> FALSE]
Free  == [pc |-> "free", expState |-> "QC_PENDING", expApproved |-> "any",
          answers |-> FALSE, sub |-> 0, retries |-> 0, todo |-> {}, row |-> NoRow]

Init ==
  /\ order = [state |-> "WAITING", since |-> Now, count |-> 0, approved |-> FALSE,
              rejected |-> FALSE, paid |-> FALSE, pstat |-> "doing",
              dispute |-> NoDispute]
  /\ attached = 0 /\ pushed = {} /\ failed = {} /\ questions = {}
  /\ released = FALSE
  /\ tasks = [s \in Slots |-> Free]
  /\ dirty = FALSE
  /\ syncs = [y \in Syncs |-> {}]
  /\ job = [status |-> "doing", dispute |-> "none", round |-> 0, asks |-> FALSE,
            filed |-> 0, stored |-> [i \in Images |-> 0]]
-----------------------------------------------------------------------------
(* Committing the order raises its version, which a dispute task that has  *)
(* loaded it will notice.                                                  *)
Save(o) ==
  /\ order' = o
  /\ dirty' = ((dirty \/ o # order) /\ \E s \in Slots : tasks[s].pc \in DisputeSteps)

(* Entering Fix in any other way than ApproveFix is not a release. *)
Commit(o) ==
  /\ Save(o)
  /\ released' = (released /\ ~(o.state = "REVISION" /\ order.state # "REVISION"))

(* delay() puts a task in the queue.  The callers only log a broker that   *)
(* does not take it: with "crash" it may be lost.                          *)
Enqueue(t) ==
  \/ \E s \in Slots :
       /\ tasks[s].pc = "free"
       /\ \A r \in Slots : r < s => tasks[r].pc # "free"
       /\ tasks' = [tasks EXCEPT ![s] = t]
  \/ "crash" \in Features /\ UNCHANGED tasks

PushTask(state, approved, answers, sub) ==
  [Free EXCEPT !.pc = "push", !.expState = state, !.expApproved = approved,
               !.answers = answers, !.sub = sub]

IsFixResubmission == order.count > 0 \/ order.state = "REVISION" \/ order.approved

(* Only a Designer of the standard board resubmits a submitted order. *)
MaySubmit ==
  \/ order.state \in {"WAITING", "IN_PROGRESS"}
  \/ order.state = "REVISION" /\ order.approved
  \/ order.state \in {"QC_PENDING", "DONE"} /\ order.pstat # "confirm"

SubmitTarget == IF IsFixResubmission /\ order.paid THEN "DONE" ELSE "QC_PENDING"

(* submit_result and the push its route queues. *)
SubmitResult ==
  /\ MaySubmit /\ CanMove(order.state, SubmitTarget)
  /\ attached < MaxImages
  /\ attached' = attached + 1
  /\ Commit(MoveTo(order, SubmitTarget))
  /\ Enqueue(PushTask(SubmitTarget, IF IsFixResubmission THEN "yes" ELSE "no", FALSE,
                      attached + 1))
  /\ UNCHANGED <<pushed, alerts, syncs, job>>

(* The images are checked last: the request is refused, but run_idempotent *)
(* commits what the session already holds along with the failed operation. *)
SubmitWithoutImage ==
  /\ "no_image" \in Features
  /\ MaySubmit /\ CanMove(order.state, SubmitTarget)
  /\ Commit(MoveTo(order, SubmitTarget))
  /\ UNCHANGED <<images, alerts, tasks, syncs, job>>

(* start_task: the Trello board takes the order before working on it. *)
StartTask ==
  /\ "start" \in Features
  /\ \/ order.state \in {"WAITING", "IN_PROGRESS"}
     \/ order.state = "REVISION" /\ order.approved
  /\ Commit(MoveTo(order, "IN_PROGRESS"))
  /\ UNCHANGED <<images, alerts, tasks, syncs, job>>

(* PATCH /orders/{id}/state by an Admin, who may name any state. *)
PatchState ==
  /\ "patch" \in Features
  /\ \/ /\ attached < MaxImages
        /\ Commit([MoveTo(order, "QC_PENDING") EXCEPT !.approved = FALSE, !.rejected = FALSE])
        /\ attached' = attached + 1
        /\ Enqueue(PushTask("QC_PENDING", "any", FALSE, attached + 1))
     \/ /\ Commit([MoveTo(order, "REVISION") EXCEPT !.approved = FALSE, !.rejected = FALSE])
        /\ UNCHANGED <<attached, tasks>>
     \/ /\ \E state \in {"WAITING", "IN_PROGRESS", "DONE"} : Commit(MoveTo(order, state))
        /\ UNCHANGED <<attached, tasks>>
  /\ UNCHANGED <<pushed, alerts, syncs, job>>

(* approve-fix on the web; the Telegram conversation also clears the       *)
(* rejection.  Neither looks at the state the order is in.                 *)
ApproveFix ==
  /\ \E rejected \in {FALSE, order.rejected} :
       Save([MoveTo(order, "REVISION") EXCEPT !.approved = TRUE, !.rejected = rejected])
  /\ released' = TRUE
  /\ UNCHANGED <<images, alerts, tasks, syncs, job>>

SubmitDispute ==
  /\ "dispute" \in Features
  /\ MayDispute(order)
  /\ Commit(WithNewDispute(order))
  /\ Enqueue([Free EXCEPT !.pc = "dispute"])
  /\ UNCHANGED <<images, alerts, syncs, job>>

(* retry: a dispute whose sending failed is queued again, unchanged. *)
RetryDispute ==
  /\ "dispute" \in Features
  /\ IsCurrent(order) /\ order.dispute.push = "failed" /\ order.state = "REVISION"
  /\ Commit(WithPush(order, "queued"))
  /\ Enqueue([Free EXCEPT !.pc = "dispute"])
  /\ UNCHANGED <<images, alerts, syncs, job>>

(* confirm_fix_template and the push its route queues; the alert is the    *)
(* newest one that is open.                                                *)
ConfirmTemplate ==
  /\ order.state \in {"QC_PENDING", "REVISION"}
  /\ \E q \in questions :
       /\ \A r \in questions : r <= q
       /\ Enqueue(PushTask("QC_PENDING", "any", TRUE, q))
  /\ Commit([MoveTo(order, "QC_PENDING") EXCEPT
               !.approved = order.approved /\ order.state = "QC_PENDING"])
  /\ UNCHANGED <<images, alerts, syncs, job>>

(* pay_orders closes the order in Tacahu. *)
Pay ==
  /\ "paid" \in Features /\ ~order.paid
  /\ LET o == [order EXCEPT !.paid = TRUE]
     IN Commit(IF order.state = "DONE" THEN o ELSE MoveTo(o, "DONE"))
  /\ UNCHANGED <<images, alerts, tasks, syncs, job>>
-----------------------------------------------------------------------------
(* The worker: sync_order_review_to_printerval_task and _push_review.      *)

WorkerIdle == \A s \in Slots : tasks[s].pc \in {"free", "push", "dispute"}

IsStillExpected(t) ==
  /\ order.state = t.expState
  /\ t.expApproved # "any" => order.approved = (t.expApproved = "yes")

Bug_GivesUpSilently(s) == failed

(* _review_sync_gave_up: the failure is recorded for the Admins. *)
Alerted(s) == failed \cup {tasks[s].sub}

(* is_still_expected reloads the order.  A task whose order moved on ends, *)
(* and says so only when an attempt had failed before.                     *)
CheckThen(s, next) ==
  IF IsStillExpected(tasks[s])
  THEN tasks' = [tasks EXCEPT ![s] = next] /\ UNCHANGED failed
  ELSE /\ tasks' = [tasks EXCEPT ![s] = Free]
       /\ failed' = IF tasks[s].retries = 0 THEN failed ELSE Alerted(s)

Bug_NewestImageOnly == {attached} \ pushed

ImagesToPush == 1..attached \ pushed

StartPush(s) ==
  /\ tasks[s].pc = "push" /\ WorkerIdle
  /\ CheckThen(s, [tasks[s] EXCEPT !.pc = "images", !.todo = ImagesToPush])
  /\ UNCHANGED <<order, images, questions, released, dirty, syncs, job>>

(* One turn of the upload loop: the image is on Printerval ... *)
StoreImage(s) ==
  /\ tasks[s].pc = "images"
  /\ \E i \in tasks[s].todo :
       /\ \A j \in tasks[s].todo : i <= j
       /\ job.stored[i] < 2
       /\ job' = [job EXCEPT !.stored[i] = @ + 1]
  /\ tasks' = [tasks EXCEPT ![s].pc = "stored"]
  /\ UNCHANGED <<order, images, alerts, released, dirty, syncs>>

(* ... and then pushed_at is committed. *)
CommitImage(s) ==
  /\ tasks[s].pc = "stored"
  /\ \E i \in tasks[s].todo :
       /\ \A j \in tasks[s].todo : i <= j
       /\ pushed' = pushed \cup {i}
       /\ tasks' = [tasks EXCEPT ![s].pc = "images", ![s].todo = @ \ {i}]
  /\ UNCHANGED <<order, attached, alerts, released, dirty, syncs, job>>

(* Every image is up: the last check before the status is sent. *)
CheckStatus(s) ==
  /\ tasks[s].pc = "images" /\ tasks[s].todo = {}
  /\ CheckThen(s, [tasks[s] EXCEPT !.pc = "sending"])
  /\ UNCHANGED <<order, images, questions, released, dirty, syncs, job>>

(* Printerval takes the job to Review when a mockup is stored and the      *)
(* template question of its Fix is answered.                               *)
Accepts(t) ==
  /\ job.status # "confirm"
  /\ \E i \in Images : job.stored[i] > 0
  /\ job.status = "fix" /\ job.asks => t.answers

SendReview(s) ==
  /\ tasks[s].pc = "sending"
  /\ Accepts(tasks[s])
  /\ job' = [job EXCEPT !.status = "review", !.asks = FALSE]
  /\ tasks' = [tasks EXCEPT ![s].pc = "recording"]
  /\ UNCHANGED <<order, images, alerts, released, dirty, syncs>>

(* A template_confirm refusal is never retried: it asks an Admin. *)
RefuseForTemplate(s) ==
  /\ tasks[s].pc = "sending"
  /\ job.status = "fix" /\ job.asks /\ ~tasks[s].answers
  /\ questions' = questions \cup {tasks[s].sub}
  /\ tasks' = [tasks EXCEPT ![s] = Free]
  /\ UNCHANGED <<order, images, failed, released, dirty, syncs, job>>

(* The order is refreshed under a row lock, so nothing saved meanwhile is  *)
(* lost, and the alert an answer belongs to is resolved.                   *)
RecordReview(s) ==
  /\ tasks[s].pc = "recording"
  /\ Commit([order EXCEPT !.pstat = "review"])
  /\ questions' = IF tasks[s].answers THEN questions \ {tasks[s].sub} ELSE questions
  /\ tasks' = [tasks EXCEPT ![s] = Free]
  /\ UNCHANGED <<images, failed, syncs, job>>

(* Any call may fail, whether or not Printerval did what it was asked; the *)
(* attempt is made again, or given up on (at once when it is not           *)
(* retryable: cookie rejected, image file gone).                           *)
FailPush(s) ==
  /\ tasks[s].pc \in PushSteps
  /\ \/ /\ tasks[s].retries < MaxRetries
        /\ tasks' = [tasks EXCEPT ![s] = [tasks[s] EXCEPT !.pc = "push", !.retries = @ + 1,
                                                          !.todo = {}]]
        /\ UNCHANGED failed
     \/ /\ tasks' = [tasks EXCEPT ![s] = Free]
        /\ failed' = Alerted(s)
  /\ UNCHANGED <<order, images, questions, released, dirty, syncs, job>>

(* The worker process dies: its message was acknowledged when it started.  *)
Crash(s) ==
  /\ "crash" \in Features
  /\ tasks[s].pc \in PushSteps \cup DisputeSteps
  /\ tasks' = [tasks EXCEPT ![s] = Free]
  /\ UNCHANGED <<order, images, alerts, released, dirty, syncs, job>>
-----------------------------------------------------------------------------
(* The worker: send_fix_dispute_task.                                      *)

RowOfJob == [status |-> job.status, dispute |-> job.dispute,
             can |-> job.status = "fix" /\ job.dispute = "none"]

Bug_MayFile(row) == row.status = "fix"

MayFile(row) == row.status = "fix" /\ row.can

(* The task loads the order and reads the job's row in Fix or Review. *)
StartDispute(s) ==
  /\ tasks[s].pc = "dispute" /\ WorkerIdle
  /\ IF ~IsCurrent(order) \/ order.dispute.push # "queued"
     THEN tasks' = [tasks EXCEPT ![s] = Free]
     ELSE LET step == IF RowOfJob.status \in {"fix", "review"} /\ RowOfJob.dispute = "pending"
                      THEN "saving"
                      ELSE IF MayFile(RowOfJob) THEN "filing"
                      ELSE "refused"
          IN tasks' = [tasks EXCEPT ![s].pc = step, ![s].row = RowOfJob]
  /\ dirty' = FALSE
  /\ UNCHANGED <<order, images, alerts, released, syncs, job>>

(* Printerval takes the dispute of a job in Fix and moves it to Review.    *)
(* The row read back may not be found, and then the first one is used.     *)
FileDispute(s) ==
  /\ tasks[s].pc = "filing" /\ job.status = "fix" /\ job.filed < 2
  /\ job' = [job EXCEPT !.status = "review", !.dispute = "pending", !.filed = @ + 1]
  /\ \E row \in {tasks[s].row, [status |-> "review", dispute |-> "pending", can |-> FALSE]} :
       tasks' = [tasks EXCEPT ![s].pc = "saving", ![s].row = row]
  /\ UNCHANGED <<order, images, alerts, released, dirty, syncs>>

(* A refusal (the job may not be disputed, bad input, cookie rejected) is  *)
(* not retried, be it of the filing or of reading the row back.            *)
RefuseDispute(s) ==
  /\ tasks[s].pc \in {"filing", "saving"}
  /\ Commit(MarkFailed(order))
  /\ tasks' = [tasks EXCEPT ![s] = Free]
  /\ UNCHANGED <<images, alerts, syncs, job>>

(* The commit of an order somebody saved meanwhile raises StaleDataError. *)
SaveDispute(s) ==
  /\ tasks[s].pc = "saving" /\ ~dirty
  /\ Commit([Observed(WithPush(order, "sent"), tasks[s].row)
               EXCEPT !.pstat = tasks[s].row.status])
  /\ tasks' = [tasks EXCEPT ![s] = Free]
  /\ UNCHANGED <<images, alerts, syncs, job>>

GiveUpDispute(s) ==
  /\ tasks[s].pc \in DisputeSteps
  /\ tasks[s].retries = MaxRetries \/ (tasks[s].pc = "refused" /\ ~dirty)
  /\ Commit(MarkFailed(order))
  /\ tasks' = [tasks EXCEPT ![s] = Free]
  /\ UNCHANGED <<images, alerts, syncs, job>>

(* A call fails, landed or not, or the commit was stale: tried again. *)
DelayDispute(s) ==
  /\ tasks[s].pc \in DisputeSteps /\ tasks[s].retries < MaxRetries
  /\ tasks[s].pc = "refused" => dirty
  /\ tasks' = [tasks EXCEPT ![s] = [Free EXCEPT !.pc = "dispute",
                                                !.retries = tasks[s].retries + 1]]
  /\ UNCHANGED <<order, images, alerts, released, dirty, syncs, job>>
-----------------------------------------------------------------------------
(* The status syncs read first and apply later.                            *)

(* The active feed lists the queues doing and fix only; the lookup of      *)
(* selected orders finds the job anywhere.                                 *)
ReadRow(y) ==
  /\ syncs[y] = {}
  /\ y = "active" => job.status \in {"doing", "fix"}
  /\ syncs' = [syncs EXCEPT ![y] = {RowOfJob}]
  /\ UNCHANGED <<order, images, alerts, released, tasks, dirty, job>>

Bug_EveryFixIsNew(o, readable) == TRUE

(* _is_new_fix; readable: the chat could be read. *)
IsNewFix(o, readable) ==
  \/ o.state # "QC_PENDING"
  \/ ~o.since.fresh /\ questions = {}
  \/ o.since.opened /\ readable

Bug_KeepsRelease(o) == [MoveTo(o, "REVISION") EXCEPT !.count = @ + 1, !.rejected = FALSE]

(* _transition_to_fix_from_observation and its twin for selected orders. *)
ToFix(o) ==
  [MoveTo(o, "REVISION") EXCEPT !.count = @ + 1, !.approved = FALSE, !.rejected = FALSE]

Reconciled(o, row, readable) ==
  IF row.status = "fix" /\ o.state # "REVISION" /\ IsNewFix(o, readable) THEN ToFix(o) ELSE o

ReconciledSelected(o, row, readable) ==
  CASE o.state = "WAITING" -> o
    [] o.state # "REVISION" -> Reconciled(o, row, readable)
    [] o.state = "REVISION" /\ row.status = "review" /\ o.rejected -> MoveTo(o, "QC_PENDING")
    [] OTHER -> o

ApplyRow(y) ==
  /\ \E row \in syncs[y], readable \in BOOLEAN :
       LET o == Observed(order, row)
           n == IF y = "active" THEN Reconciled(o, row, readable)
                                ELSE ReconciledSelected(o, row, readable)
       IN n.count <= MaxCount /\ Commit([n EXCEPT !.pstat = row.status])
  /\ syncs' = [syncs EXCEPT ![y] = {}]
  /\ UNCHANGED <<images, alerts, tasks, job>>

(* The sync is cancelled, loses its lease or cannot save this order. *)
DropRow(y) ==
  /\ syncs[y] # {}
  /\ syncs' = [syncs EXCEPT ![y] = {}]
  /\ UNCHANGED <<order, images, alerts, released, tasks, dirty, job>>
-----------------------------------------------------------------------------
(* External: Printerval's QC and time.                                     *)

QcOpensFix ==
  /\ job.status = "review" /\ job.dispute # "pending" /\ job.round < MaxRounds
  /\ \E asks \in BOOLEAN :
       /\ asks => "template" \in Features
       /\ job' = [job EXCEPT !.status = "fix", !.round = @ + 1, !.asks = asks,
                             !.dispute = "none", !.filed = 0]
  /\ order' = [order EXCEPT !.since.opened = TRUE]
  /\ UNCHANGED <<images, alerts, released, tasks, dirty, syncs>>

QcConfirms ==
  /\ job.status = "review" /\ job.dispute # "pending"
  /\ job' = [job EXCEPT !.status = "confirm"]
  /\ UNCHANGED <<order, images, alerts, released, tasks, dirty, syncs>>

Arbitrate ==
  /\ job.dispute = "pending"
  /\ \/ job' = [job EXCEPT !.dispute = "rejected", !.status = "fix"]
     \/ job' = [job EXCEPT !.dispute = "accepted"]
  /\ UNCHANGED <<order, images, alerts, released, tasks, dirty, syncs>>

Pushing == {"push"} \cup PushSteps

Underway(n) == \E s \in Slots : tasks[s].pc \in Pushing /\ tasks[s].sub = n

FixHeld == \E y \in Syncs : \E row \in syncs[y] : row.status = "fix"

(* REVIEW_PUSH_GRACE is 30 minutes, whatever is going on: the push, with   *)
(* its retries and those queued before it, may take longer, and a sync may *)
(* have read the old Fix and not applied it yet.                           *)
GraceExpires ==
  /\ "expire" \in Features
  /\ order.state = "QC_PENDING" /\ order.since.fresh
  /\ order' = [order EXCEPT !.since.fresh = FALSE,
                            !.since.outlived = Underway(attached) \/ FixHeld]
  /\ UNCHANGED <<images, alerts, released, tasks, dirty, syncs, job>>
-----------------------------------------------------------------------------
Command ==
  \/ SubmitResult \/ SubmitWithoutImage \/ StartTask \/ PatchState \/ ApproveFix
  \/ SubmitDispute \/ RetryDispute \/ ConfirmTemplate \/ Pay

Push(s) ==
  \/ StartPush(s) \/ StoreImage(s) \/ CommitImage(s) \/ CheckStatus(s)
  \/ SendReview(s) \/ RefuseForTemplate(s) \/ RecordReview(s) \/ FailPush(s)

SendDispute(s) ==
  \/ StartDispute(s) \/ FileDispute(s) \/ RefuseDispute(s) \/ SaveDispute(s)
  \/ GiveUpDispute(s) \/ DelayDispute(s)

Worker == \E s \in Slots : Push(s) \/ SendDispute(s)

Sync == \E y \in Syncs : ReadRow(y) \/ ApplyRow(y) \/ DropRow(y)

External == QcOpensFix \/ QcConfirms \/ Arbitrate \/ GraceExpires

Next == Command \/ Worker \/ (\E s \in Slots : Crash(s)) \/ Sync \/ External

Spec == Init /\ [][Next]_vars

(* Celery keeps taking tasks from the queue. *)
FairSpec == Spec /\ WF_vars(Worker)
-----------------------------------------------------------------------------
(* Every column, task and row keeps its values: a wrong column written by  *)
(* an outcome of a dispute, or a task with a mixed-up expectation, would   *)
(* show here.                                                              *)
TypeOK ==
  /\ order \in Order
  /\ attached \in 0..MaxImages
  /\ pushed \subseteq Images /\ failed \subseteq 0..MaxImages
  /\ questions \subseteq 0..MaxImages
  /\ released \in BOOLEAN /\ dirty \in BOOLEAN
  /\ tasks \in [Slots -> Task]
  /\ syncs \in [Syncs -> SUBSET Row]
  /\ job \in Job

Told == attached \in failed \/ questions # {}

(* The newest submission is on Printerval: its image is up and its status  *)
(* was taken, the Fix that is open there now, if any, came after it.       *)
Arrived ==
  attached \in pushed /\ (job.status \in {"review", "confirm"} \/ order.since.opened)

(* "A write that did not go through must never be silent"                  *)
(* (printerval_alerts.py:3): a submission whose order sits in Review or    *)
(* Done is on Printerval, image and status, or a push for it is in the     *)
(* queue, or the Admins were told.                                         *)
SubmissionNeverSilentlyLost ==
  attached > 0 /\ order.state \in {"QC_PENDING", "DONE"} /\ ~Arrived
    => Underway(attached) \/ Told

(* A Fix QC opened is counted once: fix_return_count feeds the Designer's  *)
(* Fix rate and must not grow because our own Review push is still on its  *)
(* way (REVIEW_PUSH_GRACE, status_sync.py:248).                            *)
FixCountedOnce == order.count <= job.round

(* The Fix of such an order is one it was already counted for. After a     *)
(* dispute a count may stand for a Fix nobody had counted yet, or the      *)
(* order came to Review without a push.                                    *)
FixIsOld ==
  \/ order.dispute.push = "none"
  \/ ~order.rejected /\ order.count >= job.round

(* An order in Review whose chat shows no newer Fix than its submission    *)
(* (status_sync.py:248) is counted again only past the grace window, and   *)
(* the comment promises that a push that failed "has alerted Admin by      *)
(* then". The one way it is counted with nobody told is a window that      *)
(* ended before the push was over, or before a sync applied the old Fix.   *)
RecountOnlyAfterAlert ==
  [][order'.count > order.count /\ order.state = "QC_PENDING" /\ ~order.since.opened
     /\ FixIsOld /\ ~order.since.outlived
       => Told]_vars

(* A Fix is worked on only once an Admin released that very Fix            *)
(* (designer_tasks.py:53): every other way into Fix withdraws the release. *)
WorkedFixIsReleased == order.state = "REVISION" /\ order.approved => released

(* "Review is sent only once every image is up" (order-workflow.md:132):   *)
(* the status goes out with every image of the submission it is for.       *)
ReviewCarriesItsImages ==
  \A s \in Slots : tasks[s].pc \in {"sending", "recording"} => 1..tasks[s].sub \subseteq pushed

(* pushed_at is only ever committed for an image Printerval has: no retry  *)
(* skips an image that is not in the Design column.                        *)
PushedImagesAreStored == \A i \in pushed : i <= attached /\ job.stored[i] > 0

(* "Never sent twice" (assignment_sync_tasks.py:520): lost answers and     *)
(* retries included, a Fix round is disputed once.                         *)
DisputedOnce == job.filed <= 1

(* A dispute shown as queued is going to be sent: it has a task. *)
QueuedDisputeHasTask ==
  IsCurrent(order) /\ order.dispute.push = "queued"
    => \E s \in Slots : tasks[s].pc \in {"dispute"} \cup DisputeSteps

(* A push that was queued comes to an end the Admins can see. *)
SubmissionSettles ==
  \A n \in Images :
    attached = n /\ ~Arrived
      ~> \/ n \in pushed /\ (Arrived \/ attached # n)
         \/ n \in failed \/ questions # {} \/ order.state = "REVISION"

(* A queued dispute ends sent or failed, or its Fix round is over. *)
DisputeSettles ==
  order.dispute.push = "queued" /\ IsCurrent(order)
    ~> order.dispute.push \in {"sent", "failed"} \/ ~IsCurrent(order)
=============================================================================
