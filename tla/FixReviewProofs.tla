--------------------------- MODULE FixReviewProofs ---------------------------
(***************************************************************************)
(* Safety of FixReview for every number of tasks, submissions, Fix rounds  *)
(* and retries.  IInv holds for every choice of features; it splits in     *)
(* three, each part with a lemma of its own that Next keeps it:            *)
(*   OrderStep   the order and the release (WorkedFixIsReleased),          *)
(*   QueueStep   the types of everything else,                             *)
(*   ImagesStep  what the tasks know of the images (KeepsTrack).           *)
(* On top of it, an inductive invariant for each further property:         *)
(*   DisputeStep a job is filed by one task, which saw it undisputed,      *)
(*   QueuedStep  a queued dispute keeps its task,                          *)
(*   CountStep   an order is counted at most once per round of QC,         *)
(*   PlainStep   an order in Review has a push that is expected, or an     *)
(*               alert; past a grace window the push did not outlive,      *)
(*               what a sync has read came after that alert.               *)
(* The last three hold only without some of the features, which their      *)
(* theorems name: TLC has a counterexample for each one of the others.     *)
(***************************************************************************)
EXTENDS FixReview, TLAPS

(* order_state of an order of the standard board. *)
States == {"WAITING", "IN_PROGRESS", "QC_PENDING", "REVISION", "DONE"}

(* A move changes the state and dates it, nothing else. *)
LEMMA MoveToType ==
  ASSUME NEW o \in Order, NEW state \in States
  PROVE  /\ MoveTo(o, state) \in Order
         /\ MoveTo(o, state).state = state
         /\ MoveTo(o, state).approved = o.approved
         /\ MoveTo(o, state).count = o.count
  BY DEF Order, States, MoveTo, Now

(* Following the sending of a dispute leaves state and release alone. *)
LEMMA WithPushType ==
  ASSUME NEW o \in Order, NEW push \in {"none", "queued", "sent", "failed"}
  PROVE  /\ WithPush(o, push) \in Order
         /\ WithPush(o, push).state = o.state
         /\ WithPush(o, push).approved = o.approved
  BY DEF Order, WithPush

(* So does filing a dispute. *)
LEMMA WithNewDisputeType ==
  ASSUME NEW o \in Order
  PROVE  /\ WithNewDispute(o) \in Order
         /\ WithNewDispute(o).state = o.state
         /\ WithNewDispute(o).approved = o.approved
  BY DEF Order, WithNewDispute, NoDispute, Arbitration

(* What an outcome of the arbitration moves is never a released Fix. *)
LEMMA BackType ==
  ASSUME NEW o \in Order
  PROVE  /\ BackToReview(o) \in Order /\ BackToReview(o).state = "QC_PENDING"
         /\ BackToFix(o) \in Order    /\ ~BackToFix(o).approved
<1>1. ASSUME NEW p \in Order, NEW b \in BOOLEAN
      PROVE  /\ [p EXCEPT !.approved = FALSE, !.rejected = b] \in Order
             /\ [p EXCEPT !.approved = FALSE, !.rejected = b].state = p.state
             /\ ~[p EXCEPT !.approved = FALSE, !.rejected = b].approved
  BY DEF Order
<1>2. MoveTo(o, "QC_PENDING") \in Order /\ MoveTo(o, "QC_PENDING").state = "QC_PENDING"
  BY MoveToType DEF States
<1>3. MoveTo(o, "REVISION") \in Order
  BY MoveToType DEF States
<1>4. BackToReview(o) \in Order /\ BackToReview(o).state = "QC_PENDING"
  BY <1>1, <1>2 DEF BackToReview
<1>5. BackToFix(o) \in Order /\ ~BackToFix(o).approved
  BY <1>1, <1>3 DEF BackToFix
<1> QED
  BY <1>4, <1>5

(* Mirroring Printerval's dispute leaves state and release alone. *)
LEMMA MirroredType ==
  ASSUME NEW o \in Order, NEW row \in Row
  PROVE  /\ [o EXCEPT !.dispute = Mirrored(o, row)] \in Order
         /\ [o EXCEPT !.dispute = Mirrored(o, row)].state = o.state
         /\ [o EXCEPT !.dispute = Mirrored(o, row)].approved = o.approved
  BY DEF Order, Row, Mirrored, NoDispute, Arbitration

(* Closing or dating a dispute touches neither the state nor the release. *)
LEMMA OutcomeType ==
  ASSUME NEW o \in Order, NEW outcome \in Arbitration
  PROVE  /\ [o EXCEPT !.dispute.outcome = outcome] \in Order
         /\ [o EXCEPT !.dispute.outcome = outcome].state = o.state
         /\ [o EXCEPT !.dispute.outcome = outcome].approved = o.approved
  BY DEF Order

(* Whatever row is observed, a released Fix was one before. *)
LEMMA ObservedType ==
  ASSUME NEW o \in Order, NEW row \in Row
  PROVE  /\ Observed(o, row) \in Order
         /\ Observed(o, row).state = "REVISION" /\ Observed(o, row).approved
              => o.state = "REVISION" /\ o.approved
<1> DEFINE d == Mirrored(o, row)
           p == [o EXCEPT !.dispute = d]
<1>1. p \in Order /\ p.state = o.state /\ p.approved = o.approved
  BY MirroredType
<1>2. /\ BackToReview(p) \in Order /\ BackToReview(p).state = "QC_PENDING"
      /\ BackToFix(p) \in Order /\ ~BackToFix(p).approved
  BY <1>1, BackType
<1> HIDE DEF d, p
<1>3. ASSUME NEW q \in {p, BackToFix(p)}, NEW outcome \in {"rejected", "accepted"}
      PROVE  /\ [q EXCEPT !.dispute.outcome = outcome] \in Order
             /\ [q EXCEPT !.dispute.outcome = outcome].state = q.state
             /\ [q EXCEPT !.dispute.outcome = outcome].approved = q.approved
  <2>1. q \in Order /\ outcome \in Arbitration
    BY <1>1, <1>2 DEF Arbitration
  <2> QED
    BY <2>1, OutcomeType
<1>4. Observed(o, row) \in
        {o, p, BackToReview(p), [p EXCEPT !.dispute.outcome = "rejected"],
         [BackToFix(p) EXCEPT !.dispute.outcome = "rejected"],
         [p EXCEPT !.dispute.outcome = "accepted"]}
  BY DEF Observed, d, p
<1> QED
  BY <1>1, <1>2, <1>3, <1>4

(* A new Fix is counted, within the bound, and not released. *)
LEMMA ToFixType ==
  ASSUME NEW o \in Order, ToFix(o).count <= MaxCount
  PROVE  ToFix(o) \in Order /\ ~ToFix(o).approved
<1> DEFINE p == MoveTo(o, "REVISION")
<1>1. p \in Order
  BY MoveToType DEF States
<1>2. ToFix(o) = [p EXCEPT !.count = p.count + 1, !.approved = FALSE, !.rejected = FALSE]
  BY DEF ToFix
<1> HIDE DEF p
<1>3. p.count \in 0..MaxCount
  BY <1>1 DEF Order
<1>4. ToFix(o).count = p.count + 1
  BY <1>1, <1>2 DEF Order
<1>5. p.count + 1 \in 0..MaxCount
  BY <1>3, <1>4, FixReviewAssumption
<1>6. ASSUME NEW q \in Order, NEW n \in 0..MaxCount
      PROVE  /\ [q EXCEPT !.count = n, !.approved = FALSE, !.rejected = FALSE] \in Order
             /\ ~[q EXCEPT !.count = n, !.approved = FALSE, !.rejected = FALSE].approved
  BY DEF Order
<1> QED
  BY <1>1, <1>2, <1>5, <1>6

(* What a task must keep track of for the images: with n submissions, up    *)
(* the images pushed and stored how often each is on Printerval, it is not *)
(* for a submission yet to come, what it still has to upload was           *)
(* submitted, what its submission consists of is pushed or still to do     *)
(* until the last upload and pushed after it, and the image it is about to *)
(* record is stored.                                                       *)
KeepsTrack(t, n, up, stored) ==
  /\ t.sub <= n
  /\ t.todo \subseteq 1..n
  /\ t.pc \in {"images", "stored"} => 1..t.sub \subseteq up \cup t.todo
  /\ t.pc \in {"sending", "recording"} => 1..t.sub \subseteq up
  /\ t.pc = "stored" => \E i \in t.todo : (\A j \in t.todo : i <= j) /\ stored[i] > 0

ImagesInv ==
  /\ questions \subseteq 0..attached
  /\ PushedImagesAreStored
  /\ \A s \in Slots : KeepsTrack(tasks[s], attached, pushed, job.stored)

IInv == TypeOK /\ WorkedFixIsReleased /\ ImagesInv
-----------------------------------------------------------------------------
(* What a commit leaves behind. *)
LEMMA CommitStep ==
  ASSUME TypeOK, WorkedFixIsReleased, NEW o \in Order, Commit(o),
         o.state = "REVISION" /\ o.approved => order.state = "REVISION" /\ order.approved
  PROVE  order' \in Order /\ dirty' \in BOOLEAN /\ released' \in BOOLEAN /\ WorkedFixIsReleased'
<1>1. order' = o /\ dirty' \in BOOLEAN
  BY DEF Commit, Save, TypeOK
<1>2. released' \in BOOLEAN
  BY DEF Commit, TypeOK
<1>3. WorkedFixIsReleased'
  BY <1>1 DEF Commit, WorkedFixIsReleased
<1> QED
  BY <1>1, <1>2, <1>3

(* Mirroring Printerval's status touches neither the state nor the release. *)
LEMMA PstatType ==
  ASSUME NEW o \in Order, NEW status \in JobStatus
  PROVE  /\ [o EXCEPT !.pstat = status] \in Order
         /\ [o EXCEPT !.pstat = status].state = o.state
         /\ [o EXCEPT !.pstat = status].approved = o.approved
  BY DEF Order

(* Neither sync makes a released Fix of an order that was none. *)
LEMMA ReconciledType ==
  ASSUME NEW o \in Order, NEW row \in Row, NEW readable \in BOOLEAN,
         NEW n \in {Reconciled(o, row, readable), ReconciledSelected(o, row, readable)},
         n.count <= MaxCount
  PROVE  n \in Order /\ (n.state = "REVISION" /\ n.approved => o.state = "REVISION" /\ o.approved)
<1>1. n \in {o, ToFix(o), MoveTo(o, "QC_PENDING")}
  BY DEF Reconciled, ReconciledSelected
<1>2. CASE n = ToFix(o)
  BY <1>2, ToFixType
<1>3. CASE n = MoveTo(o, "QC_PENDING")
  BY <1>3, MoveToType DEF States
<1> QED
  BY <1>1, <1>2, <1>3

(* The commands: each hands Commit an order that is no released Fix unless *)
(* the order already was one, and ApproveFix is the release itself.        *)
LEMMA CommandOrder ==
  ASSUME TypeOK, WorkedFixIsReleased, Command
  PROVE  order' \in Order /\ dirty' \in BOOLEAN /\ released' \in BOOLEAN /\ WorkedFixIsReleased'
<1> DEFINE Goal == /\ order' \in Order /\ dirty' \in BOOLEAN /\ released' \in BOOLEAN
                   /\ WorkedFixIsReleased'
<1>0. order \in Order
  BY DEF TypeOK
<1>a. ASSUME NEW state \in States \ {"REVISION"}, Commit(MoveTo(order, state)) PROVE Goal
  BY <1>0, <1>a, MoveToType, CommitStep
<1>1. CASE SubmitResult \/ SubmitWithoutImage
  <2>1. SubmitTarget \in States \ {"REVISION"}
    BY DEF SubmitTarget, States
  <2> QED
    BY <1>1, <1>a, <2>1 DEF SubmitResult, SubmitWithoutImage
<1>2. CASE StartTask
  BY <1>2, <1>a DEF StartTask, States
<1>3. CASE PatchState
  <2>1. ASSUME NEW state \in States,
               Commit([MoveTo(order, state) EXCEPT !.approved = FALSE, !.rejected = FALSE])
        PROVE  Goal
    <3>1. MoveTo(order, state) \in Order
      BY <1>0, MoveToType
    <3>2. ASSUME NEW p \in Order
          PROVE  /\ [p EXCEPT !.approved = FALSE, !.rejected = FALSE] \in Order
                 /\ ~[p EXCEPT !.approved = FALSE, !.rejected = FALSE].approved
      BY DEF Order
    <3> QED
      BY <2>1, <3>1, <3>2, CommitStep
  <2> QED
    BY <1>3, <1>a, <2>1 DEF PatchState, States
<1>4. CASE ApproveFix
  <2>1. PICK rejected \in {FALSE, order.rejected} :
          Save([MoveTo(order, "REVISION") EXCEPT !.approved = TRUE, !.rejected = rejected])
    BY <1>4 DEF ApproveFix
  <2>2. MoveTo(order, "REVISION") \in Order /\ rejected \in BOOLEAN
    BY <1>0, <2>1, MoveToType DEF States, Order
  <2>3. ASSUME NEW p \in Order, NEW b \in BOOLEAN
        PROVE  [p EXCEPT !.approved = TRUE, !.rejected = b] \in Order
    BY DEF Order
  <2>4. order' \in Order /\ dirty' \in BOOLEAN
    BY <2>1, <2>2, <2>3 DEF Save, TypeOK
  <2>5. released' = TRUE
    BY <1>4 DEF ApproveFix
  <2> QED
    BY <2>4, <2>5 DEF WorkedFixIsReleased
<1>5. CASE SubmitDispute
  BY <1>0, <1>5, WithNewDisputeType, CommitStep DEF SubmitDispute
<1>6. CASE RetryDispute
  BY <1>0, <1>6, WithPushType, CommitStep DEF RetryDispute
<1>7. CASE ConfirmTemplate
  <2> DEFINE p == MoveTo(order, "QC_PENDING")
             b == order.approved /\ order.state = "QC_PENDING"
  <2>1. p \in Order /\ p.state = "QC_PENDING" /\ b \in BOOLEAN
    BY <1>0, MoveToType DEF States, Order
  <2>2. Commit([p EXCEPT !.approved = b])
    BY <1>7 DEF ConfirmTemplate
  <2> HIDE DEF p, b
  <2>3. [p EXCEPT !.approved = b] \in Order /\ [p EXCEPT !.approved = b].state = "QC_PENDING"
    BY <2>1 DEF Order
  <2> QED
    BY <2>2, <2>3, CommitStep
<1>8. CASE Pay
  <2> DEFINE o == [order EXCEPT !.paid = TRUE]
  <2>1. o \in Order /\ o.state = order.state
    BY <1>0 DEF Order
  <2>2. Commit(IF order.state = "DONE" THEN o ELSE MoveTo(o, "DONE"))
    BY <1>8 DEF Pay
  <2> HIDE DEF o
  <2>3. MoveTo(o, "DONE") \in Order /\ MoveTo(o, "DONE").state = "DONE"
    BY <2>1, MoveToType DEF States
  <2> QED
    BY <2>1, <2>2, <2>3, CommitStep
<1> QED
  BY <1>1, <1>2, <1>3, <1>4, <1>5, <1>6, <1>7, <1>8 DEF Command

(* Everything else saves an order the task or the sync has computed from   *)
(* the row of Printerval, or leaves it alone.                              *)
LEMMA OrderStep ==
  ASSUME TypeOK, WorkedFixIsReleased, [Next]_vars
  PROVE  order' \in Order /\ dirty' \in BOOLEAN /\ released' \in BOOLEAN /\ WorkedFixIsReleased'
<1> DEFINE Goal == /\ order' \in Order /\ dirty' \in BOOLEAN /\ released' \in BOOLEAN
                   /\ WorkedFixIsReleased'
<1>0. order \in Order /\ dirty \in BOOLEAN /\ released \in BOOLEAN
  BY DEF TypeOK
<1>a. ASSUME UNCHANGED <<order, released>>, dirty' \in {dirty, FALSE} PROVE Goal
  BY <1>0, <1>a DEF WorkedFixIsReleased
<1>1. CASE Command
  BY <1>1, CommandOrder
<1>2. ASSUME NEW s \in Slots, Push(s) PROVE Goal
  <2>1. CASE RecordReview(s)
    <3>1. Commit([order EXCEPT !.pstat = "review"])
      BY <2>1 DEF RecordReview
    <3> QED
      BY <1>0, <3>1, PstatType, CommitStep DEF JobStatus
  <2>2. CASE StartPush(s) \/ StoreImage(s) \/ CommitImage(s) \/ CheckStatus(s) \/ SendReview(s)
             \/ RefuseForTemplate(s) \/ FailPush(s)
    BY <1>a, <2>2 DEF StartPush, StoreImage, CommitImage, CheckStatus, SendReview,
                      RefuseForTemplate, FailPush
  <2> QED
    BY <1>2, <2>1, <2>2 DEF Push
<1>3. ASSUME NEW s \in Slots, SendDispute(s) PROVE Goal
  <2>1. CASE RefuseDispute(s) \/ GiveUpDispute(s)
    <3>1. Commit(WithPush(order, "failed"))
      BY <2>1 DEF RefuseDispute, GiveUpDispute, MarkFailed
    <3> QED
      BY <1>0, <3>1, WithPushType, CommitStep
  <2>2. CASE SaveDispute(s)
    <3> DEFINE o == Observed(WithPush(order, "sent"), tasks[s].row)
    <3>1. tasks[s].row \in Row /\ tasks[s].row.status \in JobStatus
      BY DEF TypeOK, Task, Row
    <3>2. o \in Order /\ (o.state = "REVISION" /\ o.approved
                            => order.state = "REVISION" /\ order.approved)
      BY <1>0, <3>1, WithPushType, ObservedType
    <3>3. Commit([o EXCEPT !.pstat = tasks[s].row.status])
      BY <2>2 DEF SaveDispute
    <3> HIDE DEF o
    <3> QED
      BY <3>1, <3>2, <3>3, PstatType, CommitStep
  <2>3. CASE StartDispute(s) \/ FileDispute(s) \/ DelayDispute(s)
    BY <1>a, <2>3 DEF StartDispute, FileDispute, DelayDispute
  <2> QED
    BY <1>3, <2>1, <2>2, <2>3 DEF SendDispute
<1>4. ASSUME NEW s \in Slots, Crash(s) PROVE Goal
  BY <1>a, <1>4 DEF Crash
<1>5. CASE Sync
  <2>1. PICK y \in Syncs : ReadRow(y) \/ ApplyRow(y) \/ DropRow(y)
    BY <1>5 DEF Sync
  <2>2. CASE ReadRow(y) \/ DropRow(y)
    BY <1>a, <2>2 DEF ReadRow, DropRow
  <2>3. CASE ApplyRow(y)
    <3>1. PICK row \in syncs[y], readable \in BOOLEAN :
            LET o == Observed(order, row)
                n == IF y = "active" THEN Reconciled(o, row, readable)
                                     ELSE ReconciledSelected(o, row, readable)
            IN n.count <= MaxCount /\ Commit([n EXCEPT !.pstat = row.status])
      BY <2>3 DEF ApplyRow
    <3> DEFINE o == Observed(order, row)
               n == IF y = "active" THEN Reconciled(o, row, readable)
                                    ELSE ReconciledSelected(o, row, readable)
    <3>2. row \in Row /\ row.status \in JobStatus
      BY DEF TypeOK, Row
    <3>3. o \in Order /\ (o.state = "REVISION" /\ o.approved
                            => order.state = "REVISION" /\ order.approved)
      BY <1>0, <3>2, ObservedType
    <3>4. /\ n \in {Reconciled(o, row, readable), ReconciledSelected(o, row, readable)}
          /\ n.count <= MaxCount /\ Commit([n EXCEPT !.pstat = row.status])
      BY <3>1
    <3> HIDE DEF o, n
    <3>5. n \in Order /\ (n.state = "REVISION" /\ n.approved => o.state = "REVISION" /\ o.approved)
      BY <3>2, <3>3, <3>4, ReconciledType
    <3> QED
      BY <3>2, <3>3, <3>4, <3>5, PstatType, CommitStep
  <2> QED
    BY <2>1, <2>2, <2>3
<1>6. CASE External
  <2>1. CASE QcConfirms \/ Arbitrate
    BY <1>a, <2>1 DEF QcConfirms, Arbitrate
  <2>2. CASE QcOpensFix
    BY <1>0, <2>2 DEF QcOpensFix, Order, WorkedFixIsReleased
  <2>3. CASE GraceExpires
    BY <1>0, <2>3 DEF GraceExpires, Order, WorkedFixIsReleased
  <2> QED
    BY <1>6, <2>1, <2>2, <2>3 DEF External
<1>7. CASE UNCHANGED vars
  BY <1>a, <1>7 DEF vars
<1> QED
  BY <1>1, <1>2, <1>3, <1>4, <1>5, <1>6, <1>7 DEF Next, Worker
-----------------------------------------------------------------------------
(* A free slot. *)
LEMMA FreeTask == Free \in Task /\ Free.pc = "free" /\ Free.sub = 0 /\ Free.todo = {}
<1>1. NoRow \in Row
  BY DEF NoRow, Row, JobStatus, Arbitration
<1> QED
  BY <1>1, FixReviewAssumption DEF Free, Task

(* A push that is queued expects what the code may ask for. *)
LEMMA PushTaskType ==
  ASSUME NEW state \in {"QC_PENDING", "DONE"}, NEW approved \in {"yes", "no", "any"},
         NEW answers \in BOOLEAN, NEW sub \in 0..MaxImages
  PROVE  /\ PushTask(state, approved, answers, sub) \in Task
         /\ PushTask(state, approved, answers, sub).pc = "push"
         /\ PushTask(state, approved, answers, sub).sub = sub
         /\ PushTask(state, approved, answers, sub).todo = {}
<1>1. ASSUME NEW t \in Task
      PROVE  LET u == [t EXCEPT !.pc = "push", !.expState = state, !.expApproved = approved,
                                !.answers = answers, !.sub = sub]
             IN  u \in Task /\ u.pc = "push" /\ u.sub = sub /\ u.todo = t.todo
  BY DEF Task
<1> QED
  BY <1>1, FreeTask DEF PushTask

(* The task queued for a dispute is for no submission. *)
LEMMA DisputeTaskType ==
  /\ [Free EXCEPT !.pc = "dispute"] \in Task
  /\ [Free EXCEPT !.pc = "dispute"].pc = "dispute"
  /\ [Free EXCEPT !.pc = "dispute"].sub = 0
  /\ [Free EXCEPT !.pc = "dispute"].todo = {}
<1>1. ASSUME NEW t \in Task
      PROVE  LET u == [t EXCEPT !.pc = "dispute"]
             IN  u \in Task /\ u.pc = "dispute" /\ u.sub = t.sub /\ u.todo = t.todo
  BY DEF Task
<1> QED
  BY <1>1, FreeTask

(* A queue that is given a task holds it or what it held before. *)
LEMMA EnqueueType ==
  ASSUME TypeOK, NEW t \in Task, Enqueue(t)
  PROVE  /\ tasks' \in [Slots -> Task]
         /\ \A s \in Slots : tasks'[s] \in {tasks[s], t}
  BY DEF Enqueue, TypeOK

(* A slot is given another task, or another step of the same one. *)
LEMMA SlotType ==
  ASSUME TypeOK, NEW s \in Slots
  PROVE  /\ \A t \in Task : [tasks EXCEPT ![s] = t] \in [Slots -> Task]
         /\ \A pc \in PushSteps \cup DisputeSteps : [tasks EXCEPT ![s].pc = pc] \in [Slots -> Task]
<1>1. tasks \in [Slots -> Task]
  BY DEF TypeOK
<1>2. ASSUME NEW t \in Task, NEW pc \in PushSteps \cup DisputeSteps
      PROVE  [t EXCEPT !.pc = pc] \in Task
  BY DEF Task
<1> QED
  BY <1>1, <1>2

(* The type of everything but the order. *)
QueueType ==
  /\ attached \in 0..MaxImages
  /\ pushed \subseteq Images /\ failed \subseteq 0..MaxImages
  /\ questions \subseteq 0..MaxImages
  /\ tasks \in [Slots -> Task]
  /\ syncs \in [Syncs -> SUBSET Row]
  /\ job \in Job

(* The commands keep the queue, the syncs and the job well-typed. *)
LEMMA CommandQueue ==
  ASSUME TypeOK, Command
  PROVE  QueueType'
<1>1. CASE SubmitResult
  <2>1. attached' = attached + 1 /\ attached' \in 0..MaxImages
    BY <1>1, FixReviewAssumption DEF SubmitResult, TypeOK
  <2>2. PushTask(SubmitTarget, IF IsFixResubmission THEN "yes" ELSE "no", FALSE, attached + 1) \in Task
    BY <2>1, PushTaskType DEF SubmitTarget
  <2>3. tasks' \in [Slots -> Task]
    BY <1>1, <2>2, EnqueueType DEF SubmitResult
  <2> QED
    BY <1>1, <2>1, <2>3 DEF SubmitResult, TypeOK, QueueType, alerts
<1>2. CASE PatchState
  <2>1. CASE UNCHANGED <<attached, tasks>>
    BY <1>2, <2>1 DEF PatchState, TypeOK, QueueType, alerts
  <2>2. CASE /\ attached < MaxImages /\ attached' = attached + 1
             /\ Enqueue(PushTask("QC_PENDING", "any", FALSE, attached + 1))
    <3>1. attached' \in 0..MaxImages
      BY <2>2, FixReviewAssumption DEF TypeOK
    <3>2. tasks' \in [Slots -> Task]
      BY <2>2, <3>1, PushTaskType, EnqueueType
    <3> QED
      BY <1>2, <3>1, <3>2 DEF PatchState, TypeOK, QueueType, alerts
  <2> QED
    BY <1>2, <2>1, <2>2 DEF PatchState
<1>3. CASE SubmitDispute \/ RetryDispute
  <2>1. tasks' \in [Slots -> Task]
    BY <1>3, DisputeTaskType, EnqueueType DEF SubmitDispute, RetryDispute
  <2> QED
    BY <1>3, <2>1 DEF SubmitDispute, RetryDispute, TypeOK, QueueType, alerts, images
<1>4. CASE ConfirmTemplate
  <2>1. PICK q \in questions : Enqueue(PushTask("QC_PENDING", "any", TRUE, q))
    BY <1>4 DEF ConfirmTemplate
  <2>2. q \in 0..MaxImages
    BY DEF TypeOK
  <2>3. tasks' \in [Slots -> Task]
    BY <2>1, <2>2, PushTaskType, EnqueueType
  <2> QED
    BY <1>4, <2>3 DEF ConfirmTemplate, TypeOK, QueueType, alerts, images
<1>5. CASE SubmitWithoutImage \/ StartTask \/ ApproveFix \/ Pay
  BY <1>5 DEF SubmitWithoutImage, StartTask, ApproveFix, Pay, TypeOK, QueueType, alerts, images
<1> QED
  BY <1>1, <1>2, <1>3, <1>4, <1>5 DEF Command

(* What Printerval answers about the job is a row. *)
LEMMA RowOfJobType == ASSUME TypeOK PROVE RowOfJob \in Row
  BY DEF TypeOK, RowOfJob, Row, Job

(* A task that is still expected goes on; one that is not frees its slot. *)
LEMMA CheckThenType ==
  ASSUME TypeOK, NEW s \in Slots, NEW next \in Task, CheckThen(s, next)
  PROVE  tasks' \in [Slots -> Task] /\ failed' \subseteq 0..MaxImages
<1>1. tasks[s].sub \in 0..MaxImages
  BY DEF TypeOK, Task
<1> QED
  BY <1>1, SlotType, FreeTask DEF CheckThen, Alerted, TypeOK

(* The steps of a push keep everything but the order well-typed. *)
LEMMA PushQueue ==
  ASSUME TypeOK, NEW s \in Slots, Push(s)
  PROVE  QueueType'
<1>0. tasks[s] \in Task /\ tasks[s].sub \in 0..MaxImages /\ tasks[s].todo \subseteq Images
  BY DEF TypeOK, Task
<1>1. CASE StartPush(s)
  <2>1. ASSUME NEW t \in Task, NEW todo \in SUBSET Images
        PROVE  [t EXCEPT !.pc = "images", !.todo = todo] \in Task
    BY DEF Task, PushSteps
  <2>2. ImagesToPush \subseteq Images
    BY FixReviewAssumption DEF ImagesToPush, Images, TypeOK
  <2>3. tasks' \in [Slots -> Task] /\ failed' \subseteq 0..MaxImages
    BY <1>0, <1>1, <2>1, <2>2, CheckThenType DEF StartPush
  <2> QED
    BY <1>1, <2>3 DEF StartPush, TypeOK, QueueType, images
<1>2. CASE StoreImage(s)
  <2>1. job' \in Job
    BY <1>0, <1>2 DEF StoreImage, TypeOK, Job
  <2>2. tasks' \in [Slots -> Task]
    BY <1>2, SlotType DEF StoreImage, PushSteps
  <2> QED
    BY <1>2, <2>1, <2>2 DEF StoreImage, TypeOK, QueueType, images, alerts
<1>3. CASE CommitImage(s)
  <2>1. PICK i \in tasks[s].todo :
          /\ pushed' = pushed \cup {i}
          /\ tasks' = [tasks EXCEPT ![s].pc = "images", ![s].todo = @ \ {i}]
    BY <1>3 DEF CommitImage
  <2>2. ASSUME NEW t \in Task PROVE [t EXCEPT !.pc = "images", !.todo = t.todo \ {i}] \in Task
    BY DEF Task, PushSteps
  <2>3. tasks' = [tasks EXCEPT ![s] = [tasks[s] EXCEPT !.pc = "images", !.todo = tasks[s].todo \ {i}]]
    BY <1>0, <2>1 DEF TypeOK, Task
  <2>4. tasks' \in [Slots -> Task]
    BY <1>0, <2>2, <2>3, SlotType
  <2> QED
    BY <1>0, <1>3, <2>1, <2>4 DEF CommitImage, TypeOK, QueueType, alerts
<1>4. CASE CheckStatus(s)
  <2>1. [tasks[s] EXCEPT !.pc = "sending"] \in Task
    BY <1>0 DEF Task, PushSteps
  <2>2. tasks' \in [Slots -> Task] /\ failed' \subseteq 0..MaxImages
    BY <1>4, <2>1, CheckThenType DEF CheckStatus
  <2> QED
    BY <1>4, <2>2 DEF CheckStatus, TypeOK, QueueType, images
<1>5. CASE SendReview(s)
  <2>1. job' \in Job
    BY <1>5 DEF SendReview, TypeOK, Job, JobStatus
  <2>2. tasks' \in [Slots -> Task]
    BY <1>5, SlotType DEF SendReview, PushSteps
  <2> QED
    BY <1>5, <2>1, <2>2 DEF SendReview, TypeOK, QueueType, images, alerts
<1>6. CASE RefuseForTemplate(s)
  <2>1. tasks' \in [Slots -> Task]
    BY <1>6, SlotType, FreeTask DEF RefuseForTemplate
  <2> QED
    BY <1>0, <1>6, <2>1 DEF RefuseForTemplate, TypeOK, QueueType, images
<1>7. CASE RecordReview(s)
  <2>1. tasks' \in [Slots -> Task] /\ questions' \subseteq questions
    BY <1>7, SlotType, FreeTask DEF RecordReview
  <2> QED
    BY <1>7, <2>1 DEF RecordReview, TypeOK, QueueType, images
<1>8. CASE FailPush(s)
  <2>1. ASSUME tasks[s].retries < MaxRetries
        PROVE  [tasks[s] EXCEPT !.pc = "push", !.retries = @ + 1, !.todo = {}] \in Task
    <3>1. tasks[s].retries + 1 \in 0..MaxRetries
      BY <1>0, <2>1, FixReviewAssumption DEF Task
    <3>2. ASSUME NEW n \in 0..MaxRetries
          PROVE  [tasks[s] EXCEPT !.pc = "push", !.retries = n, !.todo = {}] \in Task
      BY <1>0 DEF Task
    <3> QED
      BY <3>1, <3>2
  <2>2. CASE /\ tasks[s].retries < MaxRetries /\ UNCHANGED failed
             /\ tasks' = [tasks EXCEPT ![s] = [tasks[s] EXCEPT !.pc = "push", !.retries = @ + 1,
                                                         !.todo = {}]]
    <3>1. tasks' \in [Slots -> Task]
      BY <2>1, <2>2, SlotType
    <3> QED
      BY <1>8, <2>2, <3>1 DEF FailPush, TypeOK, QueueType, images
  <2>3. CASE tasks' = [tasks EXCEPT ![s] = Free] /\ failed' = Alerted(s)
    <3>1. tasks' \in [Slots -> Task] /\ failed' \subseteq 0..MaxImages
      BY <1>0, <2>3, SlotType, FreeTask DEF Alerted, TypeOK
    <3> QED
      BY <1>8, <3>1 DEF FailPush, TypeOK, QueueType, images
  <2> QED
    BY <1>8, <2>2, <2>3 DEF FailPush
<1> QED
  BY <1>1, <1>2, <1>3, <1>4, <1>5, <1>6, <1>7, <1>8 DEF Push

(* So do the steps of a dispute. *)
LEMMA DisputeQueue ==
  ASSUME TypeOK, NEW s \in Slots, SendDispute(s)
  PROVE  QueueType'
<1>0. tasks[s] \in Task
  BY DEF TypeOK
<1>a. ASSUME NEW t \in Task, NEW pc \in DisputeSteps, NEW row \in Row
      PROVE  [t EXCEPT !.pc = pc, !.row = row] \in Task
  BY DEF Task
<1>b. ASSUME NEW pc \in DisputeSteps, NEW row \in Row,
             tasks' = [tasks EXCEPT ![s].pc = pc, ![s].row = row]
      PROVE  tasks' \in [Slots -> Task]
  <2>1. tasks' = [tasks EXCEPT ![s] = [tasks[s] EXCEPT !.pc = pc, !.row = row]]
    BY <1>0, <1>b DEF TypeOK, Task
  <2> QED
    BY <1>0, <1>a, <2>1, SlotType
<1>1. CASE StartDispute(s)
  <2>1. CASE tasks' = [tasks EXCEPT ![s] = Free]
    <3>1. tasks' \in [Slots -> Task]
      BY <2>1, SlotType, FreeTask
    <3> QED
      BY <1>1, <3>1 DEF StartDispute, TypeOK, QueueType, images, alerts
  <2>2. CASE \E step \in DisputeSteps : tasks' = [tasks EXCEPT ![s].pc = step, ![s].row = RowOfJob]
    <3>1. tasks' \in [Slots -> Task]
      BY <1>b, <2>2, RowOfJobType
    <3> QED
      BY <1>1, <3>1 DEF StartDispute, TypeOK, QueueType, images, alerts
  <2> QED
    BY <1>1, <2>1, <2>2 DEF StartDispute, DisputeSteps
<1>2. CASE FileDispute(s)
  <2>1. [status |-> "review", dispute |-> "pending", can |-> FALSE] \in Row /\ tasks[s].row \in Row
    BY <1>0 DEF Row, Task, JobStatus, Arbitration
  <2>2. PICK row \in {tasks[s].row, [status |-> "review", dispute |-> "pending", can |-> FALSE]} :
          tasks' = [tasks EXCEPT ![s].pc = "saving", ![s].row = row]
    BY <1>2 DEF FileDispute
  <2>3. tasks' \in [Slots -> Task]
    BY <1>b, <2>1, <2>2 DEF DisputeSteps
  <2>4. job' \in Job
    <3>1. job.filed + 1 \in 0..2
      BY <1>2 DEF FileDispute, TypeOK, Job
    <3>2. ASSUME NEW j \in Job, NEW n \in 0..2
          PROVE  [j EXCEPT !.status = "review", !.dispute = "pending", !.filed = n] \in Job
      BY DEF Job, JobStatus, Arbitration
    <3> QED
      BY <1>2, <3>1, <3>2 DEF FileDispute, TypeOK
  <2> QED
    BY <1>2, <2>3, <2>4 DEF FileDispute, TypeOK, QueueType, images, alerts
<1>3. CASE RefuseDispute(s) \/ SaveDispute(s) \/ GiveUpDispute(s)
  <2>1. tasks' \in [Slots -> Task]
    BY <1>3, SlotType, FreeTask DEF RefuseDispute, SaveDispute, GiveUpDispute
  <2> QED
    BY <1>3, <2>1 DEF RefuseDispute, SaveDispute, GiveUpDispute, TypeOK, QueueType, images, alerts
<1>4. CASE DelayDispute(s)
  <2>1. tasks[s].retries + 1 \in 0..MaxRetries
    BY <1>0, <1>4, FixReviewAssumption DEF DelayDispute, Task
  <2>2. ASSUME NEW t \in Task, NEW n \in 0..MaxRetries
        PROVE  [t EXCEPT !.pc = "dispute", !.retries = n] \in Task
    BY DEF Task
  <2>3. tasks' \in [Slots -> Task]
    BY <1>4, <2>1, <2>2, SlotType, FreeTask DEF DelayDispute
  <2> QED
    BY <1>4, <2>3 DEF DelayDispute, TypeOK, QueueType, images, alerts
<1> QED
  BY <1>1, <1>2, <1>3, <1>4 DEF SendDispute

(* So does every step. *)
LEMMA QueueStep ==
  ASSUME TypeOK, [Next]_vars
  PROVE  QueueType'
<1>1. CASE Command
  BY <1>1, CommandQueue
<1>2. CASE Worker
  BY <1>2, PushQueue, DisputeQueue DEF Worker
<1>3. ASSUME NEW s \in Slots, Crash(s) PROVE QueueType'
  <2>1. tasks' \in [Slots -> Task]
    BY <1>3, SlotType, FreeTask DEF Crash
  <2> QED
    BY <1>3, <2>1 DEF Crash, TypeOK, QueueType, images, alerts
<1>4. CASE Sync
  BY <1>4, RowOfJobType DEF Sync, ReadRow, ApplyRow, DropRow, TypeOK, QueueType, images, alerts
<1>5. CASE External
  <2>1. CASE QcOpensFix
    <3>1. PICK asks \in BOOLEAN :
            job' = [job EXCEPT !.status = "fix", !.round = @ + 1, !.asks = asks,
                               !.dispute = "none", !.filed = 0]
      BY <2>1 DEF QcOpensFix
    <3>2. job.round + 1 \in 0..MaxRounds
      BY <2>1, FixReviewAssumption DEF QcOpensFix, TypeOK, Job
    <3>3. ASSUME NEW j \in Job, NEW n \in 0..MaxRounds
          PROVE  [j EXCEPT !.status = "fix", !.round = n, !.asks = asks, !.dispute = "none",
                           !.filed = 0] \in Job
      <4>1. [j EXCEPT !.status = "fix", !.round = n, !.asks = asks] \in Job
        BY DEF Job, JobStatus
      <4>2. ASSUME NEW k \in Job, NEW m \in 0..2
            PROVE  [k EXCEPT !.dispute = "none", !.filed = m] \in Job
        BY DEF Job, Arbitration
      <4>3. 0 \in 0..2
        OBVIOUS
      <4> QED
        BY <4>1, <4>2, <4>3
    <3>4. job' \in Job
      BY <3>1, <3>2, <3>3 DEF TypeOK
    <3> QED
      BY <2>1, <3>4 DEF QcOpensFix, TypeOK, QueueType, images, alerts
  <2>2. CASE QcConfirms \/ Arbitrate
    <3>1. job' \in Job
      BY <2>2 DEF QcConfirms, Arbitrate, TypeOK, Job, JobStatus, Arbitration
    <3> QED
      BY <2>2, <3>1 DEF QcConfirms, Arbitrate, TypeOK, QueueType, images, alerts
  <2>3. CASE GraceExpires
    BY <2>3 DEF GraceExpires, TypeOK, QueueType, images, alerts
  <2> QED
    BY <1>5, <2>1, <2>2, <2>3 DEF External
<1>6. CASE UNCHANGED vars
  BY <1>6 DEF vars, TypeOK, QueueType, images, alerts
<1> QED
  BY <1>1, <1>2, <1>3, <1>4, <1>5, <1>6 DEF Next
-----------------------------------------------------------------------------
(* A task that uploads nothing keeps track. *)
LEMMA WaitingKeepsTrack ==
  ASSUME NEW n \in Nat, NEW up, NEW stored, NEW t, t.sub <= n, t.todo = {},
         t.pc \in {"free", "push", "dispute"} \cup DisputeSteps
  PROVE  KeepsTrack(t, n, up, stored)
  BY DEF KeepsTrack, DisputeSteps

(* Nothing is ever taken back: not a submission, a push or a stored image. *)
Grows ==
  /\ attached' \in Nat /\ attached <= attached'
  /\ pushed \subseteq pushed'
  /\ \A i \in Images : job.stored[i] > 0 => job'.stored[i] > 0

(* A task nobody touched keeps track: what it relies on only grows. *)
LEMMA StillKeepsTrack ==
  ASSUME TypeOK, Grows, NEW s \in Slots, KeepsTrack(tasks[s], attached, pushed, job.stored)
  PROVE  KeepsTrack(tasks[s], attached', pushed', job'.stored)
<1>1. tasks[s].sub \in Nat /\ tasks[s].todo \subseteq Images /\ attached \in Nat
  BY FixReviewAssumption DEF TypeOK, Task
<1>2. 1..attached \subseteq 1..attached' /\ tasks[s].sub <= attached'
  BY <1>1 DEF Grows, KeepsTrack
<1> QED
  BY <1>1, <1>2 DEF Grows, KeepsTrack

(* When nothing is taken back, the tasks that changed are all that matters. *)
LEMMA ImagesFollow ==
  ASSUME TypeOK, ImagesInv, Grows, questions' \subseteq 0..attached', PushedImagesAreStored',
         \A s \in Slots : \/ tasks'[s] = tasks[s]
                          \/ KeepsTrack(tasks'[s], attached', pushed', job'.stored)
  PROVE  ImagesInv'
  BY StillKeepsTrack DEF ImagesInv

(* With the images on Printerval unchanged, only the tasks matter. *)
LEMMA ImagesFollowTasks ==
  ASSUME TypeOK, ImagesInv, UNCHANGED pushed, job'.stored = job.stored,
         attached' \in Nat, attached <= attached',
         questions' \subseteq 0..attached',
         \A s \in Slots : \/ tasks'[s] = tasks[s]
                          \/ KeepsTrack(tasks'[s], attached', pushed', job'.stored)
  PROVE  ImagesInv'
<1>1. Grows
  BY DEF Grows
<1>2. PushedImagesAreStored'
  BY FixReviewAssumption DEF PushedImagesAreStored, ImagesInv, TypeOK, Images
<1> QED
  BY <1>1, <1>2, ImagesFollow

(* The commands add submissions and tasks that have not started. *)
LEMMA CommandImages ==
  ASSUME TypeOK, ImagesInv, Command
  PROVE  ImagesInv'
<1>0. attached \in Nat /\ attached \in 0..MaxImages /\ questions \subseteq 0..attached
  BY FixReviewAssumption DEF TypeOK, ImagesInv
<1>a. ASSUME NEW t \in Task, Enqueue(t), UNCHANGED <<pushed, questions, job>>,
             attached' \in Nat, attached <= attached',
             t.pc \in {"push", "dispute"}, t.todo = {}, t.sub <= attached'
      PROVE  ImagesInv'
  <2>1. KeepsTrack(t, attached', pushed', job'.stored)
    BY <1>a, WaitingKeepsTrack
  <2>2. questions' \subseteq 0..attached'
    BY <1>0, <1>a
  <2>3. \A s \in Slots : tasks'[s] \in {tasks[s], t}
    BY <1>a, EnqueueType
  <2> QED
    BY <1>a, <2>1, <2>2, <2>3, ImagesFollowTasks
<1>b. ASSUME UNCHANGED <<attached, pushed, questions, tasks, job>> PROVE ImagesInv'
  BY <1>0, <1>b, ImagesFollowTasks
<1>1. CASE SubmitResult
  <2> DEFINE t == PushTask(SubmitTarget, IF IsFixResubmission THEN "yes" ELSE "no", FALSE, attached + 1)
  <2>1. attached' = attached + 1 /\ attached + 1 \in 0..MaxImages
    BY <1>0, <1>1, FixReviewAssumption DEF SubmitResult
  <2>2. t \in Task /\ t.pc = "push" /\ t.todo = {} /\ t.sub = attached + 1
    BY <2>1, PushTaskType DEF SubmitTarget
  <2>3. Enqueue(t) /\ UNCHANGED <<pushed, questions, job>>
    BY <1>1 DEF SubmitResult, alerts
  <2> HIDE DEF t
  <2> QED
    BY <1>0, <1>a, <2>1, <2>2, <2>3
<1>2. CASE PatchState
  <2>1. UNCHANGED <<pushed, questions, job>>
    BY <1>2 DEF PatchState, alerts
  <2>2. CASE UNCHANGED <<attached, tasks>>
    BY <1>b, <2>1, <2>2
  <2>3. CASE /\ attached < MaxImages /\ attached' = attached + 1
             /\ Enqueue(PushTask("QC_PENDING", "any", FALSE, attached + 1))
    <3> DEFINE t == PushTask("QC_PENDING", "any", FALSE, attached + 1)
    <3>1. attached + 1 \in 0..MaxImages
      BY <1>0, <2>3, FixReviewAssumption
    <3>2. t \in Task /\ t.pc = "push" /\ t.todo = {} /\ t.sub = attached + 1
      BY <3>1, PushTaskType
    <3> HIDE DEF t
    <3>3. Enqueue(t)
      BY <2>3 DEF t
    <3> QED
      BY <1>0, <1>a, <2>1, <2>3, <3>2, <3>3
  <2> QED
    BY <1>2, <2>2, <2>3 DEF PatchState
<1>3. CASE SubmitDispute \/ RetryDispute
  <2> DEFINE t == [Free EXCEPT !.pc = "dispute"]
  <2>1. Enqueue(t) /\ UNCHANGED <<attached, pushed, questions, job>>
    BY <1>3 DEF SubmitDispute, RetryDispute, images, alerts
  <2>2. t \in Task /\ t.pc = "dispute" /\ t.todo = {} /\ t.sub = 0
    BY DisputeTaskType
  <2> HIDE DEF t
  <2> QED
    BY <1>0, <1>a, <2>1, <2>2
<1>4. CASE ConfirmTemplate
  <2>1. PICK q \in questions : Enqueue(PushTask("QC_PENDING", "any", TRUE, q))
    BY <1>4 DEF ConfirmTemplate
  <2> DEFINE t == PushTask("QC_PENDING", "any", TRUE, q)
  <2>2. q \in 0..attached /\ q \in 0..MaxImages
    BY <1>0, FixReviewAssumption
  <2>3. t \in Task /\ t.pc = "push" /\ t.todo = {} /\ t.sub = q
    BY <2>2, PushTaskType
  <2> HIDE DEF t
  <2>4. Enqueue(t) /\ UNCHANGED <<attached, pushed, questions, job>>
    BY <1>4, <2>1 DEF ConfirmTemplate, images, alerts, t
  <2> QED
    BY <1>0, <1>a, <2>2, <2>3, <2>4
<1>5. CASE SubmitWithoutImage \/ StartTask \/ ApproveFix \/ Pay
  <2>1. UNCHANGED <<attached, pushed, questions, tasks, job>>
    BY <1>5 DEF SubmitWithoutImage, StartTask, ApproveFix, Pay, images, alerts
  <2> QED
    BY <1>b, <2>1
<1> QED
  BY <1>1, <1>2, <1>3, <1>4, <1>5 DEF Command

(* The steps of a push: one task changes, and it keeps track. *)
LEMMA PushImages ==
  ASSUME TypeOK, ImagesInv, NEW s \in Slots, Push(s)
  PROVE  ImagesInv'
<1>0. /\ attached \in Nat /\ questions \subseteq 0..attached /\ tasks \in [Slots -> Task]
      /\ tasks[s] \in Task /\ tasks[s].sub \in Nat /\ tasks[s].todo \subseteq Images
      /\ KeepsTrack(tasks[s], attached, pushed, job.stored)
  BY FixReviewAssumption DEF TypeOK, ImagesInv, Task
<1>1. KeepsTrack(Free, attached, pushed, job.stored)
  BY <1>0, FreeTask, WaitingKeepsTrack
<1>a. ASSUME NEW t, tasks' = [tasks EXCEPT ![s] = t], KeepsTrack(t, attached, pushed, job.stored),
             UNCHANGED images, questions' \subseteq 0..attached, job'.stored = job.stored
      PROVE  ImagesInv'
  <2>1. \A r \in Slots : tasks'[r] = tasks[r] \/ tasks'[r] = t
    BY <1>0, <1>a
  <2> QED
    BY <1>0, <1>a, <2>1, ImagesFollowTasks DEF images
<1>2. CASE StartPush(s)
  <2> DEFINE t == [tasks[s] EXCEPT !.pc = "images", !.todo = ImagesToPush]
  <2>1. t.pc = "images" /\ t.sub = tasks[s].sub /\ t.todo = 1..attached \ pushed
    BY <1>0 DEF Task, ImagesToPush
  <2>2. tasks' = [tasks EXCEPT ![s] = t] \/ tasks' = [tasks EXCEPT ![s] = Free]
    BY <1>2 DEF StartPush, CheckThen
  <2>3. UNCHANGED images /\ questions' \subseteq 0..attached /\ job' = job
    BY <1>0, <1>2 DEF StartPush
  <2> HIDE DEF t
  <2>4. KeepsTrack(t, attached, pushed, job.stored)
    BY <1>0, <2>1 DEF KeepsTrack
  <2> QED
    BY <1>1, <1>a, <2>2, <2>3, <2>4
<1>3. CASE StoreImage(s)
  <2>1. PICK i \in tasks[s].todo :
          /\ \A j \in tasks[s].todo : i <= j
          /\ job' = [job EXCEPT !.stored[i] = @ + 1]
    BY <1>3 DEF StoreImage
  <2>2. /\ tasks[s].pc = "images" /\ UNCHANGED <<attached, pushed, questions>>
        /\ tasks' = [tasks EXCEPT ![s].pc = "stored"]
    BY <1>3 DEF StoreImage, images, alerts
  <2>3. job'.stored[i] > 0 /\ \A j \in Images : job.stored[j] > 0 => job'.stored[j] > 0
    <3>1. i \in Images /\ job.stored \in [Images -> 0..2] /\ job'.stored = [job.stored EXCEPT ![i] = @ + 1]
      BY <1>0, <2>1 DEF TypeOK, Job
    <3> QED
      BY <3>1
  <2>4. /\ tasks'[s].pc = "stored" /\ tasks'[s].sub = tasks[s].sub /\ tasks'[s].todo = tasks[s].todo
        /\ \A r \in Slots \ {s} : tasks'[r] = tasks[r]
    BY <1>0, <2>2 DEF Task
  <2>5. KeepsTrack(tasks'[s], attached', pushed', job'.stored)
    BY <1>0, <2>1, <2>2, <2>3, <2>4 DEF KeepsTrack
  <2>6. Grows /\ questions' \subseteq 0..attached'
    BY <1>0, <2>2, <2>3 DEF Grows
  <2>7. PushedImagesAreStored'
    BY <2>2, <2>3 DEF PushedImagesAreStored, ImagesInv, TypeOK
  <2> QED
    BY <2>4, <2>5, <2>6, <2>7, ImagesFollow
<1>4. CASE CommitImage(s)
  <2>1. PICK i \in tasks[s].todo :
          /\ \A j \in tasks[s].todo : i <= j
          /\ pushed' = pushed \cup {i}
          /\ tasks' = [tasks EXCEPT ![s].pc = "images", ![s].todo = @ \ {i}]
    BY <1>4 DEF CommitImage
  <2>2. tasks[s].pc = "stored" /\ UNCHANGED <<attached, questions, job>>
    BY <1>4 DEF CommitImage, alerts
  <2>3. /\ tasks'[s].pc = "images" /\ tasks'[s].sub = tasks[s].sub
        /\ tasks'[s].todo = tasks[s].todo \ {i}
        /\ \A r \in Slots \ {s} : tasks'[r] = tasks[r]
    BY <1>0, <2>1 DEF Task
  <2>4. i \in 1..attached /\ job.stored[i] > 0
    BY <1>0, <2>1, <2>2 DEF KeepsTrack
  <2>5. KeepsTrack(tasks'[s], attached', pushed', job'.stored)
    BY <1>0, <2>1, <2>2, <2>3 DEF KeepsTrack
  <2>6. Grows /\ questions' \subseteq 0..attached'
    BY <1>0, <2>1, <2>2 DEF Grows
  <2>7. PushedImagesAreStored'
    BY <1>0, <2>1, <2>2, <2>4 DEF PushedImagesAreStored, ImagesInv
  <2> QED
    BY <2>3, <2>5, <2>6, <2>7, ImagesFollow
<1>5. CASE CheckStatus(s)
  <2> DEFINE t == [tasks[s] EXCEPT !.pc = "sending"]
  <2>1. /\ t.pc = "sending" /\ t.sub = tasks[s].sub /\ t.todo = {}
        /\ tasks[s].pc = "images" /\ tasks[s].todo = {}
    BY <1>0, <1>5 DEF Task, CheckStatus
  <2>2. tasks' = [tasks EXCEPT ![s] = t] \/ tasks' = [tasks EXCEPT ![s] = Free]
    BY <1>5 DEF CheckStatus, CheckThen
  <2>3. UNCHANGED images /\ questions' \subseteq 0..attached /\ job' = job
    BY <1>0, <1>5 DEF CheckStatus
  <2> HIDE DEF t
  <2>4. KeepsTrack(t, attached, pushed, job.stored)
    BY <1>0, <2>1 DEF KeepsTrack
  <2> QED
    BY <1>1, <1>a, <2>2, <2>3, <2>4
<1>6. CASE SendReview(s)
  <2> DEFINE t == [tasks[s] EXCEPT !.pc = "recording"]
  <2>1. /\ t.pc = "recording" /\ t.sub = tasks[s].sub /\ t.todo = tasks[s].todo
        /\ tasks[s].pc = "sending" /\ tasks' = [tasks EXCEPT ![s] = t]
    BY <1>0, <1>6 DEF Task, SendReview
  <2>2. UNCHANGED images /\ questions' \subseteq 0..attached /\ job'.stored = job.stored
    BY <1>0, <1>6 DEF SendReview, alerts, TypeOK, Job
  <2> HIDE DEF t
  <2>3. KeepsTrack(t, attached, pushed, job.stored)
    BY <1>0, <2>1 DEF KeepsTrack
  <2> QED
    BY <1>a, <2>1, <2>2, <2>3
<1>7. CASE RefuseForTemplate(s) \/ RecordReview(s)
  <2>1. questions' \subseteq 0..attached
    BY <1>0, <1>7 DEF RefuseForTemplate, RecordReview, KeepsTrack
  <2>2. UNCHANGED <<images, job>> /\ tasks' = [tasks EXCEPT ![s] = Free]
    BY <1>7 DEF RefuseForTemplate, RecordReview
  <2> QED
    BY <1>1, <1>a, <2>1, <2>2
<1>8. CASE FailPush(s)
  <2> DEFINE t == [tasks[s] EXCEPT !.pc = "push", !.retries = @ + 1, !.todo = {}]
  <2>1. t.pc = "push" /\ t.sub = tasks[s].sub /\ t.todo = {}
    BY <1>0 DEF Task
  <2>2. tasks' = [tasks EXCEPT ![s] = t] \/ tasks' = [tasks EXCEPT ![s] = Free]
    BY <1>8 DEF FailPush
  <2>3. UNCHANGED images /\ questions' \subseteq 0..attached /\ job' = job
    BY <1>0, <1>8 DEF FailPush
  <2> HIDE DEF t
  <2>4. KeepsTrack(t, attached, pushed, job.stored)
    BY <1>0, <2>1 DEF KeepsTrack
  <2> QED
    BY <1>1, <1>a, <2>2, <2>3, <2>4
<1> QED
  BY <1>2, <1>3, <1>4, <1>5, <1>6, <1>7, <1>8 DEF Push

(* A task that sends a dispute uploads nothing. *)
LEMMA DisputeImages ==
  ASSUME TypeOK, ImagesInv, NEW s \in Slots, SendDispute(s)
  PROVE  ImagesInv'
<1>0. /\ attached \in Nat /\ questions \subseteq 0..attached /\ tasks \in [Slots -> Task]
      /\ tasks[s] \in Task /\ KeepsTrack(tasks[s], attached, pushed, job.stored)
  BY FixReviewAssumption DEF TypeOK, ImagesInv
<1>1. UNCHANGED <<attached, pushed, questions>>
  BY DEF SendDispute, StartDispute, FileDispute, RefuseDispute, SaveDispute, GiveUpDispute,
         DelayDispute, images, alerts
<1>2. job'.stored = job.stored
  <2>1. CASE FileDispute(s)
    BY <2>1 DEF FileDispute, TypeOK, Job
  <2>2. CASE UNCHANGED job
    BY <2>2
  <2> QED
    BY <2>1, <2>2 DEF SendDispute, StartDispute, RefuseDispute, SaveDispute, GiveUpDispute,
                      DelayDispute
<1>3. /\ \A r \in Slots \ {s} : tasks'[r] = tasks[r]
      /\ \/ tasks'[s].pc \in DisputeSteps /\ tasks'[s].sub = tasks[s].sub
                                         /\ tasks'[s].todo = tasks[s].todo
         \/ tasks'[s].pc \in {"free", "dispute"} /\ tasks'[s].sub = 0 /\ tasks'[s].todo = {}
  <2>1. ASSUME NEW pc \in DisputeSteps, NEW row,
               tasks' = [tasks EXCEPT ![s].pc = pc, ![s].row = row]
        PROVE  /\ \A r \in Slots \ {s} : tasks'[r] = tasks[r]
               /\ tasks'[s].pc \in DisputeSteps
               /\ tasks'[s].sub = tasks[s].sub /\ tasks'[s].todo = tasks[s].todo
    BY <1>0, <2>1 DEF Task
  <2>2. ASSUME NEW t, tasks' = [tasks EXCEPT ![s] = t]
        PROVE  tasks'[s] = t /\ \A r \in Slots \ {s} : tasks'[r] = tasks[r]
    BY <1>0, <2>2
  <2>3. CASE tasks' = [tasks EXCEPT ![s] = Free]
    BY <2>2, <2>3, FreeTask
  <2>4. CASE StartDispute(s)
    BY <2>1, <2>3, <2>4 DEF StartDispute, DisputeSteps
  <2>5. CASE FileDispute(s)
    BY <2>1, <2>5 DEF FileDispute, DisputeSteps
  <2>6. CASE DelayDispute(s)
    <3> DEFINE t == [Free EXCEPT !.pc = "dispute", !.retries = tasks[s].retries + 1]
    <3>1. t.pc = "dispute" /\ t.sub = 0 /\ t.todo = {}
      BY DEF Free
    <3>2. tasks' = [tasks EXCEPT ![s] = t]
      BY <2>6 DEF DelayDispute
    <3> HIDE DEF t
    <3> QED
      BY <2>2, <3>1, <3>2
  <2> QED
    BY <2>3, <2>4, <2>5, <2>6 DEF SendDispute, RefuseDispute, SaveDispute, GiveUpDispute
<1>4. KeepsTrack(tasks'[s], attached', pushed', job'.stored)
  BY <1>0, <1>1, <1>3 DEF KeepsTrack, DisputeSteps
<1>5. attached' \in Nat /\ attached <= attached' /\ questions' \subseteq 0..attached'
  BY <1>0, <1>1
<1> QED
  BY <1>1, <1>2, <1>3, <1>4, <1>5, ImagesFollowTasks

(* The images keep their invariant: nothing but a push touches them. *)
LEMMA ImagesStep ==
  ASSUME TypeOK, ImagesInv, [Next]_vars
  PROVE  ImagesInv'
<1>0. attached \in Nat /\ questions \subseteq 0..attached /\ tasks \in [Slots -> Task]
  BY FixReviewAssumption DEF TypeOK, ImagesInv
<1>a. ASSUME UNCHANGED <<images, alerts, tasks>>, job'.stored = job.stored PROVE ImagesInv'
  BY <1>0, <1>a, ImagesFollowTasks DEF images, alerts
<1>1. CASE Command
  BY <1>1, CommandImages
<1>2. CASE Worker
  BY <1>2, PushImages, DisputeImages DEF Worker
<1>3. ASSUME NEW s \in Slots, Crash(s) PROVE ImagesInv'
  <2>1. tasks' = [tasks EXCEPT ![s] = Free] /\ UNCHANGED <<images, alerts, job>>
    BY <1>3 DEF Crash
  <2>2. KeepsTrack(Free, attached, pushed, job.stored)
    BY <1>0, FreeTask, WaitingKeepsTrack
  <2>3. \A r \in Slots : tasks'[r] \in {tasks[r], Free}
    BY <1>0, <2>1
  <2> QED
    BY <1>0, <2>1, <2>2, <2>3, ImagesFollowTasks DEF images, alerts
<1>4. CASE Sync
  <2>1. UNCHANGED <<images, alerts, tasks, job>>
    BY <1>4 DEF Sync, ReadRow, ApplyRow, DropRow
  <2> QED
    BY <1>a, <2>1
<1>5. CASE External
  <2>1. UNCHANGED <<images, alerts, tasks>>
    BY <1>5 DEF External, QcOpensFix, QcConfirms, Arbitrate, GraceExpires
  <2>2. job'.stored = job.stored
    BY <1>5 DEF External, QcOpensFix, QcConfirms, Arbitrate, GraceExpires, TypeOK, Job
  <2> QED
    BY <1>a, <2>1, <2>2
<1>6. CASE UNCHANGED vars
  BY <1>a, <1>6 DEF vars
<1> QED
  BY <1>1, <1>2, <1>3, <1>4, <1>5, <1>6 DEF Next
-----------------------------------------------------------------------------
(* A move keeps every other column. *)
LEMMA MoveToFields ==
  ASSUME NEW o \in Order, NEW state \in States
  PROVE  /\ MoveTo(o, state) \in Order
         /\ MoveTo(o, state).state = state /\ MoveTo(o, state).since = Now
         /\ MoveTo(o, state).count = o.count /\ MoveTo(o, state).dispute = o.dispute
         /\ MoveTo(o, state).approved = o.approved /\ MoveTo(o, state).rejected = o.rejected
         /\ MoveTo(o, state).paid = o.paid
  BY DEF Order, States, MoveTo, Now

(* A save of the release flags keeps every other column. *)
LEMMA FlagsFields ==
  ASSUME NEW o \in Order, NEW a \in BOOLEAN, NEW b \in BOOLEAN
  PROVE  LET p == [o EXCEPT !.approved = a, !.rejected = b]
         IN  /\ p \in Order /\ p.approved = a /\ p.rejected = b
             /\ p.state = o.state /\ p.since = o.since /\ p.count = o.count
             /\ p.dispute = o.dispute /\ p.paid = o.paid
  BY DEF Order

(* The release flag is a column of its own. *)
LEMMA ApprovedFields ==
  ASSUME NEW o \in Order, NEW a \in BOOLEAN
  PROVE  LET p == [o EXCEPT !.approved = a]
         IN  /\ p \in Order /\ p.approved = a /\ p.rejected = o.rejected
             /\ p.state = o.state /\ p.since = o.since /\ p.count = o.count
             /\ p.dispute = o.dispute /\ p.paid = o.paid
  BY DEF Order

(* So is the status Printerval showed last. *)
LEMMA PstatFields ==
  ASSUME NEW o \in Order, NEW status \in JobStatus
  PROVE  LET p == [o EXCEPT !.pstat = status]
         IN  /\ p \in Order /\ p.approved = o.approved /\ p.rejected = o.rejected
             /\ p.state = o.state /\ p.since = o.since /\ p.count = o.count
             /\ p.dispute = o.dispute /\ p.paid = o.paid
  BY DEF Order

(* So is the payment. *)
LEMMA PaidFields ==
  ASSUME NEW o \in Order
  PROVE  LET p == [o EXCEPT !.paid = TRUE]
         IN  /\ p \in Order /\ p.approved = o.approved /\ p.rejected = o.rejected
             /\ p.state = o.state /\ p.since = o.since /\ p.count = o.count
             /\ p.dispute = o.dispute
  BY DEF Order

(* Following the sending of a dispute touches the dispute only. *)
LEMMA WithPushFields ==
  ASSUME NEW o \in Order, NEW push \in {"none", "queued", "sent", "failed"}
  PROVE  LET p == WithPush(o, push)
         IN  /\ p \in Order /\ p.approved = o.approved /\ p.rejected = o.rejected
             /\ p.state = o.state /\ p.since = o.since /\ p.count = o.count
             /\ p.dispute.push = push /\ p.dispute.round = o.dispute.round
             /\ p.paid = o.paid
  BY DEF Order, WithPush

(* Reading Printerval keeps the dispute, or shows it sent for this round. *)
LEMMA DisputeFields ==
  ASSUME NEW o \in Order, NEW row \in Row
  PROVE  LET d == Mirrored(o, row)
             p == [o EXCEPT !.dispute = d]
         IN  /\ p \in Order /\ p.approved = o.approved /\ p.rejected = o.rejected
             /\ p.state = o.state /\ p.since = o.since /\ p.count = o.count
             /\ p.dispute = d /\ p.paid = o.paid
             /\ d.push = "queued" => o.dispute.push = "queued"
             /\ \/ d.push = o.dispute.push /\ d.round = o.dispute.round
                \/ d.push = "sent" /\ d.round = o.count
  BY DEF Order, Row, Mirrored, NoDispute, Arbitration

(* Recording an outcome moves nothing by itself. *)
LEMMA OutcomeFields ==
  ASSUME NEW o \in Order, NEW outcome \in Arbitration
  PROVE  LET p == [o EXCEPT !.dispute.outcome = outcome]
         IN  /\ p \in Order /\ p.approved = o.approved /\ p.rejected = o.rejected
             /\ p.state = o.state /\ p.since = o.since /\ p.count = o.count
             /\ p.dispute.push = o.dispute.push /\ p.dispute.round = o.dispute.round
             /\ p.paid = o.paid
  BY DEF Order

(* A new Fix counts, and is not released. *)
LEMMA ToFixFields ==
  ASSUME NEW o \in Order, ToFix(o).count <= MaxCount
  PROVE  /\ ToFix(o) \in Order /\ ToFix(o).state = "REVISION" /\ ToFix(o).since = Now
         /\ ToFix(o).count = o.count + 1 /\ ToFix(o).dispute = o.dispute
         /\ ~ToFix(o).approved /\ ~ToFix(o).rejected /\ ToFix(o).paid = o.paid
<1>1. ToFix(o) \in Order
  BY ToFixType
<1>2. MoveTo(o, "REVISION") \in Order /\ MoveTo(o, "REVISION").count = o.count
      /\ MoveTo(o, "REVISION").state = "REVISION" /\ MoveTo(o, "REVISION").since = Now
      /\ MoveTo(o, "REVISION").dispute = o.dispute
      /\ MoveTo(o, "REVISION").paid = o.paid
  BY MoveToFields DEF States
<1>3. ASSUME NEW p \in Order, NEW n
      PROVE  LET q == [p EXCEPT !.count = n, !.approved = FALSE, !.rejected = FALSE]
             IN  /\ q.state = p.state /\ q.since = p.since /\ q.count = n
                 /\ q.dispute = p.dispute /\ ~q.approved /\ ~q.rejected /\ q.paid = p.paid
  BY DEF Order
<1>4. ToFix(o) = [MoveTo(o, "REVISION") EXCEPT !.count = MoveTo(o, "REVISION").count + 1,
                    !.approved = FALSE, !.rejected = FALSE]
  BY DEF ToFix
<1> QED
  BY <1>1, <1>2, <1>3, <1>4

(* What an observation makes of an order o: the record of the dispute may  *)
(* be followed, and an outcome of the arbitration moves the order back.    *)
SeenFrom(o, p) ==
  /\ p \in Order /\ p.count = o.count /\ p.paid = o.paid
  /\ p.dispute.push = "queued" => o.dispute.push = "queued"
  /\ \/ p.dispute.push = o.dispute.push /\ p.dispute.round = o.dispute.round
     \/ p.dispute.push = "sent" /\ p.dispute.round = o.count
  /\ \/ /\ p.state = o.state /\ p.since = o.since
        /\ p.approved = o.approved /\ p.rejected = o.rejected
     \/ p.state = "QC_PENDING" /\ p.since = Now /\ ~p.approved /\ o.state = "REVISION"
     \/ p.state = "REVISION" /\ p.since = Now /\ ~p.approved

(* What a status sync sees of the dispute never counts a Fix. *)
LEMMA ObservedFields ==
  ASSUME NEW o \in Order, NEW row \in Row
  PROVE  SeenFrom(o, Observed(o, row))
<1> DEFINE d == Mirrored(o, row)
           q == [o EXCEPT !.dispute = d]
<1>1. /\ q \in Order /\ q.approved = o.approved /\ q.rejected = o.rejected
      /\ q.state = o.state /\ q.since = o.since /\ q.count = o.count
      /\ q.dispute = d /\ q.paid = o.paid
      /\ d.push = "queued" => o.dispute.push = "queued"
      /\ \/ d.push = o.dispute.push /\ d.round = o.dispute.round
         \/ d.push = "sent" /\ d.round = o.count
  BY DisputeFields
<1>2. \/ Observed(o, row) = BackToReview(q) /\ o.state = "REVISION"
      \/ Observed(o, row) \in
           {o, q, [q EXCEPT !.dispute.outcome = "rejected"],
            [BackToFix(q) EXCEPT !.dispute.outcome = "rejected"],
            [q EXCEPT !.dispute.outcome = "accepted"]}
  BY DEF Observed, d, q
<1> HIDE DEF d, q
<1>3. ASSUME NEW state \in States, NEW b \in BOOLEAN
      PROVE  LET p == [MoveTo(q, state) EXCEPT !.approved = FALSE, !.rejected = b]
             IN  /\ p \in Order /\ p.state = state /\ p.since = Now /\ ~p.approved
                 /\ p.count = q.count /\ p.dispute = q.dispute /\ p.paid = q.paid
  <2>1. ASSUME NEW m \in Order, m.state = state, m.since = Now, m.count = q.count,
               m.dispute = q.dispute, m.paid = q.paid
        PROVE  LET p == [m EXCEPT !.approved = FALSE, !.rejected = b]
               IN  /\ p \in Order /\ p.state = state /\ p.since = Now /\ ~p.approved
                   /\ p.count = q.count /\ p.dispute = q.dispute /\ p.paid = q.paid
    BY <2>1 DEF Order
  <2> QED
    BY <1>1, <2>1, MoveToFields
<1>4. /\ BackToReview(q) \in Order /\ BackToReview(q).state = "QC_PENDING"
      /\ BackToReview(q).since = Now /\ ~BackToReview(q).approved
      /\ BackToReview(q).count = q.count /\ BackToReview(q).dispute = q.dispute
      /\ BackToReview(q).paid = q.paid
  BY <1>3 DEF BackToReview, States
<1>5. /\ BackToFix(q) \in Order /\ BackToFix(q).state = "REVISION"
      /\ BackToFix(q).since = Now /\ ~BackToFix(q).approved
      /\ BackToFix(q).count = q.count /\ BackToFix(q).dispute = q.dispute
      /\ BackToFix(q).paid = q.paid
  BY <1>3 DEF BackToFix, States
<1>6. ASSUME NEW p \in {q, BackToFix(q)}, NEW outcome \in {"rejected", "accepted"}
      PROVE  LET x == [p EXCEPT !.dispute.outcome = outcome]
             IN  /\ x \in Order /\ x.approved = p.approved /\ x.rejected = p.rejected
                 /\ x.state = p.state /\ x.since = p.since /\ x.count = p.count
                 /\ x.dispute.push = p.dispute.push /\ x.dispute.round = p.dispute.round
                 /\ x.paid = p.paid
  <2>1. p \in Order /\ outcome \in Arbitration
    BY <1>1, <1>5 DEF Arbitration
  <2> QED
    BY <2>1, OutcomeFields
<1>7. o.state = "REVISION" => SeenFrom(o, BackToReview(q))
  BY <1>1, <1>4 DEF SeenFrom
<1>8. SeenFrom(o, o) /\ SeenFrom(o, q) /\ SeenFrom(o, BackToFix(q))
  BY <1>1, <1>5 DEF SeenFrom
<1>9. /\ SeenFrom(o, [q EXCEPT !.dispute.outcome = "rejected"])
      /\ SeenFrom(o, [q EXCEPT !.dispute.outcome = "accepted"])
  BY <1>6, <1>8 DEF SeenFrom
<1>10. SeenFrom(o, [BackToFix(q) EXCEPT !.dispute.outcome = "rejected"])
  BY <1>5, <1>6, <1>8 DEF SeenFrom
<1> QED
  BY <1>2, <1>7, <1>8, <1>9, <1>10

-----------------------------------------------------------------------------
(* The worker runs one task at a time, and a job is filed only by a task   *)
(* that saw it undisputed: nothing else files one before that task does.   *)
Waiting == {"free", "push", "dispute"}

OneAtATime ==
  \A r, s \in Slots : r # s => tasks[r].pc \in Waiting \/ tasks[s].pc \in Waiting

FiledInv ==
  /\ job.filed > 0 => job.dispute # "none"
  /\ job.filed <= 1
  /\ \A s \in Slots : tasks[s].pc = "filing" => job.filed = 0

DisputeInv == OneAtATime /\ FiledInv

(* What a push does to the queue. *)
LEMMA PushSlots ==
  ASSUME TypeOK, NEW s \in Slots, Push(s)
  PROVE  /\ \A r \in Slots \ {s} : tasks'[r] = tasks[r]
         /\ tasks[s].pc \in {"push"} \cup PushSteps
         /\ tasks'[s].pc \in {"free", "push"} \cup PushSteps
         /\ tasks[s].pc = "push" => WorkerIdle
<1>0. tasks \in [Slots -> Task] /\ tasks[s] \in Task
  BY DEF TypeOK
<1>a. ASSUME NEW t, t.pc \in {"free", "push"} \cup PushSteps, tasks' = [tasks EXCEPT ![s] = t]
      PROVE  (\A r \in Slots \ {s} : tasks'[r] = tasks[r])
             /\ tasks'[s].pc \in {"free", "push"} \cup PushSteps
  BY <1>0, <1>a
<1>f. Free.pc = "free"
  BY DEF Free
<1>1. CASE StartPush(s)
  <2>1. [tasks[s] EXCEPT !.pc = "images", !.todo = ImagesToPush].pc = "images"
    BY <1>0 DEF Task
  <2> QED
    BY <1>1, <1>a, <1>f, <2>1 DEF StartPush, CheckThen, PushSteps
<1>2. CASE StoreImage(s)
  BY <1>0, <1>2 DEF StoreImage, PushSteps, Task
<1>3. CASE CommitImage(s)
  BY <1>0, <1>3 DEF CommitImage, PushSteps, Task
<1>4. CASE CheckStatus(s)
  <2>1. [tasks[s] EXCEPT !.pc = "sending"].pc = "sending"
    BY <1>0 DEF Task
  <2> QED
    BY <1>4, <1>a, <1>f, <2>1 DEF CheckStatus, CheckThen, PushSteps
<1>5. CASE SendReview(s)
  BY <1>0, <1>5 DEF SendReview, PushSteps, Task
<1>6. CASE RefuseForTemplate(s) \/ RecordReview(s)
  BY <1>6, <1>a, <1>f DEF RefuseForTemplate, RecordReview, PushSteps
<1>7. CASE FailPush(s)
  <2>1. [tasks[s] EXCEPT !.pc = "push", !.retries = @ + 1, !.todo = {}].pc = "push"
    BY <1>0 DEF Task
  <2> QED
    BY <1>7, <1>a, <1>f, <2>1 DEF FailPush, PushSteps
<1> QED
  BY <1>1, <1>2, <1>3, <1>4, <1>5, <1>6, <1>7 DEF Push

(* What sending a dispute does to it. *)
LEMMA DisputeSlots ==
  ASSUME TypeOK, NEW s \in Slots, SendDispute(s)
  PROVE  /\ \A r \in Slots \ {s} : tasks'[r] = tasks[r]
         /\ tasks[s].pc \in {"dispute"} \cup DisputeSteps
         /\ tasks'[s].pc \in {"free", "dispute"} \cup DisputeSteps
         /\ tasks[s].pc = "dispute" => WorkerIdle
<1>0. tasks \in [Slots -> Task] /\ tasks[s] \in Task
  BY DEF TypeOK
<1>a. ASSUME NEW t, t.pc \in {"free", "dispute"} \cup DisputeSteps, tasks' = [tasks EXCEPT ![s] = t]
      PROVE  (\A r \in Slots \ {s} : tasks'[r] = tasks[r])
             /\ tasks'[s].pc \in {"free", "dispute"} \cup DisputeSteps
  BY <1>0, <1>a
<1>f. Free.pc = "free"
  BY DEF Free
<1>1. CASE StartDispute(s)
  <2>1. CASE tasks' = [tasks EXCEPT ![s] = Free]
    BY <1>1, <1>a, <1>f, <2>1 DEF StartDispute
  <2>2. CASE \E step \in DisputeSteps : tasks' = [tasks EXCEPT ![s].pc = step, ![s].row = RowOfJob]
    BY <1>0, <1>1, <2>2 DEF StartDispute, Task
  <2> QED
    BY <1>1, <2>1, <2>2 DEF StartDispute, DisputeSteps
<1>2. CASE FileDispute(s)
  BY <1>0, <1>2 DEF FileDispute, DisputeSteps, Task
<1>3. CASE RefuseDispute(s) \/ SaveDispute(s) \/ GiveUpDispute(s)
  BY <1>3, <1>a, <1>f DEF RefuseDispute, SaveDispute, GiveUpDispute, DisputeSteps
<1>4. CASE DelayDispute(s)
  <2>1. [Free EXCEPT !.pc = "dispute", !.retries = tasks[s].retries + 1].pc = "dispute"
    BY DEF Free
  <2> QED
    BY <1>4, <1>a, <2>1 DEF DelayDispute, DisputeSteps
<1> QED
  BY <1>1, <1>2, <1>3, <1>4 DEF SendDispute

(* What a command does to it: at most a task is queued. *)
OnlyQueues ==
  \A s \in Slots : \/ tasks'[s] = tasks[s]
                   \/ tasks[s].pc = "free" /\ tasks'[s].pc \in {"push", "dispute"}

(* A command puts at most one waiting task into a free slot. *)
LEMMA EnqueueSlots ==
  ASSUME TypeOK, NEW t \in Task, t.pc \in {"push", "dispute"}, Enqueue(t)
  PROVE  OnlyQueues
<1>1. CASE UNCHANGED tasks
  BY <1>1 DEF OnlyQueues
<1>2. CASE \E s \in Slots : tasks[s].pc = "free" /\ tasks' = [tasks EXCEPT ![s] = t]
  BY <1>2 DEF OnlyQueues, TypeOK
<1> QED
  BY <1>1, <1>2 DEF Enqueue

(* No command touches a task that is there. *)
LEMMA CommandSlots ==
  ASSUME TypeOK, Command
  PROVE  OnlyQueues
<1>1. CASE SubmitResult
  <2>1. attached + 1 \in 0..MaxImages
    BY <1>1, FixReviewAssumption DEF SubmitResult, TypeOK
  <2> QED
    BY <1>1, <2>1, PushTaskType, EnqueueSlots DEF SubmitResult, SubmitTarget
<1>2. CASE PatchState
  <2>1. attached < MaxImages => attached + 1 \in 0..MaxImages
    BY FixReviewAssumption DEF TypeOK
  <2>2. UNCHANGED tasks => OnlyQueues
    BY DEF OnlyQueues
  <2> QED
    BY <1>2, <2>1, <2>2, PushTaskType, EnqueueSlots DEF PatchState
<1>3. CASE SubmitDispute \/ RetryDispute
  BY <1>3, DisputeTaskType, EnqueueSlots DEF SubmitDispute, RetryDispute
<1>4. CASE ConfirmTemplate
  <2>1. PICK q \in questions : Enqueue(PushTask("QC_PENDING", "any", TRUE, q))
    BY <1>4 DEF ConfirmTemplate
  <2>2. q \in 0..MaxImages
    BY DEF TypeOK
  <2> QED
    BY <2>1, <2>2, PushTaskType, EnqueueSlots
<1>5. CASE SubmitWithoutImage \/ StartTask \/ ApproveFix \/ Pay
  BY <1>5 DEF SubmitWithoutImage, StartTask, ApproveFix, Pay, OnlyQueues
<1> QED
  BY <1>1, <1>2, <1>3, <1>4, <1>5 DEF Command

(* One task at a time, and what it files is filed once. *)
LEMMA DisputeStep ==
  ASSUME TypeOK, DisputeInv, [Next]_vars
  PROVE  DisputeInv'
<1>0. /\ \A s \in Slots : tasks[s] \in Task
      /\ job \in Job /\ job.filed \in 0..2
  BY DEF TypeOK, Job
<1>a. ASSUME OnlyQueues PROVE OneAtATime'
  BY <1>a DEF OnlyQueues, OneAtATime, DisputeInv, Waiting
<1>b. ASSUME OnlyQueues, UNCHANGED job PROVE FiledInv'
  BY <1>b DEF OnlyQueues, FiledInv, DisputeInv
<1>1. CASE Command
  <2>1. UNCHANGED job
    BY <1>1 DEF Command, SubmitResult, SubmitWithoutImage, StartTask, PatchState, ApproveFix,
                SubmitDispute, RetryDispute, ConfirmTemplate, Pay
  <2> QED
    BY <1>1, <1>a, <1>b, <2>1, CommandSlots DEF DisputeInv
<1>c. ASSUME NEW s \in Slots, \A r \in Slots \ {s} : tasks'[r] = tasks[r],
             tasks[s].pc \in {"push", "dispute"} => WorkerIdle,
             tasks[s].pc \in {"push", "dispute"} \cup PushSteps \cup DisputeSteps
      PROVE  OneAtATime'
  BY <1>c DEF OneAtATime, DisputeInv, Waiting, WorkerIdle, PushSteps, DisputeSteps
<1>2. ASSUME NEW s \in Slots, Push(s) PROVE DisputeInv'
  <2>1. OneAtATime'
    BY <1>2, <1>c, PushSlots DEF PushSteps
  <2>2. job'.filed = job.filed /\ job'.dispute = job.dispute
    BY <1>0, <1>2 DEF Push, StartPush, StoreImage, CommitImage, CheckStatus, SendReview,
                      RefuseForTemplate, RecordReview, FailPush, Job
  <2>3. \A r \in Slots : tasks'[r].pc = "filing" => tasks[r].pc = "filing"
    BY <1>2, PushSlots DEF PushSteps
  <2> QED
    BY <2>1, <2>2, <2>3 DEF DisputeInv, FiledInv
<1>3. ASSUME NEW s \in Slots, SendDispute(s) PROVE DisputeInv'
  <2>1. OneAtATime'
    BY <1>3, <1>c, DisputeSlots DEF DisputeSteps
  <2>2. CASE StartDispute(s)
    <3>1. UNCHANGED job
      BY <2>2 DEF StartDispute
    <3>2. tasks'[s].pc = "filing" => job.dispute = "none"
      <4>1. CASE tasks' = [tasks EXCEPT ![s] = Free]
        BY <4>1 DEF TypeOK, Free
      <4>2. CASE \E step \in {"saving", "refused"} :
                   tasks' = [tasks EXCEPT ![s].pc = step, ![s].row = RowOfJob]
        BY <4>2 DEF TypeOK, Task
      <4>3. CASE MayFile(RowOfJob)
        BY <4>3 DEF MayFile, RowOfJob
      <4> QED
        BY <2>2, <4>1, <4>2, <4>3 DEF StartDispute
    <3> QED
      BY <1>0, <1>3, <2>1, <3>1, <3>2, DisputeSlots DEF DisputeInv, FiledInv
  <2>3. CASE FileDispute(s)
    <3>1. tasks[s].pc = "filing" /\ job.filed = 0
      BY <2>3 DEF FileDispute, DisputeInv, FiledInv
    <3>2. job'.filed = 1 /\ job'.dispute = "pending"
      BY <1>0, <2>3, <3>1 DEF FileDispute, Job
    <3>3. \A r \in Slots : tasks'[r].pc # "filing"
      <4>1. \A r \in Slots \ {s} : tasks'[r].pc # "filing"
        BY <1>3, <3>1, DisputeSlots DEF DisputeInv, OneAtATime, Waiting
      <4>2. tasks'[s].pc = "saving"
        BY <2>3 DEF FileDispute, TypeOK, Task
      <4> QED
        BY <4>1, <4>2
    <3> QED
      BY <2>1, <3>2, <3>3 DEF DisputeInv, FiledInv
  <2>4. CASE RefuseDispute(s) \/ SaveDispute(s) \/ GiveUpDispute(s) \/ DelayDispute(s)
    <3>1. UNCHANGED job
      BY <2>4 DEF RefuseDispute, SaveDispute, GiveUpDispute, DelayDispute
    <3>2. tasks'[s].pc \in {"free", "dispute"}
      <4>1. [Free EXCEPT !.pc = "dispute", !.retries = tasks[s].retries + 1].pc = "dispute"
        BY DEF Free
      <4>2. \A t : tasks' = [tasks EXCEPT ![s] = t] => tasks'[s] = t
        BY DEF TypeOK
      <4>3. Free.pc = "free"
        BY DEF Free
      <4> QED
        BY <2>4, <4>1, <4>2, <4>3 DEF RefuseDispute, SaveDispute, GiveUpDispute, DelayDispute
    <3> QED
      BY <1>3, <2>1, <3>1, <3>2, DisputeSlots DEF DisputeInv, FiledInv
  <2> QED
    BY <1>3, <2>2, <2>3, <2>4 DEF SendDispute
<1>4. ASSUME NEW s \in Slots, Crash(s) PROVE DisputeInv'
  <2>1. \A r \in Slots : tasks'[r].pc = tasks[r].pc \/ tasks'[r].pc = "free"
    BY <1>4 DEF Crash, TypeOK, Free
  <2>2. UNCHANGED job
    BY <1>4 DEF Crash
  <2> QED
    BY <2>1, <2>2 DEF DisputeInv, OneAtATime, FiledInv, Waiting
<1>5. CASE Sync \/ UNCHANGED vars
  <2>1. UNCHANGED job /\ UNCHANGED tasks
    BY <1>5 DEF Sync, ReadRow, ApplyRow, DropRow, vars
  <2> QED
    BY <1>a, <1>b, <2>1 DEF OnlyQueues, DisputeInv
<1>6. CASE External
  <2>1. UNCHANGED tasks
    BY <1>6 DEF External, QcOpensFix, QcConfirms, Arbitrate, GraceExpires
  <2>2. \/ job'.filed = 0
        \/ job'.filed = job.filed /\ (job.dispute # "none" => job'.dispute # "none")
    BY <1>0, <1>6 DEF External, QcOpensFix, QcConfirms, Arbitrate, GraceExpires, Job
  <2>3. FiledInv'
    BY <1>0, <2>1, <2>2 DEF DisputeInv, FiledInv
  <2> QED
    BY <1>a, <2>1, <2>3 DEF OnlyQueues, DisputeInv
<1> QED
  BY <1>1, <1>2, <1>3, <1>4, <1>5, <1>6 DEF Next, Worker

-----------------------------------------------------------------------------
(* The count of an order never falls, its dispute is never of a round yet  *)
(* to come, and a dispute is queued only by the two commands that queue a  *)
(* task for it: for every other step, p follows o.                         *)
Follows(o, p) ==
  /\ o.count <= p.count
  /\ o.dispute.round <= o.count => p.dispute.round <= p.count
  /\ p.dispute.push = "queued" => o.dispute.push = "queued" /\ p.dispute.round = o.dispute.round

QueuedInv ==
  /\ order.dispute.round <= order.count
  /\ "crash" \notin Features => QueuedDisputeHasTask

(* An order with the same count and dispute follows. *)
LEMMA SameFollows ==
  ASSUME NEW o \in Order, NEW p, p.count = o.count, p.dispute = o.dispute
  PROVE  Follows(o, p)
  BY FixReviewAssumption DEF Follows, Order

(* So does the order with what a sync saw of its dispute. *)
LEMMA SeenFollows ==
  ASSUME NEW o \in Order, NEW p, SeenFrom(o, p)
  PROVE  Follows(o, p)
  BY FixReviewAssumption DEF Follows, SeenFrom, Order

(* The commands that queue no dispute. *)
LEMMA CommandFollows ==
  ASSUME TypeOK, Command, ~SubmitDispute, ~RetryDispute
  PROVE  Follows(order, order')
<1>0. order \in Order
  BY DEF TypeOK
<1>a. ASSUME NEW state \in States PROVE Follows(order, MoveTo(order, state))
  BY <1>0, MoveToFields, SameFollows
<1>b. ASSUME NEW state \in States, NEW a \in BOOLEAN, NEW b \in BOOLEAN
      PROVE  Follows(order, [MoveTo(order, state) EXCEPT !.approved = a, !.rejected = b])
  <2>1. /\ MoveTo(order, state) \in Order /\ MoveTo(order, state).count = order.count
        /\ MoveTo(order, state).dispute = order.dispute
    BY <1>0, MoveToFields
  <2>2. ASSUME NEW m \in Order
        PROVE  /\ [m EXCEPT !.approved = a, !.rejected = b].count = m.count
               /\ [m EXCEPT !.approved = a, !.rejected = b].dispute = m.dispute
    BY DEF Order
  <2> QED
    BY <1>0, <2>1, <2>2, SameFollows
<1>1. CASE SubmitResult \/ SubmitWithoutImage
  BY <1>1, <1>a DEF SubmitResult, SubmitWithoutImage, SubmitTarget, Commit, Save, States
<1>2. CASE StartTask
  BY <1>2, <1>a DEF StartTask, Commit, Save, States
<1>3. CASE PatchState
  BY <1>3, <1>a, <1>b DEF PatchState, Commit, Save, States
<1>4. CASE ApproveFix
  <2>1. PICK rejected \in {FALSE, order.rejected} :
          order' = [MoveTo(order, "REVISION") EXCEPT !.approved = TRUE, !.rejected = rejected]
    BY <1>4 DEF ApproveFix, Save
  <2>2. rejected \in BOOLEAN
    BY <1>0, <2>1 DEF Order
  <2> QED
    BY <1>b, <2>1, <2>2 DEF States
<1>5. CASE ConfirmTemplate
  <2>1. order' = [MoveTo(order, "QC_PENDING") EXCEPT
                    !.approved = order.approved /\ order.state = "QC_PENDING"]
    BY <1>5 DEF ConfirmTemplate, Commit, Save
  <2>2. order'.count = order.count /\ order'.dispute = order.dispute
    BY <1>0, <2>1, MoveToFields, ApprovedFields DEF States
  <2> QED
    BY <1>0, <2>2, SameFollows
<1>6. CASE Pay
  <2> DEFINE o == [order EXCEPT !.paid = TRUE]
  <2>1. o \in Order /\ o.count = order.count /\ o.dispute = order.dispute
    BY <1>0, PaidFields
  <2>2. order' \in {o, MoveTo(o, "DONE")}
    BY <1>6 DEF Pay, Commit, Save
  <2> HIDE DEF o
  <2>3. order'.count = order.count /\ order'.dispute = order.dispute
    BY <2>1, <2>2, MoveToFields DEF States
  <2> QED
    BY <1>0, <2>3, SameFollows
<1> QED
  BY <1>1, <1>2, <1>3, <1>4, <1>5, <1>6 DEF Command

(* What a sync makes of the order it has observed. *)
LEMMA ReconciledFields ==
  ASSUME NEW o \in Order, NEW row \in Row, NEW readable \in BOOLEAN,
         NEW n \in {Reconciled(o, row, readable), ReconciledSelected(o, row, readable)},
         n.count <= MaxCount
  PROVE  \/ n = o
         \/ /\ n = ToFix(o) /\ ToFix(o).count <= MaxCount
            /\ row.status = "fix" /\ o.state # "REVISION" /\ IsNewFix(o, readable)
         \/ n = MoveTo(o, "QC_PENDING") /\ o.state = "REVISION" /\ o.rejected
  BY DEF Reconciled, ReconciledSelected

(* ... and what it saves. *)
LEMMA ApplyFields ==
  ASSUME TypeOK, NEW y \in Syncs, ApplyRow(y)
  PROVE  \E row \in syncs[y], readable \in BOOLEAN, n \in Order :
           LET o == Observed(order, row)
           IN  /\ order' = [n EXCEPT !.pstat = row.status]
               /\ \/ n = o
                  \/ /\ n = ToFix(o) /\ ToFix(o).count <= MaxCount
                     /\ row.status = "fix" /\ o.state # "REVISION" /\ IsNewFix(o, readable)
                  \/ n = MoveTo(o, "QC_PENDING") /\ o.state = "REVISION" /\ o.rejected
<1>1. PICK row \in syncs[y], readable \in BOOLEAN :
        LET o == Observed(order, row)
            n == IF y = "active" THEN Reconciled(o, row, readable)
                                 ELSE ReconciledSelected(o, row, readable)
        IN n.count <= MaxCount /\ Commit([n EXCEPT !.pstat = row.status])
  BY DEF ApplyRow
<1> DEFINE o == Observed(order, row)
           n == IF y = "active" THEN Reconciled(o, row, readable)
                                ELSE ReconciledSelected(o, row, readable)
<1>2. row \in Row
  BY DEF TypeOK
<1>3. o \in Order
  BY <1>2, ObservedFields DEF SeenFrom, TypeOK
<1>4. /\ n \in {Reconciled(o, row, readable), ReconciledSelected(o, row, readable)}
      /\ n.count <= MaxCount /\ order' = [n EXCEPT !.pstat = row.status]
  BY <1>1 DEF Commit, Save
<1> HIDE DEF o, n
<1>5. \/ n = o
      \/ /\ n = ToFix(o) /\ ToFix(o).count <= MaxCount
         /\ row.status = "fix" /\ o.state # "REVISION" /\ IsNewFix(o, readable)
      \/ n = MoveTo(o, "QC_PENDING") /\ o.state = "REVISION" /\ o.rejected
  BY <1>2, <1>3, <1>4, ReconciledFields
<1>6. n \in Order
  BY <1>3, <1>5, ToFixFields, MoveToFields DEF States
<1> QED
  BY <1>4, <1>5, <1>6 DEF o

(* What a dispute step saves follows the order; a saved one is not queued. *)
LEMMA SaveFollows ==
  ASSUME NEW o \in Order, NEW row \in Row, NEW status \in JobStatus
  PROVE  /\ Follows(o, [Observed(WithPush(o, "sent"), row) EXCEPT !.pstat = status])
         /\ [Observed(WithPush(o, "sent"), row) EXCEPT !.pstat = status].dispute.push # "queued"
<1>1. /\ WithPush(o, "sent") \in Order /\ WithPush(o, "sent").count = o.count
      /\ WithPush(o, "sent").dispute.push = "sent"
      /\ WithPush(o, "sent").dispute.round = o.dispute.round
  BY WithPushFields
<1>2. SeenFrom(WithPush(o, "sent"), Observed(WithPush(o, "sent"), row))
  BY <1>1, ObservedFields
<1> DEFINE p == Observed(WithPush(o, "sent"), row)
<1>3. /\ p \in Order /\ p.count = o.count /\ p.dispute.push # "queued"
      /\ p.dispute.round \in {o.dispute.round, o.count}
  BY <1>1, <1>2 DEF SeenFrom
<1>4. p.count \in Int /\ o.count \in Int /\ o.dispute.round \in Int
  BY <1>3, FixReviewAssumption DEF Order
<1> HIDE DEF p
<1>5. [p EXCEPT !.pstat = status].count = p.count /\ [p EXCEPT !.pstat = status].dispute = p.dispute
  BY <1>3, PstatFields
<1>6. Follows(o, [p EXCEPT !.pstat = status]) /\ [p EXCEPT !.pstat = status].dispute.push # "queued"
  BY <1>3, <1>4, <1>5 DEF Follows
<1> QED
  BY <1>6 DEF p

(* So does the order a status sync saves. *)
LEMMA ApplyFollows ==
  ASSUME TypeOK, NEW y \in Syncs, ApplyRow(y)
  PROVE  Follows(order, order')
<1>1. PICK row \in syncs[y], readable \in BOOLEAN, n \in Order :
        LET o == Observed(order, row)
        IN  /\ order' = [n EXCEPT !.pstat = row.status]
            /\ \/ n = o
               \/ /\ n = ToFix(o) /\ ToFix(o).count <= MaxCount
                  /\ row.status = "fix" /\ o.state # "REVISION" /\ IsNewFix(o, readable)
               \/ n = MoveTo(o, "QC_PENDING") /\ o.state = "REVISION" /\ o.rejected
  BY ApplyFields
<1> DEFINE o == Observed(order, row)
<1>2. row \in Row /\ row.status \in JobStatus /\ order \in Order
  BY DEF TypeOK, Row
<1>3. SeenFrom(order, o) /\ o \in Order
  BY <1>2, ObservedFields DEF SeenFrom
<1>4. Follows(order, o)
  BY <1>2, <1>3, SeenFollows
<1> HIDE DEF o
<1>5. o.count \in Nat /\ order.count \in Nat /\ o.dispute.round \in Int /\ order.dispute.round \in Int
  BY <1>2, <1>3, FixReviewAssumption DEF Order
<1>6. (n.count = o.count \/ n.count = o.count + 1) /\ n.dispute = o.dispute
  BY <1>1, <1>3, MoveToFields, ToFixFields DEF o, States
<1>7. order'.count = n.count /\ order'.dispute = n.dispute
  BY <1>1, <1>2, PstatFields
<1> QED
  BY <1>4, <1>5, <1>6, <1>7 DEF Follows

(* A dispute that is queued has a task, as long as no task gets lost. *)
LEMMA QueuedStep ==
  ASSUME TypeOK, WorkedFixIsReleased, QueuedInv, [Next]_vars
  PROVE  QueuedInv'
<1> DEFINE HasTask == \E s \in Slots : tasks[s].pc \in {"dispute"} \cup DisputeSteps
           Keeps == \A s \in Slots : tasks[s].pc \in {"dispute"} \cup DisputeSteps
                                       => tasks'[s].pc \in {"dispute"} \cup DisputeSteps
<1>0. /\ order \in Order /\ order' \in Order
      /\ order.count \in Nat /\ order'.count \in Nat
      /\ order.dispute.round \in Nat /\ order'.dispute.round \in Nat
  <2>1. order \in Order
    BY DEF TypeOK
  <2>2. order' \in Order
    BY OrderStep
  <2> QED
    BY <2>1, <2>2, FixReviewAssumption DEF Order
<1>a. ASSUME Follows(order, order'), Keeps PROVE QueuedInv'
  BY <1>0, <1>a DEF QueuedInv, QueuedDisputeHasTask, Follows, IsCurrent
<1>b. ASSUME Follows(order, order'), order'.dispute.push # "queued" \/ ~IsCurrent(order') PROVE QueuedInv'
  BY <1>0, <1>b DEF QueuedInv, QueuedDisputeHasTask, Follows
<1>c. UNCHANGED order => Follows(order, order')
  BY <1>0, SameFollows
<1>d. OnlyQueues => Keeps
  BY DEF OnlyQueues, DisputeSteps
<1>1. CASE SubmitDispute \/ RetryDispute
  <2>1. order'.dispute.round <= order'.count
    <3>1. CASE order' = WithNewDispute(order)
      <4>1. order'.count = order.count /\ order'.dispute.round = order.count
        BY <1>0, <3>1 DEF WithNewDispute, NoDispute, Order
      <4> QED
        BY <1>0, <4>1
    <3>2. CASE order' = WithPush(order, "queued")
      <4>1. order'.count = order.count /\ order'.dispute.round = order.dispute.round
        BY <1>0, <3>2, WithPushFields
      <4> QED
        BY <1>0, <4>1 DEF QueuedInv
    <3> QED
      BY <1>1, <3>1, <3>2 DEF SubmitDispute, RetryDispute, Commit, Save
  <2>2. Enqueue([Free EXCEPT !.pc = "dispute"])
    BY <1>1 DEF SubmitDispute, RetryDispute
  <2>3. ASSUME "crash" \notin Features PROVE HasTask'
    <3>1. PICK s \in Slots : tasks' = [tasks EXCEPT ![s] = [Free EXCEPT !.pc = "dispute"]]
      BY <2>2, <2>3 DEF Enqueue
    <3> QED
      BY <3>1, DisputeTaskType DEF TypeOK
  <2> QED
    BY <2>1, <2>3 DEF QueuedInv, QueuedDisputeHasTask
<1>2. CASE Command /\ ~SubmitDispute /\ ~RetryDispute
  BY <1>2, <1>a, <1>d, CommandFollows, CommandSlots
<1>3. ASSUME NEW s \in Slots, Push(s) PROVE QueuedInv'
  <2>1. Keeps
    BY <1>3, PushSlots DEF PushSteps, DisputeSteps
  <2>2. CASE RecordReview(s)
    <3>1. order' = [order EXCEPT !.pstat = "review"]
      BY <2>2 DEF RecordReview, Commit, Save
    <3>2. order'.count = order.count /\ order'.dispute = order.dispute
      BY <1>0, <3>1 DEF Order
    <3> QED
      BY <1>0, <1>a, <2>1, <3>2, SameFollows
  <2>3. CASE UNCHANGED order
    BY <1>a, <1>c, <2>1, <2>3
  <2> QED
    BY <1>3, <2>2, <2>3 DEF Push, StartPush, StoreImage, CommitImage, CheckStatus, SendReview,
                            RefuseForTemplate, FailPush
<1>4. ASSUME NEW s \in Slots, SendDispute(s) PROVE QueuedInv'
  <2>1. tasks'[s].pc # "free" => Keeps
    BY <1>4, DisputeSlots
  <2>2. CASE StartDispute(s)
    <3>1. UNCHANGED order
      BY <2>2 DEF StartDispute
    <3>2. CASE ~IsCurrent(order) \/ order.dispute.push # "queued"
      BY <1>b, <1>c, <3>1, <3>2 DEF IsCurrent
    <3>3. CASE \E step \in DisputeSteps :
                 tasks' = [tasks EXCEPT ![s].pc = step, ![s].row = RowOfJob]
      <4>1. tasks'[s].pc # "free"
        BY <3>3 DEF TypeOK, Task, DisputeSteps
      <4> QED
        BY <1>a, <1>c, <2>1, <3>1, <4>1
    <3> QED
      BY <2>2, <3>2, <3>3 DEF StartDispute, DisputeSteps
  <2>3. CASE FileDispute(s)
    <3>1. UNCHANGED order /\ tasks'[s].pc = "saving"
      BY <2>3 DEF FileDispute, TypeOK, Task
    <3> QED
      BY <1>a, <1>c, <2>1, <3>1
  <2>4. CASE RefuseDispute(s) \/ GiveUpDispute(s)
    <3>1. order' = WithPush(order, "failed")
      BY <2>4 DEF RefuseDispute, GiveUpDispute, MarkFailed, Commit, Save
    <3>2. /\ order'.count = order.count /\ order'.dispute.push = "failed"
          /\ order'.dispute.round = order.dispute.round
      BY <1>0, <3>1, WithPushFields
    <3>3. Follows(order, order')
      BY <1>0, <3>2 DEF Follows
    <3> QED
      BY <1>b, <3>2, <3>3
  <2>5. CASE SaveDispute(s)
    <3>1. tasks[s].row \in Row /\ tasks[s].row.status \in JobStatus
      BY DEF TypeOK, Task, Row
    <3>2. order' = [Observed(WithPush(order, "sent"), tasks[s].row) EXCEPT !.pstat = tasks[s].row.status]
      BY <2>5 DEF SaveDispute, Commit, Save
    <3> QED
      BY <1>0, <1>b, <3>1, <3>2, SaveFollows
  <2>6. CASE DelayDispute(s)
    <3>1. [Free EXCEPT !.pc = "dispute", !.retries = tasks[s].retries + 1].pc = "dispute"
      BY DEF Free
    <3>2. tasks'[s].pc # "free" /\ UNCHANGED order
      BY <2>6, <3>1 DEF DelayDispute, TypeOK
    <3> QED
      BY <1>a, <1>c, <2>1, <3>2
  <2> QED
    BY <1>4, <2>2, <2>3, <2>4, <2>5, <2>6 DEF SendDispute
<1>5. ASSUME NEW s \in Slots, Crash(s) PROVE QueuedInv'
  BY <1>5 DEF Crash, QueuedInv
<1>6. CASE Sync
  <2>1. PICK y \in Syncs : ReadRow(y) \/ ApplyRow(y) \/ DropRow(y)
    BY <1>6 DEF Sync
  <2>2. UNCHANGED tasks
    BY <2>1 DEF ReadRow, ApplyRow, DropRow
  <2>3. Follows(order, order')
    BY <1>c, <2>1, ApplyFollows DEF ReadRow, DropRow
  <2> QED
    BY <1>a, <2>2, <2>3
<1>7. CASE External \/ UNCHANGED vars
  <2>1. UNCHANGED tasks
    BY <1>7 DEF External, QcOpensFix, QcConfirms, Arbitrate, GraceExpires, vars
  <2>2. order'.count = order.count /\ order'.dispute = order.dispute
    BY <1>0, <1>7 DEF External, QcOpensFix, QcConfirms, Arbitrate, GraceExpires, vars, Order
  <2> QED
    BY <1>0, <1>a, <2>1, <2>2, SameFollows
<1> QED
  BY <1>1, <1>2, <1>3, <1>4, <1>5, <1>6, <1>7 DEF Next, Worker

-----------------------------------------------------------------------------
(* Without the four ways out of the Fix and Review cycle (a payment, a     *)
(* PATCH, the start of a Trello card, the end of the grace window) an      *)
(* order is counted at most once per Fix round: it is in Review with a Fix *)
(* QC opened since only while that Fix is not counted yet.                 *)
CycleOnly == Features \cap {"paid", "patch", "start", "expire"} = {}

CountInv ==
  /\ order.state \in {"WAITING", "QC_PENDING", "REVISION"}
  /\ order.since.fresh /\ ~order.paid
  /\ order.count <= job.round
  /\ order.since.opened => order.count < job.round
  /\ order.state = "WAITING" => order.count = 0
  /\ job.status = "fix" \/ job.dispute = "pending" => job.round > 0
  /\ \A y \in Syncs : \A row \in syncs[y] : row.status = "fix" => job.round > 0

(* Every save but one that counts: the order stays, or moves within the    *)
(* cycle and is dated anew.                                                *)
Moved(o, p) ==
  /\ p.count = o.count /\ p.paid = o.paid
  /\ \/ p.state = o.state /\ p.since = o.since
     \/ p.state \in {"QC_PENDING", "REVISION"} /\ p.since = Now

(* Commands never count, and date what they move. *)
LEMMA CommandMoves ==
  ASSUME TypeOK, CycleOnly, ~order.paid, Command
  PROVE  Moved(order, order') /\ UNCHANGED <<syncs, job>>
<1>0. order \in Order
  BY DEF TypeOK
<1>a. ASSUME NEW state \in {"QC_PENDING", "REVISION"}
      PROVE  /\ MoveTo(order, state) \in Order
             /\ MoveTo(order, state).state = state /\ MoveTo(order, state).since = Now
             /\ MoveTo(order, state).count = order.count /\ MoveTo(order, state).paid = order.paid
  BY <1>0, MoveToFields DEF States
<1>1. CASE SubmitResult \/ SubmitWithoutImage
  BY <1>1, <1>a DEF SubmitResult, SubmitWithoutImage, SubmitTarget, Commit, Save, Moved
<1>2. CASE ApproveFix
  <2>1. PICK rejected \in {FALSE, order.rejected} :
          order' = [MoveTo(order, "REVISION") EXCEPT !.approved = TRUE, !.rejected = rejected]
    BY <1>2 DEF ApproveFix, Save
  <2>2. ASSUME NEW m \in Order
        PROVE  LET p == [m EXCEPT !.approved = TRUE, !.rejected = rejected]
               IN  p.state = m.state /\ p.since = m.since /\ p.count = m.count /\ p.paid = m.paid
    BY DEF Order
  <2> QED
    BY <1>2, <1>a, <2>1, <2>2 DEF Moved, ApproveFix
<1>3. CASE SubmitDispute
  <2>1. ASSUME NEW d
        PROVE  LET p == [order EXCEPT !.dispute = d, !.rejected = TRUE]
               IN  /\ p.state = order.state /\ p.since = order.since
                   /\ p.count = order.count /\ p.paid = order.paid
    BY <1>0 DEF Order
  <2> QED
    BY <1>3, <2>1 DEF SubmitDispute, Commit, Save, WithNewDispute, Moved
<1>4. CASE RetryDispute
  BY <1>0, <1>4, WithPushFields DEF RetryDispute, Commit, Save, Moved
<1>5. CASE ConfirmTemplate
  <2>1. ASSUME NEW m \in Order, NEW a
        PROVE  LET p == [m EXCEPT !.approved = a]
               IN  p.state = m.state /\ p.since = m.since /\ p.count = m.count /\ p.paid = m.paid
    BY DEF Order
  <2> QED
    BY <1>5, <1>a, <2>1 DEF ConfirmTemplate, Commit, Save, Moved
<1>6. ~StartTask /\ ~PatchState /\ ~Pay
  BY DEF CycleOnly, StartTask, PatchState, Pay
<1>7. UNCHANGED <<syncs, job>>
  BY <1>6 DEF Command, SubmitResult, SubmitWithoutImage, ApproveFix, SubmitDispute, RetryDispute,
              ConfirmTemplate
<1> QED
  BY <1>1, <1>2, <1>3, <1>4, <1>5, <1>6, <1>7 DEF Command

(* What a sync sees of a dispute moves within the cycle. *)
LEMMA SeenMoves ==
  ASSUME NEW o, NEW p, SeenFrom(o, p)
  PROVE  Moved(o, p)
  BY DEF SeenFrom, Moved

(* What the worker saves. *)
LEMMA WorkerMoves ==
  ASSUME TypeOK, NEW s \in Slots, Push(s) \/ SendDispute(s)
  PROVE  Moved(order, order') /\ UNCHANGED syncs
<1>0. order \in Order /\ tasks[s].row \in Row /\ tasks[s].row.status \in JobStatus
  BY DEF TypeOK, Task, Row
<1>1. CASE RecordReview(s)
  <2>1. order' = [order EXCEPT !.pstat = "review"]
    BY <1>1 DEF RecordReview, Commit, Save
  <2> QED
    BY <1>0, <1>1, <2>1 DEF RecordReview, Moved, Order
<1>2. CASE RefuseDispute(s) \/ GiveUpDispute(s)
  BY <1>0, <1>2, WithPushFields DEF RefuseDispute, GiveUpDispute, MarkFailed, Commit, Save, Moved
<1>3. CASE SaveDispute(s)
  <2> DEFINE o == WithPush(order, "sent")
             p == Observed(o, tasks[s].row)
  <2>1. /\ o \in Order /\ o.state = order.state /\ o.since = order.since
        /\ o.count = order.count /\ o.paid = order.paid
    BY <1>0, WithPushFields
  <2>2. order' = [p EXCEPT !.pstat = tasks[s].row.status]
    BY <1>3 DEF SaveDispute, Commit, Save
  <2> HIDE DEF o
  <2>3. SeenFrom(o, p) /\ p \in Order
    BY <1>0, <2>1, ObservedFields DEF SeenFrom
  <2> HIDE DEF p
  <2>4. /\ order'.state = p.state /\ order'.since = p.since
        /\ order'.count = p.count /\ order'.paid = p.paid
    BY <1>0, <2>2, <2>3 DEF Order
  <2> QED
    BY <1>3, <2>1, <2>3, <2>4, SeenMoves DEF SaveDispute, Moved
<1>4. CASE UNCHANGED order
  BY <1>4 DEF Moved, Push, StartPush, StoreImage, CommitImage, CheckStatus, SendReview,
              RefuseForTemplate, RecordReview, FailPush, SendDispute, StartDispute, FileDispute,
              RefuseDispute, SaveDispute, GiveUpDispute, DelayDispute
<1> QED
  BY <1>1, <1>2, <1>3, <1>4 DEF Push, StartPush, StoreImage, CommitImage, CheckStatus, SendReview,
              RefuseForTemplate, FailPush, SendDispute, StartDispute, FileDispute, DelayDispute

(* Every step keeps the count below the rounds QC opened. *)
LEMMA CountStep ==
  ASSUME TypeOK, CycleOnly, CountInv, [Next]_vars
  PROVE  CountInv'
<1> DEFINE Rounds == /\ job'.round = job.round
                     /\ job'.status = "fix" \/ job'.dispute = "pending"
                          => job.status = "fix" \/ job.dispute = "pending"
<1>0. /\ order \in Order /\ order.count \in Nat
      /\ job \in Job /\ job.round \in Nat
      /\ syncs \in [Syncs -> SUBSET Row]
  BY FixReviewAssumption DEF TypeOK, Order, Job
<1>n. Now.fresh /\ ~Now.opened
  BY DEF Now
<1>a. ASSUME Moved(order, order'), Rounds, UNCHANGED syncs
      PROVE  CountInv'
  BY <1>0, <1>a, <1>n DEF CountInv, Moved
<1>1. CASE Command
  BY <1>1, <1>a, CommandMoves DEF CountInv
<1>2. ASSUME NEW s \in Slots, Push(s) \/ SendDispute(s) PROVE CountInv'
  <2>1. CASE FileDispute(s)
    BY <1>0, <1>2, <1>a, <2>1, WorkerMoves DEF FileDispute, Job
  <2>2. CASE SendReview(s) \/ StoreImage(s)
    BY <1>0, <1>2, <1>a, <2>2, WorkerMoves DEF SendReview, StoreImage, Job
  <2>3. CASE UNCHANGED job
    BY <1>2, <1>a, <2>3, WorkerMoves
  <2> QED
    BY <1>2, <2>1, <2>2, <2>3 DEF Push, StartPush, CommitImage, CheckStatus, RefuseForTemplate,
         RecordReview, FailPush, SendDispute, StartDispute, RefuseDispute, SaveDispute,
         GiveUpDispute, DelayDispute
<1>3. ASSUME NEW y \in Syncs, ApplyRow(y) PROVE CountInv'
  <2>1. PICK row \in syncs[y], readable \in BOOLEAN, n \in Order :
          LET o == Observed(order, row)
          IN  /\ order' = [n EXCEPT !.pstat = row.status]
              /\ \/ n = o
                 \/ /\ n = ToFix(o) /\ ToFix(o).count <= MaxCount
                    /\ row.status = "fix" /\ o.state # "REVISION" /\ IsNewFix(o, readable)
                 \/ n = MoveTo(o, "QC_PENDING") /\ o.state = "REVISION" /\ o.rejected
    BY <1>3, ApplyFields
  <2> DEFINE o == Observed(order, row)
  <2>2. row \in Row /\ row.status \in JobStatus
    BY <1>0 DEF Row
  <2>3. o \in Order /\ Moved(order, o)
    BY <1>0, <2>2, ObservedFields, SeenMoves DEF SeenFrom
  <2>4. /\ order'.state = n.state /\ order'.since = n.since
        /\ order'.count = n.count /\ order'.paid = n.paid
    BY <2>1, <2>2, PstatFields
  <2>5. UNCHANGED job /\ \A z \in Syncs : syncs'[z] \subseteq syncs[z]
    BY <1>0, <1>3 DEF ApplyRow
  <2>6. \/ n = o
        \/ /\ n = ToFix(o) /\ ToFix(o).count <= MaxCount
           /\ row.status = "fix" /\ o.state # "REVISION" /\ IsNewFix(o, readable)
        \/ n = MoveTo(o, "QC_PENDING")
    BY <2>1
  <2> HIDE DEF o
  <2>7. CASE n \in {o, MoveTo(o, "QC_PENDING")}
    <3>1. Moved(o, n)
      BY <2>3, <2>7, MoveToFields DEF Moved, States
    <3>2. Moved(order, order')
      BY <2>3, <2>4, <3>1 DEF Moved
    <3> QED
      BY <1>0, <1>n, <2>5, <3>2 DEF CountInv, Moved
  <2>8. CASE /\ n = ToFix(o) /\ ToFix(o).count <= MaxCount
             /\ row.status = "fix" /\ o.state # "REVISION" /\ IsNewFix(o, readable)
    <3>1. /\ n.state = "REVISION" /\ n.since = Now /\ n.count = o.count + 1 /\ n.paid = o.paid
      BY <2>3, <2>8, ToFixFields
    <3>2. o.count = order.count /\ o.paid = order.paid
      BY <2>3 DEF Moved
    <3>3. order.count + 1 <= job.round
      <4>1. CASE o.state = "QC_PENDING" /\ o.since = Now
        BY <1>n, <2>8, <4>1 DEF IsNewFix
      <4>2. CASE o.state = order.state /\ o.since = order.since
        BY <1>0, <2>1, <2>8, <4>2 DEF IsNewFix, CountInv
      <4> QED
        BY <2>3, <2>8, <4>1, <4>2 DEF Moved
    <3> QED
      BY <1>0, <1>n, <2>4, <2>5, <3>1, <3>2, <3>3 DEF CountInv
  <2> QED
    BY <2>6, <2>7, <2>8
<1>4. ASSUME NEW y \in Syncs, ReadRow(y) \/ DropRow(y) PROVE CountInv'
  <2>1. UNCHANGED <<order, job>>
    BY <1>4 DEF ReadRow, DropRow
  <2>2. \A z \in Syncs : \A row \in syncs'[z] : row \in syncs[z] \/ row.status = job.status
    BY <1>0, <1>4 DEF ReadRow, DropRow, RowOfJob
  <2> QED
    BY <2>1, <2>2 DEF CountInv
<1>5. CASE QcOpensFix
  <2>1. /\ job'.round = job.round + 1 /\ UNCHANGED syncs
        /\ order'.state = order.state /\ order'.since.fresh = order.since.fresh
        /\ order'.count = order.count /\ order'.paid = order.paid
    BY <1>0, <1>5 DEF QcOpensFix, Order, Job
  <2> QED
    BY <1>0, <2>1 DEF CountInv
<1>6. CASE QcConfirms \/ Arbitrate
  <2>1. Rounds /\ UNCHANGED <<order, syncs>>
    BY <1>0, <1>6 DEF QcConfirms, Arbitrate, Job
  <2> QED
    BY <1>a, <2>1 DEF Moved
<1>7. ~GraceExpires
  BY DEF GraceExpires, CycleOnly
<1>8. ASSUME NEW s \in Slots, Crash(s) PROVE CountInv'
  BY <1>8, <1>a DEF Crash, Moved
<1>9. CASE UNCHANGED vars
  BY <1>9, <1>a DEF vars, Moved
<1> QED
  BY <1>1, <1>2, <1>3, <1>4, <1>5, <1>6, <1>7, <1>8, <1>9 DEF Next, Worker, Sync, External

-----------------------------------------------------------------------------
(* Submissions and their pushes, with or without payments, the start of a  *)
(* Trello card and the end of the grace window.                            *)
PlainOnly == Features \subseteq {"start", "expire", "paid"}

(* The push the newest submission of an order in Review is waiting for:    *)
(* the worker will not drop it as obsolete.                                *)
ExpectedPush(t) ==
  /\ t.pc \in Pushing \ {"recording"}
  /\ t.sub = attached
  /\ t.expState = "QC_PENDING"
  /\ t.expApproved = IF order.approved THEN "yes" ELSE "no"

PlainOrder ==
  /\ order.state \in {"WAITING", "IN_PROGRESS", "QC_PENDING", "REVISION", "DONE"}
  /\ order.state = "DONE" => order.paid
  /\ order.paid => /\ "paid" \in Features /\ order.state # "REVISION"
                   /\ order.count = 0 /\ ~order.approved
  /\ ~order.rejected
  /\ order.state # "REVISION" /\ order.count > 0 => order.approved
  /\ order.state = "QC_PENDING" => attached > 0

Undisputed ==
  /\ order.dispute.push = "none" /\ job.dispute = "none"
  /\ \A y \in Syncs : \A row \in syncs[y] : row.dispute = "none"
  /\ \A s \in Slots : tasks[s].pc \notin {"dispute"} \cup DisputeSteps
  /\ questions = {} /\ ~job.asks

(* An order in Review whose submission is not on Printerval, image and     *)
(* status, has a push under way or an alert.                               *)
PushInv ==
  order.state = "QC_PENDING" /\ ~Arrived
    => attached \in failed \/ \E s \in Slots : ExpectedPush(tasks[s])

(* Past a grace window that nothing outlived, no push of the submission is *)
(* left, and whoever reads that old Fix reads it after the alert.          *)
GraceInv ==
  order.state = "QC_PENDING" /\ ~order.since.fresh /\ ~order.since.outlived =>
    /\ ~Underway(attached)
    /\ ~order.since.opened =>
         \A y \in Syncs : \A row \in syncs[y] : row.status = "fix" => attached \in failed

(* A paid order that ever had a Fix is not in Review again: what is        *)
(* resubmitted goes to Done.                                               *)
Closed ==
  /\ order.paid /\ "paid" \in Features /\ ~order.rejected
  /\ order.count > 0 \/ order.approved
  /\ order.state \in {"IN_PROGRESS", "REVISION", "DONE"}

PlainOpen == PlainOrder /\ PushInv /\ GraceInv

PlainInv == Undisputed /\ (PlainOpen \/ Closed)

(* The submission: a push that is expected is queued. *)
LEMMA PlainSubmit ==
  ASSUME TypeOK, PlainOnly, PlainOrder, SubmitResult
  PROVE  /\ order' = MoveTo(order, "QC_PENDING")
         /\ attached' = attached + 1
         /\ UNCHANGED <<pushed, syncs, job>> /\ UNCHANGED alerts
         /\ \E s \in Slots, t \in Task :
              /\ tasks[s].pc = "free" /\ tasks' = [tasks EXCEPT ![s] = t]
              /\ t.pc = "push" /\ t.sub = attached + 1 /\ t.expState = "QC_PENDING"
              /\ t.expApproved = IF order.approved THEN "yes" ELSE "no"
<1>1. SubmitTarget = "QC_PENDING"
  BY DEF SubmitTarget, IsFixResubmission, PlainOrder
<1>2. IsFixResubmission <=> order.approved
  BY FixReviewAssumption DEF SubmitResult, MaySubmit, IsFixResubmission, PlainOrder, TypeOK, Order
<1>3. attached + 1 \in 0..MaxImages
  BY FixReviewAssumption DEF SubmitResult, TypeOK
<1> DEFINE a == IF IsFixResubmission THEN "yes" ELSE "no"
           t == PushTask("QC_PENDING", a, FALSE, attached + 1)
<1>4. /\ t \in Task /\ t.pc = "push" /\ t.sub = attached + 1 /\ t.expState = "QC_PENDING"
      /\ t.expApproved = IF order.approved THEN "yes" ELSE "no"
  <2>1. a \in {"yes", "no", "any"} /\ a = IF order.approved THEN "yes" ELSE "no"
    BY <1>2
  <2> HIDE DEF a
  <2>2. t \in Task /\ t.pc = "push" /\ t.sub = attached + 1
    <3>1. ASSUME NEW b \in {"yes", "no", "any"}, NEW n \in 0..MaxImages
          PROVE  /\ PushTask("QC_PENDING", b, FALSE, n) \in Task
                 /\ PushTask("QC_PENDING", b, FALSE, n).pc = "push"
                 /\ PushTask("QC_PENDING", b, FALSE, n).sub = n
      BY FreeTask DEF PushTask, Task
    <3>2. a \in {"yes", "no", "any"} /\ attached + 1 \in 0..MaxImages
      BY <1>3, <2>1
    <3> QED
      BY <3>1, <3>2, Zenon
  <2>3. t.expState = "QC_PENDING" /\ t.expApproved = a
    BY DEF PushTask, Free
  <2> HIDE DEF t
  <2> QED
    BY <2>1, <2>2, <2>3
<1>5. \E s \in Slots : tasks[s].pc = "free" /\ tasks' = [tasks EXCEPT ![s] = t]
  BY <1>1 DEF SubmitResult, Enqueue, PlainOnly
<1> HIDE DEF t
<1> QED
  BY <1>1, <1>4, <1>5 DEF SubmitResult, Commit, Save, alerts

(* The other commands: the order leaves Review. *)
LEMMA PlainCommand ==
  ASSUME TypeOK, PlainOnly, PlainOrder, Undisputed, Command, ~SubmitResult
  PROVE  /\ order'.state # "QC_PENDING" /\ order'.count = order.count
         /\ PlainOrder' \/ Closed'
         /\ order'.dispute.push = "none"
         /\ UNCHANGED <<attached, pushed, tasks, syncs, job>> /\ UNCHANGED alerts
<1>0. order \in Order /\ order.count \in Nat
  BY FixReviewAssumption DEF TypeOK, Order
<1>1. /\ ~SubmitWithoutImage /\ ~PatchState /\ ~SubmitDispute /\ ~RetryDispute
      /\ ~ConfirmTemplate
  BY DEF PlainOnly, Undisputed, SubmitWithoutImage, PatchState, SubmitDispute, RetryDispute,
         ConfirmTemplate
<1>2. CASE StartTask
  <2>1. order' = MoveTo(order, "IN_PROGRESS") /\ (order.state = "REVISION" => order.approved)
    BY <1>2 DEF StartTask, Commit, Save
  <2>2. /\ order'.state = "IN_PROGRESS" /\ order'.count = order.count
        /\ order'.approved = order.approved /\ order'.rejected = order.rejected
        /\ order'.paid = order.paid /\ order'.dispute = order.dispute
    BY <1>0, <2>1, MoveToFields DEF States
  <2>3. PlainOrder'
    BY <2>1, <2>2 DEF PlainOrder
  <2> QED
    BY <1>2, <2>2, <2>3 DEF StartTask, Undisputed, images, alerts
<1>3. CASE ApproveFix
  <2>1. PICK rejected \in {FALSE, order.rejected} :
          order' = [MoveTo(order, "REVISION") EXCEPT !.approved = TRUE, !.rejected = rejected]
    BY <1>3 DEF ApproveFix, Save
  <2>2. ~rejected
    BY <2>1 DEF PlainOrder
  <2>3. ASSUME NEW m \in Order
        PROVE  LET p == [m EXCEPT !.approved = TRUE, !.rejected = rejected]
               IN  /\ p.state = m.state /\ p.rejected = rejected /\ p.paid = m.paid
                   /\ p.dispute = m.dispute /\ p.count = m.count /\ p.approved = TRUE
    BY DEF Order
  <2>4. /\ order'.state = "REVISION" /\ order'.count = order.count /\ order'.approved = TRUE
        /\ ~order'.rejected /\ order'.paid = order.paid /\ order'.dispute = order.dispute
    BY <1>0, <2>1, <2>2, <2>3, MoveToFields DEF States
  <2>5. PlainOrder' \/ Closed'
    BY <2>4 DEF PlainOrder, Closed
  <2> QED
    BY <1>3, <2>4, <2>5 DEF ApproveFix, Undisputed, images, alerts
<1>4. CASE Pay
  <2> DEFINE o == [order EXCEPT !.paid = TRUE]
  <2>1. order.state # "DONE" /\ "paid" \in Features /\ order' = MoveTo(o, "DONE")
    BY <1>4 DEF Pay, Commit, Save, PlainOrder
  <2>2. /\ o \in Order /\ o.paid = TRUE /\ o.count = order.count /\ o.approved = order.approved
        /\ o.rejected = order.rejected /\ o.dispute = order.dispute
    BY <1>0 DEF Order
  <2> HIDE DEF o
  <2>3. /\ order'.state = "DONE" /\ order'.paid = TRUE /\ order'.count = order.count
        /\ order'.approved = order.approved /\ order'.rejected = order.rejected
        /\ order'.dispute = order.dispute
    BY <2>1, <2>2, MoveToFields DEF States
  <2>4. PlainOrder' \/ Closed'
    BY <1>0, <2>1, <2>3 DEF PlainOrder, Closed
  <2> QED
    BY <1>4, <2>3, <2>4 DEF Pay, Undisputed, images, alerts
<1> QED
  BY <1>1, <1>2, <1>3, <1>4 DEF Command

(* Without disputes a sync sees what it always saw. *)
LEMMA PlainObserved ==
  ASSUME Undisputed, NEW y \in Syncs, NEW row \in syncs[y]
  PROVE  Observed(order, row) = order
  BY DEF Undisputed, Observed

(* A sync leaves the order where it is, or counts a new Fix. *)
LEMMA PlainApply ==
  ASSUME TypeOK, ~order.rejected, Undisputed, NEW y \in Syncs, ApplyRow(y)
  PROVE  /\ \/ /\ order'.state = order.state /\ order'.since = order.since
               /\ order'.count = order.count /\ order'.approved = order.approved
            \/ /\ order'.state = "REVISION" /\ order'.count = order.count + 1
               /\ order.state # "REVISION"
               /\ \E row \in syncs[y], readable \in BOOLEAN :
                    row.status = "fix" /\ IsNewFix(order, readable)
         /\ ~order'.rejected /\ order'.paid = order.paid /\ order'.dispute.push = "none"
         /\ UNCHANGED <<attached, pushed, tasks, job>> /\ UNCHANGED alerts
         /\ \A z \in Syncs : syncs'[z] \subseteq syncs[z]
<1>1. PICK row \in syncs[y], readable \in BOOLEAN, n \in Order :
        LET o == Observed(order, row)
        IN  /\ order' = [n EXCEPT !.pstat = row.status]
            /\ \/ n = o
               \/ /\ n = ToFix(o) /\ ToFix(o).count <= MaxCount
                  /\ row.status = "fix" /\ o.state # "REVISION" /\ IsNewFix(o, readable)
               \/ n = MoveTo(o, "QC_PENDING") /\ o.state = "REVISION" /\ o.rejected
  BY ApplyFields
<1>2. order \in Order /\ row.status \in JobStatus /\ Observed(order, row) = order
  BY PlainObserved DEF TypeOK, Row
<1>3. /\ order'.state = n.state /\ order'.since = n.since /\ order'.count = n.count
      /\ order'.approved = n.approved /\ order'.rejected = n.rejected /\ order'.paid = n.paid
      /\ order'.dispute = n.dispute
  BY <1>1, <1>2, PstatFields
<1>4. \/ n = order
      \/ /\ n = ToFix(order) /\ ToFix(order).count <= MaxCount
         /\ row.status = "fix" /\ order.state # "REVISION" /\ IsNewFix(order, readable)
  BY <1>1, <1>2
<1>5. UNCHANGED <<attached, pushed, tasks, job>> /\ UNCHANGED alerts
  BY DEF ApplyRow, images, alerts
<1>6. \A z \in Syncs : syncs'[z] \subseteq syncs[z]
  BY DEF ApplyRow, TypeOK
<1>7. CASE n = order
  BY <1>3, <1>5, <1>6, <1>7 DEF Undisputed
<1>8. CASE /\ n = ToFix(order) /\ ToFix(order).count <= MaxCount
           /\ row.status = "fix" /\ order.state # "REVISION" /\ IsNewFix(order, readable)
  <2>1. /\ n.state = "REVISION" /\ n.count = order.count + 1 /\ n.dispute = order.dispute
        /\ ~n.rejected /\ n.paid = order.paid
    BY <1>2, <1>8, ToFixFields
  <2>2. /\ order'.state = "REVISION" /\ order'.count = order.count + 1
        /\ ~order'.rejected /\ order'.paid = order.paid /\ order'.dispute.push = "none"
    BY <1>3, <2>1 DEF Undisputed
  <2>3. \E r \in syncs[y], b \in BOOLEAN : r.status = "fix" /\ IsNewFix(order, b)
    BY <1>8
  <2> QED
    BY <1>5, <1>6, <1>8, <2>2, <2>3
<1> QED
  BY <1>4, <1>7, <1>8

(* A task stays for its submission until it ends. *)
LEMMA PushKeepsSub ==
  ASSUME TypeOK, NEW s \in Slots, Push(s)
  PROVE  tasks'[s].pc = "free" \/ tasks'[s].sub = tasks[s].sub
<1>0. tasks \in [Slots -> Task] /\ tasks[s] \in Task /\ Free.pc = "free"
  BY DEF TypeOK, Free
<1>a. ASSUME NEW pc, NEW todo, NEW n,
             \/ tasks' = [tasks EXCEPT ![s] = [tasks[s] EXCEPT !.pc = pc]]
             \/ tasks' = [tasks EXCEPT ![s] = [tasks[s] EXCEPT !.pc = pc, !.todo = todo]]
             \/ tasks' = [tasks EXCEPT ![s] = [tasks[s] EXCEPT !.pc = pc, !.retries = n,
                                                               !.todo = todo]]
      PROVE  tasks'[s].sub = tasks[s].sub
  BY <1>0, <1>a DEF Task
<1>b. tasks' = [tasks EXCEPT ![s] = Free] => tasks'[s].pc = "free"
  BY <1>0
<1>1. CASE StartPush(s)
  BY <1>1, <1>a, <1>b DEF StartPush, CheckThen
<1>2. CASE StoreImage(s)
  <2>1. tasks' = [tasks EXCEPT ![s] = [tasks[s] EXCEPT !.pc = "stored"]]
    BY <1>0, <1>2 DEF StoreImage
  <2> QED
    BY <1>a, <2>1
<1>3. CASE CommitImage(s)
  <2>1. \E i \in tasks[s].todo :
          tasks' = [tasks EXCEPT ![s] = [tasks[s] EXCEPT !.pc = "images",
                                                         !.todo = tasks[s].todo \ {i}]]
    BY <1>0, <1>3 DEF CommitImage, Task
  <2> QED
    BY <1>a, <2>1
<1>4. CASE CheckStatus(s)
  BY <1>4, <1>a, <1>b DEF CheckStatus, CheckThen
<1>5. CASE SendReview(s)
  <2>1. tasks' = [tasks EXCEPT ![s] = [tasks[s] EXCEPT !.pc = "recording"]]
    BY <1>0, <1>5 DEF SendReview
  <2> QED
    BY <1>a, <2>1
<1>6. CASE RefuseForTemplate(s) \/ RecordReview(s)
  BY <1>6, <1>b DEF RefuseForTemplate, RecordReview
<1>7. CASE FailPush(s)
  <2>1. \/ tasks' = [tasks EXCEPT ![s] = Free]
        \/ tasks' = [tasks EXCEPT ![s] = [tasks[s] EXCEPT !.pc = "push",
                                             !.retries = tasks[s].retries + 1, !.todo = {}]]
    BY <1>0, <1>7 DEF FailPush, Task
  <2> QED
    BY <1>a, <1>b, <2>1
<1> QED
  BY <1>1, <1>2, <1>3, <1>4, <1>5, <1>6, <1>7 DEF Push

(* The push another one has to finish is still expected after any step of  *)
(* the worker: it is retried, or it leaves an alert, and it sends Review   *)
(* before it may record it.                                                *)
LEMMA PlainPush ==
  ASSUME TypeOK, ImagesInv, Undisputed, PlainOpen, NEW s \in Slots, Push(s)
  PROVE  PlainOpen'
<1>0. /\ order \in Order /\ job \in Job /\ tasks \in [Slots -> Task] /\ tasks[s] \in Task
      /\ attached \in Nat
      /\ KeepsTrack(tasks[s], attached, pushed, job.stored)
  BY FixReviewAssumption DEF TypeOK, ImagesInv
<1>1. /\ order'.state = order.state /\ order'.since = order.since
      /\ order'.count = order.count /\ order'.approved = order.approved
      /\ order'.rejected = order.rejected /\ order'.paid = order.paid
      /\ order'.dispute = order.dispute /\ UNCHANGED <<attached, syncs>>
  BY <1>0 DEF Push, StartPush, StoreImage, CommitImage, CheckStatus, SendReview,
              RefuseForTemplate, RecordReview, FailPush, Commit, Save, Order, images
<1>2. ~RefuseForTemplate(s)
  BY DEF Undisputed, RefuseForTemplate
<1>3. /\ pushed \subseteq pushed' /\ failed \subseteq failed'
      /\ questions' = {} /\ job'.dispute = "none" /\ ~job'.asks
      /\ job'.status \notin {"review", "confirm"} => job.status \notin {"review", "confirm"}
  BY <1>0, <1>2 DEF Undisputed, Push, StartPush, StoreImage, CommitImage, CheckStatus,
     SendReview, RecordReview, FailPush, CheckThen, Alerted, images, alerts, Job
<1>4. PlainOrder'
  BY <1>1 DEF PlainOpen, PlainOrder
<1>6. GraceInv'
  <2>1. tasks[s].pc \in Pushing /\ \A r \in Slots \ {s} : tasks'[r] = tasks[r]
    BY PushSlots DEF Pushing
  <2>2. tasks'[s].pc = "free" \/ tasks'[s].sub = tasks[s].sub
    BY PushKeepsSub
  <2>3. Underway(attached)' => Underway(attached)
    BY <1>1, <2>1, <2>2 DEF Underway, Pushing, PushSteps
  <2> QED
    BY <1>1, <1>3, <2>3 DEF PlainOpen, GraceInv
<1>7. PushInv'
  <2> SUFFICES ASSUME order.state = "QC_PENDING",
                      attached \notin pushed'
                        \/ (job'.status \notin {"review", "confirm"} /\ ~order.since.opened)
               PROVE  attached \in failed' \/ \E r \in Slots : ExpectedPush(tasks[r])'
    BY <1>1 DEF PushInv, Arrived
  <2>1. attached \in failed \/ \E r \in Slots : ExpectedPush(tasks[r])
    BY <1>3 DEF PlainOpen, PushInv, Arrived
  <2>2. CASE attached \in failed
    BY <1>3, <2>2
  <2>3. ASSUME NEW r \in Slots \ {s}, ExpectedPush(tasks[r])
        PROVE  \E q \in Slots : ExpectedPush(tasks[q])'
    BY <1>1, <2>3, PushSlots DEF ExpectedPush
  <2>4. CASE ExpectedPush(tasks[s])
    <3> DEFINE t == tasks[s]
    <3>a. ASSUME NEW pc \in Pushing \ {"recording"}, tasks'[s].pc = pc, tasks'[s].sub = t.sub,
                 tasks'[s].expState = t.expState, tasks'[s].expApproved = t.expApproved
          PROVE  ExpectedPush(tasks[s])'
      BY <1>1, <2>4, <3>a DEF ExpectedPush
    <3>b. IsStillExpected(t)
      BY <1>0, <2>4 DEF ExpectedPush, IsStillExpected, Order
    <3>c. ASSUME NEW pc \in Pushing \ {"recording"}, NEW todo, NEW n,
                 \/ tasks' = [tasks EXCEPT ![s] = [tasks[s] EXCEPT !.pc = pc, !.todo = todo]]
                 \/ tasks' = [tasks EXCEPT ![s] = [tasks[s] EXCEPT !.pc = pc]]
                 \/ tasks' = [tasks EXCEPT ![s] = [tasks[s] EXCEPT !.pc = pc, !.retries = n,
                                                                   !.todo = todo]]
          PROVE  ExpectedPush(tasks[s])'
      <4>1. ASSUME NEW u \in Task
            PROVE  /\ [u EXCEPT !.pc = pc].pc = pc
                   /\ [u EXCEPT !.pc = pc].sub = u.sub
                   /\ [u EXCEPT !.pc = pc].expState = u.expState
                   /\ [u EXCEPT !.pc = pc].expApproved = u.expApproved
                   /\ [u EXCEPT !.pc = pc, !.todo = todo].pc = pc
                   /\ [u EXCEPT !.pc = pc, !.todo = todo].sub = u.sub
                   /\ [u EXCEPT !.pc = pc, !.todo = todo].expState = u.expState
                   /\ [u EXCEPT !.pc = pc, !.todo = todo].expApproved = u.expApproved
                   /\ [u EXCEPT !.pc = pc, !.retries = n, !.todo = todo].pc = pc
                   /\ [u EXCEPT !.pc = pc, !.retries = n, !.todo = todo].sub = u.sub
                   /\ [u EXCEPT !.pc = pc, !.retries = n, !.todo = todo].expState = u.expState
                   /\ [u EXCEPT !.pc = pc, !.retries = n, !.todo = todo].expApproved = u.expApproved
        BY DEF Task
      <4> HIDE DEF t
      <4> QED
        BY <1>0, <3>a, <3>c, <4>1 DEF t
    <3>1. CASE StartPush(s)
      <4>1. tasks' = [tasks EXCEPT ![s] = [tasks[s] EXCEPT !.pc = "images", !.todo = ImagesToPush]]
        BY <3>1, <3>b DEF StartPush, CheckThen
      <4>2. "images" \in Pushing \ {"recording"}
        BY DEF Pushing, PushSteps
      <4> QED
        BY <3>c, <4>1, <4>2
    <3>2. CASE StoreImage(s)
      <4>1. tasks' = [tasks EXCEPT ![s] = [tasks[s] EXCEPT !.pc = "stored"]]
        BY <1>0, <3>2 DEF StoreImage
      <4>2. "stored" \in Pushing \ {"recording"}
        BY DEF Pushing, PushSteps
      <4> QED
        BY <3>c, <4>1, <4>2
    <3>3. CASE CommitImage(s)
      <4>1. \E i \in tasks[s].todo :
              tasks' = [tasks EXCEPT ![s] = [tasks[s] EXCEPT !.pc = "images",
                                                             !.todo = tasks[s].todo \ {i}]]
        BY <1>0, <3>3 DEF CommitImage, Task
      <4>2. "images" \in Pushing \ {"recording"}
        BY DEF Pushing, PushSteps
      <4> QED
        BY <3>c, <4>1, <4>2
    <3>4. CASE CheckStatus(s)
      <4>1. tasks' = [tasks EXCEPT ![s] = [tasks[s] EXCEPT !.pc = "sending"]]
        BY <3>4, <3>b DEF CheckStatus, CheckThen
      <4>2. "sending" \in Pushing \ {"recording"}
        BY DEF Pushing, PushSteps
      <4> QED
        BY <3>c, <4>1, <4>2
    <3>5. CASE SendReview(s)
      <4>1. attached \in pushed
        BY <1>0, <2>4, <3>5 DEF SendReview, KeepsTrack, ExpectedPush, PlainOpen, PlainOrder
      <4>2. job'.status = "review"
        BY <1>0, <3>5 DEF SendReview, Job
      <4> QED
        BY <1>3, <4>1, <4>2
    <3>6. ~RecordReview(s)
      BY <2>4 DEF RecordReview, ExpectedPush
    <3>7. CASE FailPush(s)
      <4>1. CASE failed' = Alerted(s)
        BY <2>4, <4>1 DEF Alerted, ExpectedPush
      <4>2. CASE tasks' = [tasks EXCEPT ![s] = [tasks[s] EXCEPT !.pc = "push", !.retries = @ + 1,
                                                               !.todo = {}]]
        <5>1. "push" \in Pushing \ {"recording"}
          BY DEF Pushing, PushSteps
        <5> QED
          BY <3>c, <4>2, <5>1
      <4> QED
        BY <3>7, <4>1, <4>2 DEF FailPush
    <3> QED
      BY <1>2, <3>1, <3>2, <3>3, <3>4, <3>5, <3>6, <3>7 DEF Push
  <2> QED
    BY <2>1, <2>2, <2>3, <2>4
<1> QED
  BY <1>4, <1>6, <1>7 DEF PlainOpen

(* Every step keeps the push an order in Review is waiting for. *)
LEMMA OpenStep ==
  ASSUME TypeOK, ImagesInv, PlainOnly, Undisputed, PlainOpen, [Next]_vars
  PROVE  PlainOpen' \/ Closed'
<1>0. /\ order \in Order /\ order.count \in Nat /\ job \in Job
      /\ tasks \in [Slots -> Task] /\ attached \in Nat
      /\ syncs \in [Syncs -> SUBSET Row]
  BY FixReviewAssumption DEF TypeOK, Order
<1>n. Now.fresh /\ ~Now.opened
  BY DEF Now
<1>p. "push" \in Pushing \ {"recording"} /\ "push" \notin {"dispute"} \cup DisputeSteps
      /\ "free" \notin Pushing
  BY DEF Pushing, PushSteps, DisputeSteps
<1>1. CASE SubmitResult
  <2>1. PICK s \in Slots, t \in Task :
          /\ tasks[s].pc = "free" /\ tasks' = [tasks EXCEPT ![s] = t]
          /\ t.pc = "push" /\ t.sub = attached + 1 /\ t.expState = "QC_PENDING"
          /\ t.expApproved = IF order.approved THEN "yes" ELSE "no"
    BY <1>1, PlainSubmit DEF PlainOpen
  <2>2. /\ order'.state = "QC_PENDING" /\ order'.since = Now /\ order'.count = order.count
        /\ order'.approved = order.approved /\ order'.rejected = order.rejected
        /\ order'.paid = order.paid /\ order'.dispute = order.dispute
    BY <1>0, <1>1, PlainSubmit, MoveToFields DEF PlainOpen, States
  <2>3. attached' = attached + 1 /\ UNCHANGED <<pushed, syncs, job, failed, questions>>
    BY <1>1, PlainSubmit DEF PlainOpen, alerts
  <2>4. order.count > 0 => order.approved
    BY <1>1 DEF SubmitResult, MaySubmit, PlainOpen, PlainOrder
  <2>5. tasks'[s] = t /\ \A r \in Slots : tasks'[r] \in {tasks[r], t}
    BY <1>0, <2>1
  <2>6. PlainOrder'
    BY <1>0, <2>2, <2>3, <2>4 DEF PlainOpen, PlainOrder
  <2>8. PushInv'
    BY <1>p, <2>1, <2>2, <2>3, <2>5 DEF PushInv, ExpectedPush, Arrived
  <2>9. GraceInv'
    BY <1>n, <2>2 DEF GraceInv
  <2> QED
    BY <2>6, <2>8, <2>9 DEF PlainOpen
<1>2. CASE Command /\ ~SubmitResult
  <2>1. order'.state # "QC_PENDING" /\ (PlainOrder' \/ Closed')
    BY <1>2, PlainCommand DEF PlainOpen
  <2> QED
    BY <2>1 DEF PlainOpen, PushInv, GraceInv
<1>3. ASSUME NEW s \in Slots, Push(s) PROVE PlainOpen' \/ Closed'
  BY <1>3, PlainPush
<1>4. ASSUME NEW s \in Slots PROVE ~SendDispute(s) /\ ~Crash(s)
  <2>1. tasks[s].pc \notin {"dispute"} \cup DisputeSteps
    BY DEF Undisputed
  <2> QED
    BY <2>1, DisputeSlots DEF Crash, PlainOnly
<1>5. ASSUME NEW y \in Syncs, ApplyRow(y) PROVE PlainOpen' \/ Closed'
  <2>1. /\ \/ /\ order'.state = order.state /\ order'.since = order.since
              /\ order'.count = order.count /\ order'.approved = order.approved
           \/ order'.state = "REVISION" /\ order'.count = order.count + 1
        /\ ~order'.rejected /\ order'.paid = order.paid
        /\ UNCHANGED <<attached, pushed, tasks, job, failed, questions>>
        /\ \A z \in Syncs : syncs'[z] \subseteq syncs[z]
    BY <1>5, PlainApply DEF PlainOpen, PlainOrder, alerts
  <2>2. CASE order'.state = order.state /\ order'.since = order.since
             /\ order'.count = order.count /\ order'.approved = order.approved
    <3>1. PlainOrder'
      BY <2>1, <2>2 DEF PlainOpen, PlainOrder
    <3>2. PushInv' /\ GraceInv'
      BY <2>1, <2>2 DEF PlainOpen, PushInv, GraceInv, ExpectedPush, Arrived, Underway
    <3> QED
      BY <3>1, <3>2 DEF PlainOpen
  <2>3. CASE order'.state = "REVISION" /\ order'.count = order.count + 1
    <3>1. CASE order.paid
      BY <1>0, <2>1, <2>3, <3>1 DEF PlainOpen, PlainOrder, Closed
    <3>2. CASE ~order.paid
      BY <2>1, <2>3, <3>2 DEF PlainOpen, PlainOrder, PushInv, GraceInv
    <3> QED
      BY <3>1, <3>2
  <2> QED
    BY <2>1, <2>2, <2>3
<1>6. ASSUME NEW y \in Syncs, ReadRow(y) \/ DropRow(y) PROVE PlainOpen' \/ Closed'
  <2>1. UNCHANGED <<order, attached, pushed, failed, questions, tasks, job>>
    BY <1>6 DEF ReadRow, DropRow, images, alerts
  <2>2. \A z \in Syncs : \A row \in syncs'[z] :
          row \in syncs[z] \/ (row.status = job.status /\ row.dispute = job.dispute)
    BY <1>0, <1>6 DEF ReadRow, DropRow, RowOfJob
  <2>3. ASSUME order.state = "QC_PENDING", ~order.since.fresh, ~order.since.outlived,
               ~order.since.opened, job.status = "fix"
        PROVE  attached \in failed
    BY <1>p, <2>3 DEF PlainOpen, PushInv, GraceInv, ExpectedPush, Arrived, Underway
  <2>4. PlainOrder'
    BY <2>1 DEF PlainOpen, PlainOrder
  <2>5. PushInv'
    BY <2>1 DEF PlainOpen, PushInv, ExpectedPush, Arrived
  <2>6. GraceInv'
    BY <2>1, <2>2, <2>3 DEF PlainOpen, GraceInv, Underway
  <2> QED
    BY <2>4, <2>5, <2>6 DEF PlainOpen
<1>7. CASE QcOpensFix
  <2>1. /\ order'.state = order.state /\ order'.since.fresh = order.since.fresh
        /\ order'.since.outlived = order.since.outlived
        /\ order'.since.opened /\ order'.count = order.count /\ order'.approved = order.approved
        /\ order'.rejected = order.rejected /\ order'.paid = order.paid
        /\ order'.dispute = order.dispute
        /\ UNCHANGED <<attached, pushed, failed, questions, tasks, syncs>>
    BY <1>0, <1>7 DEF QcOpensFix, Order, images, alerts
  <2>3. PlainOrder'
    BY <2>1 DEF PlainOpen, PlainOrder
  <2>4. PushInv' /\ GraceInv'
    BY <1>7, <2>1
       DEF PlainOpen, PushInv, GraceInv, ExpectedPush, Arrived, Underway, QcOpensFix
  <2> QED
    BY <2>3, <2>4 DEF PlainOpen
<1>8. CASE QcConfirms
  <2>1. /\ job'.status = "confirm" /\ job'.dispute = job.dispute /\ job'.asks = job.asks
        /\ UNCHANGED <<order, attached, pushed, failed, questions, tasks, syncs>>
    BY <1>0, <1>8 DEF QcConfirms, Job, images, alerts
  <2> QED
    BY <2>1 DEF PlainOpen, PlainOrder, PushInv, GraceInv, ExpectedPush, Arrived, Underway
<1>9. ~Arbitrate
  BY DEF Arbitrate, Undisputed
<1>10. CASE GraceExpires
  <2>1. /\ order'.state = order.state /\ order'.since.opened = order.since.opened
        /\ order'.count = order.count /\ order'.approved = order.approved
        /\ order'.rejected = order.rejected /\ order'.paid = order.paid
        /\ order'.dispute = order.dispute
    BY <1>0, <1>10 DEF GraceExpires, Order
  <2>a. /\ UNCHANGED <<attached, pushed, failed, questions, tasks, syncs, job>>
        /\ order'.since.outlived = (Underway(attached) \/ FixHeld)
    BY <1>0, <1>10 DEF GraceExpires, Order, images, alerts
  <2>2. PlainOrder'
    BY <2>1, <2>a DEF PlainOpen, PlainOrder
  <2>3. PushInv'
    BY <2>1, <2>a DEF PlainOpen, PushInv, ExpectedPush, Arrived
  <2>4. GraceInv'
    BY <2>1, <2>a DEF GraceInv, Underway, FixHeld
  <2> QED
    BY <2>2, <2>3, <2>4 DEF PlainOpen
<1>11. CASE UNCHANGED vars
  BY <1>11 DEF vars, images, alerts, PlainOpen, PlainOrder, PushInv, GraceInv, ExpectedPush,
               Arrived, Underway
<1> QED
  BY <1>1, <1>2, <1>3, <1>4, <1>5, <1>6, <1>7, <1>8, <1>9, <1>10, <1>11
     DEF Next, Worker, Sync, External

(* Disputes and template questions stay away. *)
LEMMA UndisputedStep ==
  ASSUME TypeOK, PlainOnly, Undisputed, ~order.rejected, [Next]_vars
  PROVE  Undisputed'
<1>0. order \in Order /\ job \in Job /\ tasks \in [Slots -> Task] /\ syncs \in [Syncs -> SUBSET Row]
  BY DEF TypeOK
<1> DEFINE Away(q) == q.pc \notin {"dispute"} \cup DisputeSteps
<1>1. CASE Command
  <2>1. SubmitResult \/ StartTask \/ ApproveFix \/ Pay
    BY <1>1 DEF PlainOnly, Undisputed, Command, SubmitWithoutImage, PatchState, SubmitDispute,
                RetryDispute, ConfirmTemplate
  <2>2. order'.dispute = order.dispute
    BY <1>0, <2>1 DEF SubmitResult, StartTask, ApproveFix, Pay, Commit, Save, MoveTo, Order
  <2>3. UNCHANGED <<questions, syncs, job>>
    BY <2>1 DEF SubmitResult, StartTask, ApproveFix, Pay, alerts
  <2>4. \A s \in Slots : Away(tasks'[s])
    <3>1. CASE SubmitResult
      <4> DEFINE t == PushTask(SubmitTarget, IF IsFixResubmission THEN "yes" ELSE "no", FALSE,
                               attached + 1)
      <4>1. Away(t)
        BY DEF PushTask, Free, DisputeSteps
      <4>2. \E s \in Slots : tasks' = [tasks EXCEPT ![s] = t]
        BY <3>1 DEF SubmitResult, Enqueue, PlainOnly
      <4> HIDE DEF t
      <4> QED
        BY <1>0, <4>1, <4>2 DEF Undisputed
    <3>2. CASE StartTask \/ ApproveFix \/ Pay
      BY <3>2 DEF StartTask, ApproveFix, Pay, Undisputed
    <3> QED
      BY <2>1, <3>1, <3>2
  <2> QED
    BY <2>2, <2>3, <2>4 DEF Undisputed
<1>2. ASSUME NEW s \in Slots, Push(s) PROVE Undisputed'
  <2>1. ~RefuseForTemplate(s)
    BY DEF Undisputed, RefuseForTemplate
  <2>2. order'.dispute = order.dispute
    BY <1>0, <1>2 DEF Push, StartPush, StoreImage, CommitImage, CheckStatus, SendReview,
                      RefuseForTemplate, RecordReview, FailPush, Commit, Save, Order
  <2>3. questions' = {} /\ job'.dispute = "none" /\ ~job'.asks /\ UNCHANGED syncs
    BY <1>0, <1>2, <2>1 DEF Undisputed, Push, StartPush, StoreImage, CommitImage, CheckStatus,
       SendReview, RecordReview, FailPush, CheckThen, alerts, Job
  <2> QED
    BY <1>2, <2>2, <2>3, PushSlots DEF Undisputed, PushSteps, DisputeSteps
<1>3. ASSUME NEW s \in Slots PROVE ~SendDispute(s) /\ ~Crash(s)
  BY DisputeSlots DEF Crash, PlainOnly, Undisputed
<1>4. ASSUME NEW y \in Syncs, ApplyRow(y) PROVE Undisputed'
  BY <1>4, PlainApply DEF Undisputed, alerts
<1>5. ASSUME NEW y \in Syncs, ReadRow(y) \/ DropRow(y) PROVE Undisputed'
  <2>1. \A z \in Syncs : \A row \in syncs'[z] : row \in syncs[z] \/ row.dispute = job.dispute
    BY <1>0, <1>5 DEF ReadRow, DropRow, RowOfJob
  <2> QED
    BY <1>5, <2>1 DEF ReadRow, DropRow, Undisputed, alerts
<1>6. CASE External
  <2>1. /\ order'.dispute = order.dispute /\ job'.dispute = "none" /\ ~job'.asks
        /\ UNCHANGED <<tasks, questions, syncs>>
    BY <1>0, <1>6 DEF External, QcOpensFix, QcConfirms, Arbitrate, GraceExpires, Undisputed,
                      PlainOnly, Order, Job, alerts
  <2> QED
    BY <2>1 DEF Undisputed
<1>7. CASE UNCHANGED vars
  BY <1>7 DEF vars, alerts, Undisputed
<1> QED
  BY <1>1, <1>2, <1>3, <1>4, <1>5, <1>6, <1>7 DEF Next, Worker, Sync

(* A closed order stays closed. *)
LEMMA ClosedStep ==
  ASSUME TypeOK, PlainOnly, Undisputed, Closed, [Next]_vars
  PROVE  Closed'
<1>0. order \in Order /\ order.count \in Nat
  BY FixReviewAssumption DEF TypeOK, Order
<1>c. ASSUME order'.state \in {"IN_PROGRESS", "REVISION", "DONE"}, order'.paid = order.paid,
             ~order'.rejected,
             \/ order'.count = order.count /\ (order.approved => order'.approved)
             \/ order'.count = order.count + 1
      PROVE  Closed'
  <2>1. order'.count > 0 \/ order'.approved
    <3>1. CASE order'.count = order.count + 1
      BY <1>0, <3>1
    <3>2. CASE order'.count = order.count /\ (order.approved => order'.approved)
      BY <3>2 DEF Closed
    <3> QED
      BY <1>c, <3>1, <3>2
  <2> QED
    BY <1>c, <2>1 DEF Closed
<1>1. CASE Command
  <2>1. SubmitResult \/ StartTask \/ ApproveFix
    BY <1>1 DEF PlainOnly, Undisputed, Closed, Command, SubmitWithoutImage, PatchState, SubmitDispute,
                RetryDispute, ConfirmTemplate, Pay
  <2>2. CASE SubmitResult
    <3>1. SubmitTarget = "DONE"
      BY DEF SubmitTarget, IsFixResubmission, Closed
    <3>2. order' = MoveTo(order, "DONE")
      BY <2>2, <3>1 DEF SubmitResult, Commit, Save
    <3> QED
      BY <1>0, <1>c, <3>2, MoveToFields DEF Closed, States
  <2>3. CASE StartTask
    <3>1. order' = MoveTo(order, "IN_PROGRESS")
      BY <2>3 DEF StartTask, Commit, Save
    <3> QED
      BY <1>0, <1>c, <3>1, MoveToFields DEF Closed, States
  <2>4. CASE ApproveFix
    <3>1. PICK rejected \in {FALSE, order.rejected} :
            order' = [MoveTo(order, "REVISION") EXCEPT !.approved = TRUE, !.rejected = rejected]
      BY <2>4 DEF ApproveFix, Save
    <3>r. ~rejected
      BY <3>1 DEF Closed
    <3>2. ASSUME NEW m \in Order
          PROVE  LET p == [m EXCEPT !.approved = TRUE, !.rejected = rejected]
                 IN  /\ p.state = m.state /\ p.rejected = rejected /\ p.paid = m.paid
                     /\ p.count = m.count /\ p.approved = TRUE
      BY DEF Order
    <3>3. /\ order'.state = "REVISION" /\ order'.paid = order.paid /\ ~order'.rejected
          /\ order'.count = order.count /\ order'.approved = TRUE
      BY <1>0, <3>1, <3>r, <3>2, MoveToFields DEF States
    <3> QED
      BY <1>c, <3>3
  <2> QED
    BY <2>1, <2>2, <2>3, <2>4
<1>2. ASSUME NEW s \in Slots, Push(s) PROVE Closed'
  <2>1. /\ order'.state = order.state /\ order'.paid = order.paid
        /\ order'.rejected = order.rejected /\ order'.count = order.count
        /\ order'.approved = order.approved
    BY <1>0, <1>2 DEF Push, StartPush, StoreImage, CommitImage, CheckStatus, SendReview,
                      RefuseForTemplate, RecordReview, FailPush, Commit, Save, Order
  <2> QED
    BY <2>1 DEF Closed
<1>3. ASSUME NEW s \in Slots PROVE ~SendDispute(s) /\ ~Crash(s)
  BY DisputeSlots DEF Crash, PlainOnly, Undisputed
<1>4. ASSUME NEW y \in Syncs, ApplyRow(y) PROVE Closed'
  <2>1. /\ \/ /\ order'.state = order.state
              /\ order'.count = order.count /\ order'.approved = order.approved
           \/ order'.state = "REVISION" /\ order'.count = order.count + 1
        /\ ~order'.rejected /\ order'.paid = order.paid
    BY <1>4, PlainApply DEF Closed
  <2> QED
    BY <1>c, <2>1 DEF Closed
<1>5. ASSUME NEW y \in Syncs, ReadRow(y) \/ DropRow(y) PROVE Closed'
  BY <1>5 DEF ReadRow, DropRow, Closed
<1>6. CASE External
  <2>1. /\ order'.state = order.state /\ order'.paid = order.paid
        /\ order'.rejected = order.rejected /\ order'.count = order.count
        /\ order'.approved = order.approved
    BY <1>0, <1>6 DEF External, QcOpensFix, QcConfirms, Arbitrate, GraceExpires, Order
  <2> QED
    BY <2>1 DEF Closed
<1>7. CASE UNCHANGED vars
  BY <1>7 DEF vars, Closed
<1> QED
  BY <1>1, <1>2, <1>3, <1>4, <1>5, <1>6, <1>7 DEF Next, Worker, Sync

LEMMA PlainStep ==
  ASSUME TypeOK, ImagesInv, PlainOnly, PlainInv, [Next]_vars
  PROVE  PlainInv'
<1>1. Undisputed'
  BY UndisputedStep DEF PlainInv, PlainOpen, PlainOrder, Closed
<1>2. PlainOpen' \/ Closed'
  BY OpenStep, ClosedStep DEF PlainInv
<1> QED
  BY <1>1, <1>2 DEF PlainInv

(* A sync alone counts, and counts an order of Review without a newer Fix  *)
(* only past the grace window; unless the push outlived that window, it    *)
(* has failed and left its alert.                                          *)
LEMMA PlainRecount ==
  ASSUME TypeOK, PlainOnly, Undisputed, PlainOpen, Next, order'.count > order.count,
         order.state = "QC_PENDING", ~order.since.opened, ~order.since.outlived
  PROVE  attached \in failed
<1>0. order \in Order /\ order.count \in Nat
  BY FixReviewAssumption DEF TypeOK, Order
<1>1. ~SubmitResult
  <2>1. SubmitResult => order'.count = order.count
    BY <1>0, PlainSubmit, MoveToFields DEF PlainOpen, States
  <2> QED
    BY <1>0, <2>1
<1>2. ~Command
  BY <1>0, <1>1, PlainCommand DEF PlainOpen
<1>3. ASSUME NEW s \in Slots PROVE ~Push(s) /\ ~SendDispute(s) /\ ~Crash(s)
  <2>1. Push(s) => order'.count = order.count
    BY WorkerMoves DEF Moved
  <2>2. tasks[s].pc \notin {"dispute"} \cup DisputeSteps
    BY DEF Undisputed
  <2> QED
    BY <1>0, <2>1, <2>2, DisputeSlots DEF Crash, PlainOnly
<1>4. External => order'.count = order.count
  BY <1>0 DEF External, QcOpensFix, QcConfirms, Arbitrate, GraceExpires, Order
<1>5. ASSUME NEW y \in Syncs PROVE ~ReadRow(y) /\ ~DropRow(y)
  BY <1>0 DEF ReadRow, DropRow
<1>6. PICK y \in Syncs : ApplyRow(y)
  BY <1>0, <1>2, <1>3, <1>4, <1>5 DEF Next, Worker, Sync
<1>7. \E row \in syncs[y], readable \in BOOLEAN :
        row.status = "fix" /\ IsNewFix(order, readable)
  BY <1>0, <1>6, PlainApply DEF PlainOpen, PlainOrder
<1> QED
  BY <1>7 DEF IsNewFix, PlainOpen, GraceInv

-----------------------------------------------------------------------------
(* The invariant holds at the start and every step keeps it. *)
LEMMA InitOK == Init => IInv
<1> SUFFICES ASSUME Init PROVE IInv
  OBVIOUS
<1>1. order \in Order /\ order.state = "WAITING"
  BY FixReviewAssumption DEF Init, Order, Now, NoDispute, JobStatus, Arbitration
<1>2. job \in Job
  BY FixReviewAssumption DEF Init, Job, JobStatus, Arbitration
<1>3. tasks \in [Slots -> Task] /\ \A s \in Slots : tasks[s] = Free
  BY FreeTask DEF Init
<1>4. syncs \in [Syncs -> SUBSET Row]
  BY DEF Init
<1>5. TypeOK
  <2>1. attached \in 0..MaxImages
    BY FixReviewAssumption DEF Init
  <2>2. pushed \subseteq Images /\ failed \subseteq 0..MaxImages /\ questions \subseteq 0..MaxImages
    BY DEF Init
  <2>3. released \in BOOLEAN /\ dirty \in BOOLEAN
    BY DEF Init
  <2> QED
    BY <1>1, <1>2, <1>3, <1>4, <2>1, <2>2, <2>3 DEF TypeOK
<1>6. WorkedFixIsReleased
  BY <1>1 DEF WorkedFixIsReleased
<1>7. ImagesInv
  <2>1. ASSUME NEW s \in Slots PROVE KeepsTrack(tasks[s], attached, pushed, job.stored)
    BY <1>3, FreeTask, WaitingKeepsTrack DEF Init
  <2> QED
    BY <2>1 DEF Init, ImagesInv, PushedImagesAreStored
<1> QED
  BY <1>5, <1>6, <1>7 DEF IInv

(* Every step keeps the invariant. *)
LEMMA Step == IInv /\ [Next]_vars => IInv'
<1> SUFFICES ASSUME TypeOK, WorkedFixIsReleased, ImagesInv, [Next]_vars PROVE IInv'
  BY DEF IInv
<1>1. TypeOK'
  BY OrderStep, QueueStep DEF TypeOK, QueueType
<1>2. WorkedFixIsReleased'
  BY OrderStep
<1>3. ImagesInv'
  BY ImagesStep
<1> QED
  BY <1>1, <1>2, <1>3 DEF IInv

(* In every reachable state, for any number of tasks, submissions, Fix     *)
(* rounds and retries and any of the features.                             *)
THEOREM Invariance == Spec => []IInv
  BY InitOK, Step, PTL DEF Spec

(* Every column of the order, every task and every row a sync holds keeps  *)
(* the values the code may write to it.                                    *)
THEOREM ColumnsKeepTheirTypes == Spec => []TypeOK
<1>1. IInv => TypeOK
  BY DEF IInv
<1> QED
  BY <1>1, Invariance, PTL

(* A Fix marked as approved was released by an Admin in the round it is in *)
(* (designer_tasks.py:53): no sync, dispute or command carries an approval *)
(* over into the next Fix.                                                 *)
THEOREM ApprovedFixWasReleased == Spec => []WorkedFixIsReleased
<1>1. IInv => WorkedFixIsReleased
  BY DEF IInv
<1> QED
  BY <1>1, Invariance, PTL

(* The status goes to Printerval only with every image of the submission   *)
(* pushed, whatever crashes, retries and other submissions happen before.  *)
THEOREM ReviewFollowsItsImages == Spec => []ReviewCarriesItsImages
<1>1. IInv => ReviewCarriesItsImages
  BY DEF IInv, ImagesInv, KeepsTrack, ReviewCarriesItsImages
<1> QED
  BY <1>1, Invariance, PTL

(* pushed_at is set only on images that are on Printerval. *)
THEOREM PushedIsStored == Spec => []PushedImagesAreStored
<1>1. IInv => PushedImagesAreStored
  BY DEF IInv, ImagesInv
<1> QED
  BY <1>1, Invariance, PTL
-----------------------------------------------------------------------------
(* The four invariants hold at the start. *)
LEMMA InitMore == Init => DisputeInv /\ QueuedInv /\ CountInv /\ PlainInv
<1> SUFFICES ASSUME Init PROVE DisputeInv /\ QueuedInv /\ CountInv /\ PlainInv
  OBVIOUS
<1>1. /\ order.state = "WAITING" /\ order.since.fresh /\ ~order.since.opened
      /\ order.count = 0 /\ ~order.rejected /\ ~order.paid
      /\ order.dispute.push = "none" /\ order.dispute.round = 0
  BY DEF Init, Now, NoDispute
<1>2. /\ job.status = "doing" /\ job.dispute = "none" /\ job.round = 0 /\ ~job.asks
      /\ job.filed = 0
  BY DEF Init
<1>3. \A s \in Slots : tasks[s].pc = "free"
  BY DEF Init, Free
<1>4. questions = {} /\ \A y \in Syncs : syncs[y] = {}
  BY DEF Init
<1>5. DisputeInv
  BY <1>2, <1>3 DEF DisputeInv, OneAtATime, FiledInv, Waiting
<1>6. QueuedInv
  BY <1>1 DEF QueuedInv, QueuedDisputeHasTask
<1>7. CountInv
  BY <1>1, <1>2, <1>4 DEF CountInv
<1>8. PlainInv
  BY <1>1, <1>2, <1>3, <1>4 DEF PlainInv, PlainOpen, PlainOrder, Undisputed, PushInv, GraceInv, DisputeSteps
<1> QED
  BY <1>5, <1>6, <1>7, <1>8

(* "Never sent twice" (assignment_sync_tasks.py:520): whatever is lost,    *)
(* retried or crashes, and however syncs, pushes and commands interleave.  *)
THEOREM DisputeIsFiledOnce == Spec => []DisputedOnce
<1>1. Init => DisputeInv
  BY InitMore
<1>2. IInv /\ DisputeInv /\ [Next]_vars => DisputeInv'
  BY DisputeStep DEF IInv
<1>3. DisputeInv => DisputedOnce
  BY DEF DisputeInv, FiledInv, DisputedOnce
<1> QED
  BY <1>1, <1>2, <1>3, Invariance, PTL DEF Spec

(* As long as the broker and the worker lose no task, a dispute that shows *)
(* as queued has one.                                                      *)
THEOREM QueuedDisputeIsSent ==
  ASSUME "crash" \notin Features
  PROVE  Spec => []QueuedDisputeHasTask
<1>1. Init => QueuedInv
  BY InitMore
<1>2. IInv /\ QueuedInv /\ [Next]_vars => QueuedInv'
  BY QueuedStep DEF IInv
<1>3. QueuedInv => QueuedDisputeHasTask
  BY DEF QueuedInv
<1> QED
  BY <1>1, <1>2, <1>3, Invariance, PTL DEF Spec

(* Within the cycle of Fix and Review, disputes, template questions and    *)
(* crashes included, no Fix is counted twice (status_sync.py:248).         *)
THEOREM FixIsCountedOnce ==
  ASSUME CycleOnly
  PROVE  Spec => []FixCountedOnce
<1>1. Init => CountInv
  BY InitMore
<1>2. IInv /\ CountInv /\ [Next]_vars => CountInv'
  BY CountStep DEF IInv
<1>3. CountInv => FixCountedOnce
  BY DEF CountInv, FixCountedOnce
<1> QED
  BY <1>1, <1>2, <1>3, Invariance, PTL DEF Spec

(* Every submission of an undisturbed order is up, on its way, or known to *)
(* the Admins to have failed: any number of submissions, Fix rounds,       *)
(* retries, tasks and syncs.                                               *)
THEOREM SubmissionIsNeverLost ==
  ASSUME PlainOnly, "paid" \notin Features
  PROVE  Spec => []SubmissionNeverSilentlyLost
<1>1. Init => PlainInv
  BY InitMore
<1>2. IInv /\ PlainInv /\ [Next]_vars => PlainInv'
  BY PlainStep DEF IInv
<1>3. PlainInv => SubmissionNeverSilentlyLost
  BY DEF PlainInv, PlainOpen, Closed, PlainOrder, PushInv, ExpectedPush, Arrived,
         SubmissionNeverSilentlyLost, Told, Underway
<1> QED
  BY <1>1, <1>2, <1>3, Invariance, PTL DEF Spec

(* The promise of the comment at status_sync.py:248: an order whose chat   *)
(* shows no newer Fix goes back to Fix from Review, and is counted, only   *)
(* once the Admins were told that its push had failed, or when the grace   *)
(* window had ended before the push or a sync that had read the old Fix.   *)
THEOREM RecountFollowsAlert ==
  ASSUME PlainOnly
  PROVE  Spec => RecountOnlyAfterAlert
<1>1. Init => PlainInv
  BY InitMore
<1>2. IInv /\ PlainInv /\ [Next]_vars => PlainInv'
  BY PlainStep DEF IInv
<1>3. ASSUME TypeOK, PlainInv, Next, order'.count > order.count,
             order.state = "QC_PENDING", ~order.since.opened, ~order.since.outlived
      PROVE  Told
  BY <1>3, PlainRecount DEF Told, PlainInv, Closed
<1>4. IInv /\ PlainInv /\ [Next]_vars
        => [order'.count > order.count /\ order.state = "QC_PENDING" /\ ~order.since.opened
            /\ FixIsOld /\ ~order.since.outlived
              => Told]_vars
  BY <1>3 DEF IInv
<1> QED
  BY <1>1, <1>2, <1>4, Invariance, PTL DEF Spec, RecountOnlyAfterAlert
=============================================================================
