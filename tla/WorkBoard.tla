----------------------------- MODULE WorkBoard -----------------------------
(***************************************************************************)
(* Who works on one order: the in-house Designers it is assigned to, the   *)
(* Trello Designers of the duplicate board who hold it under a processing  *)
(* lease, the tag Support and Admin give it, and the requests that carry   *)
(* such a decision to Printerval (duplicate_board.py, support_take.py,     *)
(* support_return.py, assignment_commands.py, processing_leases.py,        *)
(* designer_tasks.py, orders_api.py). What becomes of a request is the     *)
(* subject of AssignmentRequests, Fix rounds that of FixReview.            *)
(***************************************************************************)
EXTENDS OrderStates, Integers, Sequences, FiniteSets

CONSTANTS InHouse, Trello,   \* Designers of the two kinds
          Admin, NoOne,
          CrossDrag          \* Platform.duplicate_board_cross_designer_drag_enabled

ASSUME BoardConstants == /\ InHouse \cap Trello = {} /\ Admin \notin InHouse \cup Trello
                         /\ NoOne \notin InHouse \cup Trello \cup {Admin}
                         /\ CrossDrag \in BOOLEAN

Designers == InHouse \cup Trello
Targets == {"Waiting", "Doing"}
StateOf == [t \in Targets |-> IF t = "Waiting" THEN "WAITING" ELSE "IN_PROGRESS"]

VARIABLES
    order,     \* the row: state, domain, duplicate_check_status, template_missing, printerval_status
    assigned,  \* designers of its active assignments, oldest first
    lease,     \* processing_lock_owner_id while it is live, and whether it was renewed lately
    edit,      \* an assignment form that was loaded without a lock and is not saved yet
    asked,     \* the statuses that requests under way will bring to Printerval
    raced      \* history: a form was saved although the assignments had changed under it

vars == <<order, assigned, lease, edit, asked, raced>>

OrderRow == [state : {"WAITING", "IN_PROGRESS", "QC_PENDING", "DONE"}, domain : {"standard", "duplicate"},
             check : {"uncheck", "duplicate", "non_duplicate"}, missing : BOOLEAN, submitted : BOOLEAN,
             mirror : {"waiting", "doing"}]

Free == [owner |-> NoOne, fresh |-> FALSE]
NoEdit == [open |-> FALSE, at |-> 0, gone |-> FALSE, asks |-> FALSE, saves |-> FALSE]
MaxRows == 2   \* bound of the active assignments of one order

Init ==
    /\ order = [state |-> "WAITING", domain |-> "standard", check |-> "uncheck", missing |-> FALSE,
                submitted |-> FALSE, mirror |-> "waiting"]
    /\ assigned = <<>> /\ lease = Free /\ edit = NoEdit
    /\ asked = {} /\ raced = FALSE

-----------------------------------------------------------------------------
Holders == {assigned[i] : i \in DOMAIN assigned}
TrelloHolders == Holders \cap Trello

\* create_request: the intent is committed with, or before, the change it belongs to.
CreateRequest(option, target) == asked' = asked \cup {target}
NoRequests == UNCHANGED asked

\* Every change of the order makes a form loaded before it stale, if saving that form writes the order.
Touched(cancels) ==
    edit' = IF edit.saves THEN NoEdit ELSE [edit EXCEPT !.gone = @ \/ (cancels /\ edit.at # 0)]

Cancelled == assigned' = <<>> /\ Touched(TRUE)
Kept == UNCHANGED assigned /\ Touched(FALSE)

\* _upsert_internal_assignment: the newest active row changes its Designer, or a row is added.
Upserted(d) == IF assigned = <<>> THEN <<d>> ELSE [assigned EXCEPT ![Len(assigned)] = d]

(***************************************************************************)
(* Assigning and revoking.                                                 *)
(***************************************************************************)
\* queue_assignment_command: with a Designer, with a Printerval Designer only, or a status only.
QueueAssignment ==
    /\ \/ \E d \in Designers, t \in Targets :
            /\ assigned' = Upserted(d) /\ Touched(FALSE)
            /\ order' = [order EXCEPT !.state = StateOf[t]]
            /\ CreateRequest(TRUE, t)
       \/ \E t \in Targets :
            /\ Kept /\ order' = [order EXCEPT !.state = StateOf[t]]
            /\ CreateRequest(TRUE, t)
       \/ \E t \in Targets, option \in BOOLEAN :
            UNCHANGED <<order, assigned, edit>> /\ CreateRequest(option, t)
    /\ UNCHANGED <<lease, raced>>

\* api_printerval_assignment, api_assign_order and, order by order, api_bulk_assign_orders read the order and
\* its newest active assignment without a lock; the first asks Printerval in the same commit (asks) ...
LoadForm(asks) ==
    /\ edit = NoEdit
    /\ edit' = [open |-> TRUE, at |-> Len(assigned), gone |-> FALSE, asks |-> asks,
                saves |-> ~asks \/ order.state # "WAITING"]
    /\ UNCHANGED <<order, assigned, lease, raced>> /\ NoRequests

LoadEdit == LoadForm(TRUE)
LoadAssign == LoadForm(FALSE)

\* ... and save them: a new row, or the row it read, which has no effect once that is cancelled. The order
\* is written, and its version checked, only if a column of it changes.
SaveForm(d) ==
    /\ edit.open
    /\ edit' = NoEdit
    /\ edit.at = 0 => Len(assigned) < MaxRows
    /\ assigned' = IF edit.at = 0 THEN Append(assigned, d)
                   ELSE IF edit.gone THEN assigned ELSE [assigned EXCEPT ![edit.at] = d]
    /\ raced' = (raced \/ (edit.at # Len(assigned)) \/ edit.gone)
    /\ order' = IF edit.saves THEN [order EXCEPT !.state = "WAITING"] ELSE order
    /\ UNCHANGED lease

SaveEdit(d) == edit.asks /\ SaveForm(d) /\ \E t \in Targets : CreateRequest(TRUE, t)
SaveAssign(d) == ~edit.asks /\ SaveForm(d) /\ NoRequests

\* api_bulk_printerval_assignment without a Printerval Designer: the status goes to the push of FixReview.
SetStatus(t) ==
    /\ order' = [order EXCEPT !.state = StateOf[t], !.mirror = IF t = "Doing" THEN "doing" ELSE "waiting"]
    /\ Kept /\ NoRequests /\ UNCHANGED <<lease, raced>>

MayRevoke == ~order.submitted /\ order.state \notin {"QC_PENDING", "DONE"}

RevokeAssignment ==
    /\ MayRevoke
    /\ Cancelled
    /\ order' = IF order.check = "duplicate"
                THEN [order EXCEPT !.domain = "duplicate", !.state = "IN_PROGRESS"]
                ELSE [order EXCEPT !.state = "WAITING"]
    /\ NoRequests /\ UNCHANGED <<lease, raced>>

(***************************************************************************)
(* The tag and the board.                                                  *)
(***************************************************************************)
MayTag(who) == who = "support" => order.state = "WAITING"   \* SUPPORT_CLASSIFICATION_STATES

OnBoard(o) == [o EXCEPT !.domain = "duplicate", !.check = "duplicate", !.state = "IN_PROGRESS", !.missing = FALSE]
Bug_KeepsTag(o, check) == [o EXCEPT !.domain = IF @ = "duplicate" /\ check = "uncheck" THEN @ ELSE "standard",
                                    !.check = check]
OffBoard(o, check) ==
    [o EXCEPT !.domain = "standard", !.check = check,
              !.state = IF o.domain = "duplicate" THEN "WAITING" ELSE @]

\* set_orders_duplicate_status, by Admin in any state, by Support while the order waits.
TagOrder(who, check) ==
    /\ MayTag(who)
    /\ IF check = "duplicate"
       THEN /\ order' = OnBoard(order) /\ Cancelled
            /\ IF order.domain # "duplicate" \/ order.state # "IN_PROGRESS"
               THEN CreateRequest(FALSE, "Doing") ELSE NoRequests
       ELSE order' = OffBoard(order, check) /\ Kept /\ NoRequests
    /\ UNCHANGED <<lease, raced>>

\* set_orders_work_domain
SetDomain(who, domain) ==
    /\ MayTag(who) /\ order.domain # domain
    /\ Cancelled
    /\ IF domain = "duplicate"
       THEN order' = OnBoard(order) /\ CreateRequest(FALSE, "Doing")
       ELSE order' = OffBoard(order, "non_duplicate") /\ NoRequests
    /\ UNCHANGED <<lease, raced>>

InPool == assigned = <<>> /\ order.state \in {"IN_PROGRESS", "WAITING"}

\* remove_duplicate_from_backlog
RemoveFromBacklog ==
    /\ order.domain = "duplicate" /\ InPool /\ ~order.missing
    /\ order' = OffBoard(order, "uncheck") /\ Kept
    /\ NoRequests /\ UNCHANGED <<lease, raced>>

\* take_duplicate_orders: off the board, and assigned to the in-house Designer of Support. The tag stays.
TakeOrder ==
    /\ order.domain = "duplicate" /\ order.check = "duplicate" /\ InPool
    /\ \E d \in InHouse : assigned' = Upserted(d)
    /\ Touched(FALSE)
    /\ order' = [order EXCEPT !.domain = "standard", !.state = "IN_PROGRESS"]
    /\ CreateRequest(TRUE, "Doing")
    /\ UNCHANGED <<lease, raced>>

\* return_orders_to_unchecked: what the tag had moved to Doing on Printerval goes back to Waiting.
ReturnOrder ==
    /\ order.check # "uncheck" /\ assigned = <<>>
    /\ order.state = "WAITING" \/ (order.domain = "duplicate" /\ order.state = "IN_PROGRESS")
    /\ order' = OffBoard(order, "uncheck") /\ Kept
    /\ IF order.domain = "duplicate" /\ order.mirror = "doing"
       THEN CreateRequest(FALSE, "Waiting") ELSE NoRequests
    /\ UNCHANGED <<lease, raced>>

MayDrag(a) == CrossDrag \/ a = Admin \/ TrelloHolders \subseteq {a}
Repaired == [order EXCEPT !.check = "duplicate"]

\* move_duplicate_order to the pool, or to the cards without a template.
MoveToPool(a, missing) ==
    /\ order.domain = "duplicate" /\ MayDrag(a)
    /\ order' = [Repaired EXCEPT !.missing = missing, !.state = "WAITING"]
    /\ Cancelled
    /\ NoRequests /\ UNCHANGED <<lease, raced>>

\* Done, which a Trello Designer may claim for a card nobody holds.
MoveToDone(a) ==
    /\ order.domain = "duplicate" /\ MayDrag(a)
    /\ order' = [Repaired EXCEPT !.missing = FALSE, !.state = "DONE"]
    /\ Len(assigned) < MaxRows
    /\ assigned' = IF TrelloHolders = {} /\ a \in Trello THEN Append(assigned, a) ELSE assigned
    /\ Touched(FALSE)
    /\ NoRequests /\ UNCHANGED <<lease, raced>>

Bug_KeepsOthers(d) == Append(assigned, d)
HandedTo(d) == <<d>>

\* A claim, or a hand-over from one Trello Designer to another.
MoveToDesigner(a, d) ==
    /\ order.domain = "duplicate" /\ MayDrag(a)
    /\ CrossDrag \/ a \in {Admin, d}
    /\ order' = [Repaired EXCEPT !.missing = FALSE, !.state = "IN_PROGRESS"]
    /\ IF d \in TrelloHolders
       THEN Kept /\ NoRequests
       ELSE assigned' = HandedTo(d) /\ Touched(TRUE) /\ CreateRequest(TRUE, "Doing")
    /\ UNCHANGED <<lease, raced>>

(***************************************************************************)
(* The Designer's own commands, on an approved assignment of an open task. *)
(* Trello Designers work under the lease, in-house ones without.           *)
(***************************************************************************)
Bug_OpenTask(d) == order.state \in {"WAITING", "IN_PROGRESS"}
Owned(d) == d \in Holders /\ order.state \in {"WAITING", "IN_PROGRESS"}
MayLease(d) == lease.owner \in {NoOne, d}
LeaseOf(d) == [owner |-> d, fresh |-> TRUE]

\* start_task, update_sub_status: take or renew the lease.
StartTask(d) ==
    /\ Owned(d)
    /\ d \in Trello => MayLease(d)
    /\ order' = [order EXCEPT !.state = "IN_PROGRESS"]
    /\ lease' = IF d \in Trello THEN LeaseOf(d) ELSE lease
    /\ Kept /\ NoRequests /\ UNCHANGED raced

UpdateSubStatus(d) ==
    /\ Owned(d) /\ d \in Trello /\ MayLease(d)
    /\ lease' = LeaseOf(d)
    /\ IF lease.owner = d THEN UNCHANGED <<assigned, edit>> ELSE Kept
    /\ UNCHANGED <<order, raced>> /\ NoRequests

\* A heartbeat is no revision of the order.
HeartbeatTask(d) ==
    /\ Owned(d) /\ lease.owner = d
    /\ lease' = LeaseOf(d)
    /\ UNCHANGED <<order, assigned, edit, raced>> /\ NoRequests

FlagMissingTemplate(d) ==
    /\ Owned(d)
    /\ order' = [order EXCEPT !.missing = TRUE]
    /\ Kept /\ NoRequests /\ UNCHANGED <<lease, raced>>

\* The in-house Designer may submit again until Printerval confirms; the push is FixReview's.
SubmitResult(d) ==
    /\ Owned(d) \/ (d \in Holders \ Trello /\ order.state \in {"QC_PENDING", "DONE"})
    /\ d \in Trello => MayLease(d)
    /\ order' = [order EXCEPT !.state = "QC_PENDING", !.submitted = TRUE]
    /\ lease' = IF d \in Trello THEN Free ELSE lease
    /\ Kept /\ NoRequests /\ UNCHANGED raced

\* api_resolve_missing_template
ResolveMissingTemplate ==
    /\ order.missing /\ assigned # <<>>
    /\ CanMove(order.state, "IN_PROGRESS")
    /\ order' = [order EXCEPT !.missing = FALSE, !.state = "IN_PROGRESS"]
    /\ Kept /\ NoRequests /\ UNCHANGED <<lease, raced>>

\* api_take_over_processing_lease
TakeOver ==
    /\ lease' = LeaseOf(Admin)
    /\ Kept /\ UNCHANGED order /\ NoRequests /\ UNCHANGED raced

\* PROCESSING_LEASE_TTL without a heartbeat, in two halves.
LeaseAges ==
    /\ lease.owner # NoOne
    /\ lease' = IF lease.fresh THEN [lease EXCEPT !.fresh = FALSE] ELSE Free
    /\ UNCHANGED <<order, assigned, edit, raced>> /\ NoRequests

(***************************************************************************)
(* The request, as AssignmentRequests details it.                          *)
(***************************************************************************)
\* The order is read again under a lock and mirrors the status Printerval took.
RecordRequest(t) ==
    /\ t \in asked
    /\ asked' \in {asked, asked \ {t}}   \* another request may want the same
    /\ order' = [order EXCEPT !.mirror = IF t = "Doing" THEN "doing" ELSE "waiting"]
    /\ Kept /\ UNCHANGED <<lease, raced>>

RequestFails(t) ==
    /\ t \in asked
    /\ asked' = asked \ {t}
    /\ UNCHANGED <<order, assigned, lease, edit, raced>>

-----------------------------------------------------------------------------
AdminCommands ==
    \/ QueueAssignment \/ LoadEdit \/ LoadAssign \/ RevokeAssignment \/ ResolveMissingTemplate \/ TakeOver
    \/ \E d \in Designers : SaveAssign(d) \/ SaveEdit(d)
    \/ \E t \in Targets : SetStatus(t)

BoardCommands ==
    \/ \E who \in {"admin", "support"} :
          \/ \E c \in {"uncheck", "duplicate", "non_duplicate"} : TagOrder(who, c)
          \/ \E m \in {"standard", "duplicate"} : SetDomain(who, m)
    \/ RemoveFromBacklog \/ TakeOrder \/ ReturnOrder
    \/ \E a \in Trello \cup {Admin} :
          \/ \E b \in BOOLEAN : MoveToPool(a, b)
          \/ MoveToDone(a) \/ \E d \in Trello : MoveToDesigner(a, d)

DesignerCommands ==
    \E d \in Designers : \/ StartTask(d) \/ UpdateSubStatus(d) \/ HeartbeatTask(d)
                         \/ FlagMissingTemplate(d) \/ SubmitResult(d)

Next == \/ AdminCommands \/ BoardCommands \/ DesignerCommands \/ LeaseAges
        \/ \E t \in Targets : RecordRequest(t) \/ RequestFails(t)

Spec == Init /\ [][Next]_vars

\* Time passes.
FairSpec == Spec /\ WF_vars(LeaseAges)
-----------------------------------------------------------------------------
\* What is on the board is tagged duplicate, whichever of the eight commands that write the domain or the
\* tag moved it there or took it away ("repair the two classification fields together", duplicate_board.py:445).
CardIsTagged == order.domain = "duplicate" => order.check = "duplicate"

\* Two Trello Designers never hold one card, but for a form saved over a row that had changed since it was
\* loaded: the assignment forms lock nothing (orders_api.py:1360, :2107, :2229).
OneTrelloHolder ==
    ~raced => \A i, j \in DOMAIN assigned : assigned[i] \in Trello /\ assigned[j] \in Trello => i = j

\* A Designer whose card was handed to another cannot keep its lease alive.
LeaseOfTakenCardRunsOut ==
    \A d \in Trello : lease.owner = d /\ d \notin Holders ~> lease.owner # d \/ d \in Holders
=============================================================================
