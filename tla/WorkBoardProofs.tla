--------------------------- MODULE WorkBoardProofs ---------------------------
(***************************************************************************)
(* Who holds a card, for any Designers.  Every command writes the domain   *)
(* and the tag together, so the one implies the other.  A Trello Designer  *)
(* is only ever the newest assignment: what is added to an assignment is   *)
(* added where no Trello Designer holds the card, and what changes one     *)
(* changes the newest, but for a form that was loaded before.              *)
(***************************************************************************)
EXTENDS WorkBoard, TLAPS

Edit == [open : BOOLEAN, at : Nat, gone : BOOLEAN, asks : BOOLEAN, saves : BOOLEAN]

BoardTypeOK ==
    /\ order \in OrderRow /\ assigned \in Seq(Designers)
    /\ edit \in Edit /\ raced \in BOOLEAN

\* Nobody is added behind a Trello Designer.
OnlyNewestIsTrello ==
    ~raced => \A i \in DOMAIN assigned : assigned[i] \in Trello => i = Len(assigned)

BoardInv == BoardTypeOK /\ CardIsTagged /\ OnlyNewestIsTrello

-----------------------------------------------------------------------------
(* How the assignments change under a lock: all end, the newest changes or *)
(* is the first, one is added where no Trello Designer is, or one is left. *)
Replaced ==
    \/ assigned' = <<>> \/ assigned' = assigned
    \/ \E d \in Designers : assigned' \in {<<d>>, Upserted(d)}
    \/ TrelloHolders = {} /\ \E d \in Designers : assigned' = Append(assigned, d)

LEMMA EditOK ==
  ASSUME edit \in Edit, NEW cancels \in BOOLEAN, Touched(cancels)
  PROVE  edit' \in Edit
<1>1. NoEdit \in Edit
  BY DEF NoEdit, Edit
<1>2. [edit EXCEPT !.gone = @ \/ (cancels /\ edit.at # 0)] \in Edit
  BY DEF Edit
<1> QED
  BY <1>1, <1>2 DEF Touched

LEMMA UpsertedOK ==
  ASSUME assigned \in Seq(Designers), NEW d \in Designers, NEW new, new = Upserted(d)
  PROVE  /\ new \in Seq(Designers)
         /\ Len(new) = IF assigned = <<>> THEN 1 ELSE Len(assigned)
         /\ \A i \in DOMAIN new : i = Len(new) \/ (i \in DOMAIN assigned /\ i # Len(assigned) /\ new[i] = assigned[i])
<1>1. CASE assigned = <<>>
  BY <1>1 DEF Upserted
<1>2. CASE assigned # <<>>
  <2>1. new = [assigned EXCEPT ![Len(assigned)] = d] /\ Len(assigned) \in DOMAIN assigned
    BY <1>2 DEF Upserted
  <2> QED
    BY <1>2, <2>1
<1> QED
  BY <1>1, <1>2

LEMMA ReplacedOK ==
  ASSUME assigned \in Seq(Designers), OnlyNewestIsTrello, Replaced, UNCHANGED raced
  PROVE  assigned' \in Seq(Designers) /\ OnlyNewestIsTrello'
<1>1. CASE assigned' = <<>>
  BY <1>1 DEF OnlyNewestIsTrello
<1>5. CASE assigned' = assigned
  BY <1>5 DEF OnlyNewestIsTrello
<1>2. ASSUME NEW d \in Designers, assigned' = <<d>>
      PROVE  assigned' \in Seq(Designers) /\ OnlyNewestIsTrello'
  BY <1>2 DEF OnlyNewestIsTrello
<1>3. ASSUME NEW d \in Designers, assigned' = Upserted(d)
      PROVE  assigned' \in Seq(Designers) /\ OnlyNewestIsTrello'
  BY <1>3, UpsertedOK DEF OnlyNewestIsTrello
<1>4. ASSUME NEW d \in Designers, assigned' = Append(assigned, d), TrelloHolders = {}
      PROVE  assigned' \in Seq(Designers) /\ OnlyNewestIsTrello'
  <2>1. \A i \in DOMAIN assigned : assigned[i] \notin Trello
    BY <1>4 DEF TrelloHolders, Holders
  <2> QED
    BY <1>4, <2>1 DEF OnlyNewestIsTrello
<1> QED
  BY <1>1, <1>2, <1>3, <1>4, <1>5 DEF Replaced

-----------------------------------------------------------------------------
\* The row of an order, with its tag if it is on the board.
Tagged(o) == o \in OrderRow /\ (o.domain = "duplicate" => o.check = "duplicate")

LEMMA TaggedOrder == BoardInv => Tagged(order)
  BY DEF BoardInv, BoardTypeOK, CardIsTagged, Tagged

LEMMA StateOfOK ==
  ASSUME NEW t \in Targets
  PROVE  StateOf[t] \in {"WAITING", "IN_PROGRESS"}
  BY DEF StateOf, Targets

LEMMA StateChange ==
  ASSUME NEW o, Tagged(o), NEW state \in {"WAITING", "IN_PROGRESS", "QC_PENDING", "DONE"}, NEW new
  PROVE  /\ new = [o EXCEPT !.state = state] => Tagged(new)
         /\ \A m \in {"waiting", "doing"} : new = [o EXCEPT !.state = state, !.mirror = m] => Tagged(new)
         /\ new = [o EXCEPT !.state = state, !.submitted = TRUE] => Tagged(new)
         /\ \A b \in BOOLEAN : new = [o EXCEPT !.missing = b, !.state = state] => Tagged(new)
  BY DEF Tagged, OrderRow

LEMMA BoardMoves ==
  ASSUME NEW o, Tagged(o), NEW check \in {"uncheck", "non_duplicate"}
  PROVE  Tagged(OnBoard(o)) /\ Tagged(OffBoard(o, check))
  BY DEF Tagged, OnBoard, OffBoard, OrderRow

(* A command that keeps the row tagged and replaces the assignments keeps  *)
(* the invariant.                                                          *)
LEMMA CommandOK ==
  ASSUME BoardInv, Tagged(order'), Replaced, edit' \in Edit, UNCHANGED raced
  PROVE  BoardInv'
<1>1. assigned' \in Seq(Designers) /\ OnlyNewestIsTrello'
  BY ReplacedOK DEF BoardInv, BoardTypeOK
<1> QED
  BY <1>1 DEF BoardInv, BoardTypeOK, CardIsTagged, Tagged

LEMMA CancelledOK ==
  ASSUME BoardInv, Cancelled
  PROVE  Replaced /\ edit' \in Edit
  BY EditOK DEF BoardInv, BoardTypeOK, Cancelled, Replaced

LEMMA KeptOK ==
  ASSUME BoardInv, Kept
  PROVE  Replaced /\ edit' \in Edit
  BY EditOK DEF BoardInv, BoardTypeOK, Kept, Replaced

LEMMA InitOK == Init => BoardInv
<1> SUFFICES ASSUME Init PROVE BoardInv
  OBVIOUS
<1>1. order \in OrderRow /\ order.domain = "standard"
  BY DEF Init, OrderRow
<1>2. assigned = <<>> /\ edit \in Edit /\ raced \in BOOLEAN
  BY DEF Init, NoEdit, Edit
<1> QED
  BY <1>1, <1>2 DEF BoardInv, BoardTypeOK, CardIsTagged, OnlyNewestIsTrello

-----------------------------------------------------------------------------
(* Assigning and revoking.                                                 *)
LEMMA QueueStep ==
  ASSUME BoardInv, QueueAssignment
  PROVE  BoardInv'
<1>1. Tagged(order) /\ UNCHANGED raced /\ edit \in Edit
  BY TaggedOrder DEF QueueAssignment, BoardInv, BoardTypeOK
<1>2. ASSUME NEW d \in Designers, NEW t \in Targets, assigned' = Upserted(d), Touched(FALSE),
             order' = [order EXCEPT !.state = StateOf[t]]
      PROVE  BoardInv'
  <2>1. Tagged(order')
    BY <1>1, <1>2, StateOfOK, StateChange
  <2>2. Replaced /\ edit' \in Edit
    BY <1>1, <1>2, EditOK DEF Replaced
  <2> QED
    BY <1>1, <2>1, <2>2, CommandOK
<1>3. ASSUME NEW t \in Targets, Kept, order' = [order EXCEPT !.state = StateOf[t]]
      PROVE  BoardInv'
  <2>1. Tagged(order')
    BY <1>1, <1>3, StateOfOK, StateChange
  <2> QED
    BY <1>1, <1>3, <2>1, KeptOK, CommandOK
<1>4. CASE UNCHANGED <<order, assigned, edit>>
  BY <1>1, <1>4, CommandOK DEF Replaced
<1> QED
  BY <1>2, <1>3, <1>4 DEF QueueAssignment

(* A form that is saved writes the newest assignment, or the first, unless *)
(* the assignments have changed since it was loaded.                       *)
LEMMA FormStep ==
  ASSUME BoardInv, NEW d \in Designers, SaveForm(d)
  PROVE  BoardInv'
<1>1. Tagged(order) /\ edit' \in Edit /\ edit.at \in Nat /\ assigned \in Seq(Designers)
  <2>1. NoEdit \in Edit
    BY DEF NoEdit, Edit
  <2> QED
    BY <2>1, TaggedOrder DEF SaveForm, BoardInv, BoardTypeOK, Edit
<1>2. Tagged(order')
  BY <1>1, StateChange DEF SaveForm
<1>3. raced' \in BOOLEAN /\ (~raced' => ~raced /\ edit.at = Len(assigned) /\ ~edit.gone)
  BY DEF SaveForm, BoardInv, BoardTypeOK
<1>4. assigned' = IF edit.at = 0 THEN Append(assigned, d)
                  ELSE IF edit.gone THEN assigned ELSE [assigned EXCEPT ![edit.at] = d]
  BY DEF SaveForm
<1>5. [assigned EXCEPT ![edit.at] = d] \in Seq(Designers)
  <2>1. CASE edit.at \in 1 .. Len(assigned)
    BY <1>1, <2>1
  <2>2. CASE edit.at \notin 1 .. Len(assigned)
    <3> DEFINE written == [assigned EXCEPT ![edit.at] = d]
    <3>1. DOMAIN assigned = 1 .. Len(assigned) /\ assigned = [j \in 1 .. Len(assigned) |-> assigned[j]]
      BY <1>1
    <3>2. written = [j \in 1 .. Len(assigned) |-> assigned[j]]
      BY <2>2, <3>1
    <3> QED
      BY <1>1, <3>1, <3>2
  <2> QED
    BY <2>1, <2>2
<1>6. assigned' \in Seq(Designers)
  BY <1>1, <1>4, <1>5
<1>7. OnlyNewestIsTrello'
  <2> SUFFICES ASSUME ~raced', NEW i \in DOMAIN assigned', assigned'[i] \in Trello PROVE i = Len(assigned')
    BY DEF OnlyNewestIsTrello
  <2>1. \A j \in DOMAIN assigned : assigned[j] \in Trello => j = Len(assigned)
    BY <1>3 DEF BoardInv, OnlyNewestIsTrello
  <2>2. CASE edit.at = 0
    <3>1. Len(assigned) = 0 /\ assigned' = Append(assigned, d)
      BY <1>3, <1>4, <2>2
    <3> QED
      BY <1>1, <3>1
  <2>3. CASE edit.at # 0
    <3>1. assigned' = [assigned EXCEPT ![edit.at] = d] /\ edit.at = Len(assigned)
      BY <1>3, <1>4, <2>3
    <3>2. Len(assigned') = Len(assigned) /\ DOMAIN assigned' = DOMAIN assigned
      BY <1>1, <3>1
    <3>3. i # edit.at => assigned'[i] = assigned[i]
      BY <3>1, <3>2
    <3> QED
      BY <2>1, <3>1, <3>2, <3>3
  <2> QED
    BY <2>2, <2>3
<1> QED
  BY <1>1, <1>2, <1>3, <1>6, <1>7 DEF BoardInv, BoardTypeOK, CardIsTagged, Tagged

LEMMA AdminStep ==
  ASSUME BoardInv, AdminCommands
  PROVE  BoardInv'
<1>1. Tagged(order)
  BY TaggedOrder
<1>2. CASE LoadEdit \/ LoadAssign
  <2>1. PICK asks \in BOOLEAN : LoadForm(asks)
    BY <1>2 DEF LoadEdit, LoadAssign
  <2>2. UNCHANGED <<order, assigned, raced>> /\ edit' \in Edit
    BY <2>1 DEF LoadForm, Edit, BoardInv, BoardTypeOK
  <2> QED
    BY <1>1, <2>2, CommandOK DEF Replaced
<1>3. CASE RevokeAssignment
  <2>1. /\ Cancelled /\ UNCHANGED raced
        /\ order' = IF order.check = "duplicate"
                    THEN [order EXCEPT !.domain = "duplicate", !.state = "IN_PROGRESS"]
                    ELSE [order EXCEPT !.state = "WAITING"]
    BY <1>3 DEF RevokeAssignment
  <2>2. Tagged(order')
    BY <1>1, <2>1 DEF Tagged, OrderRow
  <2> QED
    BY <2>1, <2>2, CancelledOK, CommandOK
<1>4. CASE ResolveMissingTemplate
  <2>1. Kept /\ UNCHANGED raced /\ order' = [order EXCEPT !.missing = FALSE, !.state = "IN_PROGRESS"]
    BY <1>4 DEF ResolveMissingTemplate
  <2>2. Tagged(order')
    BY <1>1, <2>1, StateChange
  <2> QED
    BY <2>1, <2>2, KeptOK, CommandOK
<1>5. CASE TakeOver
  BY <1>1, <1>5, KeptOK, CommandOK DEF TakeOver
<1>6. ASSUME NEW t \in Targets, SetStatus(t) PROVE BoardInv'
  <2>1. /\ Kept /\ UNCHANGED raced
        /\ order' = [order EXCEPT !.state = StateOf[t], !.mirror = IF t = "Doing" THEN "doing" ELSE "waiting"]
    BY <1>6 DEF SetStatus
  <2>2. Tagged(order')
    BY <1>1, <2>1, StateOfOK, StateChange
  <2> QED
    BY <2>1, <2>2, KeptOK, CommandOK
<1>7. ASSUME NEW d \in Designers, SaveAssign(d) \/ SaveEdit(d) PROVE BoardInv'
  BY <1>7, FormStep DEF SaveAssign, SaveEdit
<1> QED
  BY <1>2, <1>3, <1>4, <1>5, <1>6, <1>7, QueueStep DEF AdminCommands

-----------------------------------------------------------------------------
(* The tag and the board.                                                  *)
LEMMA BoardStep ==
  ASSUME BoardInv, BoardCommands
  PROVE  BoardInv'
<1>1. Tagged(order) /\ edit \in Edit /\ Admin \notin Designers
  BY TaggedOrder, BoardConstants DEF BoardInv, BoardTypeOK, Designers
<1>2. ASSUME NEW who, NEW check \in {"uncheck", "duplicate", "non_duplicate"}, TagOrder(who, check) PROVE BoardInv'
  <2>1. Tagged(order') /\ UNCHANGED raced /\ (Cancelled \/ Kept)
    BY <1>1, <1>2, BoardMoves DEF TagOrder
  <2> QED
    BY <2>1, CancelledOK, KeptOK, CommandOK
<1>3. ASSUME NEW who, NEW domain \in {"standard", "duplicate"}, SetDomain(who, domain) PROVE BoardInv'
  <2>1. Tagged(order') /\ UNCHANGED raced /\ Cancelled
    BY <1>1, <1>3, BoardMoves DEF SetDomain
  <2> QED
    BY <2>1, CancelledOK, CommandOK
<1>4. CASE RemoveFromBacklog \/ ReturnOrder
  <2>1. Tagged(order') /\ UNCHANGED raced /\ Kept
    BY <1>1, <1>4, BoardMoves DEF RemoveFromBacklog, ReturnOrder
  <2> QED
    BY <2>1, KeptOK, CommandOK
<1>5. CASE TakeOrder
  <2>1. PICK d \in InHouse : assigned' = Upserted(d)
    BY <1>5 DEF TakeOrder
  <2>2. Touched(FALSE) /\ UNCHANGED raced /\ order' = [order EXCEPT !.domain = "standard", !.state = "IN_PROGRESS"]
    BY <1>5 DEF TakeOrder
  <2>3. Tagged(order')
    BY <1>1, <2>2 DEF Tagged, OrderRow
  <2>4. Replaced /\ edit' \in Edit
    BY <1>1, <2>1, <2>2, EditOK DEF Replaced, Designers
  <2> QED
    BY <2>2, <2>3, <2>4, CommandOK
<1>6. ASSUME NEW a, NEW missing \in BOOLEAN, MoveToPool(a, missing) PROVE BoardInv'
  <2>1. /\ Cancelled /\ UNCHANGED raced
        /\ order' = [Repaired EXCEPT !.missing = missing, !.state = "WAITING"]
    BY <1>6 DEF MoveToPool
  <2>2. Tagged(order')
    BY <1>1, <2>1 DEF Repaired, Tagged, OrderRow
  <2> QED
    BY <2>1, <2>2, CancelledOK, CommandOK
<1>7. ASSUME NEW a \in Trello \cup {Admin}, MoveToDone(a) PROVE BoardInv'
  <2>1. /\ Touched(FALSE) /\ UNCHANGED raced
        /\ order' = [Repaired EXCEPT !.missing = FALSE, !.state = "DONE"]
        /\ assigned' = IF TrelloHolders = {} /\ a \in Trello THEN Append(assigned, a) ELSE assigned
    BY <1>7 DEF MoveToDone
  <2>2. Tagged(order')
    BY <1>1, <2>1 DEF Repaired, Tagged, OrderRow
  <2>3. Replaced /\ edit' \in Edit
    BY <1>1, <2>1, EditOK DEF Replaced, Designers
  <2> QED
    BY <2>1, <2>2, <2>3, CommandOK
<1>8. ASSUME NEW a, NEW d \in Trello, MoveToDesigner(a, d) PROVE BoardInv'
  <2>1. /\ UNCHANGED raced /\ order' = [Repaired EXCEPT !.missing = FALSE, !.state = "IN_PROGRESS"]
        /\ Kept \/ (assigned' = HandedTo(d) /\ Touched(TRUE))
    BY <1>8 DEF MoveToDesigner
  <2>2. Tagged(order')
    BY <1>1, <2>1 DEF Repaired, Tagged, OrderRow
  <2>3. Replaced /\ edit' \in Edit
    BY <1>1, <2>1, EditOK, KeptOK DEF Replaced, HandedTo, Designers
  <2> QED
    BY <2>1, <2>2, <2>3, CommandOK
<1> QED
  BY <1>2, <1>3, <1>4, <1>5, <1>6, <1>7, <1>8 DEF BoardCommands

(* The Designer's own commands, the lease, and the requests.               *)
LEMMA DesignerStep ==
  ASSUME BoardInv, DesignerCommands \/ LeaseAges \/ \E t \in Targets : RecordRequest(t) \/ RequestFails(t)
  PROVE  BoardInv'
<1>1. Tagged(order) /\ edit \in Edit
  BY TaggedOrder DEF BoardInv, BoardTypeOK
<1>2. ASSUME NEW d \in Designers, StartTask(d) \/ FlagMissingTemplate(d) \/ SubmitResult(d) PROVE BoardInv'
  <2>1. /\ Kept /\ UNCHANGED raced
        /\ \/ order' = [order EXCEPT !.state = "IN_PROGRESS"] \/ order' = [order EXCEPT !.missing = TRUE]
           \/ order' = [order EXCEPT !.state = "QC_PENDING", !.submitted = TRUE]
    BY <1>2 DEF StartTask, FlagMissingTemplate, SubmitResult
  <2>2. Tagged(order')
    BY <1>1, <2>1 DEF Tagged, OrderRow
  <2> QED
    BY <2>1, <2>2, KeptOK, CommandOK
<1>3. ASSUME NEW d \in Designers, UpdateSubStatus(d) \/ HeartbeatTask(d) PROVE BoardInv'
  <2>1. UNCHANGED <<order, raced>> /\ (Kept \/ UNCHANGED <<assigned, edit>>)
    BY <1>3 DEF UpdateSubStatus, HeartbeatTask
  <2>2. Replaced /\ edit' \in Edit
    BY <1>1, <2>1, KeptOK DEF Replaced
  <2> QED
    BY <1>1, <2>1, <2>2, CommandOK
<1>4. ASSUME NEW t \in Targets, RecordRequest(t) PROVE BoardInv'
  <2>1. Kept /\ UNCHANGED raced /\ order' = [order EXCEPT !.mirror = IF t = "Doing" THEN "doing" ELSE "waiting"]
    BY <1>4 DEF RecordRequest
  <2>2. Tagged(order')
    BY <1>1, <2>1 DEF Tagged, OrderRow
  <2> QED
    BY <2>1, <2>2, KeptOK, CommandOK
<1>5. CASE LeaseAges \/ \E t \in Targets : RequestFails(t)
  <2>1. UNCHANGED <<order, assigned, edit, raced>>
    BY <1>5 DEF LeaseAges, RequestFails
  <2> QED
    BY <1>1, <2>1, CommandOK DEF Replaced
<1> QED
  BY <1>2, <1>3, <1>4, <1>5 DEF DesignerCommands

LEMMA StepOK == BoardInv /\ [Next]_vars => BoardInv'
<1> SUFFICES ASSUME BoardInv, [Next]_vars PROVE BoardInv'
  OBVIOUS
<1>1. CASE UNCHANGED vars
  BY <1>1, TaggedOrder, CommandOK DEF vars, Replaced, BoardInv, BoardTypeOK
<1> QED
  BY <1>1, AdminStep, BoardStep, DesignerStep DEF Next

-----------------------------------------------------------------------------
(* Whatever moves an order to the board or takes its tag away writes both  *)
(* fields (duplicate_board.py:445).                                        *)
THEOREM CardsAreTagged == Spec => []CardIsTagged
<1>1. BoardInv => CardIsTagged
  BY DEF BoardInv
<1> QED
  BY <1>1, InitOK, StepOK, PTL DEF Spec

(* One Trello Designer at most holds a card, for any number of Designers   *)
(* and assignments, until a form is saved over assignments that changed    *)
(* since it was loaded (orders_api.py:1360, :2107, :2229).                 *)
THEOREM CardHasOneTrelloHolder == Spec => []OneTrelloHolder
<1>1. BoardInv => OneTrelloHolder
  BY DEF BoardInv, BoardTypeOK, OnlyNewestIsTrello, OneTrelloHolder
<1> QED
  BY <1>1, InitOK, StepOK, PTL DEF Spec
==============================================================================
