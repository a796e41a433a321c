------------------------------ MODULE FixDispute ------------------------------
(***************************************************************************)
(* What src/app/application/fix_dispute.py does to one order: an order is  *)
(* a record with the Fix columns of models.Order, a dispute is the value   *)
(* of orders.fix_dispute, and a row is what Printerval answers about the   *)
(* job (its queue, its dispute, whether it may be disputed).               *)
(***************************************************************************)
EXTENDS Integers

(* orders.fix_dispute; push = "none" stands for NULL. *)
NoDispute == [round |-> 0, push |-> "none", remote |-> "none", can |-> TRUE,
              outcome |-> "none"]

(* status_changed_at, as far as _is_new_fix tells it apart: whether it is  *)
(* within the grace window, and whether the chat has a newer fix_open.     *)
(* outlived is history: what the window was there to wait for was not over *)
(* when it ended.                                                          *)
Now == [fresh |-> TRUE, opened |-> FALSE, outlived |-> FALSE]

MoveTo(o, state) == [o EXCEPT !.state = state, !.since = Now]

(* current: a dispute belongs to the Fix round it was filed in. *)
IsCurrent(o) == o.dispute.push # "none" /\ o.dispute.round = o.count

(* blocked_reason = None. *)
MayDispute(o) ==
  /\ o.state = "REVISION"
  /\ ~o.approved
  /\ IsCurrent(o) => /\ "rejected" \notin {o.dispute.outcome, o.dispute.remote}
                     /\ o.dispute.push = "failed"
                     /\ o.dispute.can

WithNewDispute(o) ==
  [o EXCEPT !.dispute = [NoDispute EXCEPT !.round = o.count, !.push = "queued"],
            !.rejected = TRUE]

WithPush(o, push) == [o EXCEPT !.dispute.push = push]

Bug_ForgetsFailure(o) == o

MarkFailed(o) == WithPush(o, "failed")

BackToReview(o) ==
  [MoveTo(o, "QC_PENDING") EXCEPT !.approved = FALSE, !.rejected = TRUE]

BackToFix(o) ==
  [MoveTo(o, "REVISION") EXCEPT !.approved = FALSE, !.rejected = FALSE]

(* The record after Printerval's row is mirrored into it: a dispute filed  *)
(* on Printerval itself gets a record of its own.                          *)
Mirrored(o, row) ==
  IF row.dispute = "none"
  THEN [o.dispute EXCEPT !.can = row.can]
  ELSE [(IF o.dispute.push = "none"
         THEN [NoDispute EXCEPT !.round = o.count, !.push = "sent"]
         ELSE o.dispute) EXCEPT !.remote = row.dispute, !.can = row.can]

(* observe, called before the generic Fix and Review rules. *)
Observed(o, row) ==
  IF o.dispute.push = "none" /\ row.dispute = "none" THEN o
  ELSE LET d == Mirrored(o, row)
           seen(p) == [p EXCEPT !.dispute = d]
       IN CASE d.remote = "pending" /\ row.status = "review" /\ o.state = "REVISION"
                 -> BackToReview(seen(o))
            [] d.remote = "rejected" /\ row.status = "fix" /\ d.outcome # "rejected"
                 -> [(IF o.state = "REVISION" THEN seen(o) ELSE BackToFix(seen(o)))
                       EXCEPT !.dispute.outcome = "rejected"]
            [] d.remote = "accepted" /\ row.status # "fix" /\ d.outcome = "none"
                 -> [seen(o) EXCEPT !.dispute.outcome = "accepted"]
            [] OTHER -> seen(o)
=============================================================================
