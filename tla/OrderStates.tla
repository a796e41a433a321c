----------------------------- MODULE OrderStates -----------------------------
(***************************************************************************)
(* The states an order is stored in and the moves apply_transition accepts *)
(* (src/app/domain/state_machine.py).  Routes that assign order.state      *)
(* directly do not pass through this table.                                *)
(***************************************************************************)

OrderState == {"OPEN", "WAITING", "IN_PROGRESS", "QC_PENDING", "REVISION",
               "DONE", "CANCELLED", "EXCEPTION"}

AllowedTransitions ==
  [current \in OrderState |->
     CASE current = "OPEN"        -> {"WAITING", "IN_PROGRESS", "CANCELLED", "EXCEPTION"}
       [] current = "WAITING"     -> {"IN_PROGRESS", "QC_PENDING", "OPEN", "CANCELLED",
                                      "EXCEPTION"}
       [] current = "IN_PROGRESS" -> {"QC_PENDING", "WAITING", "OPEN", "CANCELLED",
                                      "EXCEPTION"}
       [] current = "QC_PENDING"  -> {"DONE", "REVISION", "IN_PROGRESS", "WAITING",
                                      "CANCELLED", "EXCEPTION"}
       [] current = "REVISION"    -> {"IN_PROGRESS", "QC_PENDING", "DONE", "WAITING",
                                      "CANCELLED", "EXCEPTION"}
       [] current = "DONE"        -> {"WAITING", "IN_PROGRESS", "QC_PENDING", "REVISION",
                                      "EXCEPTION"}
       [] current = "CANCELLED"   -> {"EXCEPTION"}
       [] current = "EXCEPTION"   -> OrderState]

(* validate_transition: staying where one is is always accepted. *)
CanMove(current, target) == current = target \/ target \in AllowedTransitions[current]
=============================================================================
