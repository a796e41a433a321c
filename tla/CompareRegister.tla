--------------------------- MODULE CompareRegister ---------------------------
(***************************************************************************)
(* What the comparison queue promises, without jobs, leases or machines:   *)
(* an order gets one result, in one batch, until the result is retired; a  *)
(* batch is published once, which adds compared orders of it to the image  *)
(* pool, and gets no result afterwards; no order leaves the pool.          *)
(* CompareQueue is shown to implement this.                                *)
(***************************************************************************)
CONSTANTS Orders, Batches

VARIABLES results,   \* pairs of an order and the batch it was compared in
          published, \* the batches that are closed
          pool       \* the orders that later ones are compared with

vars == <<results, published, pool>>

Init == results = {} /\ published = {} /\ pool = {}

Compare(o, b) ==
    /\ b \notin published
    /\ \A c \in Batches : <<o, c>> \notin results
    /\ results' = results \cup {<<o, b>>}
    /\ UNCHANGED <<published, pool>>

Retire(o) ==
    /\ results' = {r \in results : r[1] # o}
    /\ UNCHANGED <<published, pool>>

Publish(b) ==
    /\ b \notin published
    /\ published' = published \cup {b}
    /\ \E S \in SUBSET {o \in Orders : <<o, b>> \in results} : pool' = pool \cup S
    /\ UNCHANGED results

Next ==
    \/ \E b \in Batches : Publish(b) \/ \E o \in Orders : Compare(o, b)
    \/ \E o \in Orders : Retire(o)

Spec == Init /\ [][Next]_vars
=============================================================================
