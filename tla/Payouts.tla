------------------------------- MODULE Payouts -------------------------------
(***************************************************************************)
(* Paying Designers: who is credited for an order (get_finance_stats), the *)
(* one payment path of Admin and Accountant and its history (payments.py), *)
(* the Accountant's popup (accountant_api.py), rates and cancelled         *)
(* payments (finance_api.py), while orders are assigned, submitted and     *)
(* moved. Each order has one entry in the history per batch it is in.      *)
(***************************************************************************)
EXTENDS Integers, Sequences, FiniteSetsExt

CONSTANTS Orders, Designers,
          Nobody,       \* no Designer
          Payers,       \* payments that may be under way at once
          Rates,        \* the amounts in use
          MaxChanges    \* bound of what others do to the orders

ASSUME PayoutConstants ==
    /\ Nobody \notin Designers
    /\ Rates \subseteq Nat \ {0}
    /\ MaxChanges \in Nat

VARIABLES
    order,      \* what a payment reads and writes of an order
    rows,       \* its assignments, oldest first
    subs,       \* its submissions, oldest first
    rates,      \* the rates of the platform
    history,    \* its entries in the payment batches
    unmarked,   \* how often its payment was cancelled
    payer,      \* the payments under way
    serving,    \* the migration has run backfill_payment_batches
    repriced,   \* a rate was changed since, or a paid order changed domain
    changes

vars == <<order, rows, subs, rates, history, unmarked, payer, serving, repriced, changes>>

States == {"waiting", "open", "done"}
OrderRow == [paid : BOOLEAN, state : States, link : BOOLEAN, custom : Rates \cup {0}, duplicate : BOOLEAN]
RowOf(d) == [designer |-> d, active |-> TRUE]
Event(actor) == [actor |-> actor, row |-> 0]
Version(row) == [actor |-> Nobody, row |-> row]

\* rates: those of the platform it read; moved: the orders assigned or submitted since its check.
Idle == [pc |-> "idle", all |-> FALSE, to |-> Nobody, orders |-> {}, total |-> 0,
         rates |-> [standard |-> 0, duplicate |-> 0], moved |-> {}]

\* Every order was submitted by the Designer it is assigned to; some were paid before there was a history.
Init ==
    /\ \E first \in [Orders -> Designers], paid \in SUBSET Orders :
         /\ order = [o \in Orders |-> [paid |-> o \in paid, state |-> IF o \in paid THEN "done" ELSE "open",
                                       link |-> TRUE, custom |-> 0, duplicate |-> FALSE]]
         /\ rows = [o \in Orders |-> <<RowOf(first[o])>>]
         /\ subs = [o \in Orders |-> <<Event(first[o]), Version(1)>>]
    /\ rates \in {[standard |-> r, duplicate |-> r] : r \in Rates}
    /\ history = [o \in Orders |-> << >>] /\ unmarked = [o \in Orders |-> 0]
    /\ payer = [p \in Payers |-> Idle]
    /\ serving = FALSE /\ repriced = FALSE /\ changes = 0

-----------------------------------------------------------------------------
\* order_amount: the order's own rate, else the platform's for its domain.
RateAt(o, r) == IF order[o].duplicate THEN r.duplicate ELSE r.standard
AmountAt(o, r) == IF order[o].custom # 0 THEN order[o].custom ELSE RateAt(o, r)
Amount(o) == AmountAt(o, rates)

Active(o) == {i \in 1 .. Len(rows[o]) : rows[o][i].active}
Holder(o) == IF Active(o) = {} THEN Nobody ELSE rows[o][Max(Active(o))].designer

\* A move to Review names its Designer, or counts for whoever holds the order now; a result counts for
\* the Designer its assignment names now.
OfEvent(o, sub) == IF sub.actor # Nobody THEN sub.actor ELSE Holder(o)
OfSubmission(o, sub) == IF sub.row = 0 THEN OfEvent(o, sub) ELSE rows[o][sub.row].designer

\* The latest submission with a Designer is credited, else whoever holds the order.
Credit(o) ==
    LET named == {i \in 1 .. Len(subs[o]) : OfSubmission(o, subs[o][i]) # Nobody}
    IN IF named = {} THEN Holder(o) ELSE OfSubmission(o, subs[o][Max(named)])

Tasks(d) == {o \in Orders : Credit(o) = d}
Pending(d) == {o \in Tasks(d) : order[o].link /\ ~order[o].paid}
Unpaid(d) == {o \in Tasks(d) : ~order[o].paid}

Total(amount) == MapThenSumSet(LAMBDA o : amount[o], DOMAIN amount)

\* The KPI cards of both pages.
Paid == {o \in Orders : order[o].paid}
PaidAmount == Total([o \in Paid |-> Amount(o)])

-----------------------------------------------------------------------------
Stands == UNCHANGED <<rates, serving, repriced, changes>>
Settled(p, row) == payer' = [payer EXCEPT ![p] = row]

\* The Accountant opens a Designer's popup: what is pending, of one week or of all, and its total.
OpenPopup(p, d) ==
    /\ serving /\ payer[p].pc \in {"idle", "paid"}
    /\ \E shown \in SUBSET Pending(d) \ {{}} :
         Settled(p, [Idle EXCEPT !.pc = "popup", !.to = d, !.orders = shown,
                                 !.total = Total([o \in shown |-> Amount(o)])])
    /\ UNCHANGED <<order, rows, subs, history, unmarked>> /\ Stands

\* Only the ids are kept of what was read, and the platform with its rates.
Read(row, S) == [row EXCEPT !.pc = "checked", !.orders = S, !.rates = rates]

\* The transfer is confirmed: every order shown must still be pending for that Designer.
CheckPending(p) ==
    /\ payer[p].pc = "popup"
    /\ Settled(p, IF payer[p].orders \subseteq Pending(payer[p].to) THEN Read(payer[p], payer[p].orders)
                  ELSE Idle)
    /\ UNCHANGED <<order, rows, subs, history, unmarked>> /\ Stands

\* An Admin names a Designer instead of orders: all that is unpaid, with or without a link.
ReadUnpaid(p, d) ==
    /\ serving /\ payer[p].pc \in {"idle", "paid"} /\ Unpaid(d) # {}
    /\ Settled(p, Read([Idle EXCEPT !.all = TRUE], Unpaid(d)))
    /\ UNCHANGED <<order, rows, subs, history, unmarked>> /\ Stands

\* Paid, closed, and one entry each, at these rates, for whoever is credited now.
Closed(row) == [row EXCEPT !.paid = TRUE, !.state = "done"]
Entry(o, r) == [designer |-> Credit(o), amount |-> AmountAt(o, r)]
Record(S, r) ==
    /\ order' = [o \in Orders |-> IF o \in S THEN Closed(order[o]) ELSE order[o]]
    /\ history' = [o \in Orders |-> IF o \in S THEN Append(history[o], Entry(o, r)) ELSE history[o]]

Bug_PaysAgain(S) == S
Payable(S) == {o \in S : ~order[o].paid}

Bug_AnyTotal(p) == TRUE
TotalHolds(p) ==
    payer[p].all \/ Total([o \in payer[p].orders |-> AmountAt(o, payer[p].rates)]) = payer[p].total

\* pay_orders reads the rows again under their locks: a transfer pays nothing once one of its orders is
\* paid or their total is another, an Admin pays what is left. Whose the orders are is not checked again.
Agrees(p) == (payer[p].all \/ Payable(payer[p].orders) = payer[p].orders) /\ TotalHolds(p)

PayRead(p) ==
    /\ payer[p].pc = "checked"
    /\ IF Agrees(p) /\ Payable(payer[p].orders) # {}
       THEN Record(Payable(payer[p].orders), payer[p].rates) /\ Settled(p, [Idle EXCEPT !.pc = "paid"])
       ELSE Settled(p, Idle) /\ UNCHANGED <<order, history>>
    /\ UNCHANGED <<rows, subs, unmarked>> /\ Stands

\* An Admin pays the orders chosen on the page: what is paid already is skipped.
PayChosen(S) ==
    /\ serving /\ Payable(S) # {}
    /\ Record(Payable(S), rates)
    /\ UNCHANGED <<rows, subs, rates, unmarked, payer, serving, repriced, changes>>

\* backfill_payment_batches, by the migration: paid orders without an entry get one.
Unrecorded == {o \in Orders : order[o].paid /\ history[o] = << >>}
Backfill ==
    /\ serving' = TRUE
    /\ Record(Unrecorded, rates)
    /\ UNCHANGED <<rows, subs, rates, unmarked, payer, repriced, changes>>

-----------------------------------------------------------------------------
Change == serving /\ changes < MaxChanges /\ changes' = changes + 1
Changed(o, row) == order' = [order EXCEPT ![o] = row]
Touch(o, row) == Changed(o, row) /\ UNCHANGED payer

\* The order may now be credited to another Designer than a payment under way found.
Moves(o) ==
    payer' = [p \in Payers |->
        IF payer[p].pc = "checked" /\ o \in payer[p].orders THEN [payer[p] EXCEPT !.moved = @ \cup {o}]
        ELSE payer[p]]

\* The payment is cancelled: the order stays closed and its entry stays in the history.
UnmarkPaid(o) ==
    /\ Change /\ order[o].paid
    /\ Touch(o, [order[o] EXCEPT !.paid = FALSE])
    /\ unmarked' = [unmarked EXCEPT ![o] = @ + 1]
    /\ UNCHANGED <<rows, subs, rates, history, serving, repriced>>

Bug_AnyOrder(o) == TRUE
MayReprice(o) == ~order[o].paid

Own(o, r) == IF r = RateAt(o, rates) THEN 0 ELSE r
SetOrderRate(o, r) ==
    /\ Change /\ MayReprice(o) /\ Own(o, r) # order[o].custom
    /\ Touch(o, [order[o] EXCEPT !.custom = Own(o, r)])
    /\ UNCHANGED <<rows, subs, rates, history, unmarked, serving, repriced>>

\* No lock, no version: the amounts of paid orders on the pages follow, those in the history do not.
UpdateRates(s, d) ==
    /\ Change
    /\ rates' = [standard |-> s, duplicate |-> d] /\ repriced' = TRUE
    /\ UNCHANGED <<order, rows, subs, history, unmarked, payer, serving>>

SetDomain(o) ==
    /\ Change
    /\ Touch(o, [order[o] EXCEPT !.duplicate = ~@])
    /\ repriced' = (repriced \/ order[o].paid)
    /\ UNCHANGED <<rows, subs, rates, history, unmarked, serving>>

\* The newest active row is given to the Designer in place; without one there is a new row.
Given(o, d) ==
    IF Active(o) = {} THEN Append(rows[o], RowOf(d))
    ELSE [rows[o] EXCEPT ![Max(Active(o))].designer = d]

Assign(o, d, state) ==
    /\ Change
    /\ rows' = [rows EXCEPT ![o] = Given(o, d)] /\ Moves(o)
    /\ Changed(o, [order[o] EXCEPT !.state = state])
    /\ UNCHANGED <<subs, rates, history, unmarked, serving, repriced>>

\* A waiting order may be assigned and stay waiting: its own row does not change.
AssignQuietly(o, d) ==
    /\ Change /\ order[o].state = "waiting"
    /\ rows' = [rows EXCEPT ![o] = Given(o, d)] /\ Moves(o)
    /\ UNCHANGED <<order, subs, rates, history, unmarked, serving, repriced>>

TakeBack(o) ==
    /\ Change /\ Active(o) # {}
    /\ rows' = [rows EXCEPT ![o] = [i \in DOMAIN @ |-> [@[i] EXCEPT !.active = FALSE]]] /\ Moves(o)
    /\ Changed(o, [order[o] EXCEPT !.state = "waiting"])
    /\ UNCHANGED <<subs, rates, history, unmarked, serving, repriced>>

Submit(o) ==
    /\ Change /\ Active(o) # {} /\ order[o].state # "done"
    /\ subs' = [subs EXCEPT ![o] = @ \o <<Event(Holder(o)), Version(Max(Active(o)))>>] /\ Moves(o)
    /\ Changed(o, [order[o] EXCEPT !.state = "open", !.link = TRUE])
    /\ UNCHANGED <<rows, rates, history, unmarked, serving, repriced>>

\* A sync, or an Admin, moves the order to Review: a submission by whoever holds it.
MoveToReview(o) ==
    /\ Change
    /\ subs' = [subs EXCEPT ![o] = Append(@, Event(Nobody))] /\ Moves(o)
    /\ Changed(o, [order[o] EXCEPT !.state = "open"])
    /\ UNCHANGED <<rows, rates, history, unmarked, serving, repriced>>

-----------------------------------------------------------------------------
Next ==
    \/ \E p \in Payers : \/ \E d \in Designers : OpenPopup(p, d) \/ ReadUnpaid(p, d)
                         \/ CheckPending(p) \/ PayRead(p)
    \/ \E S \in SUBSET Orders : PayChosen(S)
    \/ Backfill
    \/ \E o \in Orders :
         \/ UnmarkPaid(o) \/ SetDomain(o) \/ TakeBack(o) \/ Submit(o) \/ MoveToReview(o)
         \/ \E r \in Rates : SetOrderRate(o, r)
         \/ \E d \in Designers : AssignQuietly(o, d) \/ \E state \in {"waiting", "open"} : Assign(o, d, state)
    \/ \E s, d \in Rates : UpdateRates(s, d)

Spec == Init /\ [][Next]_vars

-----------------------------------------------------------------------------
\* Once the migration ran, an order has one entry in the history per payment it had: none is recorded
\* twice when Admin and Accountant pay at once, and none is lost (payments.py:101, "paying twice never
\* records a second payment").
RecordedOncePerPayment ==
    serving => \A o \in Orders : Len(history[o]) = unmarked[o] + (IF order[o].paid THEN 1 ELSE 0)

\* What the Accountant transferred is what the history records (accountant_api.py:207-209, "the recorded
\* amount always equals the transferred one"), whatever others pay, cancel or reprice meanwhile; and it is
\* recorded for the Designer who got it, unless the order was assigned or submitted after the check.
Last(o) == history[o][Len(history[o])]
TransferIsRecorded ==
    [][\A p \in Payers : payer[p].pc = "checked" /\ payer'[p].pc = "paid" /\ ~payer[p].all =>
          /\ Total([o \in payer[p].orders |-> Last(o)'.amount]) = payer[p].total
          /\ \A o \in payer[p].orders \ payer[p].moved : Last(o)'.designer = payer[p].to]_vars

\* The paid amount both pages show is the amount the history recorded last for the paid orders, as long as
\* no platform rate and no domain of a paid order changed (payments.py:3-5, "always agree").
PagesMatchHistory ==
    serving /\ ~repriced =>
        PaidAmount = Total([o \in Paid |-> Last(o).amount])
=============================================================================
