---------------------------- MODULE PayoutsProofs ----------------------------
(***************************************************************************)
(* One history entry per payment, for any orders, Designers and payments   *)
(* under way.  Every payment reads its orders again under their locks and  *)
(* pays only what is unpaid then, so an entry is always a new payment      *)
(* (IInv).  A payment still has the platform's rates, unless they changed, *)
(* and its orders are credited to the Designer it was checked for, unless  *)
(* they moved since (PagesInv): so what is transferred is what is          *)
(* recorded, and a paid order costs what its last entry says.              *)
(***************************************************************************)
EXTENDS Payouts, TLAPS

IsPayer(r) ==
  /\ {"pc", "all", "to", "orders", "total", "rates", "moved"} \subseteq DOMAIN r
  /\ r.orders \subseteq Orders

\* Orders, counters and payments have the fields the argument reads; entries are of whatever type.
Shapes ==
  /\ order \in [Orders -> OrderRow] /\ unmarked \in [Orders -> Nat]
  /\ history = [o \in Orders |-> history[o]] /\ \A o \in Orders : \E S : history[o] \in Seq(S)
  /\ payer = [p \in Payers |-> payer[p]] /\ \A p \in Payers : IsPayer(payer[p])

\* Payments are made on a platform that is migrated.
Served == \A p \in Payers : payer[p].pc # "idle" => serving

Unrecorded0 == \A o \in Orders : Len(history[o]) = 0 /\ history[o] = << >> /\ unmarked[o] = 0

IInv == Shapes /\ Served /\ RecordedOncePerPayment /\ (~serving => Unrecorded0)

-----------------------------------------------------------------------------
(* One more entry.                                                         *)
LEMMA AppendOK ==
  ASSUME NEW S, NEW s \in Seq(S), NEW e
  PROVE  Append(s, e) \in Seq(S \cup {e}) /\ Len(Append(s, e)) = Len(s) + 1
<1>1. s \in Seq(S \cup {e})
  OBVIOUS
<1> QED
  BY <1>1

(* A payment that is not under way.                                        *)
LEMMA IdleOK == IsPayer(Idle) /\ Idle.pc = "idle"
  BY DEF Idle, IsPayer

(* A payment whose order moves keeps all but the mark that it did.         *)
LEMMA MovesOK ==
  ASSUME \A p \in Payers : IsPayer(payer[p]), NEW o \in Orders, Moves(o)
  PROVE  /\ payer' = [p \in Payers |-> payer'[p]]
         /\ \A p \in Payers : LET r == payer[p] q == payer'[p]
                              IN  /\ IsPayer(q) /\ q.pc = r.pc /\ q.all = r.all /\ q.to = r.to
                                  /\ q.orders = r.orders /\ q.rates = r.rates
                                  /\ q.pc = "checked" => q.orders \ q.moved = (r.orders \ r.moved) \ {o}
<1>1. payer' = [p \in Payers |-> payer'[p]]
  BY DEF Moves
<1>2. ASSUME NEW p \in Payers
      PROVE  /\ IsPayer(payer'[p]) /\ payer'[p].pc = payer[p].pc /\ payer'[p].all = payer[p].all
             /\ payer'[p].to = payer[p].to /\ payer'[p].orders = payer[p].orders
             /\ payer'[p].rates = payer[p].rates
             /\ payer'[p].pc = "checked" =>
                  payer'[p].orders \ payer'[p].moved = (payer[p].orders \ payer[p].moved) \ {o}
  <2> DEFINE r == payer[p]
             q == [r EXCEPT !.moved = @ \cup {o}]
  <2>1. IsPayer(r)
    OBVIOUS
  <2>2. CASE r.pc = "checked" /\ o \in r.orders
    <3>1. payer'[p] = q
      BY <2>2 DEF Moves
    <3> HIDE DEF r
    <3>2. /\ IsPayer(q) /\ q.pc = r.pc /\ q.all = r.all /\ q.to = r.to /\ q.orders = r.orders
          /\ q.rates = r.rates /\ q.moved = r.moved \cup {o}
      BY <2>1 DEF IsPayer
    <3> HIDE DEF q
    <3>3. /\ IsPayer(payer'[p]) /\ payer'[p].pc = r.pc /\ payer'[p].all = r.all /\ payer'[p].to = r.to
          /\ payer'[p].orders = r.orders /\ payer'[p].rates = r.rates /\ payer'[p].moved = r.moved \cup {o}
      BY <3>1, <3>2
    <3> QED
      BY <3>3 DEF r
  <2>3. CASE ~ (r.pc = "checked" /\ o \in r.orders)
    <3>1. payer'[p] = r
      BY <2>3 DEF Moves
    <3> QED
      BY <2>1, <2>3, <3>1
  <2> QED
    BY <2>2, <2>3
<1> QED
  BY <1>1, <1>2

(* A step that pays nothing: one order may change, but is not marked paid, *)
(* and payments only note that it moved.                                   *)
LEMMA ChangeOK ==
  ASSUME IInv, NEW o \in Orders, NEW row \in OrderRow, row.paid = order[o].paid, Changed(o, row),
         UNCHANGED payer \/ Moves(o), UNCHANGED <<history, unmarked, serving>>
  PROVE  IInv'
<1>1. order' \in [Orders -> OrderRow] /\ \A x \in Orders : order'[x].paid = order[x].paid
  BY DEF IInv, Shapes, Changed
<1>2. /\ payer' = [p \in Payers |-> payer'[p]]
      /\ \A p \in Payers : IsPayer(payer'[p]) /\ payer'[p].pc = payer[p].pc
  BY MovesOK DEF IInv, Shapes
<1>3. Shapes' /\ Served'
  BY <1>1, <1>2 DEF IInv, Shapes, Served
<1>4. RecordedOncePerPayment' /\ (~serving' => Unrecorded0')
  BY <1>1 DEF IInv, RecordedOncePerPayment, Unrecorded0
<1> QED
  BY <1>3, <1>4 DEF IInv

(* A payment moves without touching the orders.                            *)
LEMMA PayerOK ==
  ASSUME IInv, NEW p \in Payers, NEW n, Settled(p, n), IsPayer(n), n.pc # "idle" => serving,
         UNCHANGED <<order, history, unmarked, serving>>
  PROVE  IInv'
<1>1. /\ payer' = [q \in Payers |-> payer'[q]] /\ payer'[p] = n
      /\ \A q \in Payers \ {p} : payer'[q] = payer[q]
  BY DEF IInv, Shapes, Settled
<1>2. Shapes' /\ Served'
  BY <1>1 DEF IInv, Shapes, Served
<1>3. RecordedOncePerPayment' /\ (~serving' => Unrecorded0')
  BY DEF IInv, RecordedOncePerPayment, Unrecorded0
<1> QED
  BY <1>2, <1>3 DEF IInv

(* Unpaid orders are paid, each with one entry.                            *)
LEMMA RecordOK ==
  ASSUME IInv, NEW S \in SUBSET Orders, NEW r, Record(S, r),
         \A o \in S : Len(history[o]) = unmarked[o],
         \A o \in Orders \ S : serving' => Len(history[o]) = unmarked[o] + (IF order[o].paid THEN 1 ELSE 0),
         UNCHANGED unmarked, serving', payer' = [p \in Payers |-> payer'[p]],
         \A p \in Payers : IsPayer(payer'[p])
  PROVE  IInv'
<1>1. /\ order' \in [Orders -> OrderRow]
      /\ \A o \in S : order'[o].paid
      /\ \A o \in Orders \ S : order'[o] = order[o]
  BY DEF IInv, Shapes, Record, Closed, OrderRow, States
<1>2. history' = [o \in Orders |-> history'[o]]
  BY DEF Record
<1>3. ASSUME NEW o \in Orders
      PROVE  /\ \E T : history'[o] \in Seq(T)
             /\ Len(history'[o]) = unmarked'[o] + (IF order'[o].paid THEN 1 ELSE 0)
  <2>1. PICK T : history[o] \in Seq(T)
    BY DEF IInv, Shapes
  <2>2. CASE o \in S
    <3> DEFINE e == Entry(o, r)
    <3>1. history'[o] = Append(history[o], e)
      BY <2>2 DEF Record
    <3> HIDE DEF e
    <3>2. history'[o] \in Seq(T \cup {e}) /\ Len(history'[o]) = Len(history[o]) + 1
      BY <2>1, <3>1, AppendOK
    <3> QED
      BY <1>1, <2>2, <3>2
  <2>3. CASE o \notin S
    <3>1. history'[o] = history[o] /\ order'[o] = order[o]
      BY <1>1, <2>3 DEF Record
    <3> QED
      BY <2>1, <2>3, <3>1
  <2> QED
    BY <2>2, <2>3
<1>4. Shapes' /\ Served'
  BY <1>1, <1>2, <1>3 DEF IInv, Shapes, Served
<1> QED
  BY <1>3, <1>4 DEF IInv, RecordedOncePerPayment

(* What a payment may pay was paid as often as it was cancelled.           *)
LEMMA PayableOK ==
  ASSUME IInv, serving, NEW S \in SUBSET Orders
  PROVE  /\ Payable(S) \in SUBSET Orders
         /\ \A o \in Payable(S) : Len(history[o]) = unmarked[o]
         /\ \A o \in Orders : Len(history[o]) = unmarked[o] + (IF order[o].paid THEN 1 ELSE 0)
<1>1. \A o \in Orders : Len(history[o]) = unmarked[o] + (IF order[o].paid THEN 1 ELSE 0)
  BY DEF IInv, RecordedOncePerPayment
<1>2. \A o \in Orders : unmarked[o] \in Nat
  BY DEF IInv, Shapes
<1> QED
  BY <1>1, <1>2 DEF Payable

-----------------------------------------------------------------------------
(* A payment opens, reads, and pays or is refused.                         *)
LEMMA PaymentOK ==
  ASSUME IInv, NEW p \in Payers,
         \/ \E d \in Designers : OpenPopup(p, d) \/ ReadUnpaid(p, d)
         \/ CheckPending(p) \/ PayRead(p)
  PROVE  IInv'
<1> DEFINE r == payer[p]
<1>1. /\ IsPayer(r) /\ \A q \in Payers : IsPayer(payer[q])
      /\ payer = [q \in Payers |-> payer[q]] /\ order \in [Orders -> OrderRow] /\ Shapes
  BY DEF IInv, Shapes
<1>3. ASSUME NEW b, IsPayer(b), NEW S \in SUBSET Orders
      PROVE  IsPayer(Read(b, S)) /\ Read(b, S).pc = "checked"
  BY <1>3 DEF IsPayer, Read
<1>4. ASSUME NEW d \in Designers, OpenPopup(p, d) PROVE IInv'
  <2>1. PICK shown \in SUBSET Pending(d) \ {{}} :
          Settled(p, [Idle EXCEPT !.pc = "popup", !.to = d, !.orders = shown, !.total = Total([o \in shown |-> Amount(o)])])
    BY <1>4 DEF OpenPopup
  <2> DEFINE n == [Idle EXCEPT !.pc = "popup", !.to = d, !.orders = shown, !.total = Total([o \in shown |-> Amount(o)])]
  <2>2. shown \subseteq Orders
    BY DEF Pending, Tasks
  <2>3. IsPayer(n) /\ n.pc = "popup"
    BY <2>2 DEF IsPayer, Idle
  <2>4. serving /\ UNCHANGED <<order, history, unmarked, serving>>
    BY <1>4 DEF OpenPopup, Stands
  <2>5. Settled(p, n)
    BY <2>1
  <2> HIDE DEF n
  <2> QED
    BY <2>3, <2>4, <2>5, PayerOK
<1>5. ASSUME NEW d \in Designers, ReadUnpaid(p, d) PROVE IInv'
  <2> DEFINE b == [Idle EXCEPT !.all = TRUE]
  <2>1. IsPayer(b) /\ Unpaid(d) \in SUBSET Orders
    BY DEF IsPayer, Idle, Unpaid, Tasks
  <2>2. serving /\ Settled(p, Read(b, Unpaid(d))) /\ UNCHANGED <<order, history, unmarked, serving>>
    BY <1>5 DEF ReadUnpaid, Stands
  <2> HIDE DEF b
  <2> QED
    BY <1>3, <2>1, <2>2, PayerOK
<1>6. CASE CheckPending(p)
  <2>1. UNCHANGED <<order, history, unmarked, serving>>
    BY <1>6 DEF CheckPending, Stands
  <2>2. CASE r.orders \subseteq Pending(r.to)
    <3>1. r.orders \in SUBSET Orders /\ Settled(p, Read(r, r.orders))
      BY <1>1, <1>6, <2>2 DEF CheckPending, IsPayer
    <3>2. serving
      BY <1>6 DEF CheckPending, IInv, Served
    <3> HIDE DEF r
    <3> QED
      BY <1>1, <1>3, <2>1, <3>1, <3>2, PayerOK
  <2>3. CASE ~ (r.orders \subseteq Pending(r.to))
    BY <1>6, <2>1, <2>3, IdleOK, PayerOK DEF CheckPending
  <2> QED
    BY <2>2, <2>3
<1>7. CASE PayRead(p)
  <2>1. r.pc = "checked" /\ UNCHANGED <<unmarked, serving>>
    BY <1>7 DEF PayRead, Stands
  <2>2. CASE Agrees(p) /\ Payable(r.orders) # {}
    <3>1. Record(Payable(r.orders), r.rates) /\ Settled(p, [Idle EXCEPT !.pc = "paid"])
      BY <1>7, <2>2 DEF PayRead
    <3>2. serving /\ r.orders \in SUBSET Orders
      BY <1>1, <2>1 DEF IInv, Served, IsPayer
    <3>3. IsPayer([Idle EXCEPT !.pc = "paid"])
      BY DEF IsPayer, Idle
    <3>4. payer' = [q \in Payers |-> payer'[q]] /\ \A q \in Payers : IsPayer(payer'[q])
      BY <1>1, <3>1, <3>3 DEF Settled
    <3> HIDE DEF r
    <3> QED
      BY <2>1, <3>1, <3>2, <3>4, PayableOK, RecordOK
  <2>3. CASE ~ (Agrees(p) /\ Payable(r.orders) # {})
    BY <1>7, <2>1, <2>3, IdleOK, PayerOK DEF PayRead
  <2> QED
    BY <2>2, <2>3
<1> QED
  BY <1>4, <1>5, <1>6, <1>7

(* An Admin pays the chosen orders.                                        *)
LEMMA ChosenOK ==
  ASSUME IInv, NEW S \in SUBSET Orders, PayChosen(S)
  PROVE  IInv'
<1>1. serving /\ UNCHANGED <<unmarked, serving, payer>> /\ Record(Payable(S), rates)
  BY DEF PayChosen
<1>2. payer' = [q \in Payers |-> payer'[q]] /\ \A q \in Payers : IsPayer(payer'[q])
  BY <1>1 DEF IInv, Shapes
<1> QED
  BY <1>1, <1>2, PayableOK, RecordOK

(* The migration records the orders that were paid before.                 *)
LEMMA BackfillOK ==
  ASSUME IInv, Backfill
  PROVE  IInv'
<1>1. /\ serving' /\ UNCHANGED <<unmarked, payer>> /\ Unrecorded \in SUBSET Orders
      /\ Record(Unrecorded, rates)
  BY DEF Backfill, Unrecorded
<1>2. \A o \in Unrecorded : ~serving
  BY DEF IInv, Shapes, RecordedOncePerPayment, Unrecorded
<1>3. \A o \in Unrecorded : Len(history[o]) = unmarked[o]
  BY <1>1, <1>2 DEF IInv, Unrecorded0
<1>4. \A o \in Orders \ Unrecorded : Len(history[o]) = unmarked[o] + (IF order[o].paid THEN 1 ELSE 0)
  BY DEF IInv, RecordedOncePerPayment, Unrecorded0, Unrecorded
<1>5. payer' = [q \in Payers |-> payer'[q]] /\ \A q \in Payers : IsPayer(payer'[q])
  BY <1>1 DEF IInv, Shapes
<1> QED
  BY <1>1, <1>3, <1>4, <1>5, RecordOK

(* The payment of an order is cancelled, and counted.                      *)
LEMMA UnmarkOK ==
  ASSUME IInv, NEW o \in Orders, UnmarkPaid(o)
  PROVE  IInv'
<1> DEFINE row == [order[o] EXCEPT !.paid = FALSE]
<1>1. /\ serving /\ order[o].paid /\ order \in [Orders -> OrderRow] /\ unmarked \in [Orders -> Nat]
      /\ order' = [order EXCEPT ![o] = row]
      /\ unmarked' = [unmarked EXCEPT ![o] = @ + 1] /\ UNCHANGED <<payer, history, serving>>
  BY DEF UnmarkPaid, Change, Touch, Changed, IInv, Shapes
<1>2. row \in OrderRow /\ ~row.paid
  BY <1>1 DEF OrderRow
<1> HIDE DEF row
<1>3. /\ order' \in [Orders -> OrderRow] /\ unmarked' \in [Orders -> Nat]
      /\ \A x \in Orders \ {o} : order'[x] = order[x] /\ unmarked'[x] = unmarked[x]
      /\ ~order'[o].paid /\ unmarked'[o] = unmarked[o] + 1
  BY <1>1, <1>2
<1>4. Shapes' /\ Served'
  BY <1>1, <1>3 DEF IInv, Shapes, Served
<1>5. RecordedOncePerPayment'
  BY <1>1, <1>3 DEF IInv, RecordedOncePerPayment
<1> QED
  BY <1>1, <1>4, <1>5 DEF IInv

(* The order is repriced, assigned, taken back, submitted or moved.        *)
LEMMA OthersOK ==
  ASSUME IInv, NEW o \in Orders,
         \/ SetDomain(o) \/ TakeBack(o) \/ Submit(o) \/ MoveToReview(o)
         \/ \E r \in Rates : SetOrderRate(o, r)
         \/ \E d \in Designers : AssignQuietly(o, d) \/ \E state \in {"waiting", "open"} : Assign(o, d, state)
  PROVE  IInv'
<1>1. /\ order[o] \in OrderRow /\ (order' = order => Changed(o, order[o]))
      /\ UNCHANGED <<history, unmarked, serving>> /\ (UNCHANGED payer \/ Moves(o))
  BY DEF IInv, Shapes, Changed, Touch, SetDomain, TakeBack, Submit, MoveToReview, SetOrderRate, Assign, AssignQuietly
<1>2. \E row \in OrderRow : row.paid = order[o].paid /\ Changed(o, row)
  <2>1. CASE SetDomain(o)
    <3>1. [order[o] EXCEPT !.duplicate = ~@] \in OrderRow /\ [order[o] EXCEPT !.duplicate = ~@].paid = order[o].paid
      BY <1>1 DEF OrderRow
    <3> QED
      BY <2>1, <3>1 DEF SetDomain, Touch
  <2>2. ASSUME NEW r \in Rates, SetOrderRate(o, r) PROVE \E row \in OrderRow : row.paid = order[o].paid /\ Changed(o, row)
    <3>1. Own(o, r) \in Rates \cup {0}
      BY DEF Own
    <3>2. [order[o] EXCEPT !.custom = Own(o, r)] \in OrderRow /\ [order[o] EXCEPT !.custom = Own(o, r)].paid = order[o].paid
      BY <1>1, <3>1 DEF OrderRow
    <3> QED
      BY <2>2, <3>2 DEF SetOrderRate, Touch
  <2>3. ASSUME NEW s \in {"waiting", "open"}, Changed(o, [order[o] EXCEPT !.state = s])
        PROVE \E row \in OrderRow : row.paid = order[o].paid /\ Changed(o, row)
    <3>1. [order[o] EXCEPT !.state = s] \in OrderRow /\ [order[o] EXCEPT !.state = s].paid = order[o].paid
      BY <1>1 DEF OrderRow, States
    <3> QED
      BY <2>3, <3>1
  <2>4. CASE Submit(o)
    <3>1. /\ [order[o] EXCEPT !.state = "open", !.link = TRUE] \in OrderRow
          /\ [order[o] EXCEPT !.state = "open", !.link = TRUE].paid = order[o].paid
      BY <1>1 DEF OrderRow, States
    <3> QED
      BY <2>4, <3>1 DEF Submit
  <2>5. CASE TakeBack(o)
    BY <2>3, <2>5 DEF TakeBack
  <2>6. CASE MoveToReview(o)
    BY <2>3, <2>6 DEF MoveToReview
  <2>7. CASE \E d \in Designers, state \in {"waiting", "open"} : Assign(o, d, state)
    BY <2>3, <2>7 DEF Assign
  <2>8. CASE \E d \in Designers : AssignQuietly(o, d)
    BY <1>1, <2>8 DEF AssignQuietly
  <2> QED
    BY <2>1, <2>2, <2>4, <2>5, <2>6, <2>7, <2>8
<1> QED
  BY <1>1, <1>2, ChangeOK

-----------------------------------------------------------------------------
(* Nothing is recorded yet.                                                *)
LEMMA InitOK == Init => IInv
<1> SUFFICES ASSUME Init PROVE IInv
  OBVIOUS
<1>1. PICK paid \in SUBSET Orders :
        order = [o \in Orders |-> [paid |-> o \in paid, state |-> IF o \in paid THEN "done" ELSE "open",
                                   link |-> TRUE, custom |-> 0, duplicate |-> FALSE]]
  BY DEF Init
<1>2. order \in [Orders -> OrderRow]
  <2> SUFFICES ASSUME NEW o \in Orders PROVE order[o] \in OrderRow
    BY <1>1
  <2>1. CASE o \in paid
    BY <1>1, <2>1 DEF OrderRow, States
  <2>2. CASE o \notin paid
    BY <1>1, <2>2 DEF OrderRow, States
  <2> QED
    BY <2>1, <2>2
<1>3. /\ history = [o \in Orders |-> << >>] /\ unmarked = [o \in Orders |-> 0]
      /\ payer = [p \in Payers |-> Idle] /\ ~serving
  BY DEF Init
<1>4. Shapes
  BY <1>2, <1>3, IdleOK DEF Shapes
<1>5. Served /\ RecordedOncePerPayment /\ Unrecorded0
  BY <1>3, IdleOK DEF Served, RecordedOncePerPayment, Unrecorded0
<1> QED
  BY <1>4, <1>5 DEF IInv

(* Every step keeps the invariant.                                         *)
LEMMA StepOK == IInv /\ [Next]_vars => IInv'
<1> SUFFICES ASSUME IInv, [Next]_vars PROVE IInv'
  OBVIOUS
<1>1. CASE UNCHANGED vars
  BY <1>1 DEF vars, IInv, Shapes, Served, RecordedOncePerPayment, Unrecorded0
<1>2. ASSUME NEW s \in Rates, NEW d \in Rates, UpdateRates(s, d) PROVE IInv'
  BY <1>2 DEF UpdateRates, IInv, Shapes, Served, RecordedOncePerPayment, Unrecorded0
<1>3. CASE Next
  BY <1>2, <1>3, PaymentOK, ChosenOK, BackfillOK, UnmarkOK, OthersOK DEF Next
<1> QED
  BY <1>1, <1>3

(* Once the migration ran, an order has one entry per payment it had, for  *)
(* any number of payments under way (pay_orders, payments.py:101).         *)
THEOREM PaymentsAreRecordedOnce == Spec => []RecordedOncePerPayment
<1>1. Spec => []IInv
  BY InitOK, StepOK, PTL DEF Spec
<1>2. IInv => RecordedOncePerPayment
  BY DEF IInv
<1> QED
  BY <1>1, <1>2, PTL

-----------------------------------------------------------------------------
(* A payment under way has the rates of the platform, unless those changed, *)
(* and what a transfer is checked for is still credited to its Designer,    *)
(* but for the orders that moved.                                           *)
Reads(p) ==
  payer[p].pc = "checked" =>
    /\ ~repriced => payer[p].rates = rates
    /\ ~payer[p].all => \A o \in payer[p].orders \ payer[p].moved : Credit(o) = payer[p].to

(* A paid order still costs what its last entry says.                      *)
PaidInv ==
  serving /\ ~repriced => \A o \in Orders : order[o].paid => Last(o).amount = Amount(o)

Listed == rows = [o \in Orders |-> rows[o]] /\ subs = [o \in Orders |-> subs[o]]

PagesInv == Listed /\ (\A p \in Payers : Reads(p)) /\ PaidInv

(* Who is credited depends on the assignments and submissions only.        *)
LEMMA CreditKept ==
  ASSUME NEW o \in Orders, rows'[o] = rows[o], subs'[o] = subs[o]
  PROVE  Credit(o)' = Credit(o)
<1>1. Active(o)' = Active(o)
  BY DEF Active
<1>2. Holder(o)' = Holder(o)
  BY <1>1 DEF Holder
<1>3. \A i : OfSubmission(o, subs[o][i])' = OfSubmission(o, subs[o][i])
  BY <1>2 DEF OfSubmission, OfEvent
<1>4. {i \in 1 .. Len(subs[o]) : OfSubmission(o, subs[o][i]) # Nobody}'
        = {i \in 1 .. Len(subs[o]) : OfSubmission(o, subs[o][i]) # Nobody}
  BY <1>3
<1> QED
  BY <1>2, <1>3, <1>4 DEF Credit

(* What an order costs depends on its own rate and the platform's only.    *)
LEMMA AmountKept ==
  ASSUME NEW o \in Orders, order'[o].custom = order[o].custom,
         order'[o].duplicate = order[o].duplicate, UNCHANGED rates
  PROVE  Amount(o)' = Amount(o)
  BY DEF Amount, AmountAt, RateAt

(* A change of one order: payments of it note that it moved, if it may be  *)
(* credited to another, and it costs the same as long as it is paid.       *)
LEMMA TouchPages ==
  ASSUME IInv, PagesInv, NEW o \in Orders, NEW row, Changed(o, row),
         UNCHANGED <<history, rates, serving>>, ~repriced' => ~repriced, Listed',
         \A x \in Orders \ {o} : rows'[x] = rows[x] /\ subs'[x] = subs[x],
         UNCHANGED <<payer, rows, subs>> \/ Moves(o),
         row.paid => order[o].paid,
         ~repriced' /\ row.paid => row.custom = order[o].custom /\ row.duplicate = order[o].duplicate
  PROVE  PagesInv'
<1>1. order' = [order EXCEPT ![o] = row] /\ order \in [Orders -> OrderRow]
  BY DEF Changed, IInv, Shapes
<1>2. ASSUME NEW x \in Orders \ {o} PROVE Credit(x)' = Credit(x) /\ Amount(x)' = Amount(x)
  BY <1>1, CreditKept, AmountKept
<1>3. ASSUME NEW p \in Payers PROVE Reads(p)'
  <2>0. payer[p].orders \subseteq Orders /\ Reads(p)
    BY DEF IInv, Shapes, IsPayer, PagesInv
  <2>1. CASE UNCHANGED <<payer, rows, subs>>
    <3>1. \A x \in Orders : Credit(x)' = Credit(x)
      BY <2>1, CreditKept
    <3> QED
      BY <2>0, <2>1, <3>1 DEF Reads
  <2>2. CASE Moves(o)
    <3>1. /\ payer'[p].pc = payer[p].pc /\ payer'[p].all = payer[p].all
          /\ payer'[p].to = payer[p].to /\ payer'[p].orders = payer[p].orders
          /\ payer'[p].rates = payer[p].rates
          /\ payer'[p].pc = "checked" =>
               payer'[p].orders \ payer'[p].moved = (payer[p].orders \ payer[p].moved) \ {o}
      BY <2>2, MovesOK DEF IInv, Shapes
    <3> QED
      BY <1>2, <2>0, <3>1 DEF Reads
  <2> QED
    BY <2>1, <2>2
<1>4. PaidInv'
  <2> SUFFICES ASSUME serving, ~repriced', NEW x \in Orders, order'[x].paid
               PROVE  Last(x)' = Last(x) /\ Last(x).amount = Amount(x)'
    BY DEF PaidInv
  <2>1. Last(x)' = Last(x)
    BY DEF Last
  <2>2. order[x].paid /\ Last(x).amount = Amount(x)
    BY <1>1 DEF PagesInv, PaidInv
  <2>3. Amount(x)' = Amount(x)
    BY <1>1, <1>2, AmountKept
  <2> QED
    BY <2>1, <2>2, <2>3
<1> QED
  BY <1>3, <1>4 DEF PagesInv

(* Cancelled, repriced, assigned, taken back, submitted or moved.          *)
LEMMA OthersPages ==
  ASSUME IInv, PagesInv, NEW o \in Orders,
         \/ UnmarkPaid(o) \/ SetDomain(o) \/ TakeBack(o) \/ Submit(o) \/ MoveToReview(o)
         \/ \E r \in Rates : SetOrderRate(o, r)
         \/ \E d \in Designers : AssignQuietly(o, d) \/ \E state \in {"waiting", "open"} : Assign(o, d, state)
  PROVE  PagesInv'
<1>0. order[o] \in OrderRow /\ order = [x \in Orders |-> order[x]]
  BY DEF IInv, Shapes
<1>r. UNCHANGED <<history, rates, serving>>
  BY DEF UnmarkPaid, SetDomain, TakeBack, Submit, MoveToReview, SetOrderRate, Assign, AssignQuietly, Change
<1>b. ~repriced' => ~repriced
  <2>1. CASE SetDomain(o)
    BY <2>1 DEF SetDomain
  <2>2. CASE ~SetDomain(o)
    BY <2>2 DEF UnmarkPaid, TakeBack, Submit, MoveToReview, SetOrderRate, Assign, AssignQuietly
  <2> QED
    BY <2>1, <2>2
<1>m. UNCHANGED <<payer, rows, subs>> \/ Moves(o)
  BY DEF UnmarkPaid, SetDomain, TakeBack, Submit, MoveToReview, SetOrderRate, Assign, AssignQuietly, Touch
<1>s. Listed' /\ \A x \in Orders \ {o} : rows'[x] = rows[x] /\ subs'[x] = subs[x]
  <2>1. ASSUME NEW f, f = [x \in Orders |-> f[x]], NEW v, NEW g, g = [f EXCEPT ![o] = v]
        PROVE  g = [x \in Orders |-> g[x]] /\ \A x \in Orders \ {o} : g[x] = f[x]
    BY <2>1
  <2>2. /\ rows' = rows \/ \E v : rows' = [rows EXCEPT ![o] = v]
        /\ subs' = subs \/ \E v : subs' = [subs EXCEPT ![o] = v]
    BY DEF UnmarkPaid, SetDomain, TakeBack, Submit, MoveToReview, SetOrderRate, Assign, AssignQuietly
  <2> QED
    BY <2>1, <2>2 DEF PagesInv, Listed
<1>t. ASSUME NEW row, Changed(o, row), row.paid => order[o].paid,
             ~repriced' /\ row.paid => row.custom = order[o].custom /\ row.duplicate = order[o].duplicate
      PROVE  PagesInv'
  BY <1>r, <1>b, <1>m, <1>s, <1>t, TouchPages
<1>1. CASE UnmarkPaid(o)
  <2>1. ~[order[o] EXCEPT !.paid = FALSE].paid
    BY <1>0 DEF OrderRow
  <2> QED
    BY <1>1, <1>t, <2>1 DEF UnmarkPaid, Touch
<1>2. CASE SetDomain(o)
  <2>1. /\ [order[o] EXCEPT !.duplicate = ~@].paid = order[o].paid
        /\ repriced' = (repriced \/ order[o].paid)
    BY <1>0, <1>2 DEF OrderRow, SetDomain
  <2>2. [order[o] EXCEPT !.duplicate = ~@].custom = order[o].custom
    BY <1>0 DEF OrderRow
  <2> QED
    BY <1>2, <1>t, <2>1, <2>2 DEF SetDomain, Touch
<1>3. ASSUME NEW r \in Rates, SetOrderRate(o, r) PROVE PagesInv'
  <2>1. [order[o] EXCEPT !.custom = Own(o, r)].paid = order[o].paid /\ ~order[o].paid
    BY <1>0, <1>3 DEF OrderRow, SetOrderRate, MayReprice
  <2> QED
    BY <1>3, <1>t, <2>1 DEF SetOrderRate, Touch
<1>4. ASSUME NEW s, Changed(o, [order[o] EXCEPT !.state = s]) PROVE PagesInv'
  <2>1. /\ [order[o] EXCEPT !.state = s].paid = order[o].paid
        /\ [order[o] EXCEPT !.state = s].custom = order[o].custom
        /\ [order[o] EXCEPT !.state = s].duplicate = order[o].duplicate
    BY <1>0 DEF OrderRow
  <2> QED
    BY <1>4, <1>t, <2>1
<1>5. CASE Submit(o)
  <2>1. LET row == [order[o] EXCEPT !.state = "open", !.link = TRUE]
        IN  row.paid = order[o].paid /\ row.custom = order[o].custom /\ row.duplicate = order[o].duplicate
    BY <1>0 DEF OrderRow
  <2> QED
    BY <1>5, <1>t, <2>1 DEF Submit
<1>6. CASE TakeBack(o) \/ MoveToReview(o) \/ \E d \in Designers, state \in {"waiting", "open"} : Assign(o, d, state)
  BY <1>4, <1>6 DEF TakeBack, MoveToReview, Assign
<1>7. CASE \E d \in Designers : AssignQuietly(o, d)
  <2>1. Changed(o, order[o])
    BY <1>0, <1>7 DEF AssignQuietly, Changed
  <2> QED
    BY <1>t, <2>1
<1> QED
  BY <1>1, <1>2, <1>3, <1>5, <1>6, <1>7

-----------------------------------------------------------------------------
(* What is recorded of an order is what it costs at the rates read.        *)
LEMMA RecordPages ==
  ASSUME IInv, NEW S \in SUBSET Orders, NEW r, Record(S, r), ~repriced => r = rates,
         UNCHANGED <<rows, subs, rates, repriced>>,
         ~repriced => \A o \in Orders \ S : order[o].paid => Last(o).amount = Amount(o)
  PROVE  /\ PaidInv'
         /\ \A o \in Orders : Amount(o)' = Amount(o) /\ Credit(o)' = Credit(o)
         /\ \A o \in S : Last(o)' = Entry(o, r)
<1>1. /\ \A o \in S : order'[o] = [order[o] EXCEPT !.paid = TRUE, !.state = "done"]
      /\ \A o \in Orders \ S : order'[o] = order[o] /\ history'[o] = history[o]
      /\ \A o \in Orders : order[o] \in OrderRow
  BY DEF Record, Closed, IInv, Shapes
<1>2. \A o \in Orders : /\ order'[o].custom = order[o].custom
                        /\ order'[o].duplicate = order[o].duplicate
  BY <1>1 DEF OrderRow
<1>3. \A o \in Orders : Amount(o)' = Amount(o) /\ Credit(o)' = Credit(o)
  BY <1>2, AmountKept, CreditKept
<1>4. ASSUME NEW o \in S PROVE Last(o)' = Entry(o, r)
  <2> DEFINE e == Entry(o, r)
  <2>1. PICK T : history[o] \in Seq(T)
    BY DEF IInv, Shapes
  <2>2. history'[o] = Append(history[o], e)
    BY DEF Record
  <2> HIDE DEF e
  <2>3. history[o] \in Seq(T \cup {e}) /\ e \in T \cup {e}
    BY <2>1
  <2>4. Append(history[o], e)[Len(Append(history[o], e))] = e
    BY <2>3
  <2>5. Last(o)' = e
    BY <2>2, <2>4 DEF Last
  <2> QED
    BY <2>5 DEF e
<1>5. PaidInv'
  <2> SUFFICES ASSUME ~repriced, NEW o \in Orders, order'[o].paid
               PROVE  Last(o)'.amount = Amount(o)
    BY <1>3 DEF PaidInv
  <2>1. CASE o \in S
    BY <1>4, <2>1 DEF Entry, Amount
  <2>2. CASE o \notin S
    BY <1>1, <2>2 DEF Last
  <2> QED
    BY <2>1, <2>2
<1> QED
  BY <1>3, <1>4, <1>5

(* The other payments do not notice.                                       *)
LEMMA SameReads ==
  ASSUME NEW p \in Payers, Reads(p), payer'[p] = payer[p], payer[p].orders \subseteq Orders,
         ~repriced' => ~repriced /\ rates' = rates,
         \A o \in Orders : Credit(o)' = Credit(o)
  PROVE  Reads(p)'
  BY DEF Reads

(* Orders an Admin chose are paid at what they cost now.                   *)
LEMMA ChosenPages ==
  ASSUME IInv, PagesInv, NEW S \in SUBSET Orders, PayChosen(S)
  PROVE  PagesInv'
<1>1. /\ Payable(S) \in SUBSET Orders /\ serving /\ Record(Payable(S), rates)
      /\ UNCHANGED <<rows, subs, rates, payer, repriced>>
  BY DEF PayChosen, Payable
<1>2. ~repriced => \A o \in Orders \ Payable(S) : order[o].paid => Last(o).amount = Amount(o)
  BY <1>1 DEF PagesInv, PaidInv
<1>3. PaidInv' /\ \A o \in Orders : Amount(o)' = Amount(o) /\ Credit(o)' = Credit(o)
  BY <1>1, <1>2, RecordPages
<1>4. \A p \in Payers : Reads(p)'
  BY <1>1, <1>3, SameReads DEF PagesInv, IInv, Shapes, IsPayer
<1> QED
  BY <1>1, <1>3, <1>4 DEF PagesInv, Listed

(* The migration records what an order costs now.                          *)
LEMMA BackfillPages ==
  ASSUME IInv, PagesInv, Backfill
  PROVE  PagesInv'
<1>1. /\ UNCHANGED <<rows, subs, rates, payer, repriced>> /\ Unrecorded \in SUBSET Orders
      /\ Record(Unrecorded, rates)
  BY DEF Backfill, Unrecorded
<1>2. ~repriced => \A o \in Orders \ Unrecorded : order[o].paid => Last(o).amount = Amount(o)
  BY DEF PagesInv, PaidInv, IInv, Unrecorded0, Unrecorded
<1>3. PaidInv' /\ \A o \in Orders : Amount(o)' = Amount(o) /\ Credit(o)' = Credit(o)
  BY <1>1, <1>2, RecordPages
<1>4. \A p \in Payers : Reads(p)'
  BY <1>1, <1>3, SameReads DEF PagesInv, IInv, Shapes, IsPayer
<1> QED
  BY <1>1, <1>3, <1>4 DEF PagesInv, Listed

(* With new rates the pages and the history part ways, which repriced says. *)
LEMMA RatesPages ==
  ASSUME IInv, PagesInv, NEW s, NEW d, UpdateRates(s, d)
  PROVE  PagesInv'
<1>1. UNCHANGED <<order, rows, subs, history, payer, serving>> /\ repriced'
  BY DEF UpdateRates
<1>2. \A o \in Orders : Credit(o)' = Credit(o)
  BY <1>1, CreditKept
<1>3. \A p \in Payers : Reads(p)'
  BY <1>1, <1>2, SameReads DEF PagesInv, IInv, Shapes, IsPayer
<1> QED
  BY <1>1, <1>3 DEF PagesInv, Listed, PaidInv

(* A popup, a payment that reads, and one that is refused.                 *)
LEMMA PayerPages ==
  ASSUME IInv, PagesInv, NEW p \in Payers, NEW n, Settled(p, n), n.orders \subseteq Orders,
         n.pc = "checked" => /\ n.rates = rates
                             /\ ~n.all => \A o \in n.orders \ n.moved : Credit(o) = n.to,
         UNCHANGED <<order, rows, subs, rates, history, serving, repriced>>
  PROVE  PagesInv'
<1>1. \A o \in Orders : Amount(o)' = Amount(o) /\ Credit(o)' = Credit(o)
  BY AmountKept, CreditKept
<1>3. ASSUME NEW q \in Payers PROVE Reads(q)'
  <2>1. payer'[q] = payer[q] \/ payer'[q] = n
    BY DEF Settled, IInv, Shapes
  <2>2. CASE payer'[q] = payer[q]
    BY <1>1, <2>2, SameReads DEF PagesInv, IInv, Shapes, IsPayer
  <2>3. CASE payer'[q] = n
    BY <1>1, <2>3 DEF Reads
  <2> QED
    BY <2>1, <2>2, <2>3
<1>4. PaidInv'
  BY <1>1 DEF PagesInv, PaidInv, Last
<1> QED
  BY <1>3, <1>4 DEF PagesInv, Listed

(* A transfer is recorded as it was made.                                  *)
TransferOf(p) ==
  payer[p].pc = "checked" /\ payer'[p].pc = "paid" /\ ~payer[p].all =>
    /\ Total([o \in payer[p].orders |-> Last(o)'.amount]) = payer[p].total
    /\ \A o \in payer[p].orders \ payer[p].moved : Last(o)'.designer = payer[p].to

(* Only the last step of a payment pays, what it read again.               *)
LEMMA PaymentPages ==
  ASSUME IInv, PagesInv, NEW p \in Payers,
         \/ \E d \in Designers : OpenPopup(p, d) \/ ReadUnpaid(p, d)
         \/ CheckPending(p) \/ PayRead(p)
  PROVE  /\ PagesInv'
         /\ TransferOf(p)
<1> DEFINE r == payer[p]
<1>0. IsPayer(r) /\ payer = [q \in Payers |-> payer[q]] /\ Shapes
  BY DEF IInv, Shapes
<1>i. IsPayer(Idle) /\ Idle.pc = "idle"
  BY IdleOK
<1>n. ASSUME NEW n, Settled(p, n), IsPayer(n), n.pc # "paid",
             n.pc = "checked" => /\ n.rates = rates
                                 /\ ~n.all => \A o \in n.orders \ n.moved : Credit(o) = n.to,
             UNCHANGED <<order, rows, subs, rates, history, serving, repriced>>
      PROVE  PagesInv' /\ TransferOf(p)
  <2>1. payer'[p] = n /\ n.orders \subseteq Orders
    BY <1>0, <1>n DEF Settled, IsPayer
  <2> QED
    BY <1>n, <2>1, PayerPages DEF TransferOf
<1>r. ASSUME NEW b, NEW S \in SUBSET Orders, IsPayer(b), ~b.all => S \subseteq Pending(b.to)
      PROVE  LET n == Read(b, S)
             IN  /\ IsPayer(n) /\ n.pc = "checked" /\ n.rates = rates
                 /\ ~n.all => \A o \in n.orders \ n.moved : Credit(o) = n.to
  <2> DEFINE q == Read(b, S)
  <2>1. IsPayer(q) /\ q.pc = "checked" /\ q.orders = S /\ q.to = b.to /\ q.all = b.all /\ q.rates = rates
    BY <1>r DEF Read, IsPayer
  <2>2. ~b.all => \A o \in S : Credit(o) = b.to
    BY <1>r DEF Pending, Tasks
  <2> HIDE DEF q
  <2>3. /\ IsPayer(q) /\ q.pc = "checked" /\ q.rates = rates
        /\ ~q.all => \A o \in q.orders \ q.moved : Credit(o) = q.to
    BY <2>1, <2>2
  <2> QED
    BY <2>3 DEF q
<1>1. ASSUME NEW d \in Designers, OpenPopup(p, d) PROVE PagesInv' /\ TransferOf(p)
  <2>1. PICK shown \in SUBSET Pending(d) \ {{}} :
          Settled(p, [Idle EXCEPT !.pc = "popup", !.to = d, !.orders = shown, !.total = Total([o \in shown |-> Amount(o)])])
    BY <1>1 DEF OpenPopup
  <2> DEFINE total == Total([o \in shown |-> Amount(o)])
             n == [Idle EXCEPT !.pc = "popup", !.to = d, !.orders = shown, !.total = total]
  <2>2. shown \subseteq Orders
    BY DEF Pending, Tasks
  <2>3. Settled(p, n)
    BY <2>1
  <2> HIDE DEF total
  <2>4. IsPayer(n) /\ n.pc = "popup"
    BY <2>2 DEF IsPayer, Idle
  <2>5. UNCHANGED <<order, rows, subs, rates, history, serving, repriced>>
    BY <1>1 DEF OpenPopup, Stands
  <2> HIDE DEF n
  <2> QED
    BY <1>n, <2>3, <2>4, <2>5
<1>2. ASSUME NEW d \in Designers, ReadUnpaid(p, d) PROVE PagesInv' /\ TransferOf(p)
  <2> DEFINE b == [Idle EXCEPT !.all = TRUE]
             n == Read(b, Unpaid(d))
  <2>1. IsPayer(b) /\ b.all /\ Unpaid(d) \in SUBSET Orders
    BY DEF IsPayer, Idle, Unpaid, Tasks
  <2>2. /\ Settled(p, n)
        /\ UNCHANGED <<order, rows, subs, rates, history, serving, repriced>>
    BY <1>2 DEF ReadUnpaid, Stands
  <2> HIDE DEF b
  <2>3. /\ IsPayer(n) /\ n.pc = "checked" /\ n.rates = rates
        /\ ~n.all => \A o \in n.orders \ n.moved : Credit(o) = n.to
    BY <1>r, <2>1
  <2> HIDE DEF n
  <2> QED
    BY <1>n, <2>2, <2>3
<1>3. CASE CheckPending(p)
  <2>1. UNCHANGED <<order, rows, subs, rates, history, serving, repriced>>
    BY <1>3 DEF CheckPending, Stands
  <2>2. CASE r.orders \subseteq Pending(r.to)
    <3> DEFINE n == Read(r, r.orders)
    <3>1. Settled(p, n) /\ r.orders \in SUBSET Orders
      BY <1>0, <1>3, <2>2 DEF CheckPending, IsPayer
    <3> HIDE DEF r
    <3>2. /\ IsPayer(n) /\ n.pc = "checked" /\ n.rates = rates
          /\ ~n.all => \A o \in n.orders \ n.moved : Credit(o) = n.to
      BY <1>0, <1>r, <2>2, <3>1
    <3> HIDE DEF n
    <3> QED
      BY <1>n, <2>1, <3>1, <3>2
  <2>3. CASE ~ (r.orders \subseteq Pending(r.to))
    <3>1. Settled(p, Idle)
      BY <1>3, <2>3 DEF CheckPending
    <3> QED
      BY <1>i, <1>n, <2>1, <3>1
  <2> QED
    BY <2>2, <2>3
<1>4. CASE PayRead(p)
  <2>1. r.pc = "checked" /\ UNCHANGED <<rows, subs, rates, serving, repriced>>
    BY <1>4 DEF PayRead, Stands
  <2>2. CASE Agrees(p) /\ Payable(r.orders) # {}
    <3> DEFINE T == Payable(r.orders)
    <3>1. /\ Record(T, r.rates) /\ Settled(p, [Idle EXCEPT !.pc = "paid"])
          /\ r.all \/ (T = r.orders /\ Total([o \in r.orders |-> AmountAt(o, r.rates)]) = r.total)
      BY <1>4, <2>2 DEF PayRead, Agrees, TotalHolds
    <3>2. /\ T \in SUBSET Orders /\ r.orders \subseteq Orders
          /\ ~repriced => r.rates = rates
          /\ ~r.all => \A o \in r.orders \ r.moved : Credit(o) = r.to
      BY <1>0, <2>1 DEF IsPayer, Payable, PagesInv, Reads
    <3>3. serving
      BY <2>1 DEF IInv, Served
    <3>4. ~repriced => \A o \in Orders \ T : order[o].paid => Last(o).amount = Amount(o)
      BY <3>3 DEF PagesInv, PaidInv
    <3>5. /\ \A q \in Payers \ {p} : payer'[q] = payer[q]
          /\ payer'[p] = [Idle EXCEPT !.pc = "paid"]
      BY <1>0, <3>1 DEF Settled
    <3>6. payer'[p].pc = "paid"
      BY <3>5 DEF Idle
    <3> HIDE DEF T
    <3>7. /\ PaidInv'
          /\ \A o \in Orders : Amount(o)' = Amount(o) /\ Credit(o)' = Credit(o)
          /\ \A o \in T : Last(o)' = Entry(o, r.rates)
      BY <2>1, <3>1, <3>2, <3>4, RecordPages
    <3>8. ASSUME NEW q \in Payers PROVE Reads(q)'
      <4>1. CASE q = p
        BY <3>6, <4>1 DEF Reads
      <4>2. CASE q # p
        BY <1>0, <2>1, <3>5, <3>7, <4>2, SameReads DEF PagesInv, Shapes, IsPayer
      <4> QED
        BY <4>1, <4>2
    <3>9. PagesInv'
      BY <2>1, <3>7, <3>8 DEF PagesInv, Listed
    <3>10. ASSUME ~r.all
           PROVE  /\ Total([o \in r.orders |-> Last(o)'.amount]) = r.total
                  /\ \A o \in r.orders \ r.moved : Last(o)'.designer = r.to
      <4>1. \A o \in r.orders : Last(o)'.amount = AmountAt(o, r.rates) /\ Last(o)'.designer = Credit(o)
        BY <3>1, <3>7, <3>10 DEF Entry
      <4>2. [o \in r.orders |-> Last(o)'.amount] = [o \in r.orders |-> AmountAt(o, r.rates)]
        BY <4>1
      <4> QED
        BY <3>1, <3>2, <3>10, <4>1, <4>2
    <3> QED
      BY <3>9, <3>10 DEF TransferOf
  <2>3. CASE ~ (Agrees(p) /\ Payable(r.orders) # {})
    <3>1. Settled(p, Idle) /\ UNCHANGED <<order, history>>
      BY <1>4, <2>3 DEF PayRead
    <3> QED
      BY <1>i, <1>n, <2>1, <3>1
  <2> QED
    BY <2>2, <2>3
<1> QED
  BY <1>1, <1>2, <1>3, <1>4

(* No other step ends a payment.                                           *)
LEMMA OnlyPayments ==
  ASSUME IInv, Next, NEW q \in Payers, payer[q].pc = "checked", payer'[q].pc = "paid"
  PROVE  PayRead(q)
<1>0. (\A p \in Payers : IsPayer(payer[p])) /\ payer = [p \in Payers |-> payer[p]]
  BY DEF IInv, Shapes
<1>1. ~UNCHANGED payer /\ \A o \in Orders : ~Moves(o)
  BY <1>0, MovesOK
<1>2. ASSUME NEW p \in Payers, p # q,
             \/ \E d \in Designers : OpenPopup(p, d) \/ ReadUnpaid(p, d)
             \/ CheckPending(p) \/ PayRead(p)
      PROVE  FALSE
  <2>1. \E n : Settled(p, n)
    BY <1>2 DEF OpenPopup, ReadUnpaid, CheckPending, PayRead
  <2>2. payer'[q] = payer[q]
    BY <1>0, <1>2, <2>1 DEF Settled
  <2> QED
    BY <2>2
<1>3. ASSUME NEW d \in Designers PROVE ~OpenPopup(q, d) /\ ~ReadUnpaid(q, d)
  BY DEF OpenPopup, ReadUnpaid
<1>4. ~CheckPending(q)
  BY <1>0, IdleOK DEF CheckPending, Settled, Read, IsPayer
<1>5. (\A S \in SUBSET Orders : ~PayChosen(S)) /\ ~Backfill /\ \A s, d \in Rates : ~UpdateRates(s, d)
  BY <1>1 DEF PayChosen, Backfill, UpdateRates
<1>6. ASSUME NEW o \in Orders
      PROVE  /\ ~UnmarkPaid(o) /\ ~SetDomain(o) /\ ~TakeBack(o) /\ ~Submit(o) /\ ~MoveToReview(o)
             /\ \A r \in Rates : ~SetOrderRate(o, r)
             /\ \A d \in Designers : ~AssignQuietly(o, d) /\ \A s \in {"waiting", "open"} : ~Assign(o, d, s)
  BY <1>1 DEF UnmarkPaid, SetDomain, TakeBack, Submit, MoveToReview, SetOrderRate, Assign, AssignQuietly, Touch
<1> QED
  BY <1>2, <1>3, <1>4, <1>5, <1>6 DEF Next

(* Nothing is read and nobody is served yet.                               *)
LEMMA InitPages == Init => PagesInv
<1> SUFFICES ASSUME Init PROVE PagesInv
  OBVIOUS
<1>1. Listed /\ ~serving
  BY DEF Init, Listed
<1>2. ASSUME NEW p \in Payers PROVE Reads(p)
  BY IdleOK DEF Init, Reads
<1> QED
  BY <1>1, <1>2 DEF PagesInv, PaidInv

(* Every step keeps it, and records what it transfers.                     *)
LEMMA StepPages == IInv /\ PagesInv /\ [Next]_vars => PagesInv' /\ (Next => \A p \in Payers : TransferOf(p))
<1> SUFFICES ASSUME IInv, PagesInv, [Next]_vars
             PROVE  PagesInv' /\ (Next => \A p \in Payers : TransferOf(p))
  OBVIOUS
<1>1. ASSUME UNCHANGED vars PROVE PagesInv'
  <2>1. \A o \in Orders : Amount(o)' = Amount(o) /\ Credit(o)' = Credit(o)
    BY <1>1, AmountKept, CreditKept DEF vars
  <2>2. \A p \in Payers : Reads(p)'
    BY <1>1, <2>1, SameReads DEF vars, PagesInv, IInv, Shapes, IsPayer
  <2> QED
    BY <1>1, <2>1, <2>2 DEF vars, PagesInv, PaidInv, Listed, Last
<1>2. ASSUME NEW s \in Rates, NEW d \in Rates, UpdateRates(s, d) PROVE PagesInv'
  BY <1>2, RatesPages
<1>3. ASSUME Next PROVE PagesInv'
  BY <1>2, <1>3, PaymentPages, ChosenPages, BackfillPages, OthersPages DEF Next
<1>4. ASSUME Next, NEW p \in Payers PROVE TransferOf(p)
  <2>1. CASE PayRead(p)
    BY <2>1, PaymentPages
  <2>2. CASE ~PayRead(p)
    BY <1>4, <2>2, OnlyPayments DEF TransferOf
  <2> QED
    BY <2>1, <2>2
<1> QED
  BY <1>1, <1>3, <1>4

(* Both invariants, in every reachable state.                              *)
LEMMA Invariance == Spec => [](IInv /\ PagesInv)
<1>1. Init => IInv /\ PagesInv
  BY InitOK, InitPages
<1>2. IInv /\ PagesInv /\ [Next]_vars => (IInv /\ PagesInv)'
  BY StepOK, StepPages
<1> QED
  BY <1>1, <1>2, PTL DEF Spec

(* The paid amount of both pages is what the history recorded last for the *)
(* paid orders, for any orders, Designers, payments and changes, as long   *)
(* as no rate of the platform and no domain of a paid order changed        *)
(* (payments.py:3-5).                                                      *)
THEOREM PagesAgreeWithHistory == Spec => []PagesMatchHistory
<1>1. IInv /\ PagesInv => PagesMatchHistory
  <2> SUFFICES ASSUME PagesInv, serving, ~repriced
               PROVE  PaidAmount = Total([o \in Paid |-> Last(o).amount])
    BY DEF PagesMatchHistory
  <2>1. \A o \in Paid : Last(o).amount = Amount(o)
    BY DEF PagesInv, PaidInv, Paid
  <2>2. [o \in Paid |-> Amount(o)] = [o \in Paid |-> Last(o).amount]
    BY <2>1
  <2> QED
    BY <2>2 DEF PaidAmount
<1> QED
  BY <1>1, Invariance, PTL

(* What the Accountant transferred is what the history records             *)
(* (accountant_api.py:207-209), whatever Admins pay, reprice, assign or    *)
(* cancel meanwhile, and for the Designer who got it, unless the order was *)
(* assigned or submitted between the check and the payment.                *)
THEOREM TransfersAreRecorded == Spec => TransferIsRecorded
<1>1. IInv /\ PagesInv /\ [Next]_vars => [\A p \in Payers : TransferOf(p)]_vars
  BY StepPages
<1> QED
  BY <1>1, Invariance, PTL DEF Spec, TransferIsRecorded, TransferOf
=============================================================================
