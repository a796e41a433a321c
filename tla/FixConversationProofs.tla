------------------------ MODULE FixConversationProofs ------------------------
(***************************************************************************)
(* One card releases its Fix at most once, and a release is reported late  *)
(* at most once.  Both rest on who may still act: the pending buttons of a *)
(* card that nobody raced are one choice, held by at most one session, and *)
(* a scan that may still commit has read an order not reported yet.        *)
(***************************************************************************)
EXTENDS FixConversation, TLAPS

Kinds == Choices \cup {"approve", "reject", "await_template", "await_note", "await_dispute", "confirm"}

\* The logs that lead to a release; the others lead to a dispute.
Releasing(l) == l.kind \notin {"reject", "await_dispute", "confirm"}

Logs == [kind : Kinds, card : Cards, chat : Admins \cup {Shared},
         via : {"none", "card", "agree", "await_template", "reject"}]

Order == [phase : {"review", "fix", "released"}, dispute : {"none", "open", "rejected"}, asked : BOOLEAN,
          late : BOOLEAN, told : BOOLEAN, marks : Nat, due : Nat, reports : Nat]

Work == [op : {"idle", "scan"}, stale : BOOLEAN]
            \cup [op : {"handle"}, stale : BOOLEAN, log : Logs, chat : Admins]

ConversationTypeOK ==
    /\ order \in Order
    /\ posted \in Nat /\ waiting \in Nat /\ posted + waiting <= MaxCards
    /\ pending \subseteq Logs
    /\ session \in [Sessions -> Work]
    /\ releases \in [Cards -> Nat]

-----------------------------------------------------------------------------
\* A scan that may still commit has read a released Fix that is not marked yet.
ScansAreFresh ==
    \A p \in Sessions : session[p].op = "scan" /\ ~session[p].stale => order.phase = "released" /\ ~order.told

\* Nothing speaks of a card that was not sent.
CardsWereSent ==
    /\ \A l \in pending : l.card <= posted
    /\ \A p \in Sessions : session[p].op = "handle" => session[p].log.card <= posted
    /\ \A n \in Cards : n > posted => releases[n] = 0

\* A card that was not raced is handled by one session, and what it handles is still pending.
OneHandler ==
    \A p \in Sessions : session[p].op = "handle" /\ session[p].log.card \notin raced =>
        /\ session[p].log \in pending
        /\ \A q \in Sessions : session[q].op = "handle" /\ session[q].log.card = session[p].log.card => q = p

\* What is pending of it is one button, one prompt or the two answers to one question.
SameQuestion(k, l) == k = l \/ (k.kind \in Choices /\ l.kind \in Choices /\ Parent(k) = Parent(l))

OneQuestion ==
    \A k, l \in pending : Releasing(k) /\ Releasing(l) /\ k.card = l.card /\ k.card \notin raced
        => SameQuestion(k, l)

\* A card that released its Fix has no question left.
ReleaseWasLast ==
    \A l \in pending : Releasing(l) /\ l.card \notin raced => releases[l.card] = 0

ConversationInv ==
    /\ ConversationTypeOK
    /\ ScansAreFresh /\ OneAlertPerRelease
    /\ CardsWereSent /\ OneHandler /\ OneQuestion /\ ReleaseWasLast /\ OneReleasePerCard

-----------------------------------------------------------------------------
(* What a session does to itself and to the others.                        *)
SameWork(v, w) == w.op = v.op /\ (v.op = "handle" => w.log = v.log) /\ (~w.stale => ~v.stale)

LEMMA IdleWork == Idle \in Work /\ Idle.op = "idle" /\ Scan \in Work /\ Scan.op = "scan"
BY DEF Idle, Scan, Work

LEMMA OutdatedWork ==
  ASSUME NEW v \in Work, NEW b \in BOOLEAN, NEW w, w = [v EXCEPT !.stale = b]
  PROVE  w \in Work /\ w.stale = b /\ w.op = v.op /\ (v.op = "handle" => w.log = v.log)
BY DEF Work

LEMMA Outdates ==
  ASSUME session \in [Sessions -> Work], NEW P, session' = Outdated(P)
  PROVE  /\ session' \in [Sessions -> Work]
         /\ \A q \in Sessions \ P : SameWork(session[q], session'[q])
         /\ \A q \in Sessions \ P : session[q].op = "scan" => session'[q].stale
         /\ \A q \in Sessions \cap P : session'[q] = Idle
<1>1. ASSUME NEW q \in Sessions, q \notin P
      PROVE  session'[q] \in Work /\ SameWork(session[q], session'[q]) /\ (session[q].op = "scan" => session'[q].stale)
  <2> DEFINE b == session[q].stale \/ Saves(q)
  <2>1. session[q] \in Work /\ session[q].stale \in BOOLEAN /\ b \in BOOLEAN
    BY DEF Work, Saves
  <2>2. session'[q] = [session[q] EXCEPT !.stale = b]
    BY <1>1 DEF Outdated
  <2>3. (session[q].op = "scan" => b) /\ (~b => ~session[q].stale)
    BY DEF Saves
  <2> HIDE DEF b
  <2>4. /\ session'[q] \in Work /\ session'[q].stale = b /\ session'[q].op = session[q].op
        /\ session[q].op = "handle" => session'[q].log = session[q].log
    BY <2>1, <2>2, OutdatedWork
  <2> QED
    BY <2>3, <2>4 DEF SameWork
<1>2. \A q \in Sessions \cap P : session'[q] = Idle
  BY DEF Outdated
<1>3. session' \in [Sessions -> Work]
  <2>1. session' = [q \in Sessions |-> session'[q]]
    BY DEF Outdated
  <2> QED
    BY <1>1, <1>2, <2>1, IdleWork
<1> QED
  BY <1>1, <1>2, <1>3

LEMMA Leaves ==
  ASSUME session \in [Sessions -> Work], NEW p \in Sessions, session' = Left(p)
  PROVE  /\ session' \in [Sessions -> Work]
         /\ \A q \in Sessions \ {p} : SameWork(session[q], session'[q])
         /\ session'[p] = Idle
BY IdleWork DEF Left, SameWork

-----------------------------------------------------------------------------
LEMMA ConversationInit == Init => ConversationInv
<1> SUFFICES ASSUME Init PROVE ConversationInv
  OBVIOUS
<1>1. order \in Order /\ OneAlertPerRelease /\ posted = 0 /\ waiting = 0 /\ pending = {}
  BY DEF Init, Order, OneAlertPerRelease
<1>2. session \in [Sessions -> Work] /\ \A p \in Sessions : session[p].op = "idle"
  BY IdleWork DEF Init
<1>3. releases \in [Cards -> Nat] /\ \A n \in Cards : releases[n] = 0
  BY DEF Init
<1>4. MaxCards \in Nat
  BY ConversationConstants
<1> QED
  BY <1>1, <1>2, <1>3, <1>4 DEF ConversationInv, ConversationTypeOK, ScansAreFresh, CardsWereSent, OneHandler,
     OneQuestion, ReleaseWasLast, OneReleasePerCard

(* Whoever saves the order makes the sessions that would save it too stale;*)
(* the cards are as they were.                                             *)
LEMMA OrderIsSaved ==
  ASSUME ConversationInv, NEW P \in SUBSET Sessions, \A p \in P : session[p].op = "scan",
         order' \in Order, OneAlertPerRelease', session' = Outdated(P),
         UNCHANGED <<posted, pending, releases, raced>>,
         waiting' \in Nat, posted + waiting' <= MaxCards
  PROVE  ConversationInv'
<1>1. session \in [Sessions -> Work]
  BY DEF ConversationInv, ConversationTypeOK
<1>2. /\ session' \in [Sessions -> Work]
      /\ \A q \in Sessions \ P : SameWork(session[q], session'[q])
      /\ \A q \in Sessions \ P : session[q].op = "scan" => session'[q].stale
      /\ \A q \in Sessions \cap P : session'[q] = Idle
  BY <1>1, Outdates
<1>3. \A q \in Sessions : /\ session'[q].op = "handle" => session[q].op = "handle" /\ session'[q].log = session[q].log
                          /\ session'[q].op = "scan" => session'[q].stale
  BY <1>2, IdleWork DEF SameWork
<1>4. ScansAreFresh'
  BY <1>3 DEF ScansAreFresh
<1>5. CardsWereSent'
  BY <1>3 DEF ConversationInv, CardsWereSent
<1>6. OneHandler'
  BY <1>3 DEF ConversationInv, OneHandler
<1> QED
  BY <1>2, <1>4, <1>5, <1>6 DEF ConversationInv, ConversationTypeOK, OneQuestion, ReleaseWasLast, OneReleasePerCard

\* What the steps of the order make of it.
SameMarks(o, q) ==
    /\ q.phase = o.phase /\ q.told = o.told
    /\ q.marks = o.marks /\ q.due = o.due /\ q.reports = o.reports
NoMarks(o) == o.told = FALSE /\ o.marks = 0 /\ o.due = 0 /\ o.reports = 0

LEMMA OrderRows ==
  ASSUME ConversationInv
  PROVE  /\ order \in Order /\ OneAlertPerRelease /\ session \in [Sessions -> Work]
         /\ posted \in Nat /\ waiting \in Nat /\ posted + waiting <= MaxCards
         /\ Over(order) \in Order
         /\ Answered(order) \in Order /\ SameMarks(order, Answered(order))
         /\ Released(order) \in Order /\ NoMarks(Released(order))
         /\ Released(Answered(order)) \in Order /\ NoMarks(Released(Answered(order)))
BY DEF ConversationInv, ConversationTypeOK, Answered, Released, Over, Order, SameMarks, NoMarks

LEMMA AlertsHold ==
  /\ NoMarks(order') => OneAlertPerRelease'
  /\ order'.phase # "released" => OneAlertPerRelease'
  /\ OneAlertPerRelease /\ SameMarks(order, order') => OneAlertPerRelease'
BY DEF OneAlertPerRelease, SameMarks, NoMarks


(* What touches the order without saving it outdates nobody.               *)
LEMMA OrderIsTouched ==
  ASSUME ConversationInv, order' \in Order, order'.phase = order.phase, order'.told = order.told, OneAlertPerRelease',
         UNCHANGED <<posted, waiting, pending, session, releases, raced>>
  PROVE  ConversationInv'
BY DEF ConversationInv, ConversationTypeOK, ScansAreFresh, CardsWereSent, OneHandler, OneQuestion, ReleaseWasLast,
   OneReleasePerCard

LEMMA OrderStep ==
  ASSUME ConversationInv, NewFix \/ ObserveDispute \/ SubmitResult \/ ApproveFix \/ DeadlinePasses \/ AlertOverdue
  PROVE  ConversationInv'
<1>1. CASE NewFix
  <2>1. /\ order' \in Order /\ OneAlertPerRelease'
        /\ session' = Outdated({}) /\ UNCHANGED <<posted, pending, releases, raced>>
    <3>1. PICK asked \in BOOLEAN : order' = [[Over(order) EXCEPT !.phase = "fix", !.dispute = "none"] EXCEPT !.asked = asked]
      BY <1>1 DEF NewFix, Refreshed
    <3>2. order' \in Order /\ order'.phase = "fix"
      BY <3>1, OrderRows DEF Order
    <3> QED
      BY <1>1, <3>2, AlertsHold DEF NewFix
  <2>2. waiting' \in Nat /\ posted + waiting' <= MaxCards
    BY <1>1, OrderRows DEF NewFix, QueueCard
  <2> QED
    BY <2>1, <2>2, OrderIsSaved
<1>2. CASE ObserveDispute
  <2>1. /\ order' \in Order /\ (order'.phase # "released" \/ SameMarks(order, order'))
        /\ session' = Outdated({}) /\ UNCHANGED <<posted, pending, releases, raced>>
    <3>1. \/ order' = [Over(order) EXCEPT !.phase = "review"]
          \/ order' = [order EXCEPT !.dispute = "rejected"]
          \/ order' = [order EXCEPT !.phase = "fix", !.dispute = "rejected"]
      BY <1>2 DEF ObserveDispute
    <3>2. order' \in Order /\ (order'.phase # "released" \/ SameMarks(order, order'))
      BY <3>1, OrderRows DEF Order, SameMarks
    <3> QED
      BY <1>2, <3>2 DEF ObserveDispute
  <2>2. waiting' \in Nat /\ posted + waiting' <= MaxCards
    BY <1>2, OrderRows DEF ObserveDispute, QueueCard
  <2>3. OneAlertPerRelease'
    BY <2>1, OrderRows, AlertsHold
  <2> QED
    BY <2>1, <2>2, <2>3, OrderIsSaved
<1>3. CASE SubmitResult
  <2>1. /\ order' \in Order /\ order'.phase # "released"
        /\ session' = Outdated({}) /\ UNCHANGED <<posted, waiting, pending, releases, raced>>
    BY <1>3, OrderRows DEF SubmitResult, Order
  <2> QED
    BY <2>1, AlertsHold, OrderRows, OrderIsSaved
<1>4. CASE ApproveFix
  <2>1. /\ order' = Released(Answered(order))
        /\ session' = Outdated({}) /\ UNCHANGED <<posted, waiting, pending, releases, raced>>
    BY <1>4 DEF ApproveFix
  <2>2. order' \in Order /\ NoMarks(order')
    BY <2>1, OrderRows
  <2> QED
    BY <2>1, <2>2, AlertsHold, OrderRows, OrderIsSaved
<1>5. CASE DeadlinePasses
  <2>1. /\ order' \in Order /\ SameMarks(order, order')
        /\ UNCHANGED <<posted, waiting, pending, session, releases, raced>>
    BY <1>5, OrderRows DEF DeadlinePasses, Order, SameMarks
  <2> QED
    BY <2>1, AlertsHold, OrderRows, OrderIsTouched DEF SameMarks
<1>6. CASE AlertOverdue
  <2>1. PICK reached \in {0, 1} : order' = [order EXCEPT !.due = order.due - 1, !.reports = order.reports + reached]
    BY <1>6 DEF AlertOverdue
  <2>2. order.due > 0 /\ UNCHANGED <<posted, waiting, pending, session, releases, raced>>
    BY <1>6 DEF AlertOverdue
  <2>3. order \in Order /\ order.due \in Nat /\ order.reports \in Nat /\ order.marks \in Nat
    BY OrderRows DEF Order
  <2>4. order.due - 1 \in Nat /\ order.reports + reached \in Nat
    BY <2>2, <2>3
  <2>5. /\ order' \in Order /\ order'.phase = order.phase /\ order'.told = order.told /\ order'.marks = order.marks
        /\ order'.due = order.due - 1 /\ order'.reports = order.reports + reached
    BY <2>1, <2>3, <2>4 DEF Order
  <2>6. order'.reports + order'.due <= order.reports + order.due
    BY <2>3, <2>5
  <2>7. OneAlertPerRelease'
    <3>1. CASE order.phase = "released"
      <4>1. order'.reports + order'.due <= order'.marks
        BY <2>3, <2>5, <2>6, <3>1, OrderRows DEF OneAlertPerRelease
      <4> QED
        BY <2>5, <3>1, <4>1, OrderRows DEF OneAlertPerRelease
    <3>2. CASE order.phase # "released"
      BY <2>5, <3>2, AlertsHold
    <3> QED
      BY <3>1, <3>2
  <2> QED
    BY <2>2, <2>5, <2>7, OrderIsTouched
<1> QED
  BY <1>1, <1>2, <1>3, <1>4, <1>5, <1>6

-----------------------------------------------------------------------------
(* A session leaves what it does, or begins: the cards are as they were.   *)
LEMMA SessionMoves ==
  ASSUME ConversationInv, NEW p \in Sessions, session' \in [Sessions -> Work],
         session'[p].op # "handle", session'[p].op = "scan" => order.phase = "released" /\ ~order.told,
         \A q \in Sessions \ {p} : SameWork(session[q], session'[q]),
         UNCHANGED <<order, posted, waiting, pending, releases, raced>>
  PROVE  ConversationInv'
<1>1. \A q \in Sessions : session'[q].op = "handle" => session[q].op = "handle" /\ session'[q].log = session[q].log
  BY DEF SameWork
<1>2. ScansAreFresh'
  BY DEF ConversationInv, ScansAreFresh, SameWork
<1>3. CardsWereSent'
  BY <1>1 DEF ConversationInv, CardsWereSent
<1>4. OneHandler'
  BY <1>1 DEF ConversationInv, OneHandler
<1> QED
  BY <1>2, <1>3, <1>4 DEF ConversationInv, ConversationTypeOK, OneAlertPerRelease, OneQuestion, ReleaseWasLast,
     OneReleasePerCard

LEMMA ScanStep ==
  ASSUME ConversationInv, NEW p \in Sessions, ScanDeadlines(p) \/ MarkOverdue(p) \/ GiveUp(p)
  PROVE  ConversationInv'
<1>1. CASE ScanDeadlines(p)
  <2>1. /\ session' \in [Sessions -> Work] /\ session'[p] = Scan
        /\ \A q \in Sessions \ {p} : SameWork(session[q], session'[q])
    BY <1>1, OrderRows, IdleWork DEF ScanDeadlines, SameWork
  <2>2. order.phase = "released" /\ ~order.told /\ UNCHANGED <<order, posted, waiting, pending, releases, raced>>
    BY <1>1 DEF ScanDeadlines, Overdue
  <2> QED
    BY <2>1, <2>2, IdleWork, SessionMoves
<1>2. CASE (MarkOverdue(p) /\ Conflict(p)) \/ GiveUp(p)
  <2>1. session' = Left(p) /\ UNCHANGED <<order, posted, waiting, pending, releases, raced>>
    BY <1>2 DEF MarkOverdue, GiveUp
  <2> QED
    BY <2>1, OrderRows, Leaves, IdleWork, SessionMoves
<1>3. CASE MarkOverdue(p) /\ ~Conflict(p)
  <2>1. /\ session[p].op = "scan" /\ ~session[p].stale /\ session' = Outdated({p})
        /\ order' = [order EXCEPT !.told = TRUE, !.marks = order.marks + 1, !.due = order.due + 1]
        /\ UNCHANGED <<posted, waiting, pending, releases, raced>>
    BY <1>3 DEF MarkOverdue, Conflict
  <2>2. order.phase = "released" /\ ~order.told
    BY <2>1 DEF ConversationInv, ScansAreFresh
  <2>3. order \in Order /\ order.marks \in Nat /\ order.due \in Nat /\ order.reports \in Nat
    BY OrderRows DEF Order
  <2>4. order.marks <= 1 /\ order.marks # 1 /\ order.reports + order.due <= order.marks
    BY <2>2, OrderRows DEF OneAlertPerRelease
  <2>5. order.marks = 0 /\ order.due = 0 /\ order.reports = 0
    BY <2>3, <2>4
  <2>6. order.marks + 1 = 1 /\ order.due + 1 = 1 /\ 1 \in Nat
    BY <2>5
  <2>7. order' \in Order /\ order'.told /\ order'.marks = 1 /\ order'.due = 1 /\ order'.reports = 0
    BY <2>1, <2>3, <2>5, <2>6 DEF Order
  <2>8. OneAlertPerRelease'
    BY <2>7 DEF OneAlertPerRelease
  <2> QED
    BY <2>1, <2>7, <2>8, OrderRows, OrderIsSaved
<1> QED
  BY <1>1, <1>2, <1>3

-----------------------------------------------------------------------------
(* A card is sent; a button is pressed or a text typed.                    *)
LEMMA ApproveLog ==
  ASSUME NEW n \in Cards, NEW k \in {"approve", "reject"}
  PROVE  /\ NewLog(k, n, Shared, "none") \in Logs
         /\ NewLog(k, n, Shared, "none").card = n /\ NewLog(k, n, Shared, "none").kind = k
BY DEF NewLog, Logs, Kinds

LEMMA CardStep ==
  ASSUME ConversationInv, PostCard
  PROVE  ConversationInv'
<1> DEFINE approve == NewLog("approve", posted', Shared, "none")
           reject == NewLog("reject", posted', Shared, "none")
<1>1. /\ posted' \in Nat /\ posted' = posted + 1 /\ waiting' \in Nat /\ posted' + waiting' <= MaxCards
      /\ UNCHANGED <<order, session, releases, raced>>
  BY OrderRows DEF PostCard
<1>2. posted' \in Cards
  BY <1>1, OrderRows, ConversationConstants DEF Cards
<1>3. approve \in Logs /\ approve.card = posted' /\ reject \in Logs /\ reject.card = posted' /\ reject.kind = "reject"
  BY <1>2, ApproveLog
<1>4. pending \subseteq pending' /\ pending' \subseteq pending \cup {approve, reject}
  BY DEF PostCard
<1> HIDE DEF approve, reject
<1>5. pending \subseteq Logs /\ session \in [Sessions -> Work] /\ \A k \in pending : k.card \in Nat /\ k.card < posted'
  BY <1>1 DEF ConversationInv, ConversationTypeOK, CardsWereSent, Logs, Cards
<1>6. \A k \in pending' : Releasing(k) => k \in pending \/ k = approve
  BY <1>3, <1>4 DEF Releasing
<1>7. \A n \in Cards : n >= posted' => releases[n] = 0
  <2> SUFFICES ASSUME NEW n \in Cards, n >= posted' PROVE releases[n] = 0
    OBVIOUS
  <2>1. n \in Nat /\ n > posted
    BY <1>1, OrderRows, ConversationConstants DEF Cards
  <2> QED
    BY <2>1 DEF ConversationInv, CardsWereSent
<1>8. CardsWereSent'
  <2>1. \A k \in pending' : k.card <= posted'
    BY <1>1, <1>3, <1>4, <1>5
  <2>2. \A q \in Sessions : session'[q].op = "handle" => session'[q].log.card <= posted'
    <3> SUFFICES ASSUME NEW q \in Sessions, session[q].op = "handle" PROVE session[q].log.card <= posted'
      BY <1>1
    <3>1. session[q].log.card \in Nat /\ session[q].log.card <= posted
      BY <1>5 DEF ConversationInv, CardsWereSent, Work, Logs, Cards
    <3> QED
      BY <1>1, <3>1, OrderRows
  <2>3. \A n \in Cards : n > posted' => releases'[n] = 0
    BY <1>1, <1>7, ConversationConstants DEF Cards
  <2> QED
    BY <2>1, <2>2, <2>3 DEF CardsWereSent
<1>9. OneHandler'
  BY <1>1, <1>4 DEF ConversationInv, OneHandler
<1>10. OneQuestion'
  <2> SUFFICES ASSUME NEW k \in pending', NEW l \in pending', Releasing(k), Releasing(l), k.card = l.card,
                      k.card \notin raced
               PROVE  SameQuestion(k, l)
    BY <1>1 DEF OneQuestion
  <2>1. CASE k = approve \/ l = approve
    BY <1>3, <1>5, <1>6, <2>1 DEF SameQuestion
  <2>2. CASE k # approve /\ l # approve
    BY <1>6, <2>2 DEF ConversationInv, OneQuestion
  <2> QED
    BY <2>1, <2>2
<1>11. ReleaseWasLast'
  <2> SUFFICES ASSUME NEW l \in pending', Releasing(l), l.card \notin raced PROVE releases[l.card] = 0
    BY <1>1 DEF ReleaseWasLast
  <2>1. releases[posted'] = 0
    BY <1>1, <1>2, <1>7
  <2> QED
    BY <1>3, <1>6, <2>1 DEF ConversationInv, ReleaseWasLast
<1>12. ConversationTypeOK' /\ ScansAreFresh' /\ OneAlertPerRelease' /\ OneReleasePerCard'
  <2>1. pending' \subseteq Logs
    BY <1>3, <1>4, <1>5
  <2> QED
    BY <1>1, <2>1 DEF ConversationInv, ConversationTypeOK, ScansAreFresh, OneAlertPerRelease, OneReleasePerCard
<1> QED
  BY <1>8, <1>9, <1>10, <1>11, <1>12 DEF ConversationInv

LEMMA HandlingWork ==
  ASSUME NEW l \in Logs, NEW a \in Admins
  PROVE  Handling(l, a) \in Work /\ Handling(l, a).op = "handle" /\ Handling(l, a).log = l
BY DEF Handling, Work

LEMMA ReceiveStep ==
  ASSUME ConversationInv, NEW p \in Sessions, NEW l \in pending, NEW a \in Admins, Receive(p, l, a)
  PROVE  ConversationInv'
<1>1. /\ session \in [Sessions -> Work] /\ l \in Logs /\ l.card \in Cards /\ l.card <= posted
      /\ releases \in [Cards -> Nat]
  BY DEF ConversationInv, ConversationTypeOK, CardsWereSent, Logs
<1>2. /\ session' = [session EXCEPT ![p] = Handling(l, a)] /\ session[p] = Idle
      /\ UNCHANGED <<order, posted, waiting, pending>>
  BY DEF Receive
<1>3. /\ session' \in [Sessions -> Work] /\ session'[p].op = "handle" /\ session'[p].log = l
      /\ \A q \in Sessions \ {p} : session'[q] = session[q]
  BY <1>1, <1>2, HandlingWork
<1>4. /\ raced \subseteq raced'
      /\ \A q \in Sessions \ {p} : session[q].op = "handle" /\ session[q].log.card = l.card => l.card \in raced'
  BY DEF Receive
<1>5. releases' \in [Cards -> Nat] /\ \A n \in Cards : releases'[n] \in {0, releases[n]}
  BY <1>1 DEF Receive
<1>6. ScansAreFresh' /\ OneAlertPerRelease' /\ ConversationTypeOK'
  BY <1>2, <1>3, <1>5 DEF ConversationInv, ScansAreFresh, OneAlertPerRelease, ConversationTypeOK
<1>7. CardsWereSent'
  BY <1>1, <1>2, <1>3, <1>5 DEF ConversationInv, CardsWereSent
<1>8. OneHandler'
  <2> SUFFICES ASSUME NEW q \in Sessions, session'[q].op = "handle", session'[q].log.card \notin raced'
               PROVE  /\ session'[q].log \in pending
                      /\ \A r \in Sessions : session'[r].op = "handle" /\ session'[r].log.card = session'[q].log.card => r = q
    BY <1>2 DEF OneHandler
  <2>1. CASE q = p
    BY <1>3, <1>4, <2>1
  <2>2. CASE q # p
    BY <1>3, <1>4, <2>2 DEF ConversationInv, OneHandler
  <2> QED
    BY <2>1, <2>2
<1>9. OneQuestion'
  BY <1>2, <1>4 DEF ConversationInv, OneQuestion, SameQuestion, Releasing, Parent
<1>10. ReleaseWasLast' /\ OneReleasePerCard'
  <2>1. \A k \in pending : k.card \in Cards
    BY DEF ConversationInv, ConversationTypeOK, Logs
  <2> QED
    BY <1>2, <1>4, <1>5, <2>1 DEF ConversationInv, ReleaseWasLast, OneReleasePerCard, Releasing
<1> QED
  BY <1>6, <1>7, <1>8, <1>9, <1>10 DEF ConversationInv

-----------------------------------------------------------------------------
(* A session has handled a log.  What it may write concerns the card of    *)
(* that log only, and leaves of it one question at most.                   *)
OneLeft(n, logs) ==
    \A j, k \in logs : Releasing(j) /\ Releasing(k) /\ j.card = n /\ k.card = n => SameQuestion(j, k)

LEMMA HandlerEnds ==
  ASSUME ConversationInv, NEW p \in Sessions, session[p].op = "handle", NEW l, l = session[p].log,
         order' \in Order, OneAlertPerRelease',
         (session' = Left(p) /\ UNCHANGED order) \/ session' = Outdated({p}),
         pending' \subseteq Logs, \A k \in Logs : k.card # l.card => (k \in pending' <=> k \in pending),
         UNCHANGED <<posted, waiting, raced>>,
         releases' \in [Cards -> Nat], \A n \in Cards \ {l.card} : releases'[n] = releases[n],
         l.card \notin raced => /\ releases'[l.card] <= 1
                                /\ OneLeft(l.card, pending')
                                /\ \A k \in pending' : Releasing(k) /\ k.card = l.card => releases'[l.card] = 0
  PROVE  ConversationInv'
<1>1. /\ session \in [Sessions -> Work] /\ pending \subseteq Logs
      /\ l \in Logs /\ l.card \in Cards /\ l.card <= posted /\ posted \in Nat
  BY DEF ConversationInv, ConversationTypeOK, CardsWereSent, Work, Logs
<1>2. /\ session' \in [Sessions -> Work] /\ session'[p] = Idle
      /\ \A q \in Sessions \ {p} : SameWork(session[q], session'[q])
  BY <1>1, Outdates, Leaves
<1>3. \A q \in Sessions : session'[q].op = "handle" =>
           q # p /\ session[q].op = "handle" /\ session'[q].log = session[q].log
  BY <1>2, IdleWork DEF SameWork
<1>4. ScansAreFresh'
  <2> SUFFICES ASSUME NEW q \in Sessions, session'[q].op = "scan", ~session'[q].stale
               PROVE  order'.phase = "released" /\ ~order'.told
    BY DEF ScansAreFresh
  <2>1. q # p /\ session[q].op = "scan" /\ ~session[q].stale
    BY <1>2, IdleWork DEF SameWork
  <2>2. order.phase = "released" /\ ~order.told
    BY <2>1 DEF ConversationInv, ScansAreFresh
  <2>3. CASE UNCHANGED order
    BY <2>2, <2>3
  <2>4. CASE session' = Outdated({p})
    <3>1. session'[q].stale
      BY <1>1, <2>1, <2>4, Outdates
    <3> QED
      BY <3>1
  <2> QED
    BY <2>3, <2>4
<1>5. CardsWereSent'
  <2>1. \A k \in pending' : k.card <= posted
    BY <1>1 DEF ConversationInv, CardsWereSent
  <2>2. \A n \in Cards : n > posted => n # l.card
    BY <1>1, ConversationConstants DEF Cards
  <2>3. \A n \in Cards : n > posted' => releases'[n] = 0
    BY <2>2 DEF ConversationInv, CardsWereSent
  <2> QED
    BY <1>3, <2>1, <2>3 DEF ConversationInv, CardsWereSent
<1>6. OneHandler'
  <2> SUFFICES ASSUME NEW q \in Sessions, session'[q].op = "handle", session'[q].log.card \notin raced
               PROVE  /\ session'[q].log \in pending'
                      /\ \A r \in Sessions : session'[r].op = "handle" /\ session'[r].log.card = session'[q].log.card
                            => r = q
    BY DEF OneHandler
  <2>1. q # p /\ session[q].op = "handle" /\ session'[q].log = session[q].log /\ session[q].log \in Logs
    BY <1>1, <1>3 DEF Work
  <2>2. /\ session[q].log \in pending
        /\ \A r \in Sessions : session[r].op = "handle" /\ session[r].log.card = session[q].log.card => r = q
    BY <2>1 DEF ConversationInv, OneHandler
  <2>3. session[q].log.card # l.card
    BY <2>1, <2>2
  <2> QED
    BY <1>3, <2>1, <2>2, <2>3
<1>7. OneQuestion'
  <2> SUFFICES ASSUME NEW j \in pending', NEW k \in pending', Releasing(j), Releasing(k), j.card = k.card,
                      j.card \notin raced
               PROVE  SameQuestion(j, k)
    BY DEF OneQuestion
  <2>1. CASE j.card = l.card
    BY <2>1 DEF OneLeft
  <2>2. CASE j.card # l.card
    <3>1. j \in pending /\ k \in pending
      BY <2>2
    <3> QED
      BY <3>1 DEF ConversationInv, OneQuestion
  <2> QED
    BY <2>1, <2>2
<1>8. ReleaseWasLast'
  <2> SUFFICES ASSUME NEW k \in pending', Releasing(k), k.card \notin raced PROVE releases'[k.card] = 0
    BY DEF ReleaseWasLast
  <2>1. CASE k.card # l.card
    <3>1. k \in pending /\ k.card \in Cards
      BY <2>1 DEF Logs
    <3>2. releases[k.card] = 0
      BY <3>1 DEF ConversationInv, ReleaseWasLast
    <3> QED
      BY <2>1, <3>1, <3>2
  <2> QED
    BY <2>1
<1>9. OneReleasePerCard'
  BY DEF ConversationInv, OneReleasePerCard
<1> QED
  BY <1>2, <1>4, <1>5, <1>6, <1>7, <1>8, <1>9 DEF ConversationInv, ConversationTypeOK

-----------------------------------------------------------------------------
(* What a handled log says about what is pending.                          *)
LEMMA ParentsOfCards ==
  ASSUME NEW k \in Logs, NEW l \in Logs, Parent(k) = Parent(l)
  PROVE  k.card = l.card
BY DEF Parent

LEMMA Handled ==
  ASSUME ConversationInv, NEW p \in Sessions, session[p].op = "handle", NEW l, l = session[p].log
  PROVE  /\ l \in Logs /\ l.card \in Cards /\ session[p].chat \in Admins
         /\ Settled(l) \subseteq Logs /\ \A k \in Logs : k.card # l.card => (k \in Settled(l) <=> k \in pending)
         /\ l.card \notin raced /\ Releasing(l) =>
               releases[l.card] = 0 /\ \A k \in Settled(l) : k.card = l.card => ~Releasing(k)
         /\ l.kind \notin Choices => Settled(l) = pending \ {l}
<1>1. l \in Logs /\ l.card \in Cards /\ session[p].chat \in Admins /\ pending \subseteq Logs
  BY DEF ConversationInv, ConversationTypeOK, Work, Logs
<1>2. Settled(l) \subseteq Logs /\ \A k \in Logs : k.card # l.card => (k \in Settled(l) <=> k \in pending)
  <2>1. \A k \in Siblings(l) : k.card = l.card
    BY <1>1, ParentsOfCards DEF Siblings
  <2> QED
    BY <1>1, <2>1 DEF Settled
<1>3. ASSUME l.card \notin raced, Releasing(l)
      PROVE  releases[l.card] = 0 /\ \A k \in Settled(l) : k.card = l.card => ~Releasing(k)
  <2>1. l \in pending
    BY <1>3 DEF ConversationInv, OneHandler
  <2>2. ASSUME NEW k \in Settled(l), k.card = l.card, Releasing(k) PROVE FALSE
    <3>1. k \in pending /\ k # l /\ k \notin Siblings(l)
      BY <2>2 DEF Settled
    <3>2. SameQuestion(k, l)
      BY <1>3, <2>1, <2>2, <3>1 DEF ConversationInv, OneQuestion
    <3> QED
      BY <3>1, <3>2 DEF SameQuestion, Siblings
  <2> QED
    BY <1>3, <2>1, <2>2 DEF ConversationInv, ReleaseWasLast
<1>4. l.kind \notin Choices => Settled(l) = pending \ {l}
  BY DEF Settled, Siblings
<1> QED
  BY <1>1, <1>2, <1>3, <1>4

\* The follow-ups of a log: of its card, and one question.
FollowUp(l, logs) ==
    logs \subseteq Logs /\ (\A k \in logs : k.card = l.card) /\ \A j, k \in logs : SameQuestion(j, k)

LEMMA FollowUps ==
  ASSUME NEW l \in Logs, NEW a \in Admins
  PROVE  /\ FollowUp(l, {})
         /\ \A via \in {"card", "agree", "await_template"} : FollowUp(l, NoteChoice(l, a, via))
         /\ FollowUp(l, TemplateQuestion(l, a))
         /\ FollowUp(l, {NewLog("await_template", l.card, a, "none")})
         /\ FollowUp(l, {NewLog("await_note", l.card, a, "none")})
<1>1. ASSUME NEW kind \in Kinds, NEW via \in {"none", "card", "agree", "await_template", "reject"}
      PROVE  /\ NewLog(kind, l.card, a, via) \in Logs
             /\ NewLog(kind, l.card, a, via).card = l.card /\ NewLog(kind, l.card, a, via).kind = kind
  BY DEF NewLog, Logs
<1>2. ASSUME NEW via \in {"card", "agree", "await_template"} PROVE FollowUp(l, NoteChoice(l, a, via))
  <2>1. Parent(NewLog("write", l.card, a, via)) = Parent(NewLog("source", l.card, a, via))
    BY DEF Parent, NewLog
  <2> QED
    BY <1>1, <2>1 DEF FollowUp, NoteChoice, SameQuestion, Kinds, Choices
<1>3. FollowUp(l, TemplateQuestion(l, a))
  <2>1. Parent(NewLog("agree", l.card, a, "card")) = Parent(NewLog("disagree", l.card, a, "card"))
    BY DEF Parent, NewLog
  <2> QED
    BY <1>1, <2>1 DEF FollowUp, TemplateQuestion, SameQuestion, Kinds, Choices
<1>4. ASSUME NEW kind \in {"await_template", "await_note"} PROVE FollowUp(l, {NewLog(kind, l.card, a, "none")})
  BY <1>1 DEF FollowUp, SameQuestion, Kinds
<1> QED
  BY <1>2, <1>3, <1>4 DEF FollowUp

(* A button or prompt that leads to the release is replaced by what it led *)
(* to, its siblings go with it.                                            *)
LEMMA Asked ==
  ASSUME ConversationInv, NEW p \in Sessions, session[p].op = "handle", NEW l, l = session[p].log, Releasing(l),
         NEW new, FollowUp(l, new), pending' = Settled(l) \cup new,
         order' \in Order, OneAlertPerRelease',
         (session' = Left(p) /\ UNCHANGED order) \/ session' = Outdated({p}),
         UNCHANGED <<posted, waiting, releases, raced>>
  PROVE  ConversationInv'
<1>1. /\ l.card \in Cards /\ Settled(l) \subseteq Logs
      /\ \A k \in Logs : k.card # l.card => (k \in Settled(l) <=> k \in pending)
      /\ l.card \notin raced => releases[l.card] = 0 /\ \A k \in Settled(l) : k.card = l.card => ~Releasing(k)
  BY Handled
<1>2. pending' \subseteq Logs /\ \A k \in Logs : k.card # l.card => (k \in pending' <=> k \in pending)
  BY <1>1 DEF FollowUp
<1>3. l.card \notin raced => OneLeft(l.card, pending')
  BY <1>1 DEF FollowUp, OneLeft
<1>4. releases' \in [Cards -> Nat] /\ \A n \in Cards \ {l.card} : releases'[n] = releases[n]
  BY DEF ConversationInv, ConversationTypeOK
<1>5. l.card \notin raced => releases'[l.card] <= 1 /\ releases'[l.card] = 0
  BY <1>1
<1> QED
  BY <1>2, <1>3, <1>4, <1>5, HandlerEnds

LEMMA AnswerStep ==
  ASSUME ConversationInv, NEW p \in Sessions,
         PressApprove(p) \/ PressAgree(p) \/ PressDisagree(p) \/ TypeReason(p) \/ PressWrite(p)
  PROVE  ConversationInv'
<1> DEFINE l == LogOf(p)
           a == ChatOf(p)
<1>1. session[p].op = "handle" /\ l = session[p].log /\ Releasing(l)
  BY DEF PressApprove, PressAgree, PressDisagree, TypeReason, PressWrite, Handles, LogOf, Releasing
<1>2. l \in Logs /\ a \in Admins /\ (l.kind \notin Choices => Settled(l) = pending \ {l})
  BY <1>1, Handled DEF ChatOf
<1>3. /\ FollowUp(l, {}) /\ FollowUp(l, TemplateQuestion(l, a))
      /\ \A via \in {"card", "agree", "await_template"} : FollowUp(l, NoteChoice(l, a, via))
      /\ FollowUp(l, {NewLog("await_template", l.card, a, "none")})
      /\ FollowUp(l, {NewLog("await_note", l.card, a, "none")})
  BY <1>2, FollowUps
<1>4. order \in Order /\ Answered(order) \in Order /\ (UNCHANGED order => OneAlertPerRelease')
      /\ (order' = Answered(order) => OneAlertPerRelease')
  BY OrderRows, AlertsHold DEF SameMarks
<1>5. CASE PressApprove(p)
  <2>1. PICK new : pending' = Settled(l) \cup new /\ FollowUp(l, new)
    BY <1>2, <1>3, <1>5 DEF PressApprove, Handles, LogOf, ChatOf, Ask, Choices
  <2>2. session' = Left(p) /\ UNCHANGED <<order, posted, waiting, releases, raced>>
    BY <1>5 DEF PressApprove
  <2> QED
    BY <1>1, <1>4, <2>1, <2>2, Asked
<1>6. CASE PressAgree(p)
  <2>1. PICK new : pending' = Settled(l) \cup new /\ FollowUp(l, new)
    BY <1>3, <1>6 DEF PressAgree, LogOf, ChatOf, Ask
  <2>2. /\ (session' = Left(p) /\ UNCHANGED order) \/ (session' = Outdated({p}) /\ order' = Answered(order))
        /\ UNCHANGED <<posted, waiting, releases, raced>>
    BY <1>6 DEF PressAgree
  <2> QED
    BY <1>1, <1>4, <2>1, <2>2, Asked
<1>7. CASE PressDisagree(p) \/ PressWrite(p)
  <2>1. PICK new : pending' = Settled(l) \cup new /\ FollowUp(l, new)
    BY <1>3, <1>7 DEF PressDisagree, PressWrite, LogOf, ChatOf, Ask
  <2>2. session' = Left(p) /\ UNCHANGED <<order, posted, waiting, releases, raced>>
    BY <1>7 DEF PressDisagree, PressWrite
  <2> QED
    BY <1>1, <1>4, <2>1, <2>2, Asked
<1>8. CASE TypeReason(p)
  <2>1. CASE session' = Left(p) /\ UNCHANGED <<order, pending>>
    <3>1. UNCHANGED <<order, posted, waiting, pending, releases, raced>>
      BY <1>8, <2>1 DEF TypeReason
    <3> QED
      BY <2>1, <3>1, OrderRows, Leaves, IdleWork, SessionMoves
  <2>2. CASE order' = Answered(order) /\ session' = Outdated({p}) /\ pending' = (pending \ {l}) \cup NoteChoice(l, a, "await_template")
    <3>1. l.kind \notin Choices /\ UNCHANGED <<posted, waiting, releases, raced>>
      BY <1>8 DEF TypeReason, Handles, LogOf, Choices
    <3> QED
      BY <1>1, <1>2, <1>3, <1>4, <2>2, <3>1, Asked
  <2> QED
    BY <1>8, <2>1, <2>2 DEF TypeReason, LogOf, ChatOf, Ask
<1> QED
  BY <1>5, <1>6, <1>7, <1>8

LEMMA ReleaseStep ==
  ASSUME ConversationInv, NEW p \in Sessions, UseChatText(p) \/ TypeNote(p)
  PROVE  ConversationInv'
<1> DEFINE l == LogOf(p)
<1>1. session[p].op = "handle" /\ l = session[p].log /\ Releasing(l)
  BY DEF UseChatText, TypeNote, Handles, LogOf, Releasing
<1>2. /\ order' = Released(order) /\ pending' = Settled(l) /\ session' = Outdated({p})
      /\ releases' = IF l.card \in raced THEN releases ELSE [releases EXCEPT ![l.card] = @ + 1]
      /\ UNCHANGED <<posted, waiting, raced>>
  BY DEF UseChatText, TypeNote, Release
<1>3. order' \in Order /\ OneAlertPerRelease'
  <2>1. order' \in Order /\ NoMarks(order')
    BY <1>2, OrderRows
  <2> QED
    BY <2>1, AlertsHold
<1>4. /\ l.card \in Cards /\ Settled(l) \subseteq Logs
      /\ \A k \in Logs : k.card # l.card => (k \in Settled(l) <=> k \in pending)
      /\ l.card \notin raced => releases[l.card] = 0 /\ \A k \in Settled(l) : k.card = l.card => ~Releasing(k)
  BY <1>1, Handled
<1>5. releases' \in [Cards -> Nat] /\ \A n \in Cards \ {l.card} : releases'[n] = releases[n]
  BY <1>2, <1>4 DEF ConversationInv, ConversationTypeOK
<1>6. l.card \notin raced =>
         /\ releases'[l.card] <= 1
         /\ OneLeft(l.card, pending')
         /\ \A k \in pending' : Releasing(k) /\ k.card = l.card => releases'[l.card] = 0
  <2> SUFFICES ASSUME l.card \notin raced
               PROVE  releases'[l.card] <= 1 /\ \A k \in pending' : k.card = l.card => ~Releasing(k)
    BY DEF OneLeft
  <2>1. releases \in [Cards -> Nat] /\ releases' = [releases EXCEPT ![l.card] = 0 + 1]
    BY <1>2, <1>4 DEF ConversationInv, ConversationTypeOK
  <2>2. releases'[l.card] = 1
    BY <1>4, <2>1
  <2> QED
    BY <1>2, <1>4, <2>2
<1> QED
  BY <1>1, <1>2, <1>3, <1>4, <1>5, <1>6, HandlerEnds

(* What leads to a dispute leaves the questions of the release alone.      *)
LEMMA DisputeWrites ==
  ASSUME ConversationInv, NEW p \in Sessions, session[p].op = "handle", NEW l, l = session[p].log,
         pending' \subseteq Logs, \A k \in Logs : k.card # l.card => (k \in pending' <=> k \in pending),
         \A k \in pending' : Releasing(k) => k \in pending,
         order' \in Order, OneAlertPerRelease',
         (session' = Left(p) /\ UNCHANGED order) \/ session' = Outdated({p}),
         UNCHANGED <<posted, waiting, releases, raced>>
  PROVE  ConversationInv'
<1>1. l.card \in Cards
  BY Handled
<1>2. releases' \in [Cards -> Nat] /\ \A n \in Cards \ {l.card} : releases'[n] = releases[n]
  BY DEF ConversationInv, ConversationTypeOK
<1>3. ASSUME l.card \notin raced
      PROVE  /\ releases'[l.card] <= 1
             /\ OneLeft(l.card, pending')
             /\ \A k \in pending' : Releasing(k) /\ k.card = l.card => releases'[l.card] = 0
  <2>1. releases'[l.card] <= 1
    BY <1>1, <1>3 DEF ConversationInv, OneReleasePerCard
  <2>2. OneLeft(l.card, pending')
    BY <1>3 DEF OneLeft, ConversationInv, OneQuestion
  <2>3. \A k \in pending' : Releasing(k) /\ k.card = l.card => releases'[l.card] = 0
    BY <1>3 DEF ConversationInv, ReleaseWasLast
  <2> QED
    BY <2>1, <2>2, <2>3
<1> QED
  BY <1>2, <1>3, HandlerEnds

LEMMA DisputeStep ==
  ASSUME ConversationInv, NEW p \in Sessions, PressReject(p) \/ TypeDispute(p) \/ SendDispute(p) \/ CancelDispute(p)
  PROVE  ConversationInv'
<1> DEFINE l == LogOf(p)
           asked == NewLog("await_dispute", l.card, ChatOf(p), "reject")
           shown == NewLog("confirm", l.card, ChatOf(p), "reject")
           button == NewLog("reject", l.card, Shared, "none")
<1>1. session[p].op = "handle" /\ l = session[p].log /\ l \in Logs /\ ChatOf(p) \in Admins
  BY Handled DEF PressReject, TypeDispute, SendDispute, CancelDispute, Handles, LogOf, ChatOf
<1>2. \A k \in {asked, shown, button} : k \in Logs /\ k.card = l.card /\ ~Releasing(k)
  BY <1>1 DEF NewLog, Logs, Kinds, Releasing
<1>3. pending \subseteq Logs
  BY DEF ConversationInv, ConversationTypeOK
<1>4. pending' \subseteq pending \cup {asked, shown} /\ pending \subseteq pending' \cup {l, button}
  BY DEF PressReject, TypeDispute, SendDispute, CancelDispute, Ask, LogOf, ChatOf
<1> HIDE DEF asked, shown, button
<1>5. /\ pending' \subseteq Logs /\ \A k \in Logs : k.card # l.card => (k \in pending' <=> k \in pending)
      /\ \A k \in pending' : Releasing(k) => k \in pending
  BY <1>2, <1>3, <1>4
<1>6. UNCHANGED <<posted, waiting, releases, raced>>
  BY DEF PressReject, TypeDispute, SendDispute, CancelDispute
<1>7. (session' = Left(p) /\ UNCHANGED order)
         \/ (session' = Outdated({p}) /\ order' = [order EXCEPT !.dispute = "open"])
  BY DEF PressReject, TypeDispute, SendDispute, CancelDispute
<1>8. order' \in Order /\ SameMarks(order, order')
  BY <1>7, OrderRows DEF Order, SameMarks
<1>9. OneAlertPerRelease'
  BY <1>8, AlertsHold, OrderRows
<1> QED
  BY <1>1, <1>5, <1>6, <1>7, <1>8, <1>9, DisputeWrites

-----------------------------------------------------------------------------
LEMMA ConversationStep == ConversationInv /\ [Next]_vars => ConversationInv'
<1> SUFFICES ASSUME ConversationInv, [Next]_vars PROVE ConversationInv'
  OBVIOUS
<1>1. CASE NewFix \/ ObserveDispute \/ SubmitResult \/ ApproveFix \/ DeadlinePasses \/ AlertOverdue
  BY <1>1, OrderStep
<1>2. CASE PostCard
  BY <1>2, CardStep
<1>3. ASSUME NEW p \in Sessions, Webhook(p) \/ ScanDeadlines(p) \/ MarkOverdue(p) PROVE ConversationInv'
  BY <1>3, ReceiveStep, ScanStep, AnswerStep, ReleaseStep, DisputeStep DEF Webhook
<1>4. CASE UNCHANGED vars
  BY <1>4 DEF vars, ConversationInv, ConversationTypeOK, ScansAreFresh, OneAlertPerRelease, CardsWereSent, OneHandler,
     OneQuestion, ReleaseWasLast, OneReleasePerCard, SameQuestion, Parent, Releasing
<1> QED
  BY <1>1, <1>2, <1>3, <1>4 DEF Next

LEMMA ConversationInvariance == Spec => []ConversationInv
<1>1. Init => ConversationInv
  BY ConversationInit
<1>2. ConversationInv /\ [Next]_vars => ConversationInv'
  BY ConversationStep
<1> QED
  BY <1>1, <1>2, PTL DEF Spec

(* Whatever the Admins press, type and answer late, and in whatever number *)
(* they and the web processes are, a card releases its Fix at most once    *)
(* unless two sessions handled its buttons at once (telegram_api.py:389).  *)
THEOREM CardReleasesOnce == Spec => []OneReleasePerCard
<1>1. ConversationInv => OneReleasePerCard
  BY DEF ConversationInv
<1> QED
  BY <1>1, ConversationInvariance, PTL

(* A release that runs late is marked by one scan and reported at most     *)
(* once, however scans, submissions and new releases overlap: a scan that  *)
(* read an order which was saved meanwhile commits nothing, and tells of   *)
(* it only after its commit (telegram_tasks.py:157-160).                   *)
THEOREM ReleaseIsReportedOnce == Spec => []OneAlertPerRelease
<1>1. ConversationInv => OneAlertPerRelease
  BY DEF ConversationInv
<1> QED
  BY <1>1, ConversationInvariance, PTL
=============================================================================
