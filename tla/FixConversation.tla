---------------------------- MODULE FixConversation ----------------------------
(***************************************************************************)
(* How Admins settle one Fix from their Telegram chats (telegram_api.py):  *)
(* a card with its buttons, the questions that follow a button, the reply  *)
(* that ends them, and the release of the Fix with its one-hour deadline,  *)
(* which a periodic scan watches (telegram_tasks.py).  Several sessions    *)
(* (web processes, workers) read, talk to Telegram or Printerval, and then *)
(* commit; a commit on an order saved meanwhile is refused.  A button may  *)
(* be pressed as long as its log is pending: deleting the messages of a    *)
(* settled card is only tried, and one never delivered is never pressed.   *)
(***************************************************************************)
EXTENDS FiniteSets, Integers

CONSTANTS Admins,     \* chats of the Admins
          Shared,     \* in place of a chat: the buttons of a card belong to all
          Sessions,   \* web processes and workers
          MaxCards,   \* bound of the cards sent
          MaxPrompts  \* bound of the dispute prompts and previews of one time

ASSUME ConversationConstants == /\ Shared \notin Admins /\ Admins # {}
                                /\ MaxCards \in Nat /\ MaxPrompts \in Nat

VARIABLES
    order,     \* in Review, in Fix or a released Fix; its dispute, template question and deadline, and
               \* history, of this release: scans that marked it late, reports still to come, reports
    posted,    \* cards sent, and
    waiting,   \* cards whose task is queued
    pending,   \* TelegramActionLog rows that are pending
    session,   \* what each session is in the middle of
    releases,  \* history: releases of the Fix that came from each card, 0 once it is raced
    raced      \* history: cards whose buttons two sessions handled at once

vars == <<order, posted, waiting, pending, session, releases, raced>>

Cards == 1 .. MaxCards
Choices == {"agree", "disagree", "write", "source"}       \* FIX_CHOICE_TYPES

\* An action log: its kind, its card, the chat it was sent to (Shared for a card), and the kind of its parent.
NewLog(kind, n, a, via) == [kind |-> kind, card |-> n, chat |-> a, via |-> via]

Idle == [op |-> "idle", stale |-> FALSE]
Scan == [op |-> "scan", stale |-> FALSE]
Handling(l, a) == [op |-> "handle", stale |-> FALSE, log |-> l, chat |-> a]

Init ==
    /\ order = [phase |-> "review", dispute |-> "none", asked |-> FALSE,
                late |-> FALSE, told |-> FALSE, marks |-> 0, due |-> 0, reports |-> 0]
    /\ posted = 0 /\ waiting = 0 /\ pending = {}
    /\ session = [p \in Sessions |-> Idle]
    /\ releases = [n \in Cards |-> 0] /\ raced = {}

-----------------------------------------------------------------------------
Conflict(p) == session[p].stale

\* Order.version: whoever else has read the order and is going to save it cannot any more.
Saves(q) == \/ session[q].op = "scan"
            \/ /\ session[q].op = "handle"
               /\ session[q].log.kind \in {"agree", "source", "await_template", "await_note", "confirm"}
Outdated(P) == [q \in Sessions |-> IF q \in P THEN Idle
                                   ELSE [session[q] EXCEPT !.stale = @ \/ Saves(q)]]

Left(p) == [session EXCEPT ![p] = Idle]

Bug_NoSiblings(l) == {}
Parent(l) == IF l.via = "card" THEN <<l.card, "approve">> ELSE <<l.card, l.via, l.chat>>
Siblings(l) ==
    {k \in pending : k.kind \in Choices /\ l.kind \in Choices /\ Parent(k) = Parent(l)}

Settled(l) == pending \ ({l} \cup Siblings(l))

\* The two buttons "write a note" and "use the chat text".
NoteChoice(l, a, via) == {NewLog("write", l.card, a, via), NewLog("source", l.card, a, via)}
TemplateQuestion(l, a) == {NewLog("agree", l.card, a, "card"), NewLog("disagree", l.card, a, "card")}

-----------------------------------------------------------------------------
(***************************************************************************)
(* The order around the conversations.                                     *)
(***************************************************************************)
\* record_template_answer: the question is answered, and is asked again only in another round.
Answered(o) == [o EXCEPT !.asked = FALSE]

\* refresh_fix_template: Printerval may ask whether this round is about the template; who cannot read it asks nothing.
Refreshed(o) == {[o EXCEPT !.asked = asked] : asked \in BOOLEAN}

\* The deadline of a release is over: a report of it that is still to come is of the past.
Over(o) == [o EXCEPT !.late = FALSE, !.marks = 0, !.due = 0, !.reports = 0]

Bug_KeepsTold(o) == [Over(o) EXCEPT !.phase = "released"]
Released(o) == [Over(o) EXCEPT !.phase = "released", !.told = FALSE]

\* A card is queued, or none: Telegram is not set up, or the task is lost.
QueueCard == waiting' \in {waiting, waiting + 1} /\ posted + waiting' <= MaxCards

\* Printerval returns the order, even from work that was started: a new round.  What is
\* left of a deadline and its mark is not looked at until the Fix is released, which sets new ones.
NewFix ==
    /\ order.phase # "fix"
    /\ order' \in Refreshed([Over(order) EXCEPT !.phase = "fix", !.dispute = "none"])
    /\ QueueCard /\ session' = Outdated({})
    /\ UNCHANGED <<posted, pending, releases, raced>>

\* What Printerval says about a dispute; a rejected one opens the Fix again, with a second card.
ObserveDispute ==
    /\ order.dispute = "open"
    /\ \/ /\ order.phase # "review"
          /\ order' = [Over(order) EXCEPT !.phase = "review"]
          /\ UNCHANGED waiting
       \/ /\ order' = IF order.phase # "review" THEN [order EXCEPT !.dispute = "rejected"]
                      ELSE [order EXCEPT !.phase = "fix", !.dispute = "rejected"]
          /\ QueueCard
    /\ session' = Outdated({})
    /\ UNCHANGED <<posted, pending, releases, raced>>

\* A released Fix, started or not, is submitted.
SubmitResult ==
    /\ order.phase = "released"
    /\ order' = [Over(order) EXCEPT !.phase = "review", !.told = FALSE]
    /\ session' = Outdated({})
    /\ UNCHANGED <<posted, waiting, pending, releases, raced>>

\* POST /orders/{id}/approve-fix: an open question has to be answered, the state of the order is not asked.
ApproveFix ==
    /\ order' = Released(Answered(order))
    /\ session' = Outdated({})
    /\ UNCHANGED <<posted, waiting, pending, releases, raced>>

\* The one-hour deadline passes.
DeadlinePasses ==
    /\ order.phase = "released" /\ ~order.late /\ order' = [order EXCEPT !.late = TRUE]
    /\ UNCHANGED <<posted, waiting, pending, session, releases, raced>>

(***************************************************************************)
(* check_designer_deadlines: read the overdue orders, commit that they are *)
(* reported, and only then tell the Admins.                                *)
(***************************************************************************)
Overdue == order.phase = "released" /\ order.late /\ ~order.told

ScanDeadlines(p) ==
    /\ session[p] = Idle /\ Overdue
    /\ session' = [session EXCEPT ![p] = Scan]
    /\ UNCHANGED <<order, posted, waiting, pending, releases, raced>>

MarkOverdue(p) ==
    /\ session[p].op = "scan"
    /\ IF Conflict(p) THEN UNCHANGED order /\ session' = Left(p)
       ELSE /\ order' = [order EXCEPT !.told = TRUE, !.marks = @ + 1, !.due = @ + 1]
            /\ session' = Outdated({p})
    /\ UNCHANGED <<posted, waiting, pending, releases, raced>>

\* The message reaches a chat, however late.  When it reaches none (Telegram refuses it, the platform has no
\* Admin chat, the worker dies), nobody ever reports the release, for the mark is committed.
AlertOverdue ==
    /\ order.due > 0
    /\ \E reached \in {0, 1} : order' = [order EXCEPT !.due = @ - 1, !.reports = @ + reached]
    /\ UNCHANGED <<posted, waiting, pending, session, releases, raced>>

(***************************************************************************)
(* The card.                                                               *)
(***************************************************************************)
MayDispute == order.phase = "fix" /\ order.dispute = "none"

\* notify_admin_new_fix: the buttons are saved, then the card goes to every chat.
PostCard ==
    /\ waiting > 0 /\ waiting' = waiting - 1 /\ posted' = posted + 1
    /\ pending' = pending \cup {NewLog("approve", posted', Shared, "none")}
                    \cup (IF MayDispute THEN {NewLog("reject", posted', Shared, "none")} ELSE {})
    /\ UNCHANGED <<order, session, releases, raced>>

(***************************************************************************)
(* A button is pressed, or a text is typed: the webhook reads the log and  *)
(* the order, without locks.                                               *)
(***************************************************************************)
Sees(l, a) == l.chat \in {a, Shared}

Receive(p, l, a) ==
    /\ session[p] = Idle /\ l \in pending /\ Sees(l, a)
    /\ session' = [session EXCEPT ![p] = Handling(l, a)]
    /\ IF \E q \in Sessions \ {p} : session[q].op = "handle" /\ session[q].log.card = l.card
       THEN raced' = raced \cup {l.card} /\ releases' = [releases EXCEPT ![l.card] = 0]
       ELSE UNCHANGED <<raced, releases>>
    /\ UNCHANGED <<order, posted, waiting, pending>>

Handles(p, kind) == session[p].op = "handle" /\ session[p].log.kind = kind
LogOf(p) == session[p].log
ChatOf(p) == session[p].chat

\* The follow-up replaces the log that led to it, and is sent.
Ask(rest, new) == pending' = rest \cup new

\* "Accept": Printerval's template question first (refresh_fix_template, if it can be read), then the note.
PressApprove(p) ==
    LET l == LogOf(p) a == ChatOf(p) IN
    /\ Handles(p, "approve")
    /\ IF order.asked THEN Ask(pending \ {l}, TemplateQuestion(l, a))
       ELSE Ask(pending \ {l}, NoteChoice(l, a, "card"))
    /\ session' = Left(p)
    /\ UNCHANGED <<order, posted, waiting, releases, raced>>

\* "It was the template": the answer, and the note; when no question is stored any more, the flow ends here.
PressAgree(p) ==
    LET l == LogOf(p) IN
    /\ Handles(p, "agree") /\ ~Conflict(p)
    /\ \/ /\ ~order.asked /\ pending' = Settled(l) /\ session' = Left(p)
          /\ UNCHANGED order
       \/ /\ order' = Answered(order) /\ session' = Outdated({p})
          /\ Ask(Settled(l), NoteChoice(l, ChatOf(p), "agree"))
    /\ UNCHANGED <<posted, waiting, releases, raced>>

\* "It was not": Printerval wants a reason, asked for in a prompt.
PressDisagree(p) ==
    LET l == LogOf(p) IN
    /\ Handles(p, "disagree")
    /\ Ask(Settled(l), {NewLog("await_template", l.card, ChatOf(p), "none")})
    /\ session' = Left(p)
    /\ UNCHANGED <<order, posted, waiting, releases, raced>>

TypeReason(p) ==
    LET l == LogOf(p) IN
    /\ Handles(p, "await_template") /\ ~Conflict(p)
    /\ \/ ~order.asked /\ session' = Left(p) /\ UNCHANGED <<order, pending>>
       \/ /\ order' = Answered(order) /\ session' = Outdated({p})
          /\ Ask(pending \ {l}, NoteChoice(l, ChatOf(p), "await_template"))
    /\ UNCHANGED <<posted, waiting, releases, raced>>

\* "Write a note": asked for in a prompt.
PressWrite(p) ==
    LET l == LogOf(p) IN
    /\ Handles(p, "write")
    /\ Ask(Settled(l), {NewLog("await_note", l.card, ChatOf(p), "none")})
    /\ session' = Left(p)
    /\ UNCHANGED <<order, posted, waiting, releases, raced>>

\* _complete_telegram_fix_approval, whatever state the order is in.
Release(p) ==
    LET l == LogOf(p) IN
    /\ ~Conflict(p)
    /\ order' = Released(order) /\ pending' = Settled(l)
    /\ releases' = IF l.card \in raced THEN releases ELSE [releases EXCEPT ![l.card] = @ + 1]
    /\ session' = Outdated({p})
    /\ UNCHANGED <<posted, waiting, raced>>

\* "No, use the chat text", and the note that was typed.
UseChatText(p) == Handles(p, "source") /\ Release(p)
TypeNote(p) == Handles(p, "await_note") /\ Release(p)

\* "The Fix is wrong": a prompt for reason and images, then a preview to send or cancel; the card stays usable.
PressReject(p) ==
    LET l == LogOf(p) IN
    /\ Handles(p, "reject")
    /\ IF MayDispute /\ Cardinality({k \in pending : k.kind \in {"await_dispute", "confirm"}}) < MaxPrompts
       THEN Ask(pending, {NewLog("await_dispute", l.card, ChatOf(p), "reject")})
       ELSE UNCHANGED pending
    /\ session' = Left(p)
    /\ UNCHANGED <<order, posted, waiting, releases, raced>>

TypeDispute(p) ==
    LET l == LogOf(p) IN
    /\ Handles(p, "await_dispute")
    /\ \/ Ask(pending \ {l}, {NewLog("confirm", l.card, ChatOf(p), "reject")})
       \/ UNCHANGED pending   \* not the asked format
    /\ session' = Left(p)
    /\ UNCHANGED <<order, posted, waiting, releases, raced>>

SendDispute(p) ==
    LET l == LogOf(p) IN
    /\ Handles(p, "confirm")
    /\ IF MayDispute /\ ~Conflict(p)
       THEN /\ order' = [order EXCEPT !.dispute = "open"] /\ session' = Outdated({p})
            /\ pending' = pending \ {l, NewLog("reject", l.card, Shared, "none")}
       ELSE /\ pending' = pending \ {l} /\ session' = Left(p)
            /\ UNCHANGED order
    /\ UNCHANGED <<posted, waiting, releases, raced>>

CancelDispute(p) ==
    /\ Handles(p, "confirm")
    /\ pending' = pending \ {LogOf(p)} /\ session' = Left(p)
    /\ UNCHANGED <<order, posted, waiting, releases, raced>>

\* Nothing is committed: the order was saved by another session, the chat could not be read, or a process died.
GiveUp(p) ==
    /\ session[p] # Idle /\ session' = Left(p)
    /\ UNCHANGED <<order, posted, waiting, pending, releases, raced>>

-----------------------------------------------------------------------------
Webhook(p) ==
    \/ \E l \in pending, a \in Admins : Receive(p, l, a)
    \/ PressApprove(p) \/ PressAgree(p) \/ PressDisagree(p) \/ TypeReason(p) \/ PressWrite(p)
    \/ UseChatText(p) \/ TypeNote(p) \/ PressReject(p) \/ TypeDispute(p) \/ SendDispute(p) \/ CancelDispute(p)
    \/ GiveUp(p)

Next ==
    \/ NewFix \/ ObserveDispute \/ SubmitResult \/ ApproveFix \/ DeadlinePasses
    \/ AlertOverdue \/ PostCard
    \/ \E p \in Sessions : Webhook(p) \/ ScanDeadlines(p) \/ MarkOverdue(p)

Spec == Init /\ [][Next]_vars

-----------------------------------------------------------------------------
\* However many Admins press, type and answer late, one card releases its Fix at most once ("Ensure only one
\* of the sibling choices (note, or template answer) can move a Fix forward", telegram_api.py:389), unless
\* two sessions handled its buttons at the same moment.
OneReleasePerCard == \A n \in Cards \ raced : releases[n] <= 1

\* A released Fix that runs late is reported at most once, however scans, submissions and new releases overlap
\* ("Alert each active order deadline once", telegram_tasks.py:136), and the mark that silences the scan is
\* always that of one scan of this very release, never one left of an earlier release.  It may stand for no
\* report: the scan marks first, and its message may be lost.
OneAlertPerRelease == order.phase = "released" =>
    /\ order.marks <= 1 /\ (order.told <=> order.marks = 1)
    /\ order.reports + order.due <= order.marks
=============================================================================
