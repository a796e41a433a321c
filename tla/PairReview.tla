----------------------------- MODULE PairReview -----------------------------
(***************************************************************************)
(* What becomes of one compared order: Support picks the old order it may  *)
(* duplicate (support_review_api.py), the pair is sent to Telegram chats,  *)
(* whoever answers first settles it, and the lot is tagged by the verdicts *)
(* (support_compare.py, telegram_api.py).  Two web processes handle the    *)
(* requests; a handler may be interleaved or die between its commits.      *)
(***************************************************************************)
EXTENDS FiniteSets, Integers

CONSTANTS Candidates,         \* comparison_candidates of the item
          Supports, Admins,   \* linked Telegram chats of the two roles
          Workers,            \* web processes
          NoCandidate,
          MaxFailures           \* bound of handlers that die or deliveries that fail

ASSUME PairConstants == /\ Supports \cap Admins = {} /\ NoCandidate \notin Candidates
                        /\ MaxFailures \in Nat

Chats == Supports \cup Admins
Tags == {"uncheck", "duplicate", "non_duplicate"}
Verdicts == {"duplicate", "non_duplicate"}

VARIABLES
    pairItem,      \* review_status and selected_candidate_id
    decision,  \* decision_status of each candidate
    notified,  \* candidates with a telegram_notified_at
    order,     \* duplicate_check_status, and whether the state is one of SUPPORT_CLASSIFICATION_STATES
    open,      \* pairs of a chat and a candidate whose TelegramActionLog rows are pending
    shown,     \* those whose prompt is in the chat
    handler,   \* what each web process is in the middle of
    lotTag,    \* history: the tag the lot gave the order last
    early,     \* history: a verdict was recorded before its pair counted as sent
    late,      \* history: buttons were made for a pair that was settled meanwhile
    failures

pairVars == <<pairItem, decision, notified, order, open, shown, handler, lotTag, early, late, failures>>
history == <<lotTag, early, late>>

AtRest == [pc |-> "idle", c |-> NoCandidate, chat |-> {}, todo |-> {}, got |-> FALSE, to |-> "uncheck"]
Handler == [pc : {"idle", "send", "deliver", "decide", "withdraw", "tag"}, c : Candidates \cup {NoCandidate},
            chat : SUBSET Chats, todo : SUBSET Chats, got : BOOLEAN, to : Tags]

PairInit ==
    /\ pairItem \in [review : {"pending_review", "no_match"}, chosen : {NoCandidate}]
    /\ decision = [c \in Candidates |-> "pending"] /\ notified = {}
    /\ order = [tag |-> "uncheck", waiting |-> TRUE]
    /\ open = {} /\ shown = {}
    /\ handler = [w \in Workers |-> AtRest]
    /\ lotTag = "uncheck" /\ early = FALSE /\ late = FALSE /\ failures = 0

-----------------------------------------------------------------------------
Becomes(w, h) == handler' = [handler EXCEPT ![w] = h]
Failure == failures < MaxFailures /\ failures' = failures + 1

\* A verdict is being committed: the row of its candidate is locked.
LockedRow(c) == \E w \in Workers : handler[w].pc = "decide" /\ handler[w].c = c

(***************************************************************************)
(* The web review.                                                         *)
(***************************************************************************)
Bug_AlreadySent == FALSE
AlreadySent == pairItem.chosen \in notified

\* _load_reviewable: not after the chosen pair was sent, not on an order that carries a tag.
Reviewable(allowed) == pairItem.review \in allowed /\ ~AlreadySent /\ order.tag = "uncheck"

SelectCandidate(c) ==
    /\ Reviewable({"pending_review", "ai_wrong", "selected_duplicate", "no_match"})
    /\ pairItem' = [review |-> "selected_duplicate", chosen |-> c]
    /\ UNCHANGED <<decision, notified, order, open, shown, handler, history, failures>>

RejectItem ==
    /\ Reviewable({"pending_review", "ai_wrong", "selected_duplicate"})
    /\ pairItem' = [review |-> "ai_wrong", chosen |-> NoCandidate]
    /\ UNCHANGED <<decision, notified, order, open, shown, handler, history, failures>>

(***************************************************************************)
(* Sending the pair.                                                       *)
(***************************************************************************)
Recipients == {Supports} \cup {{a} : a \in Admins}

\* send_lot_pairs, notify_duplicate_candidate: the chosen pair, not answered; resent only on request.
PickPair(w, resend) ==
    /\ handler[w].pc = "idle"
    /\ pairItem.review = "selected_duplicate" /\ order.tag = "uncheck"
    /\ decision[pairItem.chosen] = "pending"
    /\ pairItem.chosen \in notified => resend
    /\ \E R \in Recipients : Becomes(w, [AtRest EXCEPT !.pc = "send", !.c = pairItem.chosen, !.todo = R])
    /\ UNCHANGED <<pairItem, decision, notified, order, open, shown, history, failures>>

\* The buttons of every recipient are committed before the first message.
CreateActions(w) ==
    /\ handler[w].pc = "send"
    /\ open' = open \cup {<<a, handler[w].c>> : a \in handler[w].todo}
    /\ late' = (late \/ decision[handler[w].c] # "pending")
    /\ Becomes(w, [handler[w] EXCEPT !.pc = "deliver"])
    /\ UNCHANGED <<pairItem, decision, notified, order, shown, lotTag, early, failures>>

\* Album and prompt; Telegram may refuse one of them.
Deliver(w, a) ==
    /\ handler[w].pc = "deliver" /\ a \in handler[w].todo
    /\ \/ /\ shown' = shown \cup {<<a, handler[w].c>>} /\ UNCHANGED failures
          /\ Becomes(w, [handler[w] EXCEPT !.todo = @ \ {a}, !.got = TRUE])
       \/ /\ Becomes(w, [handler[w] EXCEPT !.todo = @ \ {a}]) /\ Failure
          /\ UNCHANGED shown
    /\ UNCHANGED <<pairItem, decision, notified, order, open, history>>

\* telegram_notified_at, if anybody got it.
RecordSent(w) ==
    /\ handler[w].pc = "deliver" /\ handler[w].todo = {}
    /\ handler[w].got => ~LockedRow(handler[w].c)
    /\ notified' = IF handler[w].got THEN notified \cup {handler[w].c} ELSE notified
    /\ Becomes(w, AtRest)
    /\ UNCHANGED <<pairItem, decision, order, open, shown, history, failures>>

(***************************************************************************)
(* The answer on Telegram.                                                 *)
(***************************************************************************)
\* The candidate row is locked and read, then the item, which is not locked.
Undecided(c) == decision[c] = "pending"

PressButton(w, a, c, verdict) ==
    /\ handler[w].pc = "idle"
    /\ <<a, c>> \in shown \cap open
    /\ ~LockedRow(c) /\ Undecided(c)
    /\ pairItem.review = "selected_duplicate" /\ pairItem.chosen = c
    /\ Becomes(w, [AtRest EXCEPT !.pc = "decide", !.c = c, !.chat = {a}, !.to = verdict])
    /\ UNCHANGED <<pairItem, decision, notified, order, open, shown, history, failures>>

Bug_LeavesSiblings(c, verdict) == [decision EXCEPT ![c] = verdict]
Decided(c, verdict) ==
    [x \in Candidates |-> IF x = c THEN verdict
                          ELSE IF decision[x] = "pending" THEN "superseded" ELSE decision[x]]

\* execute_support_duplicate_decision: the siblings are superseded, whose rows it needs for that.
RecordVerdict(w) ==
    LET c == handler[w].c IN
    /\ handler[w].pc = "decide"
    /\ \A x \in Candidates \ {c} : ~LockedRow(x)
    /\ decision' = Decided(c, handler[w].to)
    /\ early' = (early \/ c \notin notified)
    /\ Becomes(w, [handler[w] EXCEPT !.pc = "withdraw"])
    /\ UNCHANGED <<pairItem, notified, order, open, shown, lotTag, late, failures>>

Bug_ClosesOwnChat(w) == {<<a, handler[w].c>> : a \in handler[w].chat}
Withdrawn(w) == Chats \X {handler[w].c}

\* withdraw_decided_pair_from_other_supports, then every message of the pair is deleted.
Withdraw(w) ==
    /\ handler[w].pc = "withdraw"
    /\ open' = open \ Withdrawn(w)
    /\ shown' = shown \ (open \cap Withdrawn(w))
    /\ Becomes(w, AtRest)
    /\ UNCHANGED <<pairItem, decision, notified, order, history, failures>>

\* ACTION_EXPIRY
ExpireActions ==
    /\ \E p \in open : open' = open \ {p}
    /\ UNCHANGED <<pairItem, decision, notified, order, shown, handler, history, failures>>

(***************************************************************************)
(* Tagging the lot.                                                        *)
(***************************************************************************)
Bug_SentIsVerified(i) == IF i.chosen \in notified THEN "verified" ELSE "not_duplicate"
StageOf(i) ==
    IF i.review # "selected_duplicate"
    THEN IF i.review = "pending_review" THEN "todo" ELSE "not_duplicate"
    ELSE CASE decision[i.chosen] = "duplicate" -> "verified"
           [] decision[i.chosen] = "non_duplicate" -> "not_duplicate"
           [] OTHER -> IF i.chosen \in notified THEN "waiting" ELSE "unsent"

\* tag_lot_orders and handle_unchecked_orders read the stages of orders without a tag ...
ReadStage(w, to) ==
    /\ handler[w].pc = "idle"
    /\ StageOf(pairItem) = (IF to = "duplicate" THEN "verified" ELSE "not_duplicate")
    /\ order.tag = "uncheck" /\ order.waiting
    /\ Becomes(w, [AtRest EXCEPT !.pc = "tag", !.to = to])
    /\ UNCHANGED <<pairItem, decision, notified, order, open, shown, history, failures>>

\* ... and tag what they read, if the order still waits, else the batch is refused; a duplicate goes
\* to the board, in progress.
TagOrders(w) ==
    /\ handler[w].pc = "tag"
    /\ IF ~order.waiting THEN UNCHANGED <<order, lotTag>>
       ELSE /\ order' = [tag |-> handler[w].to, waiting |-> handler[w].to = "non_duplicate"]
            /\ lotTag' = handler[w].to
    /\ Becomes(w, AtRest)
    /\ UNCHANGED <<pairItem, decision, notified, open, shown, early, late, failures>>

\* Other screens: a tag by hand, an order returned to the unchecked ones, or given to a Designer.
ChangeOrder ==
    /\ order' \in [tag : Tags, waiting : BOOLEAN]
    /\ order' # order /\ (order'.tag = order.tag \/ order'.waiting = order.waiting)
    /\ lotTag' = "uncheck"
    /\ UNCHANGED <<pairItem, decision, notified, open, shown, handler, early, late, failures>>

\* A process dies, or raises and rolls back: what it committed stays.
HandlerDies(w) ==
    /\ handler[w].pc # "idle" /\ Failure
    /\ Becomes(w, AtRest)
    /\ UNCHANGED <<pairItem, decision, notified, order, open, shown, history>>

\* Two verdicts on candidates of one item wait for each other's row: the database ends one of them.
AbortDeadlock(w) ==
    /\ handler[w].pc = "decide"
    /\ \E v \in Workers \ {w} : handler[v].pc = "decide"
    /\ Becomes(w, AtRest)
    /\ UNCHANGED <<pairItem, decision, notified, order, open, shown, history, failures>>

-----------------------------------------------------------------------------
PairNext ==
    \/ \E c \in Candidates : SelectCandidate(c)
    \/ RejectItem \/ ExpireActions \/ ChangeOrder
    \/ \E w \in Workers :
         \/ \E resend \in BOOLEAN : PickPair(w, resend)
         \/ CreateActions(w) \/ RecordSent(w) \/ \E a \in Chats : Deliver(w, a)
         \/ \E a \in Chats, c \in Candidates, v \in Verdicts : PressButton(w, a, c, v)
         \/ RecordVerdict(w) \/ Withdraw(w)
         \/ \E to \in Verdicts : ReadStage(w, to)
         \/ TagOrders(w) \/ HandlerDies(w) \/ AbortDeadlock(w)

PairSpec == PairInit /\ [][PairNext]_pairVars

-----------------------------------------------------------------------------
\* Items, candidates and handlers keep their types, and an item has a chosen pair exactly when it is selected.
PairTypeOK ==
    /\ pairItem \in [review : {"pending_review", "no_match", "ai_wrong", "selected_duplicate"},
                 chosen : Candidates \cup {NoCandidate}]
    /\ pairItem.review = "selected_duplicate" <=> pairItem.chosen # NoCandidate
    /\ decision \in [Candidates -> {"pending", "superseded"} \cup Verdicts] /\ notified \subseteq Candidates
    /\ order \in [tag : Tags, waiting : BOOLEAN] /\ lotTag \in Tags
    /\ open \subseteq Chats \X Candidates /\ shown \subseteq Chats \X Candidates
    /\ handler \in [Workers -> Handler]
    /\ early \in BOOLEAN /\ late \in BOOLEAN /\ failures \in 0 .. MaxFailures

\* One verdict per order: however often pairs are picked, sent and answered, no second one of its candidates
\* is decided ("the first answer settles it for everyone", support_compare.py:634).
OneVerdict == \A c, d \in Candidates : decision[c] \in Verdicts /\ decision[d] \in Verdicts => c = d

\* A verdict is never changed by a later or a simultaneous answer from another chat.
VerdictStands == [][\A c \in Candidates : decision[c] \in Verdicts => decision'[c] = decision[c]]_pairVars

\* The lot tags an order as a duplicate only on a person's verdict, though the stage is read before the order
\* is locked and the item may be changed in between (execute_support_duplicate_decision, tag_lot_orders).
LotTagHasVerdict == lotTag = "duplicate" => \E c \in Candidates : decision[c] = "duplicate"

\* The pair Support has chosen can still be answered, unless a verdict came in before its pair counted as
\* sent ("Once the pair was sent to Telegram the choice is frozen", support_review_api.py:47).
ChosenPairIsOpen ==
    ~early /\ pairItem.review = "selected_duplicate" => decision[pairItem.chosen] # "superseded"

\* Once a pair is settled and no handler or process death is to blame, no chat still has live buttons for it
\* but those of a send that had checked the pair before the verdict.
SettledPairIsWithdrawn ==
    failures = 0 /\ ~late /\ (\A w \in Workers : handler[w].pc = "idle") =>
        \A a \in Chats, c \in Candidates : decision[c] \in Verdicts => <<a, c>> \notin open
=============================================================================
