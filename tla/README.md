# Tacahu order operations, in TLA+

Tacahu (`src/app`, FastAPI + SQLAlchemy/PostgreSQL + Celery/Redis) runs the work of a design studio
on orders that belong to an external site, *Printerval*. It copies Printerval's jobs, compares their
pictures with older orders to find duplicates, gives them to Designers, pushes results and statuses
back, keeps both sides in step by periodic syncs, and pays the Designers. Nothing makes two sides
change together: every write to Printerval and every Telegram message is a call that may fail, be
lost or come late, every read is applied after it was made, and several processes (two web workers,
a prefork and a solo Celery worker, beat, comparison agents on other machines) do this at once. That
is where the system is hard, and what the modules below are about.

Run anything here with `tlc -config X.cfg M` and `tlapm MProofs.tla`; `PROJECT.json` lists the runs,
the lines of the source each definition stands for, a mutation that breaks each property, the
hazards and the theorems.

## 1. Inventory

| Component (source under `src/app` if not said) | State | Operations | Hard part | Modules |
|---|---|---|---|---|
| Order state machine (`domain/state_machine.py`, `application/order_transitions.py`) | `orders.state` | `apply_transition` | routes that write the state past the table | `OrderStates` |
| Review and Fix (`designer_tasks.py`, `orders_api.py`, `workers/assignment_sync_tasks.py`, `result_images.py`) | order row, result images, dead letters, queue `assignment` | submit, start, release a Fix, PATCH a state, push images and status | stale tasks, retries, partial uploads | `FixReview` |
| Fix disputes (`fix_dispute.py`) | `orders.fix_dispute` | submit, retry, send, observe | filed but unanswered, stale version at commit | `FixDispute`, `FixReview` |
| Template confirmation (`fix_template_confirm.py`) | dead letters, `fix_template_confirm` | ask, answer | answers that belong to an older push | `FixReview`, `FixConversation` |
| Status sync (`status_sync.py`) | - | read the lists of Printerval, apply them order by order | rows that are old when applied | `FixReview`, `Intake` |
| Platform sync lease (`status_sync.py`) | `platform_sync_states`, heartbeat thread | claim, beat, finish, watchdog, reset | two holders, a lease nobody frees | `SyncLease` |
| Sync jobs (`sync_jobs.py`, `sync_jobs_api.py`) | `sync_jobs` | request, dispatch, run, beat, watchdog | racing requests, double dispatch, late workers | `SyncJob` |
| Idempotent operations (`operations.py`) | `operations`, one row per key | `run_idempotent` | races and repeats, failures inside the command | `IdempotentOps` |
| Crawl and import (`crawl.py`, `crawl_tasks.py`, `orders_api.py`) | orders, assets, dead letters, claims | discover, claim, import, scan, refresh, scrape a gallery | retries of imports beside other writers of the row | `Intake` |
| Support worker queue (`support_worker.py`) and agent (`support_compare_image/dup-compare/agent.py`) | jobs, items, devices, leases, image pool | claim, beat, pull the pool, submit, complete, fail, cancel | expired leases, late answers, stale pools | `CompareQueue`, `CompareRegister` |
| Support compare and review (`support_compare.py`, `support_review_api.py`, `telegram_api.py`) | item, candidates, Telegram action logs | choose, send, answer, withdraw, tag a lot | two Supports at once, messages already sent | `PairReview` |
| Duplicate board, Support take and return, leases of work (`duplicate_board.py`, `support_take.py`, `support_return.py`, `processing_leases.py`, `assignment_commands.py`) | tag, domain, assignments, lease of an order | tag, drag, take, return, assign, revoke, work | commands of three roles in any order, unlocked forms | `WorkBoard` |
| Printerval assignment requests (`printerval_assignment_requests.py`, `assignment_sync.py`) | request rows, `orders.printerval_status` | create, execute, alert, fail when stuck | half done writes, dead workers | `AssignmentRequests` |
| Printerval adapters (`adapters/printerval/*`) | session cookie, browser | write a Designer or a status over HTTP, then in a browser | what an answer proves | `PrintervalWrites` |
| Telegram bot (`telegram_api.py`, `telegram_service.py`, `telegram_tasks.py`) | action logs, conversations | Fix cards, prompts, replies, deadline alerts | several Admins, old buttons, late replies | `FixConversation`, `PairReview` |
| Payments and finance (`payments.py`, `accountant_api.py`, `finance_api.py`) | `paid`, batches, items, rates | pay chosen, pay a Designer's balance, cancel, reprice, backfill | two payers, amounts read before they change | `Payouts` |
| Allocation (`allocation.py`) | batches, drafts | - | - | dead code |
| Users and access, sheets and backup, web client, image similarity | - | single requests, I/O, user interface | - | not modelled |

How they interact. A command of the web client or of the bot saves the order and queues a task; the
assignment worker takes tasks one at a time (`--pool=solo`), checks that the order is still where
the command left it, writes to Printerval and saves the order again. Syncs and crawls run in other
processes, read whole queues of Printerval and apply them order by order. New orders are frozen into
comparison jobs, which agents lease; Support sends likely duplicates to Telegram and tags the lot by
the verdicts; tagged orders go to the board, the others to in-house Designers. Beat runs the
watchdogs (each minute), the deadline scan and the syncs. All share the order row, whose optimistic
version (`models.py:398-402`) refuses a commit on a row that was saved meanwhile; tasks, rows in
memory, forms and messages are the stale state everything has to survive.

What makes each part correct:

- *Review and Fix*: a submission reaches Printerval or somebody is told; Review never precedes the
  images; a Fix QC opened is counted once and worked on only after it was released; a dispute is
  filed once per round, and ends.
- *Lease, jobs, ledger*: a lost lease stays lost and an abandoned one is freed; one active job per
  scope, and it ends; answers stand on committed writes and a command takes effect once.
- *Intake*: a finished import left details or an alert, a file is recorded once, no list takes
  pictures away.
- *Comparison*: until it is returned, an order is compared once and never with its own lot; work is
  taken up until it ends.
- *Verdicts*: one per order, and no duplicate tag without one; settled pairs disappear from chats.
- *Board*: the tag and the board agree, one Trello Designer holds a card, a lost card's lease ends.
- *Requests*: success means both parts are on Printerval; failures are announced; all end.
- *Fix cards*: a card releases its Fix once, a late Fix is reported at most once.
- *Payments*: one history entry per payment, for what was transferred; the pages agree with it.

## 2. Modules

`OrderStates`, `FixDispute` and `PrintervalWrites` hold operators only. `FixReview` EXTENDS the
first two, `WorkBoard` the first, `AssignmentRequests` the third. `Intake` EXTENDS `IdempotentOps`
and is a composition: its crawl cycles are the callers of the ledger. `CompareQueue` instantiates
`CompareRegister`, its abstract specification. The other machines share no row and stand alone.
`...Proofs` modules extend the module they are about; `MCFixReview`, `MCIntake` and
`MCFixConversation` add what only model checking needs.

**FixReview**: one order between Tacahu and Printerval. Variables: the order row (`order`;
`released` is a history variable), its images (`attached`, `pushed`), dead letters (`failed` for
pushes given up on, `questions` for open `template_confirm` alerts), the assignment queue with its
worker (`tasks`), the rows the syncs have read (`syncs`), and, external, the job on Printerval
(`job`). A route and the `delay()` it ends with are one action (`SubmitResult`, `StartTask`,
`PatchState`, `ApproveFix`, `SubmitDispute`, `RetryDispute`, `ConfirmTemplate`, `Pay`).
`SubmitWithoutImage` is the submission whose images are refused at the end: `run_idempotent` records
the failure in the same session and so commits the move made before. The worker is a program counter
per task: `StartPush`, `StoreImage`/`CommitImage` per image, `CheckStatus`, `SendReview` or
`RefuseForTemplate`, `RecordReview`; `FailPush` may strike at any of them, before or after
Printerval did what it was asked, `Crash` loses the task; `StartDispute` to `GiveUpDispute`
likewise. What is kept in memory across a call (`todo`, `row`, `dirty`) is state of the task. A sync
is `ReadRow`, later `ApplyRow` or `DropRow`. The grace window (`GraceExpires`) may end at any
moment; `outlived` remembers whether it ended under a push of the submission or while a sync held a
row in Fix. `Features` switches parts of the environment on: some properties are true of the code
only without some of them, which section 4 lists.

**SyncLease, SyncJob, IdempotentOps**: the claim and the watchdog lock the lease row and are one
step, the end of a run reads and writes it unlocked and is two. Requests of one scope look, insert
under the partial unique index and dispatch; when `delay()` raises, the API runs the job in a
thread, so a job may have two workers. In the ledger `fn` runs between `Insert` or `Reclaim` and
`Complete` or `Raise`; `calm` is FALSE once a command raised, died or outlived `PENDING_LEASE`.

**Intake**: how one order gets its row and its details. Cycles discover, claim the batch (an
`INSERT` may be waiting to commit), and import through the ledger (`op` is the row of
`import_order:<id>`); beside them run the scan, the detail refresh, the status sync's list and the
gallery scrape (`Sessions`: each reads into `copy`, later commits, and is `stale` when somebody else
committed in between), and people edit. `row` has the state, whether details came, and how rich its
gallery is; `assets` are the records of its file, `letters` the committed DeadLetters. `foreign`
cycles belong to another platform. What discovery writes onto the row of a known order stays
uncommitted in the session (`held`; `autoflush=False`) until that session commits for whatever
reason (`Flush`: a claim, an import, the ledger, `HeldCommits` for another order) or is rolled back
(`RollBack`, `LosesOtherKey`, `HeldIsLost`); `rolled` are the cycles whose rollback came between
reading the order and importing it.

**CompareQueue / CompareRegister**: `work` are comparison and search jobs, `item` the results,
`rowAt` the image pool with the dates agents page by, `agent` each machine with its token, cached
rows and position. Actions are the endpoints (claim, pool, heartbeat, result, complete, fail), the
Admin's (create, cancel, grant, revoke), and faults (`CallFails`: the server did it, or not, and the
answer is lost; `RollBack`; `Crash`; `LeaseExpires`). Completing a job promotes any part of its
results (`CommitComplete`), since the failure of a row is swallowed. Support tags orders (`Tag`),
cards come back (`ComeBack`), and `ReturnToUnchecked` retires an order's results while its row stays
in the pool (`again`). `CompareRegister` knows only which order was compared in which batch, which
were retired, and which are published.

**PairReview**: one compared order, its candidates, the buttons (`open`: pending action logs;
`shown`: messages delivered), and two web processes, each in the middle of picking, creating,
delivering, recording, withdrawing, or tagging. A handler is cut where it commits or calls Telegram;
it may die there, or lose a deadlock (`AbortDeadlock`).

**WorkBoard**: who works on one order. `assigned` are its active assignments, `lease` the processing
lease, `edit` an assignment form that was read without a lock (`LoadEdit` and `SaveEdit` for
`api_printerval_assignment`, `LoadAssign` and `SaveAssign` for the assign routes), `asked` the
statuses requests under way will bring. Tags, domains, drags, take and return, the Designer's own
commands and the write-back of requests are one action each, all under `lock_order_for_command`.

**AssignmentRequests / PrintervalWrites**: the requests of one order, the solo worker, the plain
assignment (`Pair`), the watchdog. A write is the call of `PrintervalWrites`, step by step: find,
send and verify over HTTP, open, save and check in the browser, retried while the failure is
transient; `OthersWrite` is a person or another task on Printerval. `mirror` is
`orders.printerval_status`, which others write as well: forms and pushes (`FormWrites`), and every
sync, crawl or import, which reads the row (`SyncReads`, into `held`) and applies it later
(`SyncApplies`), or takes an order it missed for cancelled (`SyncMisses`). `touched` is history: one
side was written and the other was not, or a row was applied that Printerval had overtaken, and no
sync has applied a fresh row since while nothing was being written.

**FixConversation**: the Telegram card of a Fix (`pending`: which buttons and prompts are live),
sessions that read, call, then commit, and may be refused by the order's version; `NewFix`,
`ObserveDispute`, `SubmitResult` and the web's `ApproveFix` move the order under them;
`ScanDeadlines` is the read of the periodic scan, `MarkOverdue` the commit of its mark, and
`AlertOverdue` the message that follows and may reach nobody. `marks`, `due` and `reports` count
them for the release at hand.

**Payouts**: who is credited (`Credit` follows assignments and submissions as `get_finance_stats`
does), both ways to pay (`PayChosen` for orders chosen on the page; `OpenPopup`, `ReadUnpaid`,
`CheckPending`, `PayRead` for the balance of a Designer), cancellation, rates, domains, assignments
and submissions in between, and `Backfill`, the migration that runs before serving. Only ids are
kept between the check and `pay_orders`, which locks and reads the rows again (`PayRead`): a
transfer is refused when one of its orders is paid or their total is another (`Agrees`), an Admin's
payment skips what is paid. The platform's rates are read before the lock. `moved` are the orders
assigned or submitted since the check.

## 3. What the runs check

| Run | Distinct states | Instance | Shows |
|---|---|---|---|
| `FixReview_push` | 452,201 | 2 submissions, 2 rounds, 2 tasks, 1 retry, both syncs, no optional feature | no submission is lost without anybody being told, each Fix is counted once, Review follows its images; every push settles: `SubmissionNeverSilentlyLost`, `FixCountedOnce`, `ReviewCarriesItsImages`, `SubmissionSettles` |
| `FixReview_moves` | 1,258,473 | every feature but disputes, 2 submissions, 2 rounds, 2 tasks | a Fix that is worked on was released in that very round: `WorkedFixIsReleased` |
| `FixReview_dispute` | 705,829 | disputes and the end of the grace window at any moment, 2 submissions, 2 rounds, 1 task, 1 retry | a round is disputed once, a queued dispute has a task and ends, an old Fix is counted again only after the Admins were told, but for a window that ends under the push: `DisputedOnce`, `QueuedDisputeHasTask`, `RecountOnlyAfterAlert`, `DisputeSettles` |
| `SyncLease_runs` | 114,037 | 3 runs, every fault | a lost lease stays lost, abandoned leases are freed, a robbed run finds out: `LossIsFinal`, `AbandonedLeaseIsFreed`, `ReclaimedRunFindsOut` |
| `SyncJob_scope` | 247,116 | 2 requests, each started by Celery and locally | one active job, ended stays ended; every job ends: `OneActiveJob`, `EndedStaysEnded`, `JobEnds` |
| `Intake_orders` | 3,538,769 | 2 cycles of any platform, 3 other sessions, 2 edits, every fault | answers stand, one effect, a settled import is answered, one file, galleries stay rich: `AnswersStand`, `EffectOnce`, `SettledImportIsAnswered`, `FileImportedOnce`, `RichGalleryStays` |
| `CompareQueue_work` | 544,246 | 1 order, 2 machines, 2 jobs, 1 search, a restart, a revocation, a fault or a tag with a return | compared once, not with its own batch, refinement of `CompareRegister`; work ends: `ComparedOnce`, `BatchIsNotComparedWithItself`, `ImplementsRegister`, `WorkEnds` |
| `WorkBoard_board` | 240,944 | 1 in-house and 2 Trello Designers, 2 active rows, one form | tag and board agree, one Trello holder; the lease of a lost card runs out: `CardIsTagged`, `OneTrelloHolder`, `LeaseOfTakenCardRunsOut` |
| `AssignmentRequests_outcomes` | 1,099,337 | 2 requests, one with a Designer, 2 tries, plain assignments, 1 sync, 1 fault or write by others | honest outcomes, announced failures, a true mirror; requests end: `OutcomeIsHonest`, `FailureIsAnnounced`, `MirrorIsTrue`, `RequestEnds` |
| `PairReview_pairs` | 3,031,474 | 2 candidates, 2 Supports, 2 web workers, 1 fault | one verdict, no tag without it, the choice stays open, settled pairs are withdrawn: `OneVerdict`, `LotTagHasVerdict`, `ChosenPairIsOpen`, `SettledPairIsWithdrawn` |
| `FixConversation_cards` | 3,391,643 | 2 Admins, 2 sessions, 1 card, 1 dispute prompt | one release per card, one mark per release and at most one report of it: `OneReleasePerCard`, `OneAlertPerRelease` |
| `Payouts_history` | 2,416,324 | 2 orders, 2 Designers, 1 payment under way beside all others at once, 2 rates, 3 changes | one entry per payment, pages match history, the transfer is what is recorded: `RecordedOncePerPayment`, `PagesMatchHistory`, `TransferIsRecorded` |

Bounds and why they are enough. Two tasks are the least that lets an older push run after a newer
command; the worker is single. A second submission after a Fix, and a second Fix after that, are
where a stale task, row and approval meet; a third repeats them. `FixReview_dispute` needs the
second round (with one, a recount of a Fix nobody had counted looks like one of an old Fix) and has
one task at a time for it; with two tasks or three rounds its safety properties hold as well (1.8
and 7.8 million states), too many to check liveness on, and two of them are proved for any number of
tasks. One retry stands for the three of `REVIEW_SYNC_RETRY_DELAYS`: an attempt knows only whether
it is the first and whether it is the last. In `FixReview_moves` every feature multiplies the
states, so its pushes get no retry. `MaxCount` is where a double count shows. Three runs let a lease
be lost, taken and lost again. Two cycles beside three sessions let an import run, be reclaimed, and
meet every other writer of the row; the fourth, the status sync's list, does what a scan may do that
reads no details. One order with two jobs is the least in which it could be compared twice, also
after it was returned; two machines let one take the other's lease. What needs two orders, a batch
promoted in part or returned in part, is covered by the proofs, which bound no number of them. A tag
counts against the faults. Two Trello Designers and an in-house
one are every pair of kinds of holder, two rows are what an unlocked form can add. Two requests are
an older and a newer one of an order; one sync that holds a row is enough to apply an old one, and
the proof is for any number. Two candidates and two chats make every race of verdicts. One
card suffices for what is said of cards, each on its own; two sessions are the concurrency of one
handler with any other. A payment locks or reads and then locks, so one that is cut in two, with any
number of whole ones (`PayChosen`) in between, makes the races. The `Max...` constants are guards of
the actions that create rows, faults or changes, and of nothing else. `FixConversation_cards` uses
the symmetry of Admins and of sessions, `Intake_orders` that of cycles, which no definition tells
apart, and both check no liveness.
`CHECK_DEADLOCK FALSE` stands where everything may be done and nobody asks for more.

Fairness. `FixReview`: `WF(Worker)`, since Celery keeps taking tasks and every call has a timeout;
none on commands, syncs, QC or time. `SyncLease`: beat runs the watchdog every minute, time passes
(`HeartbeatAges`), the thread of a live run keeps beating, and a run that finished its work reads
and writes the row; nothing makes the work itself end. `SyncJob`: time, watchdog, and a sync that
ends well or badly; nothing makes a task arrive or a worker survive. `CompareQueue`: each machine
goes on (`Step`; its calls have timeouts) and leases expire; `WorkEnds` excludes the case that no
machine holds a token (`Unattended`). `WorkBoard`: only time (`LeaseAges`). `AssignmentRequests`:
only the watchdog, which beat runs every minute; a queued task may never arrive, and the worker may
stop anywhere.

## 4. What does not hold

Each of these was met while modelling; the properties above say under which condition they hold.

Review and Fix:
- `submit_result` expects `fix_approved_by_admin` whenever the order was ever in Fix
  (`designer_tasks.py:480`). A rejected dispute or an answered template question clears it before
  the next submission; its push then skips itself on the first attempt and tells nobody. The PATCH
  route had the same mistake and was corrected (`orders_api.py:2748`). `SubmissionNeverSilentlyLost`
  is therefore checked and proved without disputes, template questions, payments, PATCH, refused
  images and crashes. With a crash or a broker that is down the push is gone: the route logs the
  exception and nothing re-queues it. Paying an order under its queued push makes the first attempt
  skip itself (`payments.py:136`).
- `_is_new_fix` protects only QC_PENDING (`status_sync.py:277`): the resubmission of a paid order
  waits in DONE and its old Fix is counted again; so is a Fix that was started, one an Admin patched
  the state of, and one whose grace window ended. `FixCountedOnce` is checked and proved without
  payments, starts, PATCH and the end of the window.
- The comment at `status_sync.py:248` (a failed push "has alerted Admin by then") takes 30 minutes
  to be longer than a push. Four attempts of many calls of up to a minute each, 660 seconds between
  them and whatever waits in the solo worker's queue may exceed it, and the old Fix is then counted
  before any alert; so it is when a sync read it before the alert. `RecountOnlyAfterAlert` excludes
  windows that ended under the push, or while a sync held the row (`outlived`).
- The same comment leaves disputes out. An order a dispute brought back to Review has no push that
  could fail, and a Fix QC opens while a dispute is under way may be counted first when the order is
  in Review again. `RecountOnlyAfterAlert` therefore speaks, for disputed orders, of Fixes that were
  counted before and of orders a submission brought to Review (`FixIsOld`).
- A paid Fix that was started is in IN_PROGRESS, from which DONE is not allowed
  (`state_machine.py:19`), so it cannot be submitted.
- A submission without a usable image is refused after the order was moved
  (`designer_tasks.py:457`), and the ledger commits the move (`operations.py:116`).
- A submission has arrived (`Arrived`) only when its image is pushed and Printerval has the job in
  Review or beyond, or has opened a Fix since. Review may be sent between the last check and the
  call although a Fix was just released (`assignment_sync_tasks.py:278`); `observe` does not compare
  the round of a rejection with the order's (`fix_dispute.py:249`); a row read in Review before a
  dispute moves the disputed order out of Fix (`status_sync.py:706`). An image may be stored twice
  after a lost answer.

Leases, jobs, ledger:
- A sync job the watchdog failed turns `succeeded` when its worker finishes late
  (`sync_jobs.py:295`). The unlocked finish of an old run may close the lease of its successor
  (`status_sync.py:1084`).
- After a failed command, or past `PENDING_LEASE`, two callers may both run it (`operations.py:96`).

Intake:
- A failing refresh points to `dead_letters`, but its DeadLetter is never committed; a failing fast
  scan writes none. `crawl_and_claim` calls itself the beat entry point and is not scheduled.
- A cycle that loses the race of an INSERT in `run_idempotent` rolls its session back
  (`operations.py:96`). Its rows reload when next used, with whatever version they have by then, and
  the import does not look again whether the details came: it may record the file a second time.
  `FileImportedOnce` excludes that (`rolled`).
- What discovery writes onto the row of a known order (`crawl.py:111-134`) stays uncommitted until
  its session commits something, and is lost when that never happens or is rolled back.
- An import takes orders of every platform with one platform's session; a foreign cycle completes
  the import as failed, and that answer is replayed for ever. A refresh picks the "latest" asset by
  a random uuid (`crawl.py:594`), so it may record a file again, against `crawl.py:568`.
- A claimed batch that failed is replayed as failed. A gallery sync or the extension may replace a
  rich gallery by one image; `RichGalleryStays` is about the lists.
- Deleting orders (`orders_api.py:3511`) keeps the rows of their operations: a recreated order
  replays `completed` for its import (`crawl.py:709`) and gets neither details nor an alert.
  Deletion is not an action of `Intake`, and its properties are about orders that are not deleted.

Comparison and verdicts:
- Orders compared by a job that failed or was cancelled are neither promoted nor compared again,
  unless Support returns them (`docs/tacahu-ops-core/operations.md:78`, `dup-compare/README.md:47`).
- A row whose promotion fails, or whose order is gone (`support_worker.py:638-644`), stays out of
  the pool: its job is completed, and only running jobs promote.
- `ReturnToUnchecked` retires the results and leaves the row in the pool. The agent leaves out the
  own row of the order it compares, but two orders of one batch that were both returned and share
  their next job find each other, against `support_worker.py:618` ("orders of one batch never match
  each other"). `BatchIsNotComparedWithItself` excludes returned orders (`again`).
- A verdict that arrives before `telegram_notified_at` is written unfreezes the choice, and the next
  chosen pair is born superseded (against `support_review_api.py:47`); `ChosenPairIsOpen` excludes
  it (`early`).
- A resend that checked the pair before the verdict leaves live buttons (`late`).

Board and requests:
- Support may tag an order an Admin assigned: the assign routes leave it WAITING. Tagging it
  `non_duplicate` or `uncheck` does not cancel Trello assignments.
- Forms race, and a second active row is inserted (`orders_api.py:1360`, `:2107`, `:2229`);
  `OneTrelloHolder` excludes an order after that (`raced`). A request still queued may set its
  Designer after a revoke.
- The plain assignment caches a failed result for ever and does not write the mirror
  (`assignment_sync.py`). A row read before a request wrote may be applied after it
  (`status_sync.py:438`, `:664`, `:730`); a sync that misses an order takes it for cancelled; the
  status form writes the mirror before any push (`orders_api.py:1515`). In all these cases the
  mirror is false although no request failed; `MirrorIsTrue` excludes them until a sync has applied
  a row nothing overtook (`touched`).
- `record_write_failure` swallows the exception of its own commit (`printerval_alerts.py:50-52`): an
  alert may be lost though the worker lives, which the model shows as a death at `alert`.
- `page.loc(` (`playwright_adapter.py:247`) raises AttributeError at the login form, so the browser
  fallback fails whenever it has to log in. The HTTP client reports a Designer as set when its
  verification finds no row. An exception after an applied write is reported as transient.

Fix cards:
- The action logs of a card are shared by all Admins and not locked; two sessions at the same moment
  may both release its Fix (`raced`; against `telegram_api.py:389`). Neither the conversation nor
  the web's `approve-fix` looks at the state of the order: a late note pulls a submitted or disputed
  order back to Fix.
- A late Fix may be marked and never reported. The scan commits `deadline_overdue_notified_at` and
  then calls Telegram (`telegram_tasks.py:157-160`), which may fail, find no Admin chat
  (`telegram_service.py:938`) or never be called; no later scan looks at the order again, against
  "Alert each active order deadline once" (`:136`). `OneAlertPerRelease` claims at most one report.
  The report may also come after the Fix was submitted.

Payments:
- `pay_orders` locks the orders and computes their credit anew, but does not look whose they are
  now: an order that was assigned or submitted after the check is recorded for whoever is credited
  then, not for the Designer who got the transfer, as long as the total agrees (`moved`). The
  docstring says that an order "no longer this Designer's" refuses the whole payment
  (`accountant_api.py:205-209`). Rates of a platform and the domain of a
  paid order change amounts that the history has recorded otherwise (`repriced`; against
  `payments.py:3-5`). Cancelling a payment keeps the batch, so paying again records a second one:
  `RecordedOncePerPayment` counts cancellations.
- `backfill_payment_batches` beside a payment could record it twice; the migration runs before
  serving.

## 5. What is proved

Every invariant and every action property of the runs is a theorem; so are two refinements
(`CompareQueue` implements `CompareRegister`, `Intake` implements `IdempotentOps`). A theorem holds
for every value of the constants that satisfies the ASSUME of the module: any number of orders,
tasks, retries, sessions and faults. Four theorems of `FixReview` assume in addition which optional
`Features` of the environment are off, as section 4 says; for each feature they exclude TLC shows a
behaviour that breaks the property, so the hypotheses are what the code needs, not what the proof
needs. For `RecountOnlyAfterAlert` disputes are the exception: the theorem excludes them, the run
has them.

Each theorem follows from an inductive invariant: `Init => IInv`, `IInv /\ [Next]_vars => IInv'`,
and `IInv` implies the property. The new parts of an invariant were checked by TLC on the instance
of the run before they were proved. A proof about a step has one step per action; what an action
does to one part of the state (a slot of the queue, the row, one order) is a lemma.

`FixReviewProofs` (only the constants' assumption where nothing else is said):
- `ColumnsKeepTheirTypes`, `ApprovedFixWasReleased`, `PushedIsStored`.
- `ReviewFollowsItsImages` speaks of tasks about to send and is not inductive: it needs to know,
  from the moment the missing images were read, that everything up to the submission is pushed or
  still to do (`KeepsTrack`). The proof rests on `Grows`: no submission, push or stored image is
  taken back, so a task nobody touched keeps track.
- `DisputeIsFiledOnce`, in every environment: the worker runs one task (`OneAtATime`), and a task
  about to file has seen the job undisputed, which nothing else changes before it files
  (`FiledInv`).
- `QueuedDisputeIsSent`, when no worker dies: a dispute is never of a round to come, and every step
  but the two commands that queue a task leaves a dispute that is queued as it was (`Follows`).
- `FixIsCountedOnce`, without payments, PATCH, starts and the end of the window (`CycleOnly`), with
  disputes, lost answers and crashes: in Review an order has a Fix opened since only while that Fix
  is not counted (`CountInv`).
- `SubmissionIsNeverLost` and `RecountFollowsAlert`, for submissions, pushes, releases, syncs,
  starts, the end of the window and, the second, payments (`PlainOnly`): a submission in Review that
  has not arrived has a task the worker will not drop as obsolete, or an alert (`PushInv`); past a
  window that nothing outlived no task is left, and whoever reads the old Fix reads it after the
  alert (`GraceInv`); a paid order that had a Fix is not in Review again (`Closed`).

`SyncProofs`, leases and jobs: `LossCannotBeUndone` (an action property), because a token in a
running row is a run that has claimed, and a run claims once; `LeaseHasAHolder`,
`LoserHoldsNothing`. `ScopeHasOneActiveJob`, `EndIsFinal`: a job exists only for a request that
inserted it and a worker only for a job that exists (`RowsFollowRequests`).

`IntakeProofs`, the ledger and the intake: `AnswersAlwaysStand` and `RaceHasOneWinner`; the last
needs `Race`: while `calm`, the row tells how far its one owner is. `ImportIsACommand` shows that
Intake implements `IdempotentOps`, so `ImportAnswersStand` and `ImportHasOneWinner` are inherited.
`SettledImportsAreAnswered`, `FileIsImportedOnce` and `PicturesStay` follow from `Facts`: a session
that is not stale has the row as it is (`Current`), and a file is recorded only with the details
(`FileHasDetail`). What a discovery holds of the gallery was made from the gallery that is stored,
as long as its session is not stale (`Current`), so a late commit takes no pictures away.

`SupportProofs`, the comparison queue and the verdicts:
- `QueueImplementsRegister` maps results, published batches and the pool to `CompareRegister`;
  `EveryOrderComparedOnce`, `BatchesAreNotMatchedWithThemselves` and `PoolTakesClosedBatches` (an
  order is in the pool only when its job is closed) beside it, the last two of orders that were not
  returned. The invariant says that an order to do is assigned (`TodoIsAssigned`), that a job being
  completed is locked (`CompletingIsLocked`), results belong to their job (`ResultsAreOwn`), active
  jobs are disjoint (`ActiveIsExclusive`), one result per order (`OneResult`), and that the pool
  holds results of completed jobs and of orders that were returned, and nothing else
  (`PoolIsCompleted`).
- `FirstAnswerSettles`, `VerdictIsFinal`, `DuplicateHasVerdict`, `ChoiceStaysOpen`. A handler that
  decides holds the lock of an open pair (`DecidesAnOpenPair`), a verdict settles the item
  (`VerdictSettles`), superseded pairs have one to thank (`SupersededByVerdict`), a tag being
  written follows a verdict (`TagsAVerdict`), and what counts as sent is what was chosen
  (`VerdictOnTheChosen`).
- `SettledPairsAreWithdrawn`: live buttons of a decided pair have a handler that is about to take
  them away (`WithdrawnSoon`).

`PayoutsProofs`:
- `PaymentsAreRecordedOnce`: a payment reads its orders under their locks and pays what is unpaid
  then, so each entry is a new payment.
- `PagesAgreeWithHistory` and `TransfersAreRecorded`: a payment has the rates of the platform unless
  these changed, and its orders are still credited to whom it was checked for unless they moved
  (`Reads`), so a paid order costs what its last entry says (`PaidInv`). Both speak of sums;
  the proof never opens the fold and shows that the summed functions are equal.

`WorkBoardProofs`: `CardsAreTagged`; `CardHasOneTrelloHolder`, because under a lock nobody is added
behind a Trello Designer (`OnlyNewestIsTrello`).

`AssignmentRequestsProofs`: `SuccessWasReadBack`, `FailuresAreAnnounced`,
`MirrorFollowsPrinterval`. One request runs (`OneRuns`); a status write that ended well has read the
status back (`StatusWasRead`), unlike a Designer's, whose verification may find no row; and while
nothing touched either side since, Printerval has what was read back (`StatusStands`). A sync makes
the mirror true, or remembers that it was overtaken (`SyncStep`).

`FixConversationProofs`: `CardReleasesOnce`: what is pending of a card is one button, one prompt or
the two answers to one question (`OneQuestion`), one session handles it (`OneHandler`), and once the
card released its Fix nothing that could release is left (`ReleaseWasLast`).
`ReleaseIsReportedOnce`: a scan that may still commit has read an order that was not marked
(`ScansAreFresh`), so a release has one mark, and every mark owes at most one report.

Only model-checked: the eight liveness properties (`SubmissionSettles`, `DisputeSettles`,
`AbandonedLeaseIsFreed`, `ReclaimedRunFindsOut`, `JobEnds`, `WorkEnds`, `LeaseOfTakenCardRunsOut`,
`RequestEnds`), since fairness and ENABLED are beyond the provers here, and
`RecountOnlyAfterAlert` with disputes.

## 6. Abstractions

- `FixReview`: the 1 to 3 mockups of one submission are one image (attached and committed together).
  A date is what `_is_new_fix` tells of it: within the grace window or not, with a newer `fix_open`
  in the chat or not. Notes, Drive links, texts and the `cancelled`
  status are left out.
- `Intake`: the fields of a list row are data; the order has one source file; no cycle sleeps a
  whole `PENDING_LEASE` between the SELECT and the INSERT of `run_idempotent`; a refresh may or may
  not add a record.
- `CompareQueue`: vectors and scores are data; a machine caches the pool as a set of rows with
  dates. Completing reads the results and writes the pool in one step: a return between the two
  leaves what a return after it leaves.
- `WorkBoard`: one order; a request is the status it will bring; its outcome is a choice.
- `AssignmentRequests`: a missing browser or password is a browser that fails at once; a timeout
  that is applied late is `OthersWrite`; a sync that misses an order learns and applies that in one
  step; all requests name one Designer, the plain assignment
  another.
- `PairReview`: chats of Admins exist in the module and are not instantiated, since Support and
  Admin buttons differ only in who gets them.
- `FixConversation`: deleting a message may fail, so buttons are live as long as their log is
  pending; conversations that differ only in wording are one; deadlines outside a released Fix are
  not kept.
- `Payouts`: amounts are small numbers; a day, a note and an export are left out. Computing the
  credit of the locked orders and committing is one step: an assignment row inserted in between is
  one inserted after it.

## 7. Not modelled, and why

Parsing and paging of Printerval's pages, browser selectors and HTTP details are I/O: their outcomes
are choices of the actions. `allocation.py` and `sync_platform_order_statuses` are called by nothing
but tests. Lists, summaries, timelines and exports are queries. Account linking, notes, users, roles
and the password vault are single requests no second actor interferes with. Comparison requests from
Telegram create the same jobs as the web; the claim of a lot of new orders there is a note under an
advisory lock that nothing else reads. The web client's queue of gallery scrapes lives in one tab: a
reload loses the order in flight and a second trigger counts past its total, which concerns the
progress bar and not the orders. The image similarity is a function without state.

## 8. What is left

Further proofs: `RecountOnlyAfterAlert` with disputes, which needs to know for every task and every
row a sync has read whether it is older than the dispute. Further models: deletion of orders beside
a crawl, a run with several orders in one comparison job, a dispute beside template questions in one
instance of `FixReview`, and an abstract specification of the push and the verdict that `FixReview`
and `PairReview` implement.
