-------------------------- MODULE AssignmentRequests --------------------------
(***************************************************************************)
(* The requests that carry a Designer and a status of one order to         *)
(* Printerval (printerval_assignment_requests.py), the task that runs them *)
(* one at a time on the assignment queue (assignment_sync_tasks.py), and   *)
(* the watchdog that ends those nobody runs any more. The lifecycle        *)
(* "unknown_outcome" counts as "failed". Every write is the call of        *)
(* PrintervalWrites, step by step, while people work on Printerval, the    *)
(* syncs apply the rows they have read, and forms write the order.         *)
(***************************************************************************)
EXTENDS PrintervalWrites, FiniteSets

CONSTANTS NumRequests,   \* bound of the requests of the order
          Asking,        \* those that ask for a Designer besides the status
          Syncs,         \* the syncs that may hold a row of the order at the same time
          MaxFaults      \* bound of crashes, of a broker that is down and of changes by others

ASSUME RequestConstants == NumRequests \in Nat \ {0} /\ Asking \subseteq 1 .. NumRequests /\ MaxFaults \in Nat

Requests == 1 .. NumRequests
Statuses == {"waiting", "doing"}
Mine == "asked"    \* the Designer the requests ask for
Other == "other"   \* anybody else, also the Designer of the plain assignment
Pair == NumRequests + 1

VARIABLES
    request,   \* the rows, each with its task
    worker,    \* what the solo worker runs: a request, Pair, or nothing (0)
    call,      \* the write it has under way
    remote,    \* the Designer and the status of the order on Printerval
    held,      \* the status in the row each sync has read and not applied
    touched,   \* the status was written around the requests, on one side only, and no sync set it right
    mirror,    \* Order.printerval_status
    paired,    \* how far the task of a plain assignment is
    faults

vars == <<request, worker, call, remote, held, touched, mirror, paired, faults>>

\* target: the status asked for; got, set: the Designer was not refuted, the status was read back;
\* told: the Admins heard of the failure, or the process that was about to say so died.
NoRequest == [life |-> "none", target |-> "waiting", queued |-> FALSE, pc |-> "none",
              got |-> FALSE, set |-> FALSE, watched |-> FALSE, told |-> FALSE]
NoCall == [Start(TRUE, 1) EXCEPT !.step = "failed"]

Init ==
    /\ request = [r \in Requests |-> NoRequest] /\ worker = 0
    /\ call = NoCall /\ remote = [designer |-> "none", status |-> "waiting"]
    /\ held = [s \in Syncs |-> "unread"] /\ touched = FALSE
    /\ mirror = "waiting" /\ paired = "no"
    /\ faults = 0

-----------------------------------------------------------------------------
Fault == faults < MaxFaults /\ faults' = faults + 1
Quiet == UNCHANGED faults
Update(r, row) == request' = [request EXCEPT ![r] = row]
Site == <<remote, held, touched>>
Order == <<Site, call, mirror, paired>>

\* The intent is committed before the task is queued: delay() may raise, and nobody runs it.
CreateRequest(r, target) ==
    /\ request[r].life = "none" /\ \A q \in 1 .. r - 1 : request[q].life # "none"
    /\ \E queued \in BOOLEAN :
         /\ Update(r, [NoRequest EXCEPT !.life = "pending", !.target = target,
                                       !.queued = queued])
         /\ IF queued THEN Quiet ELSE Fault
    /\ UNCHANGED Order /\ UNCHANGED worker

\* What a failed request had observed is not looked at again.
Ends(row, life) ==
    IF life = "succeeded" THEN [row EXCEPT !.life = life, !.pc = "none"]
    ELSE [row EXCEPT !.life = life, !.pc = "alert", !.got = FALSE, !.set = FALSE]
Freed(row) == IF row.pc = "none" THEN 0 ELSE worker

\* Without credentials it fails at once; a request the watchdog ended still runs.
StartRequest(r) ==
    /\ worker = 0 /\ request[r].queued
    /\ worker' = r
    /\ \/ /\ Update(r, [request[r] EXCEPT !.queued = FALSE,
                                          !.pc = IF r \in Asking THEN "designer" ELSE "status"])
          /\ call' = Start(TRUE, 1)
       \/ Update(r, [Ends(request[r], "failed") EXCEPT !.queued = FALSE]) /\ UNCHANGED call
    /\ UNCHANGED <<Site, mirror, paired>> /\ Quiet

Field == IF worker = Pair THEN paired ELSE request[worker].pc
Target == IF Field = "designer" THEN (IF worker = Pair THEN Other ELSE Mine)
          ELSE IF worker = Pair THEN "doing" ELSE request[worker].target
Writing == worker # 0 /\ Field \in {"designer", "status"}

Took(leads) ==
    \E lead \in leads : call' = lead.call /\ remote' = [remote EXCEPT ![Field] = lead.now]

WriteOverHttp ==
    /\ Writing /\ call.step \in HttpSteps
    /\ Took(HttpStep(call, Field, remote[Field], Target))
    /\ UNCHANGED <<request, worker, held, touched, mirror, paired>> /\ Quiet

WriteInBrowser ==
    /\ Writing /\ call.step \in BrowserSteps
    /\ Took(BrowserStep(call, remote[Field], Target))
    /\ UNCHANGED <<request, worker, held, touched, mirror, paired>> /\ Quiet

\* A Designer that failed does not stop the status; a name Printerval no longer offers ends the request.
DesignerIsSet(r) ==
    /\ worker = r /\ request[r].pc = "designer"
    /\ \/ /\ Over(call)
          /\ Update(r, [request[r] EXCEPT !.pc = "status", !.got = call.seen # "nothing"])
          /\ call' = Start(TRUE, 1)
       \/ call = Start(TRUE, 1) /\ Update(r, Ends(request[r], "failed")) /\ call' = NoCall
    /\ UNCHANGED <<Site, mirror, paired, worker>> /\ Quiet

StatusIsSet(r) ==
    /\ worker = r /\ request[r].pc = "status" /\ Over(call)
    /\ Update(r, IF call.step = "ok" THEN [request[r] EXCEPT !.pc = "record", !.set = call.seen = "target"]
                 ELSE Ends(request[r], "failed"))
    /\ call' = NoCall
    /\ UNCHANGED <<Site, mirror, paired, worker>> /\ Quiet

Outcome(r) == IF r \in Asking /\ ~request[r].got THEN "failed" ELSE "succeeded"

Bug_KeepsMirror(row) == mirror
Mirrored(row) == row.target

\* The order is read again under a lock and mirrors the status; then the request ends, one commit for both.
RecordRequest(r) ==
    /\ worker = r /\ request[r].pc = "record"
    /\ mirror' = Mirrored(request[r])
    /\ LET row == Ends(request[r], Outcome(r)) IN Update(r, row) /\ worker' = Freed(row)
    /\ UNCHANGED <<Site, call, paired>> /\ Quiet

\* An exception: what was not committed is rolled back, and a request still pending is failed.
Bug_OnlyLogged(row) == [Ends(row, IF row.life = "pending" THEN "failed" ELSE row.life) EXCEPT !.pc = "none"]
Raised(row) == Ends(row, "failed")

RequestRaises(r) ==
    /\ worker = r /\ request[r].pc \in {"designer", "status", "record"}
    /\ Update(r, Raised(request[r])) /\ worker' = Freed(Raised(request[r])) /\ call' = NoCall
    /\ UNCHANGED <<Site, mirror, paired>> /\ Quiet

\* _alert_admins, in a transaction of its own.
AlertAdmins(r) ==
    /\ worker = r /\ request[r].pc = "alert"
    /\ Update(r, [request[r] EXCEPT !.pc = "none", !.told = TRUE])
    /\ worker' = 0
    /\ UNCHANGED Order /\ Quiet

Died(row) == [row EXCEPT !.pc = "none", !.got = FALSE, !.set = FALSE, !.told = @ \/ row.pc = "alert"]

\* The task was acknowledged when it started: it does not run again.
WorkerDies ==
    /\ worker # 0 /\ Fault
    /\ IF worker = Pair THEN paired' = "no" /\ UNCHANGED request
       ELSE Update(worker, Died(request[worker])) /\ UNCHANGED paired
    /\ worker' = 0 /\ call' = NoCall
    /\ UNCHANGED <<Site, mirror>>

\* The older task of a plain assignment, by the same worker: in a browser, for one Designer after another,
\* mirrored nowhere, and the status only after the Designer.
StartPair ==
    /\ worker = 0 /\ paired = "no"
    /\ worker' = Pair /\ paired' = "designer" /\ call' = Start(FALSE, 1)
    /\ touched' = TRUE
    /\ UNCHANGED <<request, remote, held, mirror>> /\ Quiet

PairGoesOn ==
    /\ worker = Pair /\ Over(call)
    /\ IF paired = "designer" /\ call.step = "ok"
       THEN paired' = "status" /\ call' = Start(FALSE, 1) /\ UNCHANGED worker
       ELSE paired' = "no" /\ call' = NoCall /\ worker' = 0
    /\ UNCHANGED <<request, Site, mirror>> /\ Quiet

\* People, and other tasks, change the order on Printerval between any two steps of a write.
OthersWrite ==
    /\ Fault
    /\ remote' \in [designer : {"none", Mine, Other}, status : Statuses] \ {remote}
    /\ touched' = (touched \/ remote'.status # remote.status)
    /\ UNCHANGED <<request, worker, call, held, mirror, paired>>

\* The bulk form, and the task that pushes a status for it or for a submission, write the order's status,
\* the form before anything is sent: what they send is a write by others.
FormWrites ==
    /\ Fault
    /\ mirror' \in Statuses \ {mirror} /\ touched' = TRUE
    /\ UNCHANGED <<request, worker, call, remote, held, paired>>

\* A sync, a crawl or an import reads the order's row on Printerval.
SyncReads(s) ==
    /\ held[s] = "unread"
    /\ held' = [held EXCEPT ![s] = remote.status]
    /\ UNCHANGED <<request, worker, call, remote, touched, mirror, paired>> /\ Quiet

\* A sync that misses a row which is there takes the order for cancelled; when it looked does not matter.
SyncMisses ==
    /\ Fault
    /\ mirror' = "cancelled" /\ touched' = TRUE
    /\ UNCHANGED <<request, worker, call, remote, held, paired>>

\* Much later it applies the row to the order, which is read again for that, the row is not.
SyncApplies(s) ==
    /\ held[s] # "unread"
    /\ mirror' = held[s] /\ held' = [held EXCEPT ![s] = "unread"]
    /\ touched' = IF held[s] # remote.status THEN TRUE ELSE touched /\ worker # 0
    /\ UNCHANGED <<request, worker, call, remote, paired>> /\ Quiet

\* fail_stuck_requests: what is pending for STUCK_AFTER ends, whether or not it runs; the alerts follow.
Bug_OnlyQueued(r) == request[r].life = "pending" /\ request[r].queued
IsStuck(r) == request[r].life = "pending"

FailStuck ==
    /\ \E S \in SUBSET {r \in Requests : IsStuck(r)} :
         /\ S # {}
         /\ request' = [r \in Requests |->
               IF r \in S THEN [request[r] EXCEPT !.life = "failed", !.watched = TRUE] ELSE request[r]]
    /\ UNCHANGED Order /\ UNCHANGED worker /\ Quiet

AlertStuck(r) ==
    /\ request[r].watched
    /\ Update(r, [request[r] EXCEPT !.watched = FALSE, !.told = TRUE])
    /\ UNCHANGED Order /\ UNCHANGED worker /\ Quiet

BeatDies ==
    /\ \E r \in Requests : request[r].watched
    /\ Fault
    /\ request' = [r \in Requests |->
          IF request[r].watched THEN [request[r] EXCEPT !.watched = FALSE, !.told = TRUE]
          ELSE request[r]]
    /\ UNCHANGED Order /\ UNCHANGED worker

-----------------------------------------------------------------------------
Task(r) == \/ StartRequest(r) \/ DesignerIsSet(r) \/ StatusIsSet(r) \/ RecordRequest(r)
           \/ RequestRaises(r) \/ AlertAdmins(r)

Next ==
    \/ \E r \in Requests : \/ \E t \in Statuses : CreateRequest(r, t)
                           \/ Task(r) \/ AlertStuck(r)
    \/ \E s \in Syncs : SyncReads(s) \/ SyncApplies(s)
    \/ WriteOverHttp \/ WriteInBrowser \/ StartPair \/ PairGoesOn \/ WorkerDies \/ OthersWrite
    \/ FormWrites \/ SyncMisses \/ FailStuck \/ BeatDies

Spec == Init /\ [][Next]_vars

\* Beat runs the watchdog every minute; the worker may stop at any point.
FairSpec == Spec /\ WF_vars(FailStuck)

-----------------------------------------------------------------------------
\* A request reported as succeeded is one whose status was read back on Printerval and whose Designer was
\* at least not refuted, also when the watchdog had failed it before or HTTP said it was done ("Never hide
\* it", printerval_assignment_requests.py:154; "independently verified", :116).
OutcomeIsHonest ==
    \A r \in Requests : request[r].life = "succeeded" =>
        request[r].set /\ (r \in Asking => request[r].got)

\* A failed request is announced or about to be, by its task or by the watchdog; only a process that dies
\* between its commit and its alert keeps it quiet (printerval_alerts.py:3).
FailureIsAnnounced ==
    \A r \in Requests : request[r].life = "failed" =>
        request[r].told \/ request[r].pc = "alert" \/ request[r].watched

\* While no request failed or is under way, the order shows the status it has on Printerval, however many
\* steps, retries and browsers the writes took and whatever syncs applied beside them; unless others wrote
\* one side, or a sync applied a row that Printerval had overtaken, and no later sync has set that right.
MirrorIsTrue ==
    ~touched /\ (\A r \in Requests : request[r].life \in {"none", "succeeded"})
        => mirror = remote.status

\* No request stays pending: one that was lost or never queued is failed by the watchdog (STUCK_AFTER).
RequestEnds == \A r \in Requests : request[r].life = "pending" ~> request[r].life # "pending"
=============================================================================
