---------------------------- MODULE CompareQueue ----------------------------
(***************************************************************************)
(* The queue of image comparisons (support_worker.py, support_compare.py)  *)
(* and the agents that work it off (dup-compare/agent.py). Support freezes *)
(* the unchecked orders that were never compared into a job; a machine     *)
(* that was granted a token claims the oldest job, or an image search      *)
(* first, under a lease it keeps alive by heartbeats, pulls the new rows   *)
(* of the image pool, compares order by order and completes the job, which *)
(* adds the batch to the pool. A machine may stop, be revoked, lose its    *)
(* lease or the answer to a call at any point; another resumes what is     *)
(* left. Orders are tagged meanwhile, and returned to be checked again.    *)
(***************************************************************************)
EXTENDS Integers, FiniteSets, FiniteSetsExt

CONSTANTS Orders, Agents,
          MaxJobs, MaxSearches, \* bounds of the rows created
          MaxGrants,            \* bound of the tokens given to one machine
          MaxFaults             \* bound of late beats, crashes, lost answers and orders tagged

ASSUME Bounds == /\ MaxJobs \in Nat \ {0} /\ MaxSearches \in Nat
                 /\ MaxGrants \in Nat /\ MaxFaults \in Nat

Jobs == 1 .. MaxJobs
Searches == MaxJobs + 1 .. MaxJobs + MaxSearches
Work == 1 .. MaxJobs + MaxSearches
NoWork == 0
NoDevice == <<>>
Device == Agents \X (1 .. MaxGrants)
Stamps == 0 .. MaxJobs + MaxFaults

VARIABLES
    work,     \* comparison_jobs and search_jobs
    item,     \* comparison_items: the orders a job (its run) has a completed item of
    tagged,   \* the orders that are not in the tab of unchecked ones: tagged, or given to a Designer
    again,    \* history: orders returned to that tab since their row is in the pool
    rowAt,    \* created_at of the order's row in image_embeddings, 0: not in the pool
    clock,    \* starts of completing transactions, which date the rows they add
    valid,    \* the approved device of a machine, 0: none
    grants,   \* devices created for a machine so far
    agent,    \* the agent process of each machine
    faults

vars == <<work, item, tagged, again, rowAt, clock, valid, grants, agent, faults>>

WorkRow == [status : {"none", "queued", "running", "completed", "failed"},
            by : Device \cup {NoDevice}, fresh : BOOLEAN, \* device_id and heartbeat_at, while it runs
            orders : SUBSET Orders]

Agent == [token : 0 .. MaxGrants,   \* what the web page handed over, on the cache volume
          using : 0 .. MaxGrants,   \* what its calls carry
          pc : {"idle", "claimed", "working", "committing", "failing"},
          on : Work \cup {NoWork}, todo : SUBSET Orders,
          rows : SUBSET Orders, cursor : Stamps, stamp : Stamps]

Init ==
    /\ work = [w \in Work |-> [status |-> "none", by |-> NoDevice, fresh |-> FALSE, orders |-> {}]]
    /\ item = [j \in Jobs |-> {}] /\ tagged = {} /\ again = {}
    /\ rowAt = [o \in Orders |-> 0]
    /\ clock = 0
    /\ valid = [a \in Agents |-> 0] /\ grants = [a \in Agents |-> 0]
    /\ agent = [a \in Agents |-> [token |-> 0, using |-> 0, pc |-> "idle", on |-> NoWork, todo |-> {},
                                  rows |-> {}, cursor |-> 0, stamp |-> 0]]
    /\ faults = 0

-----------------------------------------------------------------------------
Active(w) == work[w].status \in {"queued", "running"}
Ended(w) == work[w].status \in {"completed", "failed"}
HasResult(o) == \E j \in Jobs : o \in item[j]
Pool == {o \in Orders : rowAt[o] > 0}

\* A completing transaction holds the row of its job until it commits.
Locked(w) == \E a \in Agents : agent[a].pc = "committing" /\ agent[a].on = w

Kept == UNCHANGED <<tagged, again>>

Fault == faults < MaxFaults /\ faults' = faults + 1

(***************************************************************************)
(* Support: create a job or a search, cancel a job, tag and return orders. *)
(***************************************************************************)
Unchecked == Orders \ tagged                                    \* _unchecked_scope
Bug_IgnoresQueued == {o \in Unchecked : ~HasResult(o)}
Bug_IgnoresResults == {o \in Unchecked : \A j \in Jobs : Active(j) => o \notin work[j].orders}
Checkable == {o \in Unchecked : ~HasResult(o) /\ \A j \in Jobs : Active(j) => o \notin work[j].orders}

\* /check, serialised by an advisory lock: the orders nobody compared or queued yet.
CreateJob ==
    /\ Checkable # {}
    /\ \E j \in Jobs :
        /\ work[j].status = "none" /\ \A i \in 1 .. j - 1 : work[i].status # "none"
        /\ work' = [work EXCEPT ![j].status = "queued", ![j].orders = Checkable]
    /\ Kept /\ UNCHANGED <<item, rowAt, clock, valid, grants, agent, faults>>

CreateSearch ==
    /\ \E s \in Searches :
        /\ work[s].status = "none" /\ \A i \in MaxJobs + 1 .. s - 1 : work[i].status # "none"
        /\ work' = [work EXCEPT ![s].status = "queued"]
    /\ Kept /\ UNCHANGED <<item, rowAt, clock, valid, grants, agent, faults>>

EndOf(r, status) == [r EXCEPT !.status = status, !.by = NoDevice, !.fresh = FALSE]

CancelJob(j) ==
    /\ Active(j) /\ ~Locked(j)
    /\ work' = [work EXCEPT ![j] = EndOf(@, "failed")]
    /\ Kept /\ UNCHANGED <<item, rowAt, clock, valid, grants, agent, faults>>

\* An order is tagged, by /handle, a verdict or by hand, or given to a Designer, before or after it was
\* compared; a card that leaves the backlog, or an assignment that ends, brings it back with its result.
Tag(o) ==
    /\ o \notin tagged /\ Fault
    /\ tagged' = tagged \cup {o}
    /\ UNCHANGED <<work, item, again, rowAt, clock, valid, grants, agent>>

ComeBack(o) ==
    /\ o \in tagged
    /\ tagged' = tagged \ {o}
    /\ UNCHANGED <<work, item, again, rowAt, clock, valid, grants, agent, faults>>

\* return_orders_to_unchecked: the results of the order are retired, its row stays in the pool.
ReturnToUnchecked(o) ==
    /\ o \in tagged
    /\ tagged' = tagged \ {o}
    /\ item' = [j \in Jobs |-> item[j] \ {o}]
    /\ again' = again \cup ({o} \cap Pool)
    /\ UNCHANGED <<work, rowAt, clock, valid, grants, agent, faults>>

(***************************************************************************)
(* Devices.                                                                *)
(***************************************************************************)
\* "Có" on the web: an earlier grant of the machine is revoked, the page hands the token to the machine.
Grant(a) ==
    /\ grants[a] < MaxGrants
    /\ grants' = [grants EXCEPT ![a] = @ + 1]
    /\ valid' = [valid EXCEPT ![a] = grants[a] + 1]
    /\ agent' = [agent EXCEPT ![a].token = grants[a] + 1]
    /\ Kept /\ UNCHANGED <<work, item, rowAt, clock, faults>>

\* /disconnect on the machine: its calls carry the newest token from now on, which it revokes if it can.
Disconnect(a) ==
    /\ agent[a].token # 0
    /\ agent' = [agent EXCEPT ![a].using = agent[a].token, ![a].token = 0]
    /\ \/ valid' = [valid EXCEPT ![a] = IF @ = agent[a].token THEN 0 ELSE @]
       \/ valid' = valid
    /\ Kept /\ UNCHANGED <<work, item, rowAt, clock, grants, faults>>

\* Revoked by its owner, expired after 30 days, or the owner's account was closed.
Revoke(a) ==
    /\ valid[a] # 0
    /\ valid' = [valid EXCEPT ![a] = 0]
    /\ Kept /\ UNCHANGED <<work, item, rowAt, clock, grants, agent, faults>>

(***************************************************************************)
(* The agent's loop. Every call may be refused, and its answer may be      *)
(* lost, in which case a job is given up as failed.                        *)
(***************************************************************************)
Accepted(a) == agent[a].using # 0 /\ agent[a].using = valid[a]   \* authenticate_device
Holds(a, w) == work[w].status = "running" /\ work[w].by = <<a, agent[a].using>>
Bug_AnyDevice(a) == Accepted(a)
Leased(a) == Accepted(a) /\ Holds(a, agent[a].on)               \* _leased_job, _leased_search

Renewed(w) == [work EXCEPT ![w].fresh = TRUE]
Idle(r) == [r EXCEPT !.pc = "idle", !.on = NoWork, !.todo = {}, !.using = 0, !.stamp = 0]
GiveUp(a) == agent' = [agent EXCEPT ![a].pc = "failing"]
Drop(a) == agent' = [agent EXCEPT ![a] = Idle(@)]

\* The rows after the cursor of the caller; its next cursor is the date of the last one.
PoolAfter(cursor) == {o \in Pool : rowAt[o] > cursor}
Synced(r) == [r EXCEPT !.rows = @ \cup PoolAfter(r.cursor),
                       !.cursor = Max({@} \cup {rowAt[o] : o \in Pool})]

\* Between two claims the loop picks up the token of the web page and refreshes its pool.
Refresh(a) ==
    /\ agent[a].pc = "idle" /\ agent[a].token # 0
    /\ agent' = [agent EXCEPT ![a] = IF agent[a].token = valid[a]
                                        THEN Synced(@) ELSE [@ EXCEPT !.token = 0]]
    /\ Kept /\ UNCHANGED <<work, item, rowAt, clock, valid, grants, faults>>

Bug_NeverResumed(w) == work[w].status = "queued" /\ ~Locked(w)
Claimable(w) ==
    /\ work[w].status = "queued" \/ (work[w].status = "running" /\ ~work[w].fresh)
    /\ ~Locked(w)

\* A search before a job, the oldest first.
Oldest(S) == IF \E w \in S : Claimable(w) THEN {Min({w \in S : Claimable(w)})} ELSE {}
Offered == IF Oldest(Searches) # {} THEN Oldest(Searches) ELSE Oldest(Jobs)

\* What is left of the frozen orders of a job: a job handed out again goes on where it stopped.
Pending(w) == {o \in work[w].orders \ tagged : ~HasResult(o)}

Handed(a, w) ==
    work' = [work EXCEPT ![w].status = "running", ![w].by = <<a, agent[a].token>>, ![w].fresh = TRUE]

Claim(a) ==
    /\ agent[a].pc = "idle" /\ agent[a].token # 0
    /\ \/ /\ agent[a].token # valid[a]
          /\ agent' = [agent EXCEPT ![a].token = 0]
          /\ UNCHANGED <<work, faults>>
       \/ \E w \in Offered :
          /\ agent[a].token = valid[a]
          /\ Handed(a, w)
          /\ \/ /\ agent' = [agent EXCEPT ![a].using = agent[a].token, ![a].pc = "claimed", ![a].on = w,
                                          ![a].todo = Pending(w)]
                /\ UNCHANGED faults
             \/ Fault /\ agent' = agent
    /\ Kept /\ UNCHANGED <<item, rowAt, clock, valid, grants>>

\* run_job and run_search first bring the pool up to date; a search also loads its image.
Prepare(a) ==
    /\ agent[a].pc = "claimed"
    /\ \/ /\ ~Accepted(a) \/ (agent[a].on \in Searches /\ ~Leased(a))
          /\ Drop(a) /\ UNCHANGED <<work, faults>>
       \/ /\ Accepted(a)
          /\ agent[a].on \in Searches => Leased(a)
          /\ agent' = [agent EXCEPT ![a] = [Synced(@) EXCEPT !.pc = "working"]]
          /\ work' = IF agent[a].on \in Searches THEN Renewed(agent[a].on) ELSE work
          /\ UNCHANGED faults
       \/ GiveUp(a) /\ Fault /\ UNCHANGED work
    /\ Kept /\ UNCHANGED <<item, rowAt, clock, valid, grants>>

\* A batch of one order. A failed item is tried again like an order without one, so only results are kept.
WithResult(j, o) == [item EXCEPT ![j] = @ \cup {o}]

SubmitItem(a, o) ==
    /\ agent[a].pc = "working" /\ o \in agent[a].todo /\ Leased(a)
    /\ \/ item' = WithResult(agent[a].on, o)
       \/ item' = item
    /\ \/ agent' = [agent EXCEPT ![a].todo = @ \ {o}] /\ UNCHANGED faults
       \/ GiveUp(a) /\ Fault
    /\ work' = Renewed(agent[a].on)
    /\ Kept /\ UNCHANGED <<rowAt, clock, valid, grants>>

\* The lease is gone, by the heartbeat thread or by the answer to the next call.
Dropped(a) ==
    /\ agent[a].pc = "working" /\ ~Leased(a)
    /\ Drop(a)
    /\ Kept /\ UNCHANGED <<work, item, rowAt, clock, valid, grants, faults>>

CallFails(a) ==
    /\ agent[a].pc = "working"
    /\ GiveUp(a) /\ Fault
    /\ Kept /\ UNCHANGED <<work, item, rowAt, clock, valid, grants>>

\* complete_job: its transaction starts, and takes the row of the job, before it commits; now() is the start.
BeginComplete(a) ==
    /\ agent[a].pc = "working" /\ agent[a].todo = {} /\ Leased(a) /\ agent[a].on \in Jobs
    /\ clock < MaxJobs + MaxFaults
    /\ clock' = clock + 1
    /\ agent' = [agent EXCEPT ![a].pc = "committing", ![a].stamp = clock + 1]
    /\ Kept /\ UNCHANGED <<work, item, rowAt, valid, grants, faults>>

Promoted(S, stamp) == [o \in Orders |-> IF o \in S THEN stamp ELSE rowAt[o]]

\* The rows of the batch and the end of the job, at once. A row that cannot be promoted is left out, for
\* good: one broken row must not block the batch.
CommitComplete(a) ==
    /\ agent[a].pc = "committing"
    /\ \E S \in SUBSET item[agent[a].on] : rowAt' = Promoted(S, agent[a].stamp)
    /\ work' = [work EXCEPT ![agent[a].on] = EndOf(@, "completed")]
    /\ \/ Drop(a) /\ UNCHANGED faults
       \/ GiveUp(a) /\ Fault
    /\ Kept /\ UNCHANGED <<item, clock, valid, grants>>

RollBack(a) ==
    /\ agent[a].pc = "committing"
    /\ GiveUp(a) /\ Fault
    /\ Kept /\ UNCHANGED <<work, item, rowAt, clock, valid, grants>>

CompleteSearch(a) ==
    /\ agent[a].pc = "working" /\ agent[a].on \in Searches /\ Leased(a)
    /\ work' = [work EXCEPT ![agent[a].on] = EndOf(@, "completed")]
    /\ \/ Drop(a) /\ UNCHANGED faults
       \/ GiveUp(a) /\ Fault
    /\ Kept /\ UNCHANGED <<item, rowAt, clock, valid, grants>>

\* _report_failure: fail_job or fail_search, if the lease is still held and the call gets through.
ReportFailure(a) ==
    /\ agent[a].pc = "failing"
    /\ \/ /\ Leased(a)
          /\ work' = [work EXCEPT ![agent[a].on] = EndOf(@, "failed")]
          /\ UNCHANGED faults
       \/ ~Leased(a) /\ UNCHANGED <<work, faults>>
       \/ Fault /\ UNCHANGED work
    /\ Drop(a)
    /\ Kept /\ UNCHANGED <<item, rowAt, clock, valid, grants>>

\* The heartbeat thread of the lease. A lease that is gone never comes back to the same claim, so Lease.lost,
\* which only spares the refused calls, needs no state of its own.
Beat(a) ==
    /\ agent[a].pc \in {"claimed", "working"} /\ Leased(a)
    /\ work' = Renewed(agent[a].on)
    /\ Kept /\ UNCHANGED <<item, rowAt, clock, valid, grants, agent, faults>>

\* The machine stops; its token and its pool are on the cache volume.
Crash(a) ==
    /\ agent[a].pc \in {"claimed", "working", "failing"}
    /\ Drop(a) /\ Fault
    /\ Kept /\ UNCHANGED <<work, item, rowAt, clock, valid, grants>>

\* LEASE_TTL passes without a beat: nobody beats for it any more, or the beats are held up.
Beaten(w) == \E a \in Agents : /\ agent[a].pc \in {"claimed", "working", "committing"} /\ agent[a].on = w /\ Leased(a)
LeaseExpires(w) ==
    /\ work[w].status = "running" /\ work[w].fresh
    /\ IF Beaten(w) THEN Fault ELSE UNCHANGED faults
    /\ work' = [work EXCEPT ![w].fresh = FALSE]
    /\ Kept /\ UNCHANGED <<item, rowAt, clock, valid, grants, agent>>

-----------------------------------------------------------------------------
Step(a) == \/ Claim(a) \/ Prepare(a) \/ (\E o \in Orders : SubmitItem(a, o)) \/ Dropped(a)
           \/ BeginComplete(a) \/ CommitComplete(a) \/ CompleteSearch(a) \/ ReportFailure(a)

Next ==
    \/ CreateJob \/ CreateSearch
    \/ \E o \in Orders : Tag(o) \/ ComeBack(o) \/ ReturnToUnchecked(o)
    \/ \E j \in Jobs : CancelJob(j)
    \/ \E a \in Agents : \/ Grant(a) \/ Disconnect(a) \/ Revoke(a) \/ Refresh(a) \/ Step(a)
                         \/ CallFails(a) \/ RollBack(a) \/ Beat(a) \/ Crash(a)
    \/ \E w \in Work : LeaseExpires(w)

Spec == Init /\ [][Next]_vars

FairSpec ==
    /\ Spec
    /\ \A a \in Agents : WF_vars(Step(a))
    /\ \A w \in Work : WF_vars(LeaseExpires(w))
-----------------------------------------------------------------------------
\* Jobs, items, devices and agents keep their types; what runs or ran was handed to a device.
TypeOK ==
    /\ work \in [Work -> WorkRow]
    /\ item \in [Jobs -> SUBSET Orders] /\ tagged \subseteq Orders /\ again \subseteq Orders
    /\ rowAt \in [Orders -> Stamps] /\ clock \in Stamps
    /\ valid \in [Agents -> 0 .. MaxGrants] /\ grants \in [Agents -> 0 .. MaxGrants]
    /\ agent \in [Agents -> Agent]
    /\ faults \in 0 .. MaxFaults
    /\ \A w \in Work : work[w].status = "running" <=> work[w].by \in Device

\* "Mỗi order chỉ được so sánh một lần" (operations.md:92), until Support returns it: whatever leases run
\* out, jobs are cancelled or answers lost, and whenever orders are tagged or returned, one job has a result
\* of the order that counts, two active jobs never hold it, and none holds one that another compared.
ComparedOnce ==
    /\ \A o \in Orders : \A i, j \in Jobs : o \in item[i] /\ o \in item[j] => i = j
    /\ \A i, j \in Jobs : Active(i) /\ i # j =>
          /\ work[i].orders \cap item[j] = {}
          /\ Active(j) => work[i].orders \cap work[j].orders = {}

\* An order is in the pool only once the job that compared it is completed, or since an earlier job that
\* compared it before Support returned it (promote_run_items, "whole batch at once, after comparing").
PoolHoldsClosedBatches ==
    \A j \in Jobs : \A o \in item[j] \cap Pool : work[j].status = "completed" \/ o \in again

\* "so orders of one batch never match each other" (support_worker.py:618-619), though several machines may
\* share a job, and whatever they cached: but for orders that came back with their rows in the pool.
BatchIsNotComparedWithItself ==
    \A a \in Agents : agent[a].pc = "working" /\ agent[a].on \in Jobs /\ Leased(a)
        => agent[a].rows \cap work[agent[a].on].orders \subseteq again

\* Unless no machine is connected, queued work is worked off or failed: a lease that nobody beats for is resumed.
Unattended == \A a \in Agents : agent[a].token = 0 \/ agent[a].token # valid[a]
WorkEnds == \A w \in Work : work[w].status = "queued" ~> Ended(w) \/ Unattended

(***************************************************************************)
(* The queue implements CompareRegister: a job is a batch.                 *)
(***************************************************************************)
Register == INSTANCE CompareRegister WITH
    Batches <- Jobs,
    results <- {p \in Orders \X Jobs : p[1] \in item[p[2]]},
    published <- {j \in Jobs : work[j].status = "completed"},
    pool <- Pool

\* One result per order until it is returned; batches enter the pool when they are closed, and stay so
\* (support_worker.py:420, 618, 660; support_return.py:96-101).
ImplementsRegister == Register!Spec
=============================================================================
