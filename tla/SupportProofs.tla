---------------------------- MODULE SupportProofs ----------------------------
(***************************************************************************)
(* The duplicates Support looks for.  First the comparison queue, for any  *)
(* orders, machines and bounds, and that it implements CompareRegister.    *)
(* What makes it inductive: the orders of an active job have no result     *)
(* elsewhere and are in no other active job, and a job that is being       *)
(* completed stays with its machine.  Then the review of a pair, for any   *)
(* candidates, chats and web processes.  The row of a candidate is locked  *)
(* while its verdict is committed, and the commit supersedes every other   *)
(* pending candidate, so no other handler can be about to commit a second  *)
(* one.  The handler that settled a pair also withdraws its buttons.       *)
(***************************************************************************)
EXTENDS CompareQueue, PairReview, WellFoundedInduction, TLAPS

\* What a machine has left to do is part of the work it took.
TodoIsAssigned ==
  \A a \in Agents : /\ agent[a].pc # "idle" => agent[a].on \in Work
                    /\ agent[a].on \in Work => agent[a].todo \subseteq work[agent[a].on].orders

\* A job that is being completed runs, for the machine whose call has locked it.
CompletingIsLocked ==
  \A a \in Agents : agent[a].pc = "committing" =>
    /\ agent[a].on \in Jobs /\ agent[a].stamp > 0
    /\ work[agent[a].on].status = "running" /\ work[agent[a].on].by[1] = a

\* A job has results of its own orders, and nothing before it is created.
ResultsAreOwn ==
  /\ \A w \in Work : work[w].status = "none" => work[w].orders = {}
  /\ \A j \in Jobs : item[j] \subseteq work[j].orders

\* An active job shares no order with another active one, or with results of another.
ActiveIsExclusive ==
  \A i, j \in Jobs : i # j /\ Active(j) =>
    /\ work[j].orders \cap item[i] = {}
    /\ Active(i) => work[i].orders \cap work[j].orders = {}

\* No order has two results.
OneResult == \A i, j \in Jobs : i # j => item[i] \cap item[j] = {}

\* The pool holds results of completed jobs, but for the orders Support returned since, and the machines'
\* copies of it hold no more.
PoolIsCompleted ==
  /\ \A o \in Pool \ again : \E j \in Jobs : o \in item[j] /\ work[j].status = "completed"
  /\ \A a \in Agents : agent[a].rows \subseteq Pool

IInv == /\ TypeOK /\ TodoIsAssigned /\ CompletingIsLocked /\ ResultsAreOwn
        /\ ActiveIsExclusive /\ OneResult /\ PoolIsCompleted

USE DEF Kept

-----------------------------------------------------------------------------
(* A device is no empty tuple. *)
LEMMA NoDeviceIsNone == NoDevice \notin Device
  BY DEF NoDevice, Device

(* A set of numbers has a least one. *)
LEMMA LeastExists ==
  ASSUME NEW S, S \subseteq Nat, S # {}
  PROVE  \E n \in S : \A m \in S : n <= m
<1> DEFINE R == {p \in Nat \X Nat : p[1] < p[2]}
<1>1. IsWellFoundedOn(R, Nat)
  BY NatLessThanWellFounded DEF OpToRel
<1> HIDE DEF R
<1>2. PICK n \in S : \A m \in S : ~ (<<m, n>> \in R)
  BY <1>1, WFMin, Zenon
<1>3. \A m \in S : ~ (m < n)
  BY <1>2 DEF R
<1> QED
  BY <1>3

LEMMA LeastOf ==
  ASSUME NEW S, S \subseteq Nat, S # {}
  PROVE  Min(S) \in S
<1>1. \E n \in S : \A m \in S : n <= m
  BY LeastExists
<1> QED
  BY <1>1 DEF Min

(* A set of numbers up to a bound has a greatest one. *)
LEMMA GreatestOf ==
  ASSUME NEW N \in Nat, NEW S, S \subseteq 0 .. N, S # {}
  PROVE  Max(S) \in S
<1> DEFINE T == {n \in Nat : \E x \in S : n = N - x}
<1>1. T \subseteq Nat /\ T # {}
  <2>1. PICK x \in S : TRUE
    OBVIOUS
  <2>2. N - x \in Nat
    BY <2>1
  <2> QED
    BY <2>1, <2>2
<1>2. PICK n \in T : \A m \in T : n <= m
  <2> HIDE DEF T
  <2> QED
    BY <1>1, LeastExists
<1>3. PICK x \in S : n = N - x
  BY <1>2
<1>4. ASSUME NEW y \in S PROVE x >= y
  <2>1. N - y \in T
    OBVIOUS
  <2> QED
    BY <1>2, <1>3, <2>1
<1> QED
  BY <1>4 DEF Max

(* The bounds give sets of numbers. *)
LEMMA BoundsOK ==
  /\ MaxJobs + MaxFaults \in Nat /\ Jobs \subseteq Nat \ {0} /\ Searches \subseteq Nat \ {0}
  /\ Jobs \subseteq Work /\ Searches \subseteq Work /\ NoWork \notin Work
  /\ \A w \in Work : w \in Jobs \/ w \in Searches
  /\ \A w \in Jobs : w \notin Searches
  BY Bounds DEF Jobs, Searches, Work, NoWork

(* A machine that refreshes its pool keeps its type, and copies the pool. *)
LEMMA SyncedOK ==
  ASSUME TypeOK, NEW r \in Agent, r.rows \subseteq Pool
  PROVE  /\ Synced(r) \in Agent /\ Synced(r).rows \subseteq Pool
         /\ Synced(r) = [r EXCEPT !.rows = Synced(r).rows, !.cursor = Synced(r).cursor]
<1> DEFINE S == {r.cursor} \cup {rowAt[o] : o \in Pool}
<1>1. S \in SUBSET (0 .. MaxJobs + MaxFaults) /\ S # {}
  BY DEF TypeOK, Agent, Stamps, Pool
<1>2. Max(S) \in Stamps
  BY <1>1, GreatestOf, BoundsOK DEF Stamps
<1>3. PoolAfter(r.cursor) \subseteq Pool /\ Pool \subseteq Orders
  BY DEF PoolAfter, Pool
<1> QED
  BY <1>2, <1>3 DEF Synced, Agent

(* What a machine is offered can be claimed. *)
LEMMA OfferedOK == \A w \in Offered : w \in Work /\ Claimable(w)
<1>1. ASSUME NEW S \in SUBSET Work, NEW w \in Oldest(S) PROVE w \in S /\ Claimable(w)
  <2> DEFINE C == {v \in S : Claimable(v)}
  <2>1. C # {} /\ w = Min(C)
    BY <1>1 DEF Oldest
  <2>2. C \in SUBSET Nat
    BY BoundsOK
  <2> QED
    BY <2>1, <2>2, LeastOf
<1>2. Searches \in SUBSET Work /\ Jobs \in SUBSET Work
  BY BoundsOK
<1>3. \A S \in SUBSET Work : \A w \in Oldest(S) : w \in Work /\ Claimable(w)
  BY <1>1
<1> QED
  BY <1>2, <1>3 DEF Offered

(* What a step that neither submits, completes nor creates keeps: the      *)
(* results and the pool, and no job becomes active.                        *)
LEMMA ResultsKept ==
  ASSUME IInv, UNCHANGED <<item, tagged, again, rowAt>>,
         \A w \in Work : /\ work'[w].orders = work[w].orders
                         /\ work'[w].status = "none" => work[w].status = "none",
         \A j \in Jobs : /\ Active(j)' => Active(j)
                         /\ work'[j].status = "completed" <=> work[j].status = "completed",
         \A a \in Agents : agent'[a].rows \subseteq Pool
  PROVE  ResultsAreOwn' /\ ActiveIsExclusive' /\ OneResult' /\ PoolIsCompleted'
<1>1. ResultsAreOwn'
  BY BoundsOK DEF IInv, ResultsAreOwn
<1>2. ActiveIsExclusive'
  BY BoundsOK DEF IInv, ActiveIsExclusive
<1>3. OneResult'
  BY DEF IInv, OneResult
<1>4. Pool' = Pool
  BY DEF Pool
<1>5. PoolIsCompleted'
  BY <1>4, BoundsOK DEF IInv, PoolIsCompleted
<1> QED
  BY <1>1, <1>2, <1>3, <1>5

(* A step that only moves one machine. *)
LEMMA AgentStepOK ==
  ASSUME IInv, NEW a \in Agents, NEW r \in Agent,
         agent' = [agent EXCEPT ![a] = r],
         r.pc # "idle" => r.on \in Work,
         r.on \in Work => r.todo \subseteq work[r.on].orders,
         r.pc = "committing" => /\ r.on \in Jobs /\ r.stamp > 0
                                /\ work[r.on].status = "running" /\ work[r.on].by[1] = a,
         r.rows \subseteq Pool,
         UNCHANGED <<work, item, tagged, again, rowAt>>, clock' \in Stamps,
         valid' \in [Agents -> 0 .. MaxGrants], grants' \in [Agents -> 0 .. MaxGrants],
         faults' \in 0 .. MaxFaults
  PROVE  IInv'
<1>1. agent \in [Agents -> Agent]
  BY DEF IInv, TypeOK
<1>2. agent'[a] = r /\ \A b \in Agents \ {a} : agent'[b] = agent[b]
  BY <1>1
<1>3. TypeOK'
  BY <1>1 DEF IInv, TypeOK
<1>4. TodoIsAssigned'
  BY <1>2 DEF IInv, TodoIsAssigned
<1>5. CompletingIsLocked'
  BY <1>2 DEF IInv, CompletingIsLocked
<1>6. \A b \in Agents : agent'[b].rows \subseteq Pool
  BY <1>2 DEF IInv, PoolIsCompleted
<1>7. ResultsAreOwn' /\ ActiveIsExclusive' /\ OneResult' /\ PoolIsCompleted'
  BY <1>6, ResultsKept DEF Active
<1> QED
  BY <1>3, <1>4, <1>5, <1>7 DEF IInv

(* A step that writes the row of one piece of work that nobody is          *)
(* completing, and moves at most the machine that does it.                 *)
LEMMA WorkStepOK ==
  ASSUME IInv, NEW v \in Work, NEW row \in WorkRow,
         work' = [work EXCEPT ![v] = row], row.orders = work[v].orders,
         row.status # "none", row.status = "running" <=> row.by \in Device,
         v \in Jobs => Active(v) /\ row.status # "completed",
         ~Locked(v) \/ (row.status = work[v].status /\ row.by = work[v].by),
         UNCHANGED <<item, tagged, again, rowAt, clock, valid, grants>>, faults' \in 0 .. MaxFaults,
         agent' \in [Agents -> Agent],
         \A b \in Agents : /\ agent'[b].rows \subseteq Pool
                           /\ agent'[b].pc # "idle" => agent'[b].on \in Work
                           /\ agent'[b].on \in Work => agent'[b].todo \subseteq work[agent'[b].on].orders
                           /\ agent'[b].pc = "committing" => agent'[b] = agent[b]
  PROVE  IInv'
<1>1. work \in [Work -> WorkRow] /\ \A w \in Work : work[w].status = "running" <=> work[w].by \in Device
  BY DEF IInv, TypeOK
<1>2. work'[v] = row /\ \A w \in Work \ {v} : work'[w] = work[w]
  BY <1>1
<1>3. TypeOK'
  BY <1>1, <1>2 DEF IInv, TypeOK
<1>4. \A w \in Work : work'[w].orders = work[w].orders
  BY <1>2
<1>5. TodoIsAssigned'
  BY <1>4 DEF TodoIsAssigned
<1>6. CompletingIsLocked'
  <2> SUFFICES ASSUME NEW b \in Agents, agent'[b].pc = "committing"
               PROVE  /\ agent'[b].on \in Jobs /\ agent'[b].stamp > 0
                      /\ work'[agent'[b].on].status = "running" /\ work'[agent'[b].on].by[1] = b
    BY DEF CompletingIsLocked
  <2>1. agent'[b] = agent[b] /\ Locked(agent[b].on)
    BY DEF Locked
  <2>2. /\ agent[b].on \in Jobs /\ agent[b].stamp > 0
        /\ work[agent[b].on].status = "running" /\ work[agent[b].on].by[1] = b
    BY <2>1 DEF IInv, CompletingIsLocked
  <2> QED
    BY <1>2, <2>1, <2>2, BoundsOK
<1>7. ResultsAreOwn' /\ ActiveIsExclusive' /\ OneResult' /\ PoolIsCompleted'
  <2>1. \A w \in Work : work'[w].status = "none" => work[w].status = "none"
    BY <1>2
  <2>2. \A j \in Jobs : /\ Active(j)' => Active(j)
                        /\ work'[j].status = "completed" <=> work[j].status = "completed"
    BY <1>2, BoundsOK DEF Active
  <2>3. \A b \in Agents : agent'[b].rows \subseteq Pool
    OBVIOUS
  <2> QED
    BY <1>4, <2>1, <2>2, <2>3, ResultsKept
<1> QED
  BY <1>3, <1>5, <1>6, <1>7 DEF IInv

(* The machine a step moves, before the step. *)
LEMMA MachineOK ==
  ASSUME IInv, NEW a \in Agents
  PROVE  /\ agent[a] \in Agent /\ agent[a].rows \subseteq Pool
         /\ agent[a].pc # "idle" => agent[a].on \in Work
         /\ agent[a].on \in Work => agent[a].todo \subseteq work[agent[a].on].orders
  BY DEF IInv, TypeOK, TodoIsAssigned, PoolIsCompleted

(* A machine without work. *)
LEMMA IdleOK ==
  ASSUME NEW r \in Agent
  PROVE  /\ Idle(r) \in Agent /\ Idle(r).pc = "idle" /\ Idle(r).on \notin Work
         /\ Idle(r).rows = r.rows
<1>1. 0 \in 0 .. MaxGrants /\ 0 \in Stamps
  BY Bounds DEF Stamps
<1>2. Idle(r) \in Agent
  BY <1>1 DEF Idle, Agent
<1>3. Idle(r).pc = "idle" /\ Idle(r).on = NoWork /\ Idle(r).rows = r.rows
  BY DEF Idle, Agent
<1> QED
  BY <1>2, <1>3, BoundsOK

(* The steps that only write the row of a piece of work leave the machines alone. *)
LEMMA RowStepOK ==
  ASSUME IInv, NEW v \in Work, NEW row \in WorkRow,
         work' = [work EXCEPT ![v] = row], row.orders = work[v].orders,
         row.status # "none", row.status = "running" <=> row.by \in Device,
         v \in Jobs => Active(v) /\ row.status # "completed",
         ~Locked(v) \/ (row.status = work[v].status /\ row.by = work[v].by),
         UNCHANGED <<item, tagged, again, rowAt, clock, valid, grants, agent>>, faults' \in 0 .. MaxFaults
  PROVE  IInv'
<1>1. agent' \in [Agents -> Agent]
  BY DEF IInv, TypeOK
<1>2. \A b \in Agents : /\ agent'[b].rows \subseteq Pool
                        /\ agent'[b].pc # "idle" => agent'[b].on \in Work
                        /\ agent'[b].on \in Work => agent'[b].todo \subseteq work[agent'[b].on].orders
                        /\ agent'[b].pc = "committing" => agent'[b] = agent[b]
  BY MachineOK
<1> QED
  BY <1>1, <1>2, WorkStepOK

(* A work row, and what is made of it. *)
LEMMA RowsOK ==
  ASSUME IInv, NEW w \in Work
  PROVE  /\ work[w] \in WorkRow /\ (work[w].status = "running" <=> work[w].by \in Device)
         /\ \A st \in {"completed", "failed"} :
              /\ EndOf(work[w], st) \in WorkRow /\ EndOf(work[w], st).status = st
              /\ EndOf(work[w], st).orders = work[w].orders /\ EndOf(work[w], st).by \notin Device
         /\ \A f \in BOOLEAN : [work[w] EXCEPT !.fresh = f] \in WorkRow
<1>1. work[w] \in WorkRow /\ (work[w].status = "running" <=> work[w].by \in Device)
  BY DEF IInv, TypeOK
<1> QED
  BY <1>1, NoDeviceIsNone DEF WorkRow, EndOf

(* faults keeps its type. *)
LEMMA FaultOK ==
  ASSUME IInv, Fault \/ UNCHANGED faults
  PROVE  faults' \in 0 .. MaxFaults
  BY Bounds DEF IInv, TypeOK, Fault

(* Support: a new job takes only orders without a result or an active job. *)
LEMMA SupportStepsOK ==
  ASSUME IInv, CreateJob \/ CreateSearch \/ \E j \in Jobs : CancelJob(j)
  PROVE  IInv'
<1>1. CASE CreateJob
  <2>1. PICK j \in Jobs : /\ work[j].status = "none"
                          /\ work' = [work EXCEPT ![j].status = "queued", ![j].orders = Checkable]
                          /\ UNCHANGED <<item, tagged, again, rowAt, clock, valid, grants, agent, faults>>
    BY <1>1 DEF CreateJob
  <2> DEFINE row == [work[j] EXCEPT !.status = "queued", !.orders = Checkable]
  <2>2. j \in Work /\ row \in WorkRow /\ work' = [work EXCEPT ![j] = row]
    BY <2>1, BoundsOK, RowsOK DEF WorkRow, Checkable, Unchecked, IInv, TypeOK
  <2>3. /\ row.status = "queued" /\ row.orders = Checkable /\ row.by = work[j].by
        /\ work'[j] = row /\ \A w \in Work \ {j} : work'[w] = work[w]
    BY <2>2, RowsOK DEF WorkRow, IInv, TypeOK
  <2> HIDE DEF row
  <2>4. work[j].orders = {} /\ item[j] = {}
    BY <2>1, BoundsOK DEF IInv, ResultsAreOwn
  <2>5. TypeOK'
    BY <2>1, <2>2, <2>3, RowsOK DEF IInv, TypeOK
  <2>6. TodoIsAssigned'
    <3>1. \A w \in Work : work[w].orders \subseteq work'[w].orders
      BY <2>3, <2>4
    <3> QED
      BY <2>1, <3>1, MachineOK DEF TodoIsAssigned
  <2>7. CompletingIsLocked'
    <3> SUFFICES ASSUME NEW b \in Agents, agent[b].pc = "committing"
                 PROVE  /\ agent[b].on \in Jobs /\ agent[b].stamp > 0
                        /\ work'[agent[b].on].status = "running" /\ work'[agent[b].on].by[1] = b
      BY <2>1 DEF CompletingIsLocked
    <3>1. /\ agent[b].on \in Jobs /\ agent[b].stamp > 0
          /\ work[agent[b].on].status = "running" /\ work[agent[b].on].by[1] = b
      BY DEF IInv, CompletingIsLocked
    <3> QED
      BY <2>1, <2>3, <3>1, BoundsOK
  <2>8. ResultsAreOwn'
    BY <2>1, <2>3, <2>4, BoundsOK DEF IInv, ResultsAreOwn
  <2>9. ActiveIsExclusive'
    <3> SUFFICES ASSUME NEW k \in Jobs, NEW i \in Jobs, i # k, Active(k)'
                 PROVE  /\ work'[k].orders \cap item[i] = {}
                        /\ Active(i)' => work'[i].orders \cap work'[k].orders = {}
      BY <2>1 DEF ActiveIsExclusive
    <3>1. \A o \in Checkable : \A w \in Jobs : o \notin item[w] /\ (Active(w) => o \notin work[w].orders)
      BY DEF Checkable, HasResult
    <3>2. \A w \in Jobs \ {j} : work'[w] = work[w] /\ (Active(w)' <=> Active(w))
      BY <2>3, BoundsOK DEF Active
    <3>3. k # j /\ i # j => /\ work[k].orders \cap item[i] = {}
                            /\ Active(i) => work[i].orders \cap work[k].orders = {}
      BY <3>2 DEF IInv, ActiveIsExclusive
    <3>4. k # j => Active(k) /\ work[k].orders \cap Checkable = {}
      BY <3>1, <3>2
    <3>5. CASE k = j
      BY <2>3, <3>1, <3>2, <3>5
    <3>6. CASE k # j /\ i = j
      BY <2>3, <2>4, <3>2, <3>4, <3>6
    <3>7. CASE k # j /\ i # j
      BY <3>2, <3>3, <3>7
    <3> QED
      BY <3>5, <3>6, <3>7
  <2>10. OneResult' /\ Pool' = Pool
    BY <2>1 DEF IInv, OneResult, Pool
  <2>11. PoolIsCompleted'
    <3>1. \A i \in Jobs : work'[i].status = "completed" <=> work[i].status = "completed"
      BY <2>1, <2>3, BoundsOK
    <3> QED
      BY <2>1, <2>10, <3>1 DEF IInv, PoolIsCompleted
  <2> QED
    BY <2>5, <2>6, <2>7, <2>8, <2>9, <2>10, <2>11 DEF IInv
<1>2. CASE CreateSearch
  <2>1. PICK s \in Searches : /\ work[s].status = "none"
                              /\ work' = [work EXCEPT ![s].status = "queued"]
                              /\ UNCHANGED <<item, tagged, again, rowAt, clock, valid, grants, agent, faults>>
    BY <1>2 DEF CreateSearch
  <2> DEFINE row == [work[s] EXCEPT !.status = "queued"]
  <2>2. s \in Work /\ s \notin Jobs
    BY BoundsOK
  <2>3. /\ row \in WorkRow /\ row.orders = work[s].orders /\ row.status = "queued"
        /\ row.by = work[s].by /\ work' = [work EXCEPT ![s] = row]
    BY <2>1, <2>2, RowsOK DEF WorkRow
  <2>4. ~ Locked(s) /\ row.by \notin Device
    BY <2>1, <2>2, <2>3, RowsOK DEF Locked, IInv, CompletingIsLocked
  <2> HIDE DEF row
  <2> QED
    BY <2>1, <2>2, <2>3, <2>4, RowStepOK, FaultOK
<1>3. ASSUME NEW j \in Jobs, CancelJob(j) PROVE IInv'
  <2>1. /\ Active(j) /\ ~ Locked(j) /\ work' = [work EXCEPT ![j] = EndOf(work[j], "failed")]
        /\ UNCHANGED <<item, tagged, again, rowAt, clock, valid, grants, agent, faults>>
    BY <1>3 DEF CancelJob
  <2>2. /\ EndOf(work[j], "failed") \in WorkRow /\ EndOf(work[j], "failed").status = "failed"
        /\ EndOf(work[j], "failed").orders = work[j].orders /\ EndOf(work[j], "failed").by \notin Device
    BY RowsOK, BoundsOK
  <2> QED
    BY <2>1, <2>2, BoundsOK, RowStepOK, FaultOK
<1> QED
  BY <1>1, <1>2, <1>3

(* The web's grants, and the machine that is disconnected. *)
LEMMA DeviceStepsOK ==
  ASSUME IInv, NEW a \in Agents, Grant(a) \/ Disconnect(a) \/ Revoke(a) \/ Refresh(a)
  PROVE  IInv'
<1> USE MachineOK
<1>1. CASE Grant(a)
  <2> DEFINE r == [agent[a] EXCEPT !.token = grants[a] + 1]
  <2>1. grants[a] + 1 \in 0 .. MaxGrants
    BY <1>1, Bounds DEF Grant, IInv, TypeOK
  <2>2. /\ r \in Agent /\ agent' = [agent EXCEPT ![a] = r]
        /\ r.pc = agent[a].pc /\ r.on = agent[a].on /\ r.todo = agent[a].todo
        /\ r.rows = agent[a].rows /\ r.stamp = agent[a].stamp
    BY <1>1, <2>1 DEF Grant, Agent, IInv, TypeOK
  <2>3. /\ valid' \in [Agents -> 0 .. MaxGrants] /\ grants' \in [Agents -> 0 .. MaxGrants]
        /\ clock' \in Stamps /\ faults' \in 0 .. MaxFaults
    BY <1>1, <2>1 DEF Grant, IInv, TypeOK
  <2>4. UNCHANGED <<work, item, tagged, again, rowAt>>
    BY <1>1 DEF Grant
  <2>5. r.pc = "committing" => /\ r.on \in Jobs /\ r.stamp > 0
                              /\ work[r.on].status = "running" /\ work[r.on].by[1] = a
    BY <2>2 DEF IInv, CompletingIsLocked
  <2> HIDE DEF r
  <2> QED
    BY <2>2, <2>3, <2>4, <2>5, AgentStepOK
<1>2. CASE Disconnect(a)
  <2> DEFINE r == [agent[a] EXCEPT !.using = agent[a].token, !.token = 0]
  <2>1. /\ r \in Agent /\ agent' = [agent EXCEPT ![a] = r]
        /\ r.pc = agent[a].pc /\ r.on = agent[a].on /\ r.todo = agent[a].todo
        /\ r.rows = agent[a].rows /\ r.stamp = agent[a].stamp
    BY <1>2, Bounds DEF Disconnect, Agent, IInv, TypeOK
  <2>2. /\ valid' \in [Agents -> 0 .. MaxGrants] /\ grants' \in [Agents -> 0 .. MaxGrants]
        /\ clock' \in Stamps /\ faults' \in 0 .. MaxFaults
    BY <1>2, Bounds DEF Disconnect, IInv, TypeOK
  <2>3. UNCHANGED <<work, item, tagged, again, rowAt>>
    BY <1>2 DEF Disconnect
  <2>4. r.pc = "committing" => /\ r.on \in Jobs /\ r.stamp > 0
                              /\ work[r.on].status = "running" /\ work[r.on].by[1] = a
    BY <2>1 DEF IInv, CompletingIsLocked
  <2> HIDE DEF r
  <2> QED
    BY <2>1, <2>2, <2>3, <2>4, AgentStepOK
<1>3. CASE Revoke(a)
  <2>1. valid' \in [Agents -> 0 .. MaxGrants]
    BY <1>3, Bounds DEF Revoke, IInv, TypeOK
  <2>2. UNCHANGED <<work, item, tagged, again, rowAt, clock, grants, agent, faults>>
    BY <1>3 DEF Revoke
  <2>3. agent' = [agent EXCEPT ![a] = agent[a]]
    BY <2>2 DEF IInv, TypeOK
  <2>4. agent[a].pc = "committing" => /\ agent[a].on \in Jobs /\ agent[a].stamp > 0
                                     /\ work[agent[a].on].status = "running" /\ work[agent[a].on].by[1] = a
    BY DEF IInv, CompletingIsLocked
  <2>5. clock' \in Stamps /\ grants' \in [Agents -> 0 .. MaxGrants] /\ faults' \in 0 .. MaxFaults
    BY <2>2 DEF IInv, TypeOK
  <2> QED
    BY <2>1, <2>2, <2>3, <2>4, <2>5, AgentStepOK
<1>4. CASE Refresh(a)
  <2> DEFINE r == IF agent[a].token = valid[a] THEN Synced(agent[a]) ELSE [agent[a] EXCEPT !.token = 0]
  <2>1. agent' = [agent EXCEPT ![a] = r] /\ UNCHANGED <<work, item, tagged, again, rowAt, clock, valid, grants, faults>>
    BY <1>4 DEF Refresh
  <2>2. agent[a].pc = "idle" /\ TypeOK
    BY <1>4 DEF Refresh, IInv
  <2>3. [agent[a] EXCEPT !.token = 0] \in Agent
    BY Bounds DEF Agent
  <2>4. Synced(agent[a]) \in Agent /\ Synced(agent[a]).rows \subseteq Pool
    BY <2>2, SyncedOK
  <2>5. Synced(agent[a]) = [agent[a] EXCEPT !.rows = Synced(agent[a]).rows, !.cursor = Synced(agent[a]).cursor]
    BY <2>2, SyncedOK
  <2>6. /\ r \in Agent /\ r.pc = "idle" /\ r.on = agent[a].on /\ r.todo = agent[a].todo /\ r.rows \subseteq Pool
    BY <2>2, <2>3, <2>4, <2>5 DEF Agent
  <2>7. clock' \in Stamps /\ grants' \in [Agents -> 0 .. MaxGrants] /\ faults' \in 0 .. MaxFaults
        /\ valid' \in [Agents -> 0 .. MaxGrants]
    BY <2>1, <2>2 DEF TypeOK
  <2> HIDE DEF r
  <2> QED
    BY <2>1, <2>6, <2>7, AgentStepOK
<1> QED
  BY <1>1, <1>2, <1>3, <1>4

(* A machine that drops its work or gives it up goes on with no other. *)
LEMMA LeavesOK ==
  ASSUME IInv, NEW a \in Agents, agent[a].pc # "idle", Drop(a) \/ GiveUp(a)
  PROVE  \E r \in Agent : /\ agent' = [agent EXCEPT ![a] = r]
                          /\ r.pc \in {"idle", "failing"} /\ r.rows \subseteq Pool
                          /\ r.pc # "idle" => r.on \in Work
                          /\ r.on \in Work => r.todo \subseteq work[r.on].orders
<1>1. CASE Drop(a)
  BY <1>1, IdleOK, MachineOK DEF Drop
<1>2. CASE GiveUp(a)
  <2> DEFINE r == [agent[a] EXCEPT !.pc = "failing"]
  <2>1. /\ r \in Agent /\ agent' = [agent EXCEPT ![a] = r] /\ r.pc = "failing"
        /\ r.on = agent[a].on /\ r.todo = agent[a].todo /\ r.rows = agent[a].rows
    BY <1>2, MachineOK DEF GiveUp, Agent, IInv, TypeOK
  <2> HIDE DEF r
  <2> QED
    BY <2>1, MachineOK
<1> QED
  BY <1>1, <1>2

(* The steps that move only the machine, and drop or give up its work. *)
LEMMA LeaveStepOK ==
  ASSUME IInv, NEW a \in Agents, agent[a].pc # "idle", Drop(a) \/ GiveUp(a),
         UNCHANGED <<work, item, tagged, again, rowAt, clock, valid, grants>>, faults' \in 0 .. MaxFaults
  PROVE  IInv'
<1>1. PICK r \in Agent : /\ agent' = [agent EXCEPT ![a] = r]
                         /\ r.pc \in {"idle", "failing"} /\ r.rows \subseteq Pool
                         /\ r.pc # "idle" => r.on \in Work
                         /\ r.on \in Work => r.todo \subseteq work[r.on].orders
  BY LeavesOK
<1>2. /\ UNCHANGED <<work, item, tagged, again, rowAt>> /\ clock' \in Stamps
      /\ valid' \in [Agents -> 0 .. MaxGrants] /\ grants' \in [Agents -> 0 .. MaxGrants]
  BY DEF IInv, TypeOK
<1> QED
  BY <1>1, <1>2, AgentStepOK

(* The steps that write the work's row too. *)
LEMMA MoveStepOK ==
  ASSUME IInv, NEW v \in Work, NEW row \in WorkRow,
         work' = [work EXCEPT ![v] = row], row.orders = work[v].orders,
         row.status # "none", row.status = "running" <=> row.by \in Device,
         v \in Jobs => Active(v) /\ row.status # "completed",
         ~Locked(v) \/ (row.status = work[v].status /\ row.by = work[v].by),
         UNCHANGED <<item, tagged, again, rowAt, clock, valid, grants>>, faults' \in 0 .. MaxFaults,
         NEW a \in Agents, NEW r \in Agent, agent' = [agent EXCEPT ![a] = r],
         r.pc # "committing", r.rows \subseteq Pool, r.pc # "idle" => r.on \in Work,
         r.on \in Work => r.todo \subseteq work[r.on].orders
  PROVE  IInv'
<1>1. agent \in [Agents -> Agent]
  BY DEF IInv, TypeOK
<1>2. agent'[a] = r /\ agent' \in [Agents -> Agent] /\ \A b \in Agents \ {a} : agent'[b] = agent[b]
  BY <1>1
<1>3. \A b \in Agents : /\ agent'[b].rows \subseteq Pool
                        /\ agent'[b].pc # "idle" => agent'[b].on \in Work
                        /\ agent'[b].on \in Work => agent'[b].todo \subseteq work[agent'[b].on].orders
                        /\ agent'[b].pc = "committing" => agent'[b] = agent[b]
  BY <1>2, MachineOK
<1> QED
  BY <1>2, <1>3, WorkStepOK

(* A job that is locked runs, and is no search. *)
LEMMA LockedOK ==
  ASSUME IInv, NEW w \in Work, Locked(w)
  PROVE  w \in Jobs /\ work[w].status = "running" /\ Active(w)
  BY DEF IInv, CompletingIsLocked, Locked, Active

(* A lease is renewed. *)
LEMMA RenewedOK ==
  ASSUME IInv, NEW a \in Agents, agent[a].pc # "idle", Leased(a)
  PROVE  LET v == agent[a].on
             row == [work[v] EXCEPT !.fresh = TRUE]
         IN  /\ v \in Work /\ row \in WorkRow /\ Renewed(v) = [work EXCEPT ![v] = row]
             /\ row.orders = work[v].orders /\ row.status = work[v].status /\ row.by = work[v].by
             /\ row.status = "running" /\ row.by \in Device /\ Active(v)
<1>1. agent[a].on \in Work /\ work[agent[a].on].status = "running"
  BY MachineOK DEF Leased, Holds
<1> DEFINE v == agent[a].on
           row == [work[v] EXCEPT !.fresh = TRUE]
<1>2. /\ work \in [Work -> WorkRow] /\ work[v] \in WorkRow
      /\ row \in WorkRow /\ work[v].by \in Device /\ Active(v)
  BY <1>1, RowsOK DEF IInv, TypeOK, Active
<1>3. row.orders = work[v].orders /\ row.status = work[v].status /\ row.by = work[v].by
  BY <1>2 DEF WorkRow
<1>4. Renewed(v) = [work EXCEPT ![v] = row]
  BY <1>1, <1>2 DEF Renewed
<1> QED
  BY <1>1, <1>2, <1>3, <1>4

(* A machine claims work: nobody completes it, so its lease is free. *)
LEMMA ClaimOK ==
  ASSUME IInv, NEW a \in Agents, Claim(a)
  PROVE  IInv'
<1>1. /\ agent[a].pc = "idle" /\ agent[a].token # 0 /\ agent[a] \in Agent /\ agent[a].rows \subseteq Pool
      /\ UNCHANGED <<item, tagged, again, rowAt, clock, valid, grants>>
  BY MachineOK DEF Claim
<1>2. CASE agent' = [agent EXCEPT ![a].token = 0] /\ UNCHANGED <<work, faults>>
  <2> DEFINE r == [agent[a] EXCEPT !.token = 0]
  <2>1. /\ r \in Agent /\ agent' = [agent EXCEPT ![a] = r] /\ r.pc = "idle" /\ r.rows \subseteq Pool
        /\ r.on = agent[a].on /\ r.todo = agent[a].todo
    BY <1>1, <1>2, Bounds DEF Agent, IInv, TypeOK
  <2>2. /\ UNCHANGED <<work, item, tagged, again, rowAt>> /\ clock' \in Stamps /\ faults' \in 0 .. MaxFaults
        /\ valid' \in [Agents -> 0 .. MaxGrants] /\ grants' \in [Agents -> 0 .. MaxGrants]
    BY <1>1, <1>2 DEF IInv, TypeOK
  <2> HIDE DEF r
  <2> QED
    BY <2>1, <2>2, MachineOK, AgentStepOK
<1>3. ASSUME NEW w \in Offered, agent[a].token = valid[a], Handed(a, w),
             \/ /\ agent' = [agent EXCEPT ![a].using = agent[a].token, ![a].pc = "claimed", ![a].on = w,
                                          ![a].todo = Pending(w)]
                /\ UNCHANGED faults
             \/ Fault /\ agent' = agent
      PROVE  IInv'
  <2> DEFINE row == [work[w] EXCEPT !.status = "running", !.by = <<a, agent[a].token>>, !.fresh = TRUE]
             r == [agent[a] EXCEPT !.using = agent[a].token, !.pc = "claimed", !.on = w, !.todo = Pending(w)]
  <2>1. w \in Work /\ Claimable(w) /\ ~ Locked(w) /\ Active(w)
    BY <1>3, OfferedOK DEF Claimable, Active
  <2>2. <<a, agent[a].token>> \in Device
    BY <1>1, Bounds DEF Device, Agent
  <2>3. /\ row \in WorkRow /\ row.status = "running" /\ row.by \in Device /\ row.orders = work[w].orders
        /\ work' = [work EXCEPT ![w] = row]
    <3>1. work \in [Work -> WorkRow] /\ work[w] \in WorkRow
      BY <2>1, RowsOK DEF IInv, TypeOK
    <3>2. row \in WorkRow /\ row.status = "running" /\ row.by \in Device /\ row.orders = work[w].orders
      BY <2>2, <3>1 DEF WorkRow
    <3> QED
      BY <1>3, <2>1, <3>1, <3>2 DEF Handed
  <2>4. Pending(w) \subseteq work[w].orders /\ work[w].orders \subseteq Orders
    BY <2>1, RowsOK DEF Pending, WorkRow
  <2>5. /\ r \in Agent /\ r.pc = "claimed" /\ r.rows = agent[a].rows /\ r.on = w /\ r.todo = Pending(w)
    BY <1>1, <2>1, <2>4 DEF Agent
  <2>6. faults' \in 0 .. MaxFaults
    BY <1>3, FaultOK
  <2>7. CASE agent' = [agent EXCEPT ![a] = r]
    <3> HIDE DEF r, row
    <3> QED
      BY <1>1, <2>1, <2>3, <2>4, <2>5, <2>6, <2>7, MoveStepOK
  <2>8. CASE agent' = agent
    <3> HIDE DEF r, row
    <3> QED
      BY <1>1, <2>1, <2>3, <2>6, <2>8, RowStepOK
  <2>9. agent' = [agent EXCEPT ![a] = r] \/ agent' = agent
    BY <1>3 DEF IInv, TypeOK
  <2> QED
    BY <2>7, <2>8, <2>9
<1> QED
  BY <1>2, <1>3 DEF Claim

(* The pool is brought up to date, or the claim is given back. *)
LEMMA PrepareOK ==
  ASSUME IInv, NEW a \in Agents, Prepare(a)
  PROVE  IInv'
<1>1. /\ agent[a].pc = "claimed" /\ agent[a] \in Agent /\ agent[a].on \in Work /\ TypeOK
      /\ agent[a].todo \subseteq work[agent[a].on].orders /\ agent[a].rows \subseteq Pool
      /\ UNCHANGED <<item, tagged, again, rowAt, clock, valid, grants>>
  BY MachineOK DEF Prepare, IInv
<1>2. CASE (Drop(a) \/ GiveUp(a)) /\ UNCHANGED work /\ (Fault \/ UNCHANGED faults)
  BY <1>1, <1>2, FaultOK, LeaveStepOK
<1>3. CASE /\ agent[a].on \in Searches => Leased(a)
           /\ agent' = [agent EXCEPT ![a] = [Synced(@) EXCEPT !.pc = "working"]]
           /\ work' = IF agent[a].on \in Searches THEN Renewed(agent[a].on) ELSE work
           /\ UNCHANGED faults
  <2> DEFINE r == [Synced(agent[a]) EXCEPT !.pc = "working"]
  <2>1. /\ Synced(agent[a]) \in Agent /\ Synced(agent[a]).rows \subseteq Pool
        /\ Synced(agent[a]) = [agent[a] EXCEPT !.rows = Synced(agent[a]).rows, !.cursor = Synced(agent[a]).cursor]
    BY <1>1, SyncedOK
  <2>2. /\ r \in Agent /\ r.pc = "working" /\ r.rows \subseteq Pool
        /\ r.on = agent[a].on /\ r.todo = agent[a].todo
    BY <1>1, <2>1 DEF Agent
  <2>3. agent' = [agent EXCEPT ![a] = r]
    BY <1>3 DEF IInv, TypeOK
  <2>4. faults' \in 0 .. MaxFaults /\ clock' \in Stamps
        /\ valid' \in [Agents -> 0 .. MaxGrants] /\ grants' \in [Agents -> 0 .. MaxGrants]
    BY <1>1, <1>3 DEF TypeOK
  <2> HIDE DEF r
  <2>5. CASE UNCHANGED work
    BY <1>1, <2>2, <2>3, <2>4, <2>5, AgentStepOK
  <2>6. CASE agent[a].on \in Searches /\ Leased(a) /\ work' = Renewed(agent[a].on)
    BY <1>1, <2>2, <2>3, <2>4, <2>6, RenewedOK, MoveStepOK
  <2> QED
    BY <1>3, <2>5, <2>6
<1> QED
  BY <1>2, <1>3 DEF Prepare

(* complete_job starts. *)
LEMMA BeginCompleteOK ==
  ASSUME IInv, NEW a \in Agents, BeginComplete(a)
  PROVE  IInv'
<1> DEFINE r == [agent[a] EXCEPT !.pc = "committing", !.stamp = clock + 1]
<1>1. /\ agent[a].pc = "working" /\ Leased(a) /\ agent[a].on \in Jobs
      /\ clock \in Nat /\ clock' = clock + 1 /\ clock < MaxJobs + MaxFaults
      /\ UNCHANGED <<work, item, tagged, again, rowAt, valid, grants, faults>>
  BY BoundsOK DEF BeginComplete, IInv, TypeOK, Stamps
<1>0. agent' = [agent EXCEPT ![a] = r]
  BY DEF BeginComplete, IInv, TypeOK
<1>2. clock' \in Stamps
  BY <1>1, BoundsOK DEF Stamps
<1>3. /\ r \in Agent /\ r.pc = "committing" /\ r.stamp = clock + 1
      /\ r.on = agent[a].on /\ r.todo = agent[a].todo /\ r.rows = agent[a].rows
  BY <1>1, <1>2, MachineOK DEF Agent
<1>4. work[agent[a].on].status = "running" /\ work[agent[a].on].by[1] = a
  BY <1>1 DEF Leased, Holds
<1>5. /\ valid' \in [Agents -> 0 .. MaxGrants] /\ grants' \in [Agents -> 0 .. MaxGrants]
      /\ faults' \in 0 .. MaxFaults
  BY <1>1 DEF IInv, TypeOK
<1>6. r.pc = "committing" => /\ r.on \in Jobs /\ r.stamp > 0
                             /\ work[r.on].status = "running" /\ work[r.on].by[1] = a
  BY <1>1, <1>3, <1>4
<1>7. r.on \in Work /\ r.todo \subseteq work[r.on].orders /\ r.rows \subseteq Pool
  BY <1>1, <1>3, MachineOK
<1> HIDE DEF r
<1> QED
  BY <1>0, <1>1, <1>2, <1>3, <1>5, <1>6, <1>7, AgentStepOK

(* Work that the machine's own call ends, and the leases: no job is locked then. *)
LEMMA LeaseStepsOK ==
  ASSUME IInv, NEW a \in Agents, CompleteSearch(a) \/ ReportFailure(a) \/ Beat(a)
  PROVE  IInv'
<1> DEFINE v == agent[a].on
<1>1. agent[a].pc # "idle" /\ v \in Work
  BY MachineOK DEF CompleteSearch, ReportFailure, Beat
<1>2. UNCHANGED <<item, tagged, again, rowAt, clock, valid, grants>>
  BY DEF CompleteSearch, ReportFailure, Beat
<1>3. Leased(a) => work[v].status = "running" /\ work[v].by[1] = a /\ Active(v)
  BY DEF Leased, Holds, Active
<1>4. Leased(a) /\ agent[a].pc # "committing" => ~ Locked(v)
  BY <1>3 DEF Locked, IInv, CompletingIsLocked
<1>5. ASSUME NEW st \in {"completed", "failed"}, Leased(a), agent[a].pc # "committing",
             st = "completed" => v \in Searches,
             work' = [work EXCEPT ![v] = EndOf(@, st)], Drop(a) \/ GiveUp(a), Fault \/ UNCHANGED faults
      PROVE  IInv'
  <2>1. PICK r \in Agent : /\ agent' = [agent EXCEPT ![a] = r]
                           /\ r.pc \in {"idle", "failing"} /\ r.rows \subseteq Pool
                           /\ r.pc # "idle" => r.on \in Work
                           /\ r.on \in Work => r.todo \subseteq work[r.on].orders
    BY <1>1, <1>5, LeavesOK
  <2>2. /\ EndOf(work[v], st) \in WorkRow /\ EndOf(work[v], st).status = st
        /\ EndOf(work[v], st).orders = work[v].orders /\ EndOf(work[v], st).by \notin Device
    BY <1>1, RowsOK
  <2>3. work' = [work EXCEPT ![v] = EndOf(work[v], st)]
    BY <1>5
  <2>4. v \in Jobs => Active(v) /\ EndOf(work[v], st).status # "completed"
    BY <1>3, <1>5, <2>2, BoundsOK
  <2>5. ~ Locked(v) /\ faults' \in 0 .. MaxFaults
    BY <1>4, <1>5, FaultOK
  <2> HIDE DEF v
  <2> QED
    BY <1>1, <1>2, <2>1, <2>2, <2>3, <2>4, <2>5, MoveStepOK
<1>6. CASE CompleteSearch(a)
  BY <1>5, <1>6 DEF CompleteSearch
<1>7. CASE ReportFailure(a)
  <2>1. CASE Leased(a) /\ work' = [work EXCEPT ![v] = EndOf(@, "failed")]
    BY <1>5, <1>7, <2>1 DEF ReportFailure
  <2>2. CASE UNCHANGED work
    BY <1>1, <1>2, <1>7, <2>2, FaultOK, LeaveStepOK DEF ReportFailure
  <2> QED
    BY <1>7, <2>1, <2>2 DEF ReportFailure
<1>8. CASE Beat(a)
  <2> DEFINE row == [work[v] EXCEPT !.fresh = TRUE]
  <2>1. /\ row \in WorkRow /\ Renewed(v) = [work EXCEPT ![v] = row]
        /\ row.orders = work[v].orders /\ row.status = work[v].status /\ row.by = work[v].by
        /\ row.status = "running" /\ row.by \in Device /\ Active(v)
    BY <1>1, <1>8, RenewedOK DEF Beat
  <2>2. work' = Renewed(v) /\ UNCHANGED <<agent, faults>>
    BY <1>8 DEF Beat
  <2> HIDE DEF v, row
  <2> QED
    BY <1>1, <1>2, <2>1, <2>2, RowStepOK, FaultOK
<1> QED
  BY <1>6, <1>7, <1>8

(* A lease runs out. *)
LEMMA ExpiresOK ==
  ASSUME IInv, NEW w \in Work, LeaseExpires(w)
  PROVE  IInv'
<1> DEFINE row == [work[w] EXCEPT !.fresh = FALSE]
<1>1. /\ work[w].status = "running" /\ work' = [work EXCEPT ![w] = row]
      /\ UNCHANGED <<item, tagged, again, rowAt, clock, valid, grants, agent>> /\ (Fault \/ UNCHANGED faults)
  BY DEF LeaseExpires, IInv, TypeOK
<1>2. /\ work[w] \in WorkRow /\ row \in WorkRow /\ (work[w].status = "running" <=> work[w].by \in Device)
  BY RowsOK
<1>3. /\ row.status = work[w].status /\ row.by = work[w].by /\ row.orders = work[w].orders /\ Active(w)
  BY <1>1, <1>2 DEF WorkRow, Active
<1> HIDE DEF row
<1> QED
  BY <1>1, <1>2, <1>3, RowStepOK, FaultOK

(* A result is stored: its order is the job's own, and has none elsewhere. *)
LEMMA SubmitItemOK ==
  ASSUME IInv, NEW a \in Agents, NEW o \in Orders, SubmitItem(a, o)
  PROVE  IInv'
<1> DEFINE j == agent[a].on
           row == [work[j] EXCEPT !.fresh = TRUE]
<1>1. /\ agent[a].pc = "working" /\ o \in agent[a].todo /\ Leased(a) /\ work' = Renewed(j)
      /\ UNCHANGED <<tagged, again, rowAt, clock, valid, grants>>
  BY DEF SubmitItem
<1>2. /\ j \in Work /\ row \in WorkRow /\ work' = [work EXCEPT ![j] = row]
      /\ row.orders = work[j].orders /\ row.status = work[j].status /\ row.by = work[j].by
      /\ row.status = "running" /\ row.by \in Device /\ Active(j)
  BY <1>1, RenewedOK
<1>3. \E r \in Agent : /\ agent' = [agent EXCEPT ![a] = r]
                       /\ r.pc \in {"working", "failing"} /\ r.rows \subseteq Pool
                       /\ r.on \in Work /\ r.todo \subseteq work[r.on].orders
  <2> DEFINE r == [agent[a] EXCEPT !.todo = @ \ {o}]
  <2>1. CASE agent' = [agent EXCEPT ![a].todo = @ \ {o}]
    <3>1. /\ r \in Agent /\ agent' = [agent EXCEPT ![a] = r] /\ r.pc = "working"
          /\ r.on = j /\ r.todo \subseteq agent[a].todo /\ r.rows = agent[a].rows
      BY <1>1, <2>1, MachineOK DEF Agent, IInv, TypeOK
    <3> HIDE DEF r
    <3> QED
      BY <1>2, <3>1, MachineOK
  <2>2. CASE GiveUp(a)
    <3>1. PICK q \in Agent : /\ agent' = [agent EXCEPT ![a] = q]
                             /\ q.pc \in {"idle", "failing"} /\ q.rows \subseteq Pool
                             /\ q.pc # "idle" => q.on \in Work
                             /\ q.on \in Work => q.todo \subseteq work[q.on].orders
      BY <1>1, <2>2, LeavesOK
    <3>2. q.pc = "failing"
      BY <2>2, <3>1 DEF GiveUp, IInv, TypeOK, Agent
    <3> QED
      BY <3>1, <3>2
  <2> QED
    BY <2>1, <2>2 DEF SubmitItem
<1>4. /\ agent \in [Agents -> Agent] /\ work \in [Work -> WorkRow] /\ item \in [Jobs -> SUBSET Orders]
      /\ (item' = item \/ (item' = [item EXCEPT ![j] = @ \cup {o}]))
      /\ faults' \in 0 .. MaxFaults
  BY FaultOK DEF IInv, TypeOK, SubmitItem, WithResult
<1> HIDE DEF row
<1>5. \A w \in Work : /\ work'[w].orders = work[w].orders /\ work'[w].status = work[w].status
                      /\ work'[w].by = work[w].by /\ (Active(w)' <=> Active(w))
  BY <1>2, <1>4 DEF Active
<1>6. o \in work[j].orders
  BY <1>1, <1>2, MachineOK
<1>7. \A i \in Jobs : /\ item[i] \subseteq item'[i] /\ item'[i] \subseteq item[i] \cup {o}
                      /\ i # j => item'[i] = item[i]
  BY <1>4
<1>8. TypeOK'
  <2>1. work' \in [Work -> WorkRow] /\ item' \in [Jobs -> SUBSET Orders] /\ agent' \in [Agents -> Agent]
    BY <1>2, <1>3, <1>4
  <2> QED
    BY <1>1, <1>4, <1>5, <2>1 DEF IInv, TypeOK
<1>9. TodoIsAssigned'
  BY <1>3, <1>4, <1>5, MachineOK DEF TodoIsAssigned
<1>10. CompletingIsLocked'
  <2> SUFFICES ASSUME NEW b \in Agents, agent'[b].pc = "committing"
               PROVE  /\ agent'[b].on \in Jobs /\ agent'[b].stamp > 0
                      /\ work'[agent'[b].on].status = "running" /\ work'[agent'[b].on].by[1] = b
    BY DEF CompletingIsLocked
  <2>1. agent'[b] = agent[b]
    BY <1>3, <1>4
  <2>2. /\ agent[b].on \in Jobs /\ agent[b].stamp > 0
        /\ work[agent[b].on].status = "running" /\ work[agent[b].on].by[1] = b
    BY <2>1 DEF IInv, CompletingIsLocked
  <2> QED
    BY <1>5, <2>1, <2>2, BoundsOK
<1>11. ResultsAreOwn'
  BY <1>5, <1>6, <1>7, BoundsOK DEF IInv, ResultsAreOwn
<1>12. ActiveIsExclusive'
  <2> SUFFICES ASSUME NEW k \in Jobs, NEW i \in Jobs, i # k, Active(k)
               PROVE  /\ work[k].orders \cap item'[i] = {}
                      /\ Active(i) => work[i].orders \cap work[k].orders = {}
    BY <1>5, BoundsOK DEF ActiveIsExclusive
  <2>1. /\ work[k].orders \cap item[i] = {}
        /\ Active(i) => work[i].orders \cap work[k].orders = {}
    BY DEF IInv, ActiveIsExclusive
  <2>2. i = j => o \notin work[k].orders
    BY <1>2, <1>6, <2>1
  <2> QED
    BY <1>7, <2>1, <2>2
<1>13. OneResult'
  <2> SUFFICES ASSUME NEW k \in Jobs, NEW i \in Jobs, i # k
               PROVE  item'[i] \cap item'[k] = {}
    BY DEF OneResult
  <2>1. item[i] \cap item[k] = {}
    BY DEF IInv, OneResult
  <2>2. j \in Jobs => \A l \in Jobs \ {j} : o \notin item[l]
    BY <1>2, <1>6 DEF IInv, ActiveIsExclusive
  <2> QED
    BY <1>7, <2>1, <2>2
<1>14. PoolIsCompleted'
  <2>1. Pool' = Pool
    BY <1>1 DEF Pool
  <2>2. \A b \in Agents : agent'[b].rows \subseteq Pool
    BY <1>3, <1>4, MachineOK
  <2> QED
    BY <1>1, <1>5, <1>7, <2>1, <2>2, BoundsOK DEF IInv, PoolIsCompleted
<1> QED
  BY <1>8, <1>9, <1>10, <1>11, <1>12, <1>13, <1>14 DEF IInv

(* What could be promoted of a batch enters the pool and its job ends, at once. *)
LEMMA CommitOK ==
  ASSUME IInv, NEW a \in Agents, CommitComplete(a)
  PROVE  /\ IInv'
         /\ agent[a].on \in Jobs /\ work[agent[a].on].status = "running"
         /\ \E S \in SUBSET item[agent[a].on] : Pool' = Pool \cup S
         /\ \A w \in Work : work'[w].status = IF w = agent[a].on THEN "completed" ELSE work[w].status
<1> DEFINE j == agent[a].on
           row == EndOf(work[j], "completed")
<1>0. PICK S \in SUBSET item[j] : rowAt' = Promoted(S, agent[a].stamp)
  BY DEF CommitComplete
<1>1. /\ agent[a].pc = "committing"
      /\ (Drop(a) \/ GiveUp(a)) /\ (Fault \/ UNCHANGED faults)
      /\ UNCHANGED <<item, tagged, again, clock, valid, grants>> /\ work' = [work EXCEPT ![j] = row]
  BY DEF CommitComplete
<1>2. /\ j \in Jobs /\ j \in Work /\ work[j].status = "running" /\ work[j].by[1] = a
      /\ agent[a].stamp > 0 /\ agent[a].stamp \in Stamps
  BY <1>1, BoundsOK, MachineOK DEF IInv, CompletingIsLocked, Agent
<1>3. /\ row \in WorkRow /\ row.status = "completed" /\ row.orders = work[j].orders
      /\ row.by \notin Device
  BY <1>2, RowsOK
<1> HIDE DEF row
<1>4. /\ work'[j] = row /\ \A w \in Work \ {j} : work'[w] = work[w]
      /\ work' \in [Work -> WorkRow]
  BY <1>1, <1>2, <1>3 DEF IInv, TypeOK
<1>5. \A w \in Work : /\ work'[w].orders = work[w].orders
                      /\ work'[w].status = IF w = j THEN "completed" ELSE work[w].status
  BY <1>3, <1>4
<1>6. PICK r \in Agent : /\ agent' = [agent EXCEPT ![a] = r]
                         /\ r.pc \in {"idle", "failing"} /\ r.rows \subseteq Pool
                         /\ r.pc # "idle" => r.on \in Work
                         /\ r.on \in Work => r.todo \subseteq work[r.on].orders
  BY <1>1, LeavesOK
<1>7. agent'[a] = r /\ agent' \in [Agents -> Agent] /\ \A b \in Agents \ {a} : agent'[b] = agent[b]
  BY <1>6 DEF IInv, TypeOK
<1>8. S \subseteq item[j] /\ item[j] \subseteq Orders /\ rowAt \in [Orders -> Stamps]
  BY <1>2 DEF IInv, TypeOK
<1>9. rowAt' \in [Orders -> Stamps] /\ Pool' = Pool \cup S
  <2>1. rowAt' = [o \in Orders |-> IF o \in S THEN agent[a].stamp ELSE rowAt[o]]
    BY <1>0 DEF Promoted
  <2> QED
    BY <1>2, <1>8, <2>1 DEF Pool
<1>10. TypeOK'
  <2>1. faults' \in 0 .. MaxFaults
    BY <1>1, FaultOK
  <2> QED
    BY <1>1, <1>3, <1>4, <1>7, <1>9, <2>1 DEF IInv, TypeOK
<1>11. TodoIsAssigned'
  BY <1>5, <1>6, <1>7, MachineOK DEF TodoIsAssigned
<1>12. CompletingIsLocked'
  <2> SUFFICES ASSUME NEW b \in Agents, agent'[b].pc = "committing"
               PROVE  /\ agent'[b].on \in Jobs /\ agent'[b].stamp > 0
                      /\ work'[agent'[b].on].status = "running" /\ work'[agent'[b].on].by[1] = b
    BY DEF CompletingIsLocked
  <2>1. b # a /\ agent'[b] = agent[b]
    BY <1>6, <1>7
  <2>2. /\ agent[b].on \in Jobs /\ agent[b].stamp > 0
        /\ work[agent[b].on].status = "running" /\ work[agent[b].on].by[1] = b
    BY <2>1 DEF IInv, CompletingIsLocked
  <2>3. agent[b].on # j
    BY <1>2, <2>1, <2>2
  <2> QED
    BY <1>4, <2>1, <2>2, <2>3, BoundsOK
<1>13. \A w \in Work : Active(w)' => Active(w) /\ w # j
  BY <1>5 DEF Active
<1>14. ResultsAreOwn'
  BY <1>1, <1>5, BoundsOK DEF IInv, ResultsAreOwn
<1>15. ActiveIsExclusive'
  BY <1>1, <1>5, <1>13, BoundsOK DEF IInv, ActiveIsExclusive
<1>16. OneResult'
  BY <1>1 DEF IInv, OneResult
<1>17. PoolIsCompleted'
  <2>1. \A o \in Pool' \ again : \E i \in Jobs : o \in item[i] /\ work'[i].status = "completed"
    BY <1>2, <1>5, <1>8, <1>9, BoundsOK DEF IInv, PoolIsCompleted
  <2>2. \A b \in Agents : agent'[b].rows \subseteq Pool'
    BY <1>6, <1>7, <1>9, MachineOK
  <2> QED
    BY <1>1, <2>1, <2>2 DEF PoolIsCompleted
<1> QED
  BY <1>2, <1>5, <1>8, <1>9, <1>10, <1>11, <1>12, <1>14, <1>15, <1>16, <1>17 DEF IInv

(* An order that is tagged or comes back keeps its result; one that Support *)
(* returns loses it, in whatever job it was, and is remembered if its row   *)
(* is in the pool.                                                          *)
LEMMA TabStepsOK ==
  ASSUME IInv, NEW o \in Orders, Tag(o) \/ ComeBack(o) \/ ReturnToUnchecked(o)
  PROVE  IInv'
<1>1. /\ UNCHANGED <<work, rowAt, clock, valid, grants, agent>> /\ (Fault \/ UNCHANGED faults)
      /\ tagged' \in SUBSET Orders
  BY DEF Tag, ComeBack, ReturnToUnchecked, IInv, TypeOK
<1>2. faults' \in 0 .. MaxFaults /\ Pool' = Pool /\ \A w \in Work : Active(w)' <=> Active(w)
  BY <1>1, FaultOK DEF Pool, Active
<1>3. TodoIsAssigned' /\ CompletingIsLocked'
  BY <1>1 DEF IInv, TodoIsAssigned, CompletingIsLocked
<1>4. /\ item' \in [Jobs -> SUBSET Orders] /\ again' \in SUBSET Orders /\ again \subseteq again'
      /\ \A j \in Jobs : item'[j] \subseteq item[j]
      /\ \A q \in Pool \ again' : \A j \in Jobs : q \in item[j] => q \in item'[j]
  <2>1. CASE UNCHANGED <<item, again>>
    BY <2>1 DEF IInv, TypeOK
  <2>2. CASE ReturnToUnchecked(o)
    <3>1. /\ item' = [j \in Jobs |-> item[j] \ {o}] /\ again' = again \cup ({o} \cap Pool)
          /\ item \in [Jobs -> SUBSET Orders] /\ again \subseteq Orders
      BY <2>2 DEF ReturnToUnchecked, IInv, TypeOK
    <3> QED
      BY <3>1
  <2> QED
    BY <2>1, <2>2 DEF Tag, ComeBack
<1>5. TypeOK'
  BY <1>1, <1>2, <1>4 DEF IInv, TypeOK
<1>6. ResultsAreOwn' /\ OneResult'
  BY <1>1, <1>4 DEF IInv, ResultsAreOwn, OneResult
<1>7. ActiveIsExclusive'
  BY <1>1, <1>2, <1>4, BoundsOK DEF IInv, ActiveIsExclusive
<1>8. PoolIsCompleted'
  BY <1>1, <1>2, <1>4 DEF IInv, PoolIsCompleted
<1> QED
  BY <1>3, <1>5, <1>6, <1>7, <1>8 DEF IInv

-----------------------------------------------------------------------------
(* Nothing is queued, compared or connected at first. *)
LEMMA InitOK == Init => IInv
<1> SUFFICES ASSUME Init PROVE IInv
  OBVIOUS
<1>1. /\ work = [w \in Work |-> [status |-> "none", by |-> NoDevice, fresh |-> FALSE, orders |-> {}]]
      /\ item = [j \in Jobs |-> {}] /\ tagged = {} /\ again = {} /\ rowAt = [o \in Orders |-> 0] /\ clock = 0
      /\ valid = [b \in Agents |-> 0] /\ grants = [b \in Agents |-> 0] /\ faults = 0
      /\ agent = [b \in Agents |-> [token |-> 0, using |-> 0, pc |-> "idle", on |-> NoWork, todo |-> {},
                                    rows |-> {}, cursor |-> 0, stamp |-> 0]]
  BY DEF Init
<1>2. 0 \in 0 .. MaxGrants /\ 0 \in Stamps /\ 0 \in 0 .. MaxFaults
  BY Bounds DEF Stamps
<1>3. work \in [Work -> WorkRow] /\ \A w \in Work : ~ Active(w) /\ work[w].by \notin Device
  BY <1>1, NoDeviceIsNone DEF WorkRow, Active
<1>4. agent \in [Agents -> Agent]
  BY <1>1, <1>2 DEF Agent
<1>5. TypeOK
  BY <1>1, <1>2, <1>3, <1>4 DEF TypeOK, Active
<1>6. TodoIsAssigned /\ CompletingIsLocked
  BY <1>1, BoundsOK DEF TodoIsAssigned, CompletingIsLocked
<1>7. ResultsAreOwn /\ ActiveIsExclusive /\ OneResult
  BY <1>1, <1>3, BoundsOK DEF ResultsAreOwn, ActiveIsExclusive, OneResult
<1>8. Pool = {}
  BY <1>1 DEF Pool
<1>9. PoolIsCompleted
  BY <1>1, <1>8, BoundsOK DEF PoolIsCompleted
<1> QED
  BY <1>5, <1>6, <1>7, <1>9 DEF IInv

(* Every step keeps the invariant. *)
LEMMA StepOK == IInv /\ [Next]_vars => IInv'
<1> SUFFICES ASSUME IInv, [Next]_vars PROVE IInv'
  OBVIOUS
<1>1. CASE CreateJob \/ CreateSearch \/ \E j \in Jobs : CancelJob(j)
  BY <1>1, SupportStepsOK
<1>2. ASSUME NEW a \in Agents, Grant(a) \/ Disconnect(a) \/ Revoke(a) \/ Refresh(a) PROVE IInv'
  BY <1>2, DeviceStepsOK
<1>3. ASSUME NEW a \in Agents, Step(a) PROVE IInv'
  <2>1. CASE Dropped(a)
    BY <2>1, FaultOK, LeaveStepOK DEF Dropped
  <2> QED
    BY <1>3, <2>1, ClaimOK, PrepareOK, SubmitItemOK, BeginCompleteOK, CommitOK, LeaseStepsOK DEF Step
<1>4. ASSUME NEW a \in Agents, CallFails(a) \/ RollBack(a) \/ Crash(a) PROVE IInv'
  BY <1>4, FaultOK, LeaveStepOK DEF CallFails, RollBack, Crash
<1>5. ASSUME NEW a \in Agents, Beat(a) PROVE IInv'
  BY <1>5, LeaseStepsOK
<1>6. ASSUME NEW w \in Work, LeaseExpires(w) PROVE IInv'
  BY <1>6, ExpiresOK
<1>7. ASSUME NEW o \in Orders, Tag(o) \/ ComeBack(o) \/ ReturnToUnchecked(o) PROVE IInv'
  BY <1>7, TabStepsOK
<1>8. CASE UNCHANGED vars
  <2>1. UNCHANGED <<work, item, tagged, again, rowAt, clock, valid, grants, agent, faults>>
    BY <1>8 DEF vars
  <2> QED
    BY <2>1 DEF IInv, TypeOK, TodoIsAssigned, CompletingIsLocked, ResultsAreOwn, ActiveIsExclusive,
                OneResult, PoolIsCompleted, Active, Pool
<1> QED
  BY <1>1, <1>2, <1>3, <1>4, <1>5, <1>6, <1>7, <1>8 DEF Next

(* The inductive invariant of the queue, for any orders, machines and bounds. *)
THEOREM Invariance == Spec => []IInv
  BY InitOK, StepOK, PTL DEF Spec

(* Jobs, items, devices and machines keep their types (support_worker.py).  *)
THEOREM TypesHold == Spec => []TypeOK
<1>1. IInv => TypeOK
  BY DEF IInv
<1> QED
  BY <1>1, Invariance, PTL

(* Until Support returns it, an order has one result, whatever leases run   *)
(* out; two active jobs never hold it, and none holds one that another      *)
(* compared (create_support_compare_job, return_orders_to_unchecked).       *)
THEOREM EveryOrderComparedOnce == Spec => []ComparedOnce
<1>1. IInv => ComparedOnce
  BY DEF IInv, OneResult, ActiveIsExclusive, ComparedOnce
<1> QED
  BY <1>1, Invariance, PTL

(* An order with a result is in the pool only if its job is completed, or   *)
(* since before Support returned it (complete_support_compare).             *)
THEOREM PoolTakesClosedBatches == Spec => []PoolHoldsClosedBatches
<1>1. IInv => PoolHoldsClosedBatches
  BY BoundsOK DEF IInv, OneResult, PoolIsCompleted, PoolHoldsClosedBatches
<1> QED
  BY <1>1, Invariance, PTL

(* A machine never compares an order with one of the same job, however     *)
(* many machines have worked on the job, but for orders that Support       *)
(* returned with their rows in the pool (support_worker.py:618).           *)
THEOREM BatchesAreNotMatchedWithThemselves == Spec => []BatchIsNotComparedWithItself
<1>1. ASSUME IInv PROVE BatchIsNotComparedWithItself
  <2> SUFFICES ASSUME NEW a \in Agents, agent[a].on \in Jobs, Leased(a),
                      NEW o \in agent[a].rows, o \in work[agent[a].on].orders, o \notin again
               PROVE  FALSE
    BY DEF BatchIsNotComparedWithItself
  <2>1. PICK i \in Jobs : o \in item[i] /\ work[i].status = "completed"
    BY <1>1 DEF IInv, PoolIsCompleted
  <2>2. work[agent[a].on].status = "running" /\ Active(agent[a].on)
    BY DEF Leased, Holds, Active
  <2> QED
    BY <1>1, <2>1, <2>2 DEF IInv, ActiveIsExclusive
<1> QED
  BY <1>1, Invariance, PTL

-----------------------------------------------------------------------------
(* The register the queue implements sees a job's results as its batch.    *)
Results == {p \in Orders \X Jobs : p[1] \in item[p[2]]}
Published == {j \in Jobs : work[j].status = "completed"}

(* Steps that change neither results nor completed jobs nor the pool.      *)
LEMMA StutterOK ==
  ASSUME UNCHANGED <<item, rowAt>>,
         \A j \in Jobs : work'[j].status = "completed" <=> work[j].status = "completed"
  PROVE  Results' = Results /\ Published' = Published /\ Pool' = Pool
  BY DEF Results, Published, Pool

(* Most steps only write rows of work that is not completed, or to another status. *)
LEMMA QuietOK ==
  ASSUME IInv, NEW v \in Work, NEW row, work' = [work EXCEPT ![v] = row],
         v \in Jobs => work[v].status # "completed" /\ row.status # "completed",
         UNCHANGED <<item, rowAt>>
  PROVE  Results' = Results /\ Published' = Published /\ Pool' = Pool
<1>1. \A j \in Jobs : work'[j].status = "completed" <=> work[j].status = "completed"
  BY BoundsOK DEF IInv, TypeOK
<1> QED
  BY <1>1, StutterOK

(* Every step of the queue is a comparison, a publication, a return or no  *)
(* step of the register.                                                   *)
LEMMA StepImplements ==
  ASSUME IInv, Next
  PROVE  \/ Results' = Results /\ Published' = Published /\ Pool' = Pool
         \/ \E j \in Jobs :
              /\ j \notin Published /\ Published' = Published \cup {j}
              /\ \E S \in SUBSET {o \in Orders : <<o, j>> \in Results} : Pool' = Pool \cup S
              /\ Results' = Results
         \/ \E o \in Orders :
              Results' = {r \in Results : r[1] # o} /\ Published' = Published /\ Pool' = Pool
         \/ \E j \in Jobs, o \in Orders :
              /\ j \notin Published /\ \A i \in Jobs : <<o, i>> \notin Results
              /\ Results' = Results \cup {<<o, j>>} /\ Published' = Published /\ Pool' = Pool
<1> DEFINE Quiet == Results' = Results /\ Published' = Published /\ Pool' = Pool
<1>1. CASE CreateJob \/ CreateSearch
  <2>1. UNCHANGED <<item, rowAt>>
    BY <1>1 DEF CreateJob, CreateSearch
  <2>2. \A j \in Jobs : work'[j].status = "completed" <=> work[j].status = "completed"
    <3>1. PICK w \in Work, row \in WorkRow :
             row.status = "queued" /\ work[w].status = "none" /\ work' = [work EXCEPT ![w] = row]
      <4>1. CASE CreateJob
        <5>1. PICK j \in Jobs : /\ work[j].status = "none"
                                /\ work' = [work EXCEPT ![j].status = "queued", ![j].orders = Checkable]
          BY <4>1 DEF CreateJob
        <5> DEFINE row == [work[j] EXCEPT !.status = "queued", !.orders = Checkable]
        <5>2. j \in Work /\ row \in WorkRow /\ row.status = "queued" /\ work' = [work EXCEPT ![j] = row]
          BY <5>1, BoundsOK, RowsOK DEF WorkRow, Checkable, Unchecked, IInv, TypeOK
        <5> QED
          BY <5>1, <5>2
      <4>2. CASE CreateSearch
        <5>1. PICK j \in Searches : work[j].status = "none" /\ work' = [work EXCEPT ![j].status = "queued"]
          BY <4>2 DEF CreateSearch
        <5> DEFINE row == [work[j] EXCEPT !.status = "queued"]
        <5>2. j \in Work /\ work[j] \in WorkRow /\ work' = [work EXCEPT ![j] = row]
          BY <5>1, BoundsOK DEF IInv, TypeOK
        <5>3. row \in WorkRow /\ row.status = "queued"
          BY <5>2 DEF WorkRow
        <5> QED
          BY <5>1, <5>2, <5>3
      <4> QED
        BY <1>1, <4>1, <4>2
    <3> QED
      BY <3>1, BoundsOK DEF IInv, TypeOK
  <2> QED
    BY <2>1, <2>2, StutterOK
<1>2. ASSUME NEW j \in Jobs, CancelJob(j) PROVE Quiet
  BY <1>2, QuietOK, RowsOK, BoundsOK DEF CancelJob, Active
<1>3. ASSUME UNCHANGED <<work, item, rowAt>> PROVE Quiet
  BY <1>3, StutterOK
<1>4. ASSUME NEW a \in Agents, Grant(a) \/ Disconnect(a) \/ Revoke(a) \/ Refresh(a) \/ Dropped(a)
             \/ CallFails(a) \/ RollBack(a) \/ Crash(a) \/ BeginComplete(a)
      PROVE  Quiet
  BY <1>3, <1>4 DEF Grant, Disconnect, Revoke, Refresh, Dropped, CallFails, RollBack, Crash, BeginComplete
<1>5. ASSUME NEW a \in Agents, agent[a].pc # "idle", Leased(a), work' = Renewed(agent[a].on), UNCHANGED <<item, rowAt>>
      PROVE  Quiet
  <2> DEFINE v == agent[a].on
             row == [work[v] EXCEPT !.fresh = TRUE]
  <2>1. /\ v \in Work /\ Renewed(v) = [work EXCEPT ![v] = row]
        /\ row.status = work[v].status /\ row.status = "running"
    BY <1>5, RenewedOK
  <2> HIDE DEF row
  <2> QED
    BY <1>5, <2>1, QuietOK
<1>6. ASSUME NEW a \in Agents, Claim(a) PROVE Quiet
  <2>1. CASE UNCHANGED work
    BY <1>3, <1>6, <2>1 DEF Claim
  <2>2. ASSUME NEW w \in Offered, Handed(a, w) PROVE Quiet
    <3> DEFINE row == [work[w] EXCEPT !.status = "running", !.by = <<a, agent[a].token>>, !.fresh = TRUE]
    <3>1. w \in Work /\ work[w].status # "completed" /\ work' = [work EXCEPT ![w] = row]
      BY <2>2, OfferedOK DEF Claimable, Handed, IInv, TypeOK
    <3>2. row.status = "running"
      BY <3>1, RowsOK DEF WorkRow
    <3> QED
      BY <1>6, <3>1, <3>2, QuietOK DEF Claim
  <2> QED
    BY <1>6, <2>1, <2>2 DEF Claim
<1>7. ASSUME NEW a \in Agents, Prepare(a) \/ Beat(a) PROVE Quiet
  BY <1>3, <1>5, <1>7 DEF Prepare, Beat
<1>8. ASSUME NEW a \in Agents, CompleteSearch(a) \/ ReportFailure(a) PROVE Quiet
  <2> DEFINE v == agent[a].on
  <2>1. v \in Work /\ UNCHANGED <<item, rowAt>>
    BY <1>8, MachineOK DEF CompleteSearch, ReportFailure
  <2>2. CASE UNCHANGED work
    BY <1>3, <2>1, <2>2
  <2>3. ASSUME NEW st \in {"completed", "failed"}, Leased(a), st = "completed" => v \in Searches,
               work' = [work EXCEPT ![v] = EndOf(@, st)]
        PROVE  Quiet
    <3>1. work[v].status # "completed" /\ EndOf(work[v], st).status = st
      BY <2>1, <2>3, RowsOK DEF Leased, Holds
    <3> QED
      BY <2>1, <2>3, <3>1, QuietOK, BoundsOK
  <2> QED
    BY <1>8, <2>2, <2>3 DEF CompleteSearch, ReportFailure
<1>9. ASSUME NEW w \in Work, LeaseExpires(w) PROVE Quiet
  BY <1>9, QuietOK, RowsOK DEF LeaseExpires, WorkRow
<1>10. ASSUME NEW a \in Agents, NEW o \in Orders, SubmitItem(a, o)
       PROVE  \/ Quiet
              \/ \E j \in Jobs : /\ j \notin Published /\ \A i \in Jobs : <<o, i>> \notin Results
                                /\ Results' = Results \cup {<<o, j>>} /\ Published' = Published /\ Pool' = Pool
  <2> DEFINE j == agent[a].on
  <2>1. /\ agent[a].pc = "working" /\ o \in agent[a].todo /\ Leased(a) /\ work' = Renewed(j)
        /\ UNCHANGED rowAt /\ (item' = item \/ item' = WithResult(j, o))
    BY <1>10 DEF SubmitItem
  <2>2. CASE item' = item
    BY <1>5, <2>1, <2>2
  <2>3. CASE item' # item
    <3>1. /\ j \in Work /\ o \in work[j].orders /\ Active(j) /\ work[j].status # "completed"
          /\ \A w \in Work : work'[w].status = work[w].status
      BY <2>1, RenewedOK, MachineOK DEF IInv, TypeOK, Leased, Holds
    <3>2. j \in Jobs /\ item \in [Jobs -> SUBSET Orders] /\ item' = [item EXCEPT ![j] = @ \cup {o}]
      BY <2>1, <2>3 DEF IInv, TypeOK, WithResult
    <3>3. \A i \in Jobs : o \notin item[i]
      BY <3>1, <3>2, <2>3 DEF IInv, ActiveIsExclusive
    <3>4. j \notin Published /\ Published' = Published /\ Pool' = Pool
      BY <2>1, <3>1, BoundsOK DEF Published, Pool
    <3>5. Results' = Results \cup {<<o, j>>}
      BY <3>2 DEF Results
    <3>6. \A i \in Jobs : <<o, i>> \notin Results
      BY <3>3 DEF Results
    <3> QED
      BY <3>2, <3>4, <3>5, <3>6
  <2> QED
    BY <2>2, <2>3
<1>11. ASSUME NEW a \in Agents, CommitComplete(a)
       PROVE  \E j \in Jobs : /\ j \notin Published /\ Published' = Published \cup {j}
                             /\ \E S \in SUBSET {o \in Orders : <<o, j>> \in Results} : Pool' = Pool \cup S
                             /\ Results' = Results
  <2> DEFINE j == agent[a].on
  <2>1. /\ j \in Jobs /\ work[j].status = "running" /\ \E S \in SUBSET item[j] : Pool' = Pool \cup S
        /\ \A w \in Work : work'[w].status = IF w = j THEN "completed" ELSE work[w].status
    BY <1>11, CommitOK
  <2>2. item' = item /\ item[j] \subseteq Orders
    BY <1>11, <2>1 DEF CommitComplete, IInv, TypeOK
  <2> HIDE DEF j
  <2>3. item[j] = {o \in Orders : <<o, j>> \in Results} /\ Results' = Results
    BY <2>1, <2>2 DEF Results
  <2>4. j \notin Published /\ Published' = Published \cup {j}
    BY <2>1, BoundsOK DEF Published
  <2> QED
    BY <2>1, <2>3, <2>4
<1>12. ASSUME NEW o \in Orders, Tag(o) \/ ComeBack(o) PROVE Quiet
  BY <1>3, <1>12 DEF Tag, ComeBack
<1>13. ASSUME NEW o \in Orders, ReturnToUnchecked(o)
       PROVE  Results' = {r \in Results : r[1] # o} /\ Published' = Published /\ Pool' = Pool
  <2>1. item' = [j \in Jobs |-> item[j] \ {o}] /\ UNCHANGED <<work, rowAt>>
    BY <1>13 DEF ReturnToUnchecked
  <2>2. Results' = {r \in Results : r[1] # o}
    BY <2>1 DEF Results
  <2> QED
    BY <2>1, <2>2 DEF Published, Pool
<1> QED
  BY <1>1, <1>2, <1>4, <1>6, <1>7, <1>8, <1>9, <1>10, <1>11, <1>12, <1>13 DEF Next, Step

(* The queue implements the register: one result per order until it is     *)
(* returned, batches that are closed as orders of theirs enter the pool,   *)
(* and a pool no order leaves (support_worker.py, support_return.py).      *)
THEOREM QueueImplementsRegister == Spec => ImplementsRegister
<1>1. Init => Register!Init
  <2>1. Init => Results = {} /\ Published = {} /\ Pool = {}
    <3> SUFFICES ASSUME Init PROVE Results = {} /\ Published = {} /\ Pool = {}
      OBVIOUS
    <3>1. \A j \in Jobs : item[j] = {} /\ work[j].status = "none"
      BY BoundsOK DEF Init
    <3>2. Results = {}
      BY <3>1 DEF Results
    <3>3. \A o \in Orders : rowAt[o] = 0
      BY DEF Init
    <3>4. Published = {} /\ Pool = {}
      BY <3>1, <3>3 DEF Published, Pool
    <3> QED
      BY <3>2, <3>4
  <2> QED
    BY <2>1 DEF Register!Init, Results, Published
<1>2. IInv /\ [Next]_vars => [Register!Next]_(Register!vars)
  <2>1. CASE UNCHANGED vars
    BY <2>1 DEF vars, Register!vars, Pool
  <2>2. CASE IInv /\ Next
    BY <2>2, StepImplements
       DEF Register!Next, Register!vars, Register!Publish, Register!Compare, Register!Retire, Results, Published
  <2> QED
    BY <2>1, <2>2
<1> QED
  BY <1>1, <1>2, Invariance, PTL DEF Spec, ImplementsRegister, Register!Spec
-----------------------------------------------------------------------------
Deciding(w) == handler[w].pc = "decide"

\* What is sent or answered is a candidate.
HandlesACandidate ==
  \A w \in Workers : handler[w].pc \in {"send", "deliver", "decide", "withdraw"} => handler[w].c \in Candidates

\* A handler commits a verdict on a candidate that is still undecided, and whose row only it holds.
DecidesAnOpenPair ==
  \A w \in Workers : Deciding(w) =>
    /\ decision[handler[w].c] = "pending" /\ handler[w].to \in Verdicts
    /\ \A v \in Workers : Deciding(v) /\ handler[v].c = handler[w].c => v = w

\* A verdict settles every candidate of the order, and nothing else does.
VerdictSettles ==
  \A c \in Candidates : decision[c] \in Verdicts =>
    \A d \in Candidates \ {c} : decision[d] = "superseded"
SupersededByVerdict ==
  \A c \in Candidates : decision[c] = "superseded" => \E d \in Candidates : decision[d] \in Verdicts

\* What is about to be tagged as a duplicate, or was, has that verdict.
TagsAVerdict ==
  \A w \in Workers : handler[w].pc = "tag" /\ handler[w].to = "duplicate"
                       => \E c \in Candidates : decision[c] = "duplicate"

\* A pair that counts as sent is the chosen one from then on until its verdict.
VerdictOnTheChosen ==
  /\ \A w \in Workers : Deciding(w) /\ handler[w].c \in notified => pairItem.chosen = handler[w].c
  /\ ~early => \A c \in Candidates : decision[c] \in Verdicts => c \in notified /\ pairItem.chosen = c

PairInv == /\ PairTypeOK /\ HandlesACandidate /\ DecidesAnOpenPair /\ VerdictSettles /\ SupersededByVerdict
        /\ TagsAVerdict /\ LotTagHasVerdict /\ VerdictOnTheChosen

-----------------------------------------------------------------------------
(* A handler that is idle, and what it becomes. *)
LEMMA HandlersOK ==
  ASSUME PairTypeOK, NEW w \in Workers, NEW h \in Handler, Becomes(w, h)
  PROVE  /\ handler' \in [Workers -> Handler] /\ handler'[w] = h
         /\ \A v \in Workers \ {w} : handler'[v] = handler[v]
  BY DEF PairTypeOK, Becomes

LEMMA AtRestOK == AtRest \in Handler /\ AtRest.pc = "idle"
  BY DEF AtRest, Handler, Tags

(* A step that decides nothing and chooses no pair.  The handler w it moves *)
(* neither decides nor tags a duplicate of its own accord.                  *)
LEMMA QuietStep ==
  ASSUME PairInv, PairTypeOK', HandlesACandidate', UNCHANGED <<pairItem, decision, early>>,
         lotTag' = lotTag \/ lotTag' # "duplicate",
         \A w \in Workers : Deciding(w)' => handler'[w] = handler[w],
         \A w \in Workers : handler'[w].pc = "tag" /\ handler'[w].to = "duplicate"
                               => \E c \in Candidates : decision[c] = "duplicate",
         notified \subseteq notified',
         \A w \in Workers : Deciding(w) /\ handler[w].c \in notified' => handler[w].c \in notified
  PROVE  PairInv'
<1>1. DecidesAnOpenPair'
  BY DEF PairInv, DecidesAnOpenPair, Deciding
<1>2. VerdictSettles' /\ SupersededByVerdict'
  BY DEF PairInv, VerdictSettles, SupersededByVerdict
<1>3. TagsAVerdict' /\ LotTagHasVerdict'
  BY DEF PairInv, TagsAVerdict, LotTagHasVerdict
<1>4. VerdictOnTheChosen'
  BY DEF PairInv, VerdictOnTheChosen, Deciding
<1> QED
  BY <1>1, <1>2, <1>3, <1>4 DEF PairInv

(* A person chooses on the web: not once the chosen pair was sent.         *)
LEMMA ChoiceOK ==
  ASSUME PairInv, (\E c \in Candidates : SelectCandidate(c)) \/ RejectItem
  PROVE  PairInv'
<1>1. /\ pairItem.chosen \notin notified
      /\ UNCHANGED <<decision, notified, order, open, shown, handler, lotTag, early, late, failures>>
  BY DEF SelectCandidate, RejectItem, Reviewable, AlreadySent, history
<1>2. PairTypeOK'
  <2>1. CASE RejectItem
    BY <1>1, <2>1 DEF RejectItem, PairInv, PairTypeOK
  <2>2. ASSUME NEW c \in Candidates, SelectCandidate(c) PROVE PairTypeOK'
    BY <1>1, <2>2, PairConstants DEF SelectCandidate, PairInv, PairTypeOK
  <2> QED
    BY <2>1, <2>2
<1>3. HandlesACandidate' /\ DecidesAnOpenPair' /\ VerdictSettles' /\ SupersededByVerdict' /\ TagsAVerdict' /\ LotTagHasVerdict'
  BY <1>1 DEF PairInv, HandlesACandidate, DecidesAnOpenPair, VerdictSettles, SupersededByVerdict, TagsAVerdict, LotTagHasVerdict, Deciding
<1>4. VerdictOnTheChosen'
  BY <1>1 DEF PairInv, VerdictOnTheChosen, Deciding
<1> QED
  BY <1>2, <1>3, <1>4 DEF PairInv

(* A step that moves one handler to other work than deciding or tagging a duplicate. *)
LEMMA MoveOK ==
  ASSUME PairInv, NEW w \in Workers, NEW h \in Handler, Becomes(w, h),
         h.pc # "decide", h.pc # "tag" \/ h.to # "duplicate" \/ (\E c \in Candidates : decision[c] = "duplicate"),
         h.pc \in {"send", "deliver", "withdraw"} => h.c \in Candidates,
         UNCHANGED <<pairItem, decision, early, order, lotTag>>,
         open' \subseteq Chats \X Candidates, shown' \subseteq Chats \X Candidates,
         notified \subseteq notified', notified' \subseteq Candidates,
         \A v \in Workers : Deciding(v) /\ handler[v].c \in notified' => handler[v].c \in notified,
         late' \in BOOLEAN, failures' \in 0 .. MaxFailures
  PROVE  PairInv'
<1>1. /\ handler' \in [Workers -> Handler] /\ handler'[w] = h
      /\ \A v \in Workers \ {w} : handler'[v] = handler[v]
  BY HandlersOK DEF PairInv
<1>2. PairTypeOK'
  BY <1>1 DEF PairInv, PairTypeOK
<1>3. HandlesACandidate'
  BY <1>1 DEF PairInv, HandlesACandidate
<1>4. \A v \in Workers : /\ Deciding(v)' => handler'[v] = handler[v]
                         /\ handler'[v].pc = "tag" /\ handler'[v].to = "duplicate"
                              => \E c \in Candidates : decision[c] = "duplicate"
  BY <1>1 DEF PairInv, TagsAVerdict, Deciding
<1> QED
  BY <1>2, <1>3, <1>4, QuietStep

(* The pair is sent.  A pair whose verdict is being committed is not counted as sent meanwhile. *)
LEMMA SendingOK ==
  ASSUME PairInv, NEW w \in Workers,
         \/ \E resend \in BOOLEAN : PickPair(w, resend)
         \/ CreateActions(w) \/ RecordSent(w) \/ \E a \in Chats : Deliver(w, a)
  PROVE  PairInv'
<1> DEFINE h == handler[w]
<1>1. /\ h \in Handler /\ pairItem.chosen \in Candidates \cup {NoCandidate} /\ PairTypeOK
      /\ open \subseteq Chats \X Candidates /\ shown \subseteq Chats \X Candidates
      /\ notified \subseteq Candidates /\ late \in BOOLEAN /\ failures \in 0 .. MaxFailures
      /\ h.pc \in {"send", "deliver"} => h.c \in Candidates
  BY DEF PairInv, PairTypeOK, HandlesACandidate
<1>2. CASE \E resend \in BOOLEAN : PickPair(w, resend)
  <2>1. PICK R \in Recipients : Becomes(w, [AtRest EXCEPT !.pc = "send", !.c = pairItem.chosen, !.todo = R])
    BY <1>2 DEF PickPair
  <2> DEFINE n == [AtRest EXCEPT !.pc = "send", !.c = pairItem.chosen, !.todo = R]
  <2>2. R \subseteq Chats /\ pairItem.chosen \in Candidates
    BY <1>1, <1>2 DEF Recipients, Chats, PickPair, PairTypeOK
  <2>3. n \in Handler /\ n.pc = "send" /\ n.c = pairItem.chosen /\ Becomes(w, n)
    BY <2>1, <2>2, AtRestOK DEF Handler, AtRest
  <2>4. UNCHANGED <<pairItem, decision, notified, order, open, shown, lotTag, early, late, failures>>
    BY <1>2 DEF PickPair, history
  <2> HIDE DEF n, h
  <2> QED
    BY <1>1, <2>1, <2>2, <2>3, <2>4, MoveOK
<1>3. CASE CreateActions(w)
  <2> DEFINE n == [h EXCEPT !.pc = "deliver"]
  <2>1. n \in Handler /\ n.pc = "deliver" /\ n.c = h.c /\ Becomes(w, n) /\ h.c \in Candidates
    BY <1>1, <1>3 DEF CreateActions, Handler
  <2>2. h.todo \subseteq Chats
    BY <1>1 DEF Handler
  <2>3. open' \subseteq Chats \X Candidates
    BY <1>1, <1>3, <2>1, <2>2 DEF CreateActions
  <2>4. late' \in BOOLEAN /\ UNCHANGED <<pairItem, decision, notified, order, shown, lotTag, early, failures>>
    BY <1>1, <1>3 DEF CreateActions
  <2> HIDE DEF n, h
  <2> QED
    BY <1>1, <2>1, <2>3, <2>4, MoveOK
<1>4. CASE RecordSent(w)
  <2>1. /\ Becomes(w, AtRest) /\ UNCHANGED <<pairItem, decision, order, open, shown, lotTag, early, late, failures>>
        /\ notified' = (IF h.got THEN notified \cup {h.c} ELSE notified) /\ (h.got => ~ LockedRow(h.c))
        /\ h.pc = "deliver"
    BY <1>4 DEF RecordSent, history
  <2>2. \A v \in Workers : Deciding(v) /\ handler[v].c \in notified' => handler[v].c \in notified
    BY <2>1 DEF LockedRow, Deciding
  <2>3. notified \subseteq notified' /\ notified' \subseteq Candidates
    BY <1>1, <2>1
  <2> QED
    BY <1>1, <2>1, <2>2, <2>3, AtRestOK, MoveOK
<1>5. ASSUME NEW a \in Chats, Deliver(w, a) PROVE PairInv'
  <2> DEFINE n(g) == [h EXCEPT !.todo = @ \ {a}, !.got = g]
  <2>1. /\ h.pc = "deliver" /\ UNCHANGED <<pairItem, decision, notified, order, open, lotTag, early, late>>
    BY <1>5 DEF Deliver, history
  <2>6. (UNCHANGED failures /\ shown' = shown \cup {<<a, h.c>>}) \/ (Failure /\ UNCHANGED shown)
    BY <1>5 DEF Deliver
  <2>7. h.c \in Candidates
    BY <1>1, <2>1
  <2>4. failures' \in 0 .. MaxFailures
    <3>1. Failure => failures' \in 0 .. MaxFailures
      BY <1>1, PairConstants DEF Failure
    <3> QED
      BY <1>1, <2>6, <3>1
  <2>5. shown' \subseteq Chats \X Candidates
    <3> HIDE DEF h
    <3>1. <<a, h.c>> \in Chats \X Candidates
      BY <2>7
    <3> QED
      BY <1>1, <2>6, <3>1
  <2>2. \E g \in BOOLEAN : Becomes(w, n(g))
    BY <1>1, <1>5 DEF Deliver, Handler
  <2>3. \A g \in BOOLEAN : n(g) \in Handler /\ n(g).pc = "deliver" /\ n(g).c = h.c
    BY <1>1, <2>1 DEF Handler
  <2> HIDE DEF n, h
  <2> QED
    BY <1>1, <2>1, <2>2, <2>3, <2>4, <2>5, MoveOK
<1> QED
  BY <1>2, <1>3, <1>4, <1>5

(* The first answer: the row of its candidate is locked, and undecided.    *)
LEMMA PressOK ==
  ASSUME PairInv, NEW w \in Workers, NEW a \in Chats, NEW c \in Candidates, NEW v \in Verdicts,
         PressButton(w, a, c, v)
  PROVE  PairInv'
<1> DEFINE n == [AtRest EXCEPT !.pc = "decide", !.c = c, !.chat = {a}, !.to = v]
<1>1. /\ Becomes(w, n) /\ ~ LockedRow(c) /\ decision[c] = "pending" /\ pairItem.chosen = c
      /\ UNCHANGED <<pairItem, decision, notified, order, open, shown, lotTag, early, late, failures>>
  BY DEF PressButton, Undecided, history
<1>2. n \in Handler /\ n.pc = "decide" /\ n.c = c /\ n.to = v
  BY AtRestOK DEF Handler, AtRest, Verdicts, Tags
<1>3. /\ handler' \in [Workers -> Handler] /\ handler'[w] = n
      /\ \A u \in Workers \ {w} : handler'[u] = handler[u]
  BY <1>1, <1>2, HandlersOK DEF PairInv
<1> HIDE DEF n
<1>4. PairTypeOK'
  BY <1>1, <1>3 DEF PairInv, PairTypeOK
<1>5. HandlesACandidate'
  BY <1>2, <1>3 DEF PairInv, HandlesACandidate
<1>6. DecidesAnOpenPair'
  BY <1>1, <1>2, <1>3 DEF PairInv, DecidesAnOpenPair, Deciding, LockedRow
<1>7. VerdictSettles' /\ SupersededByVerdict' /\ LotTagHasVerdict' /\ TagsAVerdict'
  BY <1>1, <1>2, <1>3 DEF PairInv, VerdictSettles, SupersededByVerdict, LotTagHasVerdict, TagsAVerdict
<1>8. VerdictOnTheChosen'
  BY <1>1, <1>2, <1>3 DEF PairInv, VerdictOnTheChosen, Deciding
<1> QED
  BY <1>4, <1>5, <1>6, <1>7, <1>8 DEF PairInv

(* The verdict: every other pending candidate is superseded with it, and   *)
(* no other handler can have the row of one.                               *)
LEMMA RecordOK ==
  ASSUME PairInv, NEW w \in Workers, RecordVerdict(w)
  PROVE  /\ PairInv'
         /\ \A x \in Candidates : decision[x] \in Verdicts => decision'[x] = decision[x]
<1> DEFINE c == handler[w].c
           verdict == handler[w].to
           n == [handler[w] EXCEPT !.pc = "withdraw"]
<1>1. /\ handler[w].pc = "decide" /\ decision' = Decided(c, verdict) /\ Becomes(w, n)
      /\ \A x \in Candidates \ {c} : ~ LockedRow(x)
      /\ early' = (early \/ c \notin notified)
      /\ UNCHANGED <<pairItem, notified, order, open, shown, lotTag, late, failures>>
  BY DEF RecordVerdict
<1>2. c \in Candidates /\ decision[c] = "pending" /\ verdict \in Verdicts
  BY <1>1 DEF PairInv, HandlesACandidate, DecidesAnOpenPair, Deciding
<1>3. /\ n \in Handler /\ n.pc = "withdraw" /\ n.c = c
  BY <1>1 DEF PairInv, PairTypeOK, Handler
<1>4. /\ handler' \in [Workers -> Handler] /\ handler'[w] = n
      /\ \A u \in Workers \ {w} : handler'[u] = handler[u]
  BY <1>1, <1>3, HandlersOK DEF PairInv
<1> HIDE DEF n
<1>5. \A x \in Candidates : decision[x] \notin Verdicts /\ decision[x] \in {"pending", "superseded"}
  BY <1>2 DEF PairInv, VerdictSettles, PairTypeOK, Verdicts
<1>6. /\ decision'[c] = verdict /\ \A x \in Candidates \ {c} : decision'[x] = "superseded"
      /\ decision' \in [Candidates -> {"pending", "superseded"} \cup Verdicts]
  BY <1>1, <1>2, <1>5 DEF Decided
<1> HIDE DEF c, verdict
<1>7. PairTypeOK'
  BY <1>1, <1>4, <1>6 DEF PairInv, PairTypeOK
<1>8. HandlesACandidate'
  BY <1>2, <1>3, <1>4 DEF PairInv, HandlesACandidate
<1>9. \A u \in Workers : handler'[u].pc # "decide"
  <2> SUFFICES ASSUME NEW u \in Workers, handler'[u].pc = "decide" PROVE FALSE
    OBVIOUS
  <2>1. u # w /\ handler[u].pc = "decide" /\ handler[u].c \in Candidates
    BY <1>3, <1>4 DEF PairInv, HandlesACandidate
  <2>2. handler[u].c = c
    BY <1>1, <2>1 DEF LockedRow
  <2> QED
    BY <1>1, <2>1, <2>2 DEF PairInv, DecidesAnOpenPair, Deciding, c
<1>10. DecidesAnOpenPair'
  BY <1>9 DEF DecidesAnOpenPair, Deciding
<1>11. VerdictSettles' /\ SupersededByVerdict'
  BY <1>2, <1>6 DEF VerdictSettles, SupersededByVerdict, Verdicts
<1>12. TagsAVerdict' /\ LotTagHasVerdict'
  <2>1. ~ (\E x \in Candidates : decision[x] = "duplicate")
    BY <1>5 DEF Verdicts
  <2> QED
    BY <1>1, <1>3, <1>4, <2>1 DEF PairInv, TagsAVerdict, LotTagHasVerdict
<1>13. VerdictOnTheChosen'
  <2>1. ~ early' => c \in notified /\ pairItem.chosen = c
    BY <1>1 DEF PairInv, VerdictOnTheChosen, Deciding, PairTypeOK, c
  <2> QED
    BY <1>1, <1>6, <1>9, <2>1 DEF VerdictOnTheChosen, Deciding, Verdicts
<1> QED
  BY <1>5, <1>7, <1>8, <1>10, <1>11, <1>12, <1>13 DEF PairInv

(* The rest of the answer, and the tags of the lot.                        *)
LEMMA TaggingOK ==
  ASSUME PairInv, NEW w \in Workers,
         Withdraw(w) \/ (\E to \in Verdicts : ReadStage(w, to)) \/ TagOrders(w)
           \/ HandlerDies(w) \/ AbortDeadlock(w)
  PROVE  PairInv'
<1> DEFINE h == handler[w]
<1>1. /\ h \in Handler /\ PairTypeOK /\ late \in BOOLEAN /\ failures \in 0 .. MaxFailures
      /\ open \subseteq Chats \X Candidates /\ shown \subseteq Chats \X Candidates
      /\ notified \subseteq Candidates
  BY DEF PairInv, PairTypeOK
<1>2. CASE Withdraw(w)
  BY <1>1, <1>2, AtRestOK, MoveOK DEF Withdraw, history
<1>3. CASE HandlerDies(w) \/ AbortDeadlock(w)
  <2>1. /\ Becomes(w, AtRest) /\ failures' \in 0 .. MaxFailures
        /\ UNCHANGED <<pairItem, decision, notified, order, open, shown, lotTag, early, late>>
    BY <1>1, <1>3, PairConstants DEF HandlerDies, AbortDeadlock, Failure, history
  <2> QED
    BY <1>1, <2>1, AtRestOK, MoveOK
<1>4. ASSUME NEW to \in Verdicts, ReadStage(w, to) PROVE PairInv'
  <2> DEFINE n == [AtRest EXCEPT !.pc = "tag", !.to = to]
  <2>1. /\ Becomes(w, n) /\ UNCHANGED <<pairItem, decision, notified, order, open, shown, lotTag, early, late, failures>>
        /\ StageOf(pairItem) = IF to = "duplicate" THEN "verified" ELSE "not_duplicate"
    BY <1>4 DEF ReadStage, history
  <2>2. n \in Handler /\ n.pc = "tag" /\ n.to = to
    BY AtRestOK DEF Handler, AtRest, Verdicts, Tags
  <2>3. to = "duplicate" => \E c \in Candidates : decision[c] = "duplicate"
    <3> SUFFICES ASSUME to = "duplicate" PROVE decision[pairItem.chosen] = "duplicate" /\ pairItem.chosen \in Candidates
      OBVIOUS
    <3>1. pairItem.review = "selected_duplicate" /\ decision[pairItem.chosen] = "duplicate"
      BY <2>1 DEF StageOf
    <3> QED
      BY <1>1, <3>1 DEF PairTypeOK
  <2> HIDE DEF n
  <2> QED
    BY <1>1, <2>1, <2>2, <2>3, MoveOK
<1>5. CASE TagOrders(w)
  <2>1. /\ h.pc = "tag" /\ Becomes(w, AtRest)
        /\ UNCHANGED <<pairItem, decision, notified, open, shown, early, late, failures>>
    BY <1>5 DEF TagOrders
  <2>2. /\ handler' \in [Workers -> Handler] /\ handler'[w] = AtRest
        /\ \A v \in Workers \ {w} : handler'[v] = handler[v]
    BY <1>1, <2>1, AtRestOK, HandlersOK
  <2>8. /\ h.to \in Tags /\ order \in [tag : Tags, waiting : BOOLEAN]
        /\ \/ UNCHANGED <<order, lotTag>>
           \/ order' = [tag |-> h.to, waiting |-> h.to = "non_duplicate"] /\ lotTag' = h.to
    BY <1>1, <1>5 DEF TagOrders, PairTypeOK, Handler
  <2>9. (h.to = "non_duplicate") \in BOOLEAN
    OBVIOUS
  <2>10. [tag |-> h.to, waiting |-> h.to = "non_duplicate"] \in [tag : Tags, waiting : BOOLEAN]
    <3> HIDE DEF h
    <3> QED
      BY <2>8, <2>9, Zenon
  <2>3. order' \in [tag : Tags, waiting : BOOLEAN] /\ lotTag' \in {lotTag, h.to} /\ h.to \in Tags
    BY <2>8, <2>10
  <2>4. PairTypeOK'
    BY <1>1, <2>1, <2>2, <2>3 DEF PairTypeOK
  <2>5. HandlesACandidate' /\ DecidesAnOpenPair' /\ VerdictOnTheChosen'
    BY <2>1, <2>2, AtRestOK
       DEF PairInv, HandlesACandidate, DecidesAnOpenPair, VerdictOnTheChosen, Deciding
  <2>6. VerdictSettles' /\ SupersededByVerdict' /\ TagsAVerdict'
    BY <2>1, <2>2, AtRestOK DEF PairInv, VerdictSettles, SupersededByVerdict, TagsAVerdict
  <2>7. LotTagHasVerdict'
    BY <2>1, <2>3 DEF PairInv, TagsAVerdict, LotTagHasVerdict
  <2> QED
    BY <2>4, <2>5, <2>6, <2>7 DEF PairInv
<1> QED
  BY <1>2, <1>3, <1>4, <1>5

(* Other screens change the order; expired buttons go.                     *)
LEMMA OthersOK ==
  ASSUME PairInv, ExpireActions \/ ChangeOrder
  PROVE  PairInv'
<1>1. UNCHANGED <<pairItem, decision, notified, shown, handler, early, late, failures>> /\ lotTag' \in {lotTag, "uncheck"}
  BY DEF ExpireActions, ChangeOrder, history
<1>2. open' \subseteq open /\ order' \in [tag : Tags, waiting : BOOLEAN]
  BY DEF ExpireActions, ChangeOrder, PairInv, PairTypeOK, history
<1>3. PairTypeOK' /\ HandlesACandidate'
  BY <1>1, <1>2 DEF PairInv, PairTypeOK, HandlesACandidate, Tags
<1>4. DecidesAnOpenPair' /\ VerdictSettles' /\ SupersededByVerdict' /\ TagsAVerdict' /\ VerdictOnTheChosen'
  BY <1>1 DEF PairInv, DecidesAnOpenPair, VerdictSettles, SupersededByVerdict, TagsAVerdict, VerdictOnTheChosen, Deciding
<1>5. LotTagHasVerdict'
  BY <1>1 DEF PairInv, LotTagHasVerdict
<1> QED
  BY <1>3, <1>4, <1>5 DEF PairInv

-----------------------------------------------------------------------------
LEMMA PairInitOK == PairInit => PairInv
<1> SUFFICES ASSUME PairInit PROVE PairInv
  OBVIOUS
<1>1. /\ \A w \in Workers : handler[w] = AtRest
      /\ \A c \in Candidates : decision[c] = "pending"
      /\ lotTag = "uncheck"
  BY DEF PairInit
<1>2. PairTypeOK
  <2>1. /\ pairItem \in [review : {"pending_review", "no_match", "ai_wrong", "selected_duplicate"},
                     chosen : Candidates \cup {NoCandidate}]
        /\ pairItem.review = "selected_duplicate" <=> pairItem.chosen # NoCandidate
    BY DEF PairInit
  <2>2. order \in [tag : Tags, waiting : BOOLEAN] /\ lotTag \in Tags
    BY DEF PairInit, Tags
  <2>3. handler \in [Workers -> Handler]
    BY AtRestOK DEF PairInit
  <2>4. decision \in [Candidates -> {"pending", "superseded"} \cup Verdicts]
    BY DEF PairInit
  <2>5. failures \in 0 .. MaxFailures /\ early \in BOOLEAN /\ late \in BOOLEAN
    <3>1. 0 \in 0 .. MaxFailures
      BY PairConstants
    <3> QED
      BY <3>1 DEF PairInit
  <2>6. notified \subseteq Candidates /\ open \subseteq Chats \X Candidates /\ shown \subseteq Chats \X Candidates
    BY DEF PairInit
  <2> QED
    BY <2>1, <2>2, <2>3, <2>4, <2>5, <2>6 DEF PairTypeOK
<1>3. HandlesACandidate /\ DecidesAnOpenPair /\ TagsAVerdict
  BY <1>1, AtRestOK DEF HandlesACandidate, DecidesAnOpenPair, TagsAVerdict, Deciding
<1>4. VerdictSettles /\ SupersededByVerdict /\ LotTagHasVerdict /\ VerdictOnTheChosen
  BY <1>1, AtRestOK DEF VerdictSettles, SupersededByVerdict, LotTagHasVerdict, VerdictOnTheChosen, Deciding, Verdicts
<1> QED
  BY <1>2, <1>3, <1>4 DEF PairInv

LEMMA PairStepOK == PairInv /\ [PairNext]_pairVars => PairInv'
<1> SUFFICES ASSUME PairInv, [PairNext]_pairVars PROVE PairInv'
  OBVIOUS
<1>1. CASE UNCHANGED pairVars
  BY <1>1 DEF pairVars, PairInv, PairTypeOK, HandlesACandidate, DecidesAnOpenPair, VerdictSettles, SupersededByVerdict,
              TagsAVerdict, LotTagHasVerdict, VerdictOnTheChosen, Deciding
<1>2. CASE PairNext
  BY <1>2, ChoiceOK, SendingOK, PressOK, RecordOK, TaggingOK, OthersOK DEF PairNext
<1> QED
  BY <1>1, <1>2

(* The inductive invariant of the review, for any candidates and chats.    *)
THEOREM PairInvariance == PairSpec => []PairInv
  BY PairInitOK, PairStepOK, PTL DEF PairSpec

(* Items, candidates and handlers keep their types (support_compare.py).   *)
THEOREM PairTypesHold == PairSpec => []PairTypeOK
<1>1. PairInv => PairTypeOK
  BY DEF PairInv
<1> QED
  BY <1>1, PairInvariance, PTL

(* The first answer settles it for everyone: one verdict per order         *)
(* (support_compare.py:634).                                               *)
THEOREM FirstAnswerSettles == PairSpec => []OneVerdict
<1>1. PairInv => OneVerdict
  BY DEF PairInv, VerdictSettles, OneVerdict, Verdicts
<1> QED
  BY <1>1, PairInvariance, PTL

(* The lot tags a duplicate on a person's verdict only (tag_lot_orders).   *)
THEOREM DuplicateHasVerdict == PairSpec => []LotTagHasVerdict
<1>1. PairInv => LotTagHasVerdict
  BY DEF PairInv
<1> QED
  BY <1>1, PairInvariance, PTL

(* The chosen pair can be answered, while no verdict overtook the record   *)
(* that its pair was sent (support_review_api.py:47).                      *)
THEOREM ChoiceStaysOpen == PairSpec => []ChosenPairIsOpen
<1>1. ASSUME PairInv PROVE ChosenPairIsOpen
  <2> SUFFICES ASSUME ~ early, pairItem.review = "selected_duplicate", decision[pairItem.chosen] = "superseded"
               PROVE  FALSE
    BY DEF ChosenPairIsOpen
  <2>1. pairItem.chosen \in Candidates
    BY <1>1 DEF PairInv, PairTypeOK
  <2>2. PICK d \in Candidates : decision[d] \in Verdicts
    BY <1>1, <2>1 DEF PairInv, SupersededByVerdict
  <2> QED
    BY <1>1, <2>2 DEF PairInv, VerdictOnTheChosen, Verdicts
<1> QED
  BY <1>1, PairInvariance, PTL

(* A verdict is never changed by a later or simultaneous answer.           *)
THEOREM VerdictIsFinal == PairSpec => VerdictStands
<1>1. PairInv /\ [PairNext]_pairVars => [\A c \in Candidates : decision[c] \in Verdicts => decision'[c] = decision[c]]_pairVars
  <2> SUFFICES ASSUME PairInv, [PairNext]_pairVars, NEW c \in Candidates, decision[c] \in Verdicts
               PROVE  decision'[c] = decision[c]
    OBVIOUS
  <2>1. UNCHANGED decision \/ \E w \in Workers : RecordVerdict(w)
    BY DEF PairNext, pairVars, SelectCandidate, RejectItem, ExpireActions, ChangeOrder, PickPair, CreateActions,
           RecordSent, Deliver, PressButton, Withdraw, ReadStage, TagOrders, HandlerDies, AbortDeadlock
  <2> QED
    BY <2>1, RecordOK
<1> QED
  BY <1>1, PairInvariance, PTL DEF PairSpec, VerdictStands

-----------------------------------------------------------------------------
\* Live buttons of a settled pair are about to go.
WithdrawnSoon ==
  failures = 0 /\ ~late =>
    \A a \in Chats, c \in Candidates :
      decision[c] \in Verdicts /\ <<a, c>> \in open =>
        \E w \in Workers : handler[w].pc = "withdraw" /\ handler[w].c = c

(* A step that settles nothing, makes no buttons and ends no withdrawal.   *)
LEMMA QuietWithdraw ==
  ASSUME PairTypeOK, WithdrawnSoon, UNCHANGED decision, open' \subseteq open,
         failures' = 0 => failures = 0, ~late' => ~late,
         \A w \in Workers : handler[w].pc = "withdraw" => handler'[w] = handler[w]
  PROVE  WithdrawnSoon'
  BY DEF WithdrawnSoon

(* Every other step keeps that, unless a process dies.                     *)
LEMMA WithdrawStep ==
  ASSUME PairInv, WithdrawnSoon, [PairNext]_pairVars
  PROVE  WithdrawnSoon'
<1>0. PairTypeOK /\ failures \in Nat /\ handler \in [Workers -> Handler] /\ MaxFailures \in Nat
  BY PairConstants DEF PairInv, PairTypeOK
<1>f. Failure => failures' # 0
  BY <1>0 DEF Failure
<1>m. ASSUME NEW w \in Workers, NEW h, Becomes(w, h)
      PROVE  handler'[w] = h /\ \A v \in Workers \ {w} : handler'[v] = handler[v]
  BY <1>0, <1>m DEF Becomes
<1>1. CASE (\E c \in Candidates : SelectCandidate(c)) \/ RejectItem \/ ExpireActions \/ ChangeOrder
  <2>1. UNCHANGED <<decision, handler, late, failures>> /\ open' \subseteq open
    BY <1>1 DEF SelectCandidate, RejectItem, ExpireActions, ChangeOrder, history
  <2> QED
    BY <1>0, <2>1, QuietWithdraw
<1>2. ASSUME NEW w \in Workers, NEW resend \in BOOLEAN, PickPair(w, resend) PROVE WithdrawnSoon'
  <2>1. /\ UNCHANGED <<decision, open, late, failures>> /\ handler[w].pc = "idle"
        /\ \E h : Becomes(w, h)
    BY <1>2 DEF PickPair, history
  <2> QED
    BY <1>0, <1>m, <2>1, QuietWithdraw
<1>3. ASSUME NEW w \in Workers, CreateActions(w) PROVE WithdrawnSoon'
  <2>1. /\ UNCHANGED <<decision, failures>> /\ handler[w].pc = "send"
        /\ open' = open \cup {<<a, handler[w].c>> : a \in handler[w].todo}
        /\ late' = (late \/ decision[handler[w].c] # "pending")
        /\ \A v \in Workers \ {w} : handler'[v] = handler[v]
    BY <1>3, <1>m DEF CreateActions
  <2>2. ASSUME NEW a \in Chats, NEW c \in Candidates, decision[c] \in Verdicts, <<a, c>> \in open', ~late'
        PROVE  <<a, c>> \in open /\ ~late
    BY <2>1, <2>2 DEF Verdicts
  <2> QED
    BY <2>1, <2>2 DEF WithdrawnSoon
<1>4. ASSUME NEW w \in Workers, RecordSent(w) \/ \E a \in Chats : Deliver(w, a) PROVE WithdrawnSoon'
  <2>1. UNCHANGED <<decision, open, late>> /\ handler[w].pc = "deliver" /\ \E h : Becomes(w, h)
    BY <1>4 DEF RecordSent, Deliver, history
  <2>2. failures' = 0 => failures = 0
    BY <1>4, <1>f DEF RecordSent, Deliver
  <2> QED
    BY <1>0, <1>m, <2>1, <2>2, QuietWithdraw
<1>5. ASSUME NEW w \in Workers, NEW a \in Chats, NEW c \in Candidates, NEW v \in Verdicts,
             PressButton(w, a, c, v)
      PROVE  WithdrawnSoon'
  <2>1. /\ UNCHANGED <<decision, open, late, failures>> /\ handler[w].pc = "idle"
        /\ \E h : Becomes(w, h)
    BY <1>5 DEF PressButton, history
  <2> QED
    BY <1>0, <1>m, <2>1, QuietWithdraw
<1>6. ASSUME NEW w \in Workers, RecordVerdict(w) PROVE WithdrawnSoon'
  <2> DEFINE c == handler[w].c
             n == [handler[w] EXCEPT !.pc = "withdraw"]
  <2>1. handler[w].pc = "decide" /\ decision' = Decided(c, handler[w].to) /\ Becomes(w, n)
    BY <1>6 DEF RecordVerdict
  <2>2. n.pc = "withdraw" /\ n.c = c /\ handler'[w] = n
    BY <1>0, <1>m, <2>1 DEF Handler
  <2>3. decision[c] = "pending" /\ c \in Candidates
    BY <2>1 DEF PairInv, DecidesAnOpenPair, HandlesACandidate, Deciding
  <2>4. \A x \in Candidates \ {c} : decision[x] \notin Verdicts
    BY <2>3 DEF PairInv, VerdictSettles, Verdicts
  <2> HIDE DEF c, n
  <2>5. \A x \in Candidates \ {c} : decision'[x] \notin Verdicts
    BY <2>1, <2>4 DEF Decided, Verdicts
  <2> QED
    BY <2>2, <2>5 DEF WithdrawnSoon
<1>7. ASSUME NEW w \in Workers, Withdraw(w) PROVE WithdrawnSoon'
  <2>1. /\ open' = open \ (Chats \X {handler[w].c}) /\ UNCHANGED <<decision, late, failures>>
        /\ \A v \in Workers \ {w} : handler'[v] = handler[v]
    BY <1>7, <1>m DEF Withdraw, Withdrawn, history
  <2>2. ASSUME NEW a \in Chats, NEW c \in Candidates, <<a, c>> \in open'
        PROVE  <<a, c>> \in open /\ c # handler[w].c
    BY <2>1, <2>2
  <2> QED
    BY <2>1, <2>2 DEF WithdrawnSoon
<1>8. ASSUME NEW w \in Workers, NEW to \in Verdicts, ReadStage(w, to) PROVE WithdrawnSoon'
  <2>1. /\ UNCHANGED <<decision, open, late, failures>> /\ handler[w].pc = "idle"
        /\ \E h : Becomes(w, h)
    BY <1>8 DEF ReadStage, history
  <2> QED
    BY <1>0, <1>m, <2>1, QuietWithdraw
<1>9. ASSUME NEW w \in Workers, TagOrders(w) \/ AbortDeadlock(w) PROVE WithdrawnSoon'
  <2>1. /\ UNCHANGED <<decision, open, late, failures>> /\ handler[w].pc \in {"tag", "decide"}
        /\ \E h : Becomes(w, h)
    BY <1>9 DEF TagOrders, AbortDeadlock, history
  <2> QED
    BY <1>0, <1>m, <2>1, QuietWithdraw
<1>10. ASSUME NEW w \in Workers, HandlerDies(w) PROVE WithdrawnSoon'
  BY <1>f, <1>10 DEF HandlerDies, WithdrawnSoon
<1>11. CASE UNCHANGED pairVars
  BY <1>11 DEF pairVars, WithdrawnSoon
<1> QED
  BY <1>1, <1>2, <1>3, <1>4, <1>5, <1>6, <1>7, <1>8, <1>9, <1>10, <1>11 DEF PairNext

(* No chat keeps live buttons of a settled pair, for any number of chats,  *)
(* candidates and answers at once, as long as no process dies in between   *)
(* (support_compare.py:877).                                               *)
THEOREM SettledPairsAreWithdrawn == PairSpec => []SettledPairIsWithdrawn
<1>1. PairInit => WithdrawnSoon
  BY DEF PairInit, WithdrawnSoon
<1>2. PairInv /\ WithdrawnSoon /\ [PairNext]_pairVars => WithdrawnSoon'
  BY WithdrawStep
<1>3. WithdrawnSoon => SettledPairIsWithdrawn
  BY DEF WithdrawnSoon, SettledPairIsWithdrawn
<1> QED
  BY <1>1, <1>2, <1>3, PairInvariance, PTL DEF PairSpec
=============================================================================
