---------------------------- MODULE IntakeProofs -----------------------------
(***************************************************************************)
(* What a key of run_idempotent guarantees for any number of requests, and *)
(* the import of an order, for any crawl cycles and sessions.              *)
(* AnswersStand survives every fault; EffectOnce holds for as long as no   *)
(* fn raised, died or outlived its lease, and Race says why: until then    *)
(* the row tells exactly how far the one caller that owns it has come.     *)
(* The import is a command like any other, so what is proved about the     *)
(* ledger holds for it.  That a file is imported once, and that pictures   *)
(* stay, rests on the version of the row: whoever's copy is not stale has  *)
(* read the row as it is.                                                  *)
(***************************************************************************)
EXTENDS Intake, TLAPS

IInv == TypeOK /\ AnswersStand

(* What a caller does with the row it read touches only its own step and,  *)
(* for a completed operation, its answer, which is the result.             *)
LEMMA DecideStep ==
  ASSUME TypeOK, NEW c \in Callers, Decide(c)
  PROVE  /\ step' \in [Callers -> Steps]
         /\ answer' \in [Callers -> Callers \cup {NoCaller}]
         /\ \A d \in Callers : \/ answer'[d] = answer[d]
                               \/ op.status = "completed" /\ answer'[d] = op.result
<1>1. CASE op.status = "completed" /\ answer' = [answer EXCEPT ![c] = op.result] /\ Go(c, "done")
  BY <1>1 DEF TypeOK, Op, Go, Steps
<1>2. CASE UNCHANGED answer /\ \E s \in {"done", "retry", "renew"} : Go(c, s)
  BY <1>2 DEF TypeOK, Go, Steps
<1> QED
  BY <1>1, <1>2 DEF Decide

(* The two facts hold at the start and every step keeps them. *)
LEMMA InitOK == Init => IInv
  BY IdempotentOpsAssumption DEF Init, IInv, TypeOK, AnswersStand, Op, Steps

(* Every step of a caller keeps it. *)
LEMMA StepOK == IInv /\ [Next]_vars => IInv'
<1> SUFFICES ASSUME TypeOK, AnswersStand, [Next]_vars PROVE TypeOK' /\ AnswersStand'
  BY DEF IInv
<1> USE IdempotentOpsAssumption
<1>1. ASSUME NEW c \in Callers, Look(c) PROVE TypeOK' /\ AnswersStand'
  <2>1. CASE Go(c, "insert") /\ UNCHANGED answer
    BY <1>1, <2>1 DEF Look, TypeOK, AnswersStand, Go, Steps
  <2>2. CASE Decide(c)
    BY <1>1, <2>2, DecideStep DEF Look, TypeOK, AnswersStand
  <2> QED
    BY <1>1, <2>1, <2>2 DEF Look
<1>2. ASSUME NEW c \in Callers, Insert(c) PROVE TypeOK' /\ AnswersStand'
  <2>1. CASE op' = Claimed /\ Go(c, "running") /\ UNCHANGED answer
    BY <1>2, <2>1 DEF Insert, TypeOK, AnswersStand, Go, Steps, Claimed, Op
  <2>2. CASE Decide(c) /\ UNCHANGED op
    BY <1>2, <2>2, DecideStep DEF Insert, TypeOK, AnswersStand
  <2> QED
    BY <1>2, <2>1, <2>2 DEF Insert
<1>3. ASSUME NEW c \in Callers, Reclaim(c) PROVE TypeOK' /\ AnswersStand'
  BY <1>3 DEF Reclaim, TypeOK, AnswersStand, Go, Steps, Claimed, Op
<1>4. ASSUME NEW c \in Callers, Complete(c) PROVE TypeOK' /\ AnswersStand'
  BY <1>4 DEF Complete, TypeOK, AnswersStand, Go, Steps, Op
<1>5. ASSUME NEW c \in Callers, Raise(c) PROVE TypeOK' /\ AnswersStand'
  BY <1>5 DEF Raise, TypeOK, AnswersStand, Go, Steps, Op
<1>6. ASSUME NEW c \in Callers, Crash(c) PROVE TypeOK' /\ AnswersStand'
  BY <1>6 DEF Crash, TypeOK, AnswersStand, Go, Steps
<1>7. CASE LeaseExpires
  BY <1>7 DEF LeaseExpires, TypeOK, AnswersStand, Op
<1>8. CASE AllOver \/ UNCHANGED vars
  BY <1>8 DEF AllOver, vars, TypeOK, AnswersStand
<1> QED
  BY <1>1, <1>2, <1>3, <1>4, <1>5, <1>6, <1>7, <1>8 DEF Next

(* The row of an operation keeps its values, and a completed one has a     *)
(* result to replay.                                                       *)
THEOREM OperationIsWellFormed == Spec => []TypeOK
<1>1. IInv => TypeOK
  BY DEF IInv
<1> QED
  BY <1>1, InitOK, StepOK, PTL DEF Spec

(* Whatever fails, is slow or dies, an answer stands on committed writes   *)
(* (operations.py:119-121).                                                *)
THEOREM AnswersAlwaysStand == Spec => []AnswersStand
<1>1. IInv => AnswersStand
  BY DEF IInv
<1> QED
  BY <1>1, InitOK, StepOK, PTL DEF Spec
-----------------------------------------------------------------------------
(* While all is calm the row tells everything: nobody has run fn before it *)
(* is claimed, one caller runs it while it is pending, and the one result  *)
(* of a completed operation is all that was written and answered.          *)
Race ==
  /\ op.status \in {"none", "pending", "completed"} /\ ~op.expired
  /\ \A c \in Callers : step[c] \notin {"retry", "renew"}
  /\ op.status = "none" \/ op.status = "pending"
       => effects = {} /\ \A c \in Callers : answer[c] = NoCaller
  /\ op.status = "completed"
       => effects = {op.result} /\ \A c \in Callers : answer[c] \in {NoCaller, op.result}
  /\ op.status = "pending" <=> \E c \in Callers : step[c] = "running"
  /\ \A c, d \in Callers : step[c] = "running" /\ step[d] = "running" => c = d

(* In a race a caller that goes by the row it read is done with it. *)
LEMMA RaceDecide ==
  ASSUME TypeOK, Race, NEW c \in Callers, Decide(c), step[c] # "running", UNCHANGED <<op, effects>>
  PROVE  Race'
<1>1. Go(c, "done")
  BY DEF Decide, Race
<1>2. answer' \in {answer, [answer EXCEPT ![c] = op.result]}
      /\ (op.status # "completed" => answer' = answer)
  BY DEF Decide, Race
<1> QED
  BY <1>1, <1>2 DEF Race, TypeOK, Go

(* A step that leaves all calm keeps the race's own invariant. *)
LEMMA RaceStep ==
  ASSUME TypeOK, calm => Race, [Next]_vars, calm'
  PROVE  Race'
<1> USE IdempotentOpsAssumption
<1>1. ~LeaseExpires /\ \A c \in Callers : ~Raise(c) /\ ~Crash(c)
  BY DEF LeaseExpires, Raise, Crash
<1>2. Race
  <2>1. UNCHANGED calm
    BY <1>1 DEF Next, Look, Insert, Reclaim, Complete, AllOver, vars
  <2> QED
    BY <2>1
<1>3. ASSUME NEW c \in Callers, Look(c) PROVE Race'
  <2>1. CASE op.status = "none"
    BY <1>2, <1>3, <2>1 DEF Look, Race, TypeOK, Go
  <2>2. CASE op.status # "none"
    BY <1>2, <1>3, <2>2, RaceDecide DEF Look
  <2> QED
    BY <2>1, <2>2
<1>4. ASSUME NEW c \in Callers, Insert(c) PROVE Race'
  <2>1. CASE op.status = "none"
    <3>1. /\ op'.status = "pending" /\ ~op'.expired /\ UNCHANGED <<answer, effects>>
          /\ step' = [step EXCEPT ![c] = "running"]
      BY <1>4, <2>1 DEF Insert, Claimed, Go, TypeOK, Op
    <3> QED
      BY <1>2, <2>1, <3>1 DEF Race, TypeOK
  <2>2. CASE op.status # "none"
    BY <1>2, <1>4, <2>2, RaceDecide DEF Insert
  <2> QED
    BY <2>1, <2>2
<1>5. ASSUME NEW c \in Callers, Reclaim(c) PROVE Race'
  BY <1>2, <1>5 DEF Reclaim, Race
<1>6. ASSUME NEW c \in Callers, Complete(c) PROVE Race'
  <2>1. op'.status = "completed" /\ op'.result = c /\ op'.expired = op.expired
    BY <1>6 DEF Complete, TypeOK, Op
  <2>2. /\ step[c] = "running" /\ step' = [step EXCEPT ![c] = "done"]
        /\ answer' = [answer EXCEPT ![c] = c] /\ effects' = effects \cup {c}
    BY <1>6 DEF Complete, Go
  <2>3. effects = {} /\ \A d \in Callers : answer[d] = NoCaller
    BY <1>2, <2>2 DEF Race
  <2>4. \A d \in Callers : step'[d] # "running" /\ step'[d] \notin {"retry", "renew"}
    BY <1>2, <2>2 DEF Race, TypeOK
  <2> QED
    BY <1>2, <2>1, <2>2, <2>3, <2>4 DEF Race, TypeOK
<1>7. CASE AllOver \/ UNCHANGED vars
  BY <1>2, <1>7 DEF AllOver, vars, Race
<1> QED
  BY <1>1, <1>3, <1>4, <1>5, <1>6, <1>7 DEF Next

(* However many requests race with one key, fn takes effect once and every *)
(* answer is the same, until one raises, dies or outlives its lease.       *)
THEOREM RaceHasOneWinner == Spec => []EffectOnce
<1>1. Init => IInv /\ (calm => Race)
  BY InitOK DEF Init, Race
<1>2. IInv /\ (calm => Race) /\ [Next]_vars => (IInv /\ (calm => Race))'
  BY StepOK, RaceStep DEF IInv
<1>3. IInv /\ (calm => Race) => EffectOnce
  BY IdempotentOpsAssumption DEF IInv, TypeOK, Op, Race, EffectOnce
<1> QED
  BY <1>1, <1>2, <1>3, PTL DEF Spec
-----------------------------------------------------------------------------
\* The ledger as the other variables see it: the same steps, on the same variables.
LEMMA LedgerStep == [IntakeNext]_intakeVars => [Next]_vars
  BY DEF IntakeNext, intakeVars, Next, DiscoverFails, Discover, ClaimBatch, BeginClaim, EndClaim, Claim, BatchDone,
         FindUnclaimed, RetryClaim, Select, HeldCommits, HeldIsLost, LosesOtherKey, ImportLedger, ImportRecords,
         ImportDone, ImportRaises, ImportFails, DownloadFails, DetailFails, CycleDies, LeasesExpire, SessionReads,
         SessionRollsBack, SessionCommits, ScanAdds, NewGallery, ImportGallery, EditGallery, OrderMoves, AllIdle

(* The crawl runs its imports as commands of run_idempotent: every         *)
(* behaviour of the cycles is one of the ledger (crawl.py:684).            *)
THEOREM ImportIsACommand == IntakeSpec => Spec
  BY LedgerStep, PTL DEF IntakeSpec, IntakeInit, Spec

(* What a replayed import answers is committed (crawl.py:684).             *)
THEOREM ImportAnswersStand == IntakeSpec => []AnswersStand
  BY ImportIsACommand, AnswersAlwaysStand, PTL

(* Cycles that race import an order once, while none fails or is slow.     *)
THEOREM ImportHasOneWinner == IntakeSpec => []EffectOnce
  BY ImportIsACommand, RaceHasOneWinner, PTL

-----------------------------------------------------------------------------
RowOK ==
  /\ row \in Row /\ (~There => row = Nothing)
  /\ at \in [Callers -> Places] /\ copy \in [Sessions -> Row \cup {Idle}]
  /\ held \in [Callers -> Galleries \cup {"none"}]

\* A session whose copy is not stale has read the row as it is; a cycle without a stale copy imports an
\* order without details, unless it has just recorded them or was rolled back, and what it holds of the
\* gallery was made from the gallery that is stored.
Current ==
  /\ \A s \in Sessions : copy[s] # Idle /\ s \notin stale => copy[s] = row
  /\ \A c \in Callers : at[c] = "import" /\ c \notin stale => ~row.detail \/ c \in assets \/ c \in rolled
  /\ \A c \in Callers : at[c] = "import" => There
  /\ \A c \in Callers : held[c] # "none" /\ c \notin stale => There /\ (row.gallery = "rich" => held[c] = "rich")

\* A file is recorded with the details of its order.
FileHasDetail == assets # {} => row.detail

Facts == RowOK /\ Current /\ FileHasDetail /\ SettledImportIsAnswered

LEMMA CopyOK == Nothing \in Row /\ Nothing.state = "none" /\ ~Nothing.detail /\ Nothing.gallery = "empty" /\ Idle \notin Row
  BY DEF Nothing, Idle, Row, Galleries

(* A step that commits nothing, reads nothing and completes nothing.       *)
LEMMA QuietStep ==
  ASSUME Facts, UNCHANGED <<row, stale, copy, assets, held, rolled>>, letters \subseteq letters',
         at' \in [Callers -> Places], \A c \in Callers : at'[c] = "import" => at[c] = "import",
         op'.status = "completed" => op.status = "completed"
  PROVE  Facts'
<1>1. RowOK' /\ Current' /\ FileHasDetail'
  BY DEF Facts, RowOK, Current, FileHasDetail, There
<1>2. SettledImportIsAnswered'
  BY DEF Facts, SettledImportIsAnswered
<1> QED
  BY <1>1, <1>2 DEF Facts

(* A commit that changes the row makes every other copy stale.             *)
LEMMA CommitOK ==
  ASSUME Facts, NEW going \in SUBSET Callers, NEW new \in Row, new.state # "none", Commit(going, new),
         op'.status = "completed" => op.status = "completed",
         letters \subseteq letters', at' \in [Callers -> Places], copy' \in [Sessions -> Row \cup {Idle}],
         held' \in [Callers -> Galleries \cup {"none"}],
         row.detail => new.detail, assets' # {} => new.detail,
         \A c \in going : at'[c] # "import" \/ ~new.detail \/ c \in assets' \/ c \in rolled',
         \A c \in going : held'[c] = "none"
  PROVE  Facts'
<1>0. Callers \cap Sessions = {}
  BY IntakeAssumption
<1>1. row' = new /\ stale' = (Callers \cup Sessions) \ going
  BY DEF Commit
<1>2. RowOK'
  BY <1>1 DEF Facts, RowOK, There
<1>3. Current'
  BY <1>0, <1>1 DEF Current, There
<1>4. FileHasDetail' /\ SettledImportIsAnswered'
  BY <1>1 DEF Facts, FileHasDetail, SettledImportIsAnswered
<1> QED
  BY <1>2, <1>3, <1>4 DEF Facts

(* A commit of a cycle takes what it holds along.                          *)
LEMMA FlushOK ==
  ASSUME Facts, NEW c \in Callers, Flush(c), UNCHANGED <<rolled, copy, assets>>, letters \subseteq letters',
         at' \in [Callers -> Places], \A d \in Callers : at'[d] = "import" => at[d] = "import",
         op'.status = "completed" => op.status = "completed"
  PROVE  Facts'
<1>1. CASE held[c] = "none"
  BY <1>1, QuietStep DEF Flush
<1>2. CASE held[c] # "none"
  <2> DEFINE new == [row EXCEPT !.gallery = held[c]]
             going == {x \in {c} : at[x] = "import"}
  <2>1. c \notin stale /\ Commit(going, new) /\ held' = [held EXCEPT ![c] = "none"]
    BY <1>2 DEF Flush, MayCommit
  <2>2. There /\ RowOK
    BY <1>2, <2>1 DEF Facts, Current
  <2>3. held[c] \in Galleries /\ held' \in [Callers -> Galleries \cup {"none"}] /\ held'[c] = "none"
    BY <1>2, <2>1, <2>2 DEF RowOK
  <2>4. new \in Row /\ new.state # "none" /\ new.detail = row.detail
    BY <2>2, <2>3 DEF RowOK, Row, There
  <2>5. copy' \in [Sessions -> Row \cup {Idle}]
    BY <2>2 DEF RowOK
  <2>6. going \in SUBSET Callers /\ \A d \in going : d = c /\ at[c] = "import"
    OBVIOUS
  <2>7. assets' # {} => new.detail
    BY <2>4 DEF Facts, FileHasDetail
  <2>8. \A d \in going : ~new.detail \/ d \in assets' \/ d \in rolled'
    BY <2>1, <2>4, <2>6 DEF Facts, Current
  <2>9. \A d \in going : held'[d] = "none"
    BY <2>3, <2>6
  <2> HIDE DEF new, going
  <2> QED
    BY <2>1, <2>3, <2>4, <2>5, <2>6, <2>7, <2>8, <2>9, CommitOK
<1> QED
  BY <1>1, <1>2

(* A rollback drops what the cycle holds, and loads the row anew.          *)
LEMMA RollBackOK ==
  ASSUME Facts, NEW c \in Callers, RollBack(c), UNCHANGED <<row, copy, assets>>, letters \subseteq letters',
         rolled \subseteq rolled', at[c] = "import" => c \in rolled',
         at' \in [Callers -> Places], \A d \in Callers : at'[d] = "import" => at[d] = "import",
         op'.status = "completed" => op.status = "completed"
  PROVE  Facts'
<1>1. stale' = stale \ {c} /\ held' = [held EXCEPT ![c] = "none"] /\ c \notin Sessions
  BY IntakeAssumption DEF RollBack
<1>2. RowOK'
  BY <1>1 DEF Facts, RowOK, There
<1>3. held'[c] = "none" /\ \A d \in Callers \ {c} : held'[d] = held[d]
  BY <1>1 DEF Facts, RowOK
<1>4. Current'
  BY <1>1, <1>3 DEF Facts, Current, There
<1>5. FileHasDetail' /\ SettledImportIsAnswered'
  BY DEF Facts, FileHasDetail, SettledImportIsAnswered
<1> QED
  BY <1>2, <1>4, <1>5 DEF Facts

(* Galleries that are read keep their kind, and several pictures stay.     *)
LEMMA CrawledOK ==
  ASSUME NEW gallery \in Galleries, NEW read \in Galleries, NEW new \in Crawled(gallery, read)
  PROVE  new \in Galleries /\ (gallery = "rich" => new = "rich")
  BY DEF Crawled, Galleries

(* A cycle discovers, claims and retries.                                  *)
LEMMA ClaimingOK ==
  ASSUME Facts, NEW c \in Callers,
         \/ DiscoverFails(c) \/ Discover(c) \/ ClaimBatch(c) \/ BeginClaim(c) \/ Claim(c) \/ BatchDone(c)
         \/ FindUnclaimed(c) \/ RetryClaim(c)
  PROVE  Facts'
<1>1. RowOK
  BY DEF Facts
<1>2. CASE DiscoverFails(c) \/ ClaimBatch(c) \/ BeginClaim(c) \/ BatchDone(c) \/ FindUnclaimed(c)
  <2>1. \/ UNCHANGED at
        \/ \E place \in {"over", "claim", "retry", "claiming", "select", "retrying"} : Move(c, place)
    BY <1>2 DEF DiscoverFails, ClaimBatch, BeginClaim, BatchDone, FindUnclaimed
  <2>2. at' \in [Callers -> Places] /\ \A d \in Callers : at'[d] = "import" => at[d] = "import"
    <3>1. CASE UNCHANGED at
      BY <1>1, <3>1 DEF RowOK
    <3>2. ASSUME NEW place \in {"over", "claim", "retry", "claiming", "select", "retrying"}, Move(c, place)
          PROVE  at' \in [Callers -> Places] /\ \A d \in Callers : at'[d] = "import" => at[d] = "import"
      BY <1>1, <3>2 DEF RowOK, Move, Places
    <3> QED
      BY <2>1, <3>1, <3>2
  <2>3. UNCHANGED <<row, stale, copy, assets, held, rolled, op>> /\ letters \subseteq letters'
    BY <1>2 DEF DiscoverFails, ClaimBatch, BeginClaim, BatchDone, FindUnclaimed, vars, pending
  <2> QED
    BY <2>2, <2>3, QuietStep
<1>4. CASE Discover(c)
  <2>1. /\ UNCHANGED <<row, copy, assets, letters, rolled, op>>
        /\ \E place \in {"claim", "retry"} : Move(c, place)
    BY <1>4 DEF Discover, vars
  <2>2. at' \in [Callers -> Places] /\ \A d \in Callers : at'[d] = "import" => at[d] = "import"
    BY <1>1, <2>1 DEF RowOK, Move, Places
  <2>3. CASE UNCHANGED <<held, stale>>
    BY <2>1, <2>2, <2>3, QuietStep
  <2>4. CASE There /\ stale' = stale \ {c}
             /\ \E read \in Galleries : \E gallery \in Crawled(row.gallery, read) : held' = [held EXCEPT ![c] = gallery]
    <3>1. PICK read \in Galleries : \E gallery \in Crawled(row.gallery, read) : held' = [held EXCEPT ![c] = gallery]
      BY <2>4
    <3>2. PICK gallery \in Crawled(row.gallery, read) : held' = [held EXCEPT ![c] = gallery]
      BY <3>1
    <3>3. row.gallery \in Galleries
      BY <1>1 DEF RowOK, Row
    <3>4. gallery \in Galleries /\ (row.gallery = "rich" => gallery = "rich")
      BY <3>2, <3>3, CrawledOK
    <3>5. c \notin Sessions /\ at[c] = "start" /\ at'[c] # "import"
      BY <1>1, <1>4, <2>1, IntakeAssumption DEF Discover, RowOK, Move
    <3>6. /\ held' \in [Callers -> Galleries \cup {"none"}] /\ held'[c] = gallery
          /\ \A d \in Callers \ {c} : held'[d] = held[d]
      BY <1>1, <3>2, <3>4 DEF RowOK
    <3>7. RowOK' /\ FileHasDetail' /\ SettledImportIsAnswered'
      BY <2>1, <2>2, <3>6 DEF Facts, RowOK, FileHasDetail, SettledImportIsAnswered, There
    <3>8. Current'
      BY <2>1, <2>2, <2>4, <3>4, <3>5, <3>6 DEF Facts, Current, There
    <3> QED
      BY <3>7, <3>8 DEF Facts
  <2> QED
    BY <1>4, <2>3, <2>4 DEF Discover
<1>3. CASE Claim(c) \/ RetryClaim(c)
  <2>1. PICK letter \in {"claim", "retry"}, next \in {"claimed", "select"} : EndClaim(c, letter, next)
    BY <1>3 DEF Claim, RetryClaim
  <2>2. /\ UNCHANGED <<copy, assets, rolled, op>> /\ letters \subseteq letters' /\ Move(c, next)
        /\ There => Flush(c)
        /\ ~There => /\ UNCHANGED held
                     /\ \E read \in Galleries : Commit({}, [Nothing EXCEPT !.state = "open", !.gallery = read])
    BY <2>1 DEF EndClaim, vars
  <2>3. at' \in [Callers -> Places] /\ at'[c] # "import" /\ \A d \in Callers : at'[d] = "import" => at[d] = "import"
    BY <1>1, <2>2 DEF RowOK, Move, Places
  <2>4. CASE There
    BY <2>2, <2>3, <2>4, FlushOK
  <2>5. CASE ~There
    <3>1. PICK read \in Galleries : Commit({}, [Nothing EXCEPT !.state = "open", !.gallery = read])
      BY <2>2, <2>5
    <3> DEFINE new == [Nothing EXCEPT !.state = "open", !.gallery = read]
    <3>2. new \in Row /\ new.state = "open"
      BY DEF Nothing, Row, Galleries
    <3>3. row = Nothing /\ assets = {} /\ copy \in [Sessions -> Row \cup {Idle}]
          /\ held' \in [Callers -> Galleries \cup {"none"}]
      BY <1>1, <2>2, <2>5, CopyOK DEF Facts, RowOK, FileHasDetail
    <3>4. Commit({}, new) /\ {} \in SUBSET Callers
      BY <3>1
    <3>5. copy' \in [Sessions -> Row \cup {Idle}] /\ assets' = {} /\ ~row.detail
      BY <2>2, <3>3, CopyOK
    <3> HIDE DEF new
    <3> QED
      BY <2>2, <2>3, <3>2, <3>3, <3>4, <3>5, CommitOK
  <2> QED
    BY <2>4, <2>5
<1> QED
  BY <1>2, <1>3, <1>4

(* The import: it is selected, claimed in the ledger, recorded, settled.   *)
LEMMA ImportOK ==
  ASSUME Facts, TypeOK, NEW c \in Callers,
         \/ Select(c) \/ HeldCommits(c) \/ HeldIsLost(c) \/ LosesOtherKey(c)
         \/ ImportLedger(c) \/ ImportRecords(c) \/ ImportDone(c) \/ ImportRaises(c)
         \/ DownloadFails(c) \/ DetailFails(c) \/ CycleDies(c)
  PROVE  Facts'
<1>1. RowOK
  BY DEF Facts
<1>2. CASE Select(c)
  <2>1. /\ Move(c, IF row.state = "open" /\ claimed /\ ~row.detail THEN "import" ELSE "over")
        /\ stale' = stale \/ (stale' = stale \ {c} /\ held[c] = "none")
        /\ rolled' = rolled \ {c} /\ UNCHANGED <<row, copy, assets, op, letters, held>>
    BY <1>2 DEF Select, vars
  <2>2. /\ at' \in [Callers -> Places]
        /\ at'[c] = "import" => ~row.detail /\ There
        /\ \A d \in Callers \ {c} : at'[d] = at[d]
    BY <1>1, <2>1 DEF RowOK, Move, Places, There
  <2>3. c \notin Sessions
    BY IntakeAssumption
  <2>4. RowOK' /\ FileHasDetail' /\ SettledImportIsAnswered'
    BY <2>1, <2>2 DEF Facts, RowOK, FileHasDetail, SettledImportIsAnswered, There
  <2>5. Current'
    BY <2>1, <2>2, <2>3 DEF Facts, Current, There
  <2> QED
    BY <2>4, <2>5 DEF Facts
<1>6. CASE HeldCommits(c) \/ HeldIsLost(c) \/ LosesOtherKey(c)
  <2>1. UNCHANGED <<copy, assets, letters, op, at>> /\ at' \in [Callers -> Places]
    BY <1>1, <1>6 DEF HeldCommits, HeldIsLost, LosesOtherKey, vars, RowOK
  <2>2. CASE HeldCommits(c)
    BY <2>1, <2>2, FlushOK DEF HeldCommits
  <2>3. CASE HeldIsLost(c) \/ LosesOtherKey(c)
    <3>1. RollBack(c) /\ UNCHANGED row /\ rolled \subseteq rolled' /\ (at[c] = "import" => c \in rolled')
      BY <2>3 DEF HeldIsLost, LosesOtherKey
    <3> QED
      BY <2>1, <3>1, RollBackOK
  <2> QED
    BY <1>6, <2>2, <2>3
<1>7. CASE ImportLedger(c)
  <2>1. UNCHANGED <<copy, assets, letters>> /\ (UNCHANGED at \/ Move(c, "over"))
    BY <1>7 DEF ImportLedger
  <2>2. op'.status = "completed" => op.status = "completed"
    BY <1>7 DEF ImportLedger, Look, Insert, Reclaim, Claimed, TypeOK, Op
  <2>3. at' \in [Callers -> Places] /\ \A d \in Callers : at'[d] = "import" => at[d] = "import"
    BY <1>1, <2>1 DEF RowOK, Move, Places
  <2>4. \/ UNCHANGED <<row, stale, held, rolled>>
        \/ Flush(c) /\ UNCHANGED rolled
        \/ RollBack(c) /\ rolled' = rolled \cup {c} /\ UNCHANGED row
    BY <1>7 DEF ImportLedger, pending
  <2> QED
    BY <2>1, <2>2, <2>3, <2>4, QuietStep, FlushOK, RollBackOK
<1>3. CASE ImportRaises(c) \/ CycleDies(c)
  <2>1. /\ UNCHANGED <<row, stale, copy, assets, letters, held, rolled>>
        /\ UNCHANGED at \/ Move(c, "over")
    BY <1>3 DEF ImportRaises, CycleDies, pending
  <2>2. op'.status = "completed" => op.status = "completed"
    BY <1>3 DEF ImportRaises, CycleDies, Raise, Crash, vars, TypeOK, Op
  <2>3. at' \in [Callers -> Places] /\ \A d \in Callers : at'[d] = "import" => at[d] = "import"
    BY <1>1, <2>1 DEF RowOK, Move, Places
  <2> QED
    BY <2>1, <2>2, <2>3, QuietStep
<1>4. CASE ImportRecords(c)
  <2>1. PICK gallery \in UNION {Crawled(row.gallery, read) : read \in Galleries} :
          Commit({}, [row EXCEPT !.state = "open", !.detail = TRUE, !.gallery = gallery])
    BY <1>4 DEF ImportRecords
  <2>2. gallery \in Galleries /\ row \in Row
    BY <1>1 DEF Crawled, Galleries, RowOK, Row
  <2>3. /\ assets' = assets \cup {c} /\ c \notin assets /\ c \notin stale /\ at[c] = "import"
        /\ UNCHANGED <<op, letters, at, copy, held>>
    BY <1>4 DEF ImportRecords, MayCommit, vars, pending
  <2> DEFINE new == [row EXCEPT !.state = "open", !.detail = TRUE, !.gallery = gallery]
  <2>4. new \in Row /\ new.detail /\ new.state = "open" /\ Commit({}, new) /\ {} \in SUBSET Callers
    BY <2>1, <2>2 DEF Row
  <2>5. /\ at' \in [Callers -> Places] /\ copy' \in [Sessions -> Row \cup {Idle}]
        /\ held' \in [Callers -> Galleries \cup {"none"}]
    BY <1>1, <2>3 DEF RowOK
  <2> HIDE DEF new
  <2> QED
    BY <2>3, <2>4, <2>5, CommitOK
<1>5. CASE ImportDone(c) \/ DownloadFails(c) \/ DetailFails(c)
  <2>1. UNCHANGED <<row, stale, copy, assets, held, rolled>> /\ Move(c, "over") /\ letters \subseteq letters'
    BY <1>5 DEF ImportDone, DownloadFails, DetailFails, ImportFails, pending
  <2>2. c \in assets \/ letters' \cap {"download", "detail"} # {}
    BY <1>5 DEF ImportDone, DownloadFails, DetailFails, ImportFails
  <2>3. at' \in [Callers -> Places] /\ \A d \in Callers : at'[d] = "import" => at[d] = "import"
    BY <1>1, <2>1 DEF RowOK, Move, Places
  <2>4. RowOK' /\ Current' /\ FileHasDetail'
    BY <2>1, <2>3 DEF Facts, RowOK, Current, FileHasDetail, There
  <2>5. SettledImportIsAnswered'
    BY <2>1, <2>2 DEF Facts, FileHasDetail, SettledImportIsAnswered
  <2> QED
    BY <2>4, <2>5 DEF Facts
<1> QED
  BY <1>2, <1>3, <1>4, <1>5, <1>6, <1>7

(* A session that commits has read the row as it is.                       *)
LEMMA FreshCopy ==
  ASSUME Facts, NEW s \in Sessions, SessionCommits(s)
  PROVE  copy[s] = row /\ There /\ row \in Row /\ s \in {"scan", "refresh", "sync", "scrape"}
<1>1. copy[s] = row /\ copy[s] # Nothing
  BY DEF SessionCommits, MayCommit, Facts, Current
<1> QED
  BY <1>1, IntakeAssumption DEF Facts, RowOK

(* The other sessions.                                                     *)
LEMMA SessionsOK ==
  ASSUME Facts, NEW s \in Sessions, SessionReads(s) \/ SessionRollsBack(s) \/ SessionCommits(s)
  PROVE  Facts'
<1>1. RowOK /\ s \notin Callers
  BY IntakeAssumption DEF Facts
<1>2. CASE SessionReads(s)
  <2>1. /\ copy' = [copy EXCEPT ![s] = row] /\ stale' = stale \ {s}
        /\ UNCHANGED <<row, at, assets, op, letters, held, rolled>>
    BY <1>2 DEF SessionReads, vars, pending
  <2>2. RowOK' /\ FileHasDetail' /\ SettledImportIsAnswered'
    BY <1>1, <2>1 DEF Facts, RowOK, FileHasDetail, SettledImportIsAnswered, There
  <2>3. Current'
    BY <1>1, <2>1 DEF Facts, Current, There, RowOK
  <2> QED
    BY <2>2, <2>3 DEF Facts
<1>3. CASE SessionRollsBack(s)
  <2>1. copy' = [copy EXCEPT ![s] = Idle] /\ UNCHANGED <<row, stale, at, assets, op, letters, held, rolled>>
    BY <1>3 DEF SessionRollsBack, SessionOver, vars, pending
  <2>2. RowOK' /\ FileHasDetail' /\ SettledImportIsAnswered'
    BY <1>1, <2>1 DEF Facts, RowOK, FileHasDetail, SettledImportIsAnswered, There
  <2>3. Current'
    BY <1>1, <2>1 DEF Facts, Current, There, RowOK
  <2> QED
    BY <2>2, <2>3 DEF Facts
<1>4. CASE SessionCommits(s)
  <2>1. copy[s] = row /\ There /\ row \in Row /\ s \in {"scan", "refresh", "sync", "scrape"}
    BY <1>4, FreshCopy
  <2>2. PICK gallery \in Written(s), detail \in {d \in BOOLEAN : Detailed(s, d)} :
          Commit({}, [row EXCEPT !.detail = detail, !.gallery = gallery])
    BY <1>4 DEF SessionCommits
  <2>3. gallery \in Galleries
    BY <2>1, <2>2, CrawledOK DEF Written, Scraped, Row
  <2>4. detail \in BOOLEAN /\ (row.detail => detail) /\ (s = "refresh" => detail)
    BY <2>1, <2>2 DEF Detailed
  <2> DEFINE new == [row EXCEPT !.detail = detail, !.gallery = gallery]
  <2>5. new \in Row /\ new.state # "none" /\ new.detail = detail
    BY <2>1, <2>3, <2>4 DEF Row, There
  <2>6. /\ copy' = [copy EXCEPT ![s] = Idle] /\ UNCHANGED <<at, op, letters, held>>
        /\ assets' = assets \/ s = "refresh"
    BY <1>4 DEF SessionCommits, SessionOver, Recorded, vars, pending
  <2>7. assets' # {} => new.detail
    BY <2>4, <2>5, <2>6 DEF Facts, FileHasDetail
  <2>8. /\ copy' \in [Sessions -> Row \cup {Idle}] /\ at' \in [Callers -> Places]
        /\ held' \in [Callers -> Galleries \cup {"none"}]
    BY <1>1, <2>6 DEF RowOK
  <2>9. Commit({}, new) /\ {} \in SUBSET Callers
    BY <2>2
  <2> HIDE DEF new
  <2> QED
    BY <1>1, <2>4, <2>5, <2>6, <2>7, <2>8, <2>9, CommitOK
<1> QED
  BY <1>2, <1>3, <1>4

(* Whoever else commits the row: a scan that adds it, people, the board.   *)
LEMMA OthersOK ==
  ASSUME Facts, ScanAdds \/ ImportGallery \/ EditGallery \/ OrderMoves
  PROVE  Facts'
<1>1. /\ RowOK /\ copy \in [Sessions -> Row \cup {Idle}] /\ at \in [Callers -> Places]
      /\ held \in [Callers -> Galleries \cup {"none"}] /\ {} \in SUBSET Callers
  BY DEF Facts, RowOK
<1>2. CASE ScanAdds
  <2>1. PICK detail \in BOOLEAN, gallery \in Galleries : Commit({}, [state |-> "open", detail |-> detail, gallery |-> gallery])
    BY <1>2 DEF ScanAdds
  <2> DEFINE new == [state |-> "open", detail |-> detail, gallery |-> gallery]
  <2>2. /\ "scan" \in Sessions /\ ~There /\ UNCHANGED <<at, op, letters, assets, held>>
        /\ copy' = [copy EXCEPT !["scan"] = Idle]
    BY <1>2 DEF ScanAdds, SessionOver, vars, pending
  <2>3. ~row.detail /\ assets = {}
    BY <2>2, CopyOK DEF Facts, RowOK, FileHasDetail
  <2>4. new \in Row /\ new.state # "none" /\ Commit({}, new)
    BY <2>1 DEF Row
  <2>5. copy' \in [Sessions -> Row \cup {Idle}]
    BY <1>1, <2>2
  <2> HIDE DEF new
  <2> QED
    BY <1>1, <2>2, <2>3, <2>4, <2>5, CommitOK
<1>3. CASE ImportGallery \/ EditGallery
  <2>1. PICK gallery \in Galleries : Commit({}, [row EXCEPT !.gallery = gallery])
    BY <1>3 DEF ImportGallery, EditGallery, NewGallery
  <2>2. There /\ UNCHANGED <<at, op, letters, assets, copy, held>>
    BY <1>3 DEF ImportGallery, EditGallery, NewGallery, vars, pending
  <2>3. [row EXCEPT !.gallery = gallery] \in Row /\ [row EXCEPT !.gallery = gallery].state # "none" /\ [row EXCEPT !.gallery = gallery].detail = row.detail
    BY <1>1, <2>2 DEF RowOK, Row, There
  <2> QED
    BY <1>1, <2>1, <2>2, <2>3, CommitOK DEF Facts, FileHasDetail
<1>4. CASE OrderMoves
  <2> DEFINE new == [row EXCEPT !.state = IF row.state = "open" THEN "worked" ELSE "open"]
  <2>1. There /\ Commit({}, new) /\ UNCHANGED <<at, op, letters, assets, copy, held>>
    BY <1>4 DEF OrderMoves, vars, pending
  <2>2. new \in Row /\ new.state # "none" /\ new.detail = row.detail
    BY <1>1 DEF RowOK, Row
  <2> HIDE DEF new
  <2> QED
    BY <1>1, <2>1, <2>2, CommitOK DEF Facts, FileHasDetail
<1> QED
  BY <1>2, <1>3, <1>4

-----------------------------------------------------------------------------
LEMMA FactsAtFirst == IntakeInit => Facts
<1> SUFFICES ASSUME IntakeInit PROVE Facts
  OBVIOUS
<1>1. RowOK
  BY CopyOK DEF IntakeInit, RowOK, Places
<1>2. Current /\ FileHasDetail /\ SettledImportIsAnswered
  BY DEF IntakeInit, Current, FileHasDetail, SettledImportIsAnswered, Init
<1> QED
  BY <1>1, <1>2 DEF Facts

LEMMA FactsStay == Facts /\ TypeOK /\ [IntakeNext]_intakeVars => Facts'
<1> SUFFICES ASSUME Facts, TypeOK, [IntakeNext]_intakeVars PROVE Facts'
  OBVIOUS
<1>1. CASE UNCHANGED intakeVars \/ AllIdle \/ LeasesExpire
  <2>1. UNCHANGED <<row, stale, copy, assets, letters, at, held, rolled>>
    BY <1>1 DEF intakeVars, orderVars, pending, AllIdle, LeasesExpire
  <2>2. op'.status = "completed" => op.status = "completed"
    BY <1>1 DEF intakeVars, AllIdle, LeasesExpire, LeaseExpires, vars, TypeOK, Op
  <2> QED
    BY <2>1, <2>2, QuietStep DEF Facts, RowOK
<1>2. CASE IntakeNext
  BY <1>1, <1>2, ClaimingOK, ImportOK, SessionsOK, OthersOK DEF IntakeNext
<1> QED
  BY <1>1, <1>2

(* The facts of the argument, for any cycles and sessions.                 *)
THEOREM FactsHold == IntakeSpec => []Facts
  BY FactsAtFirst, FactsStay, ImportIsACommand, OperationIsWellFormed, PTL DEF IntakeSpec

(* A completed import has its details or a DeadLetter (crawl.py:630).      *)
THEOREM SettledImportsAreAnswered == IntakeSpec => []SettledImportIsAnswered
<1>1. Facts => SettledImportIsAnswered
  BY DEF Facts
<1> QED
  BY <1>1, FactsHold, PTL

(* An import never records a file for an order that has one, since a cycle *)
(* whose copy is not stale reads an order without details (crawl.py:676),  *)
(* unless a rollback made its session take a newer row (operations.py:96). *)
THEOREM FileIsImportedOnce == IntakeSpec => FileImportedOnce
<1>1. Facts /\ [IntakeNext]_intakeVars
        => [\A c \in Callers : c \in assets' \ assets => assets = {} \/ c \in rolled]_intakeVars
  <2> SUFFICES ASSUME Facts, [IntakeNext]_intakeVars, NEW c \in Callers, c \in assets' \ assets
               PROVE  assets = {} \/ c \in rolled
    OBVIOUS
  <2>1. \E d \in Callers : ImportRecords(d)
    <3>1. ASSUME NEW s \in Sessions, SessionCommits(s) PROVE FALSE
      BY <3>1, IntakeAssumption DEF SessionCommits, Recorded
    <3>2. UNCHANGED assets \/ (\E d \in Callers : ImportRecords(d)) \/ (\E s \in Sessions : SessionCommits(s))
      BY DEF IntakeNext, intakeVars, orderVars, DiscoverFails, Discover, ClaimBatch, BeginClaim, EndClaim, Claim,
             BatchDone, FindUnclaimed, RetryClaim, Select, HeldCommits, HeldIsLost, LosesOtherKey, ImportLedger, ImportDone,
             ImportRaises, ImportFails, DownloadFails, DetailFails, CycleDies, LeasesExpire, SessionReads, SessionRollsBack,
             ScanAdds, NewGallery, ImportGallery, EditGallery, OrderMoves, AllIdle
    <3> QED
      BY <3>1, <3>2
  <2>2. PICK d \in Callers : ImportRecords(d)
    BY <2>1
  <2>3. at[d] = "import" /\ d \notin stale /\ d \notin assets /\ c = d
    BY <2>2 DEF ImportRecords, MayCommit
  <2> QED
    BY <2>3 DEF Facts, Current, FileHasDetail
<1> QED
  BY <1>1, FactsHold, PTL DEF IntakeSpec, FileImportedOnce

(* Several stored pictures go only when somebody sends the gallery itself, *)
(* whatever was read of Printerval's lists and when (crawl.py:43).         *)
THEOREM PicturesStay == IntakeSpec => RichGalleryStays
<1>1. Facts /\ [IntakeNext]_intakeVars => [row.gallery = "rich" /\ row'.gallery # "rich" => GalleryGiven]_intakeVars
  <2> SUFFICES ASSUME Facts, [IntakeNext]_intakeVars, row.gallery = "rich", row'.gallery # "rich" PROVE GalleryGiven
    OBVIOUS
  <2>1. There /\ row \in Row /\ row.gallery \in Galleries
    BY CopyOK DEF Facts, RowOK, Row
  <2>2. ASSUME NEW c \in Callers, ImportRecords(c) PROVE FALSE
    <3>3. PICK read \in Galleries :
            \E gallery \in Crawled(row.gallery, read) :
              row' = [row EXCEPT !.state = "open", !.detail = TRUE, !.gallery = gallery]
      BY <2>2 DEF ImportRecords, Commit
    <3>1. PICK gallery \in Crawled(row.gallery, read) :
            row' = [row EXCEPT !.state = "open", !.detail = TRUE, !.gallery = gallery]
      BY <3>3
    <3>2. row'.gallery = gallery
      BY <2>1, <3>1 DEF Row
    <3> QED
      BY <2>1, <3>1, <3>2, CrawledOK
  <2>3. ASSUME NEW s \in Sessions, SessionCommits(s) PROVE GalleryGiven
    <3>1. copy[s] = row
      BY <2>3, FreshCopy
    <3>2. PICK gallery \in Written(s), detail \in BOOLEAN : row' = [row EXCEPT !.detail = detail, !.gallery = gallery]
      BY <2>3 DEF SessionCommits, Commit
    <3>3. row'.gallery = gallery
      BY <2>1, <3>2 DEF Row
    <3>4. s = "scrape"
      BY <2>1, <3>1, <3>2, <3>3, CrawledOK DEF Written
    <3> QED
      BY <2>3, <3>4 DEF GalleryGiven
  <2>4. ASSUME NEW c \in Callers, Flush(c) PROVE FALSE
    <3>1. c \notin stale /\ held[c] # "none" /\ row' = [row EXCEPT !.gallery = held[c]]
      BY <2>4 DEF Flush, MayCommit, Commit
    <3>2. row'.gallery = held[c] /\ held[c] = "rich"
      BY <2>1, <3>1 DEF Facts, Current, Row
    <3> QED
      BY <3>2
  <2>5. CASE ScanAdds
    BY <2>1, <2>5 DEF ScanAdds
  <2>6. CASE OrderMoves
    <3>1. row'.gallery = row.gallery
      BY <2>1, <2>6 DEF OrderMoves, Commit, Row
    <3> QED
      BY <3>1
  <2>7. CASE ImportGallery \/ EditGallery
    BY <2>7 DEF GalleryGiven
  <2>8. \/ UNCHANGED row \/ \E c \in Callers : ImportRecords(c) \/ Flush(c)
        \/ ScanAdds \/ OrderMoves \/ ImportGallery \/ EditGallery \/ \E s \in Sessions : SessionCommits(s)
    BY <2>1 DEF IntakeNext, intakeVars, orderVars, DiscoverFails, Discover, ClaimBatch, BeginClaim, Claim, EndClaim,
           BatchDone, FindUnclaimed, RetryClaim, Select, HeldCommits, HeldIsLost, LosesOtherKey, ImportLedger, ImportDone,
           ImportRaises, ImportFails, DownloadFails, DetailFails, CycleDies, LeasesExpire, SessionReads, SessionRollsBack, AllIdle
  <2> QED
    BY <2>2, <2>3, <2>4, <2>5, <2>6, <2>7, <2>8
<1> QED
  BY <1>1, FactsHold, PTL DEF IntakeSpec, RichGalleryStays

-----------------------------------------------------------------------------
(* The rest of the types.                                                  *)
Letters == {"discover", "claim", "retry", "download", "detail"}
Batches == {"none", "pending", "expired", "failed", "completed"}
RestOK ==
  /\ foreign \subseteq Callers /\ claimed \in BOOLEAN /\ assets \subseteq Callers \cup Sessions
  /\ letters \subseteq Letters /\ batch \in Batches
  /\ stale \subseteq Callers \cup Sessions /\ inserting \in Callers \cup {NoCaller} /\ edits \in 0 .. MaxEdits
  /\ rolled \subseteq Callers

LEMMA FlushKeepsStale ==
  ASSUME RestOK, NEW c \in Callers, Flush(c) \/ RollBack(c) PROVE stale' \subseteq Callers \cup Sessions
  BY DEF RestOK, Flush, RollBack, Commit

LEMMA CyclesKeepRest ==
  ASSUME RestOK, NEW c \in Callers,
         \/ DiscoverFails(c) \/ Discover(c) \/ ClaimBatch(c) \/ BeginClaim(c) \/ Claim(c) \/ BatchDone(c)
         \/ FindUnclaimed(c) \/ RetryClaim(c) \/ Select(c)
         \/ HeldCommits(c) \/ HeldIsLost(c) \/ LosesOtherKey(c)
         \/ ImportLedger(c) \/ ImportRecords(c) \/ ImportDone(c) \/ ImportRaises(c)
         \/ DownloadFails(c) \/ DetailFails(c) \/ CycleDies(c)
  PROVE  RestOK'
<1>1. CASE DiscoverFails(c) \/ Discover(c) \/ ClaimBatch(c) \/ BeginClaim(c) \/ BatchDone(c) \/ FindUnclaimed(c)
  BY <1>1 DEF DiscoverFails, Discover, ClaimBatch, BeginClaim, BatchDone, FindUnclaimed, RestOK, Letters, Batches, pending
<1>2. ASSUME NEW letter \in {"claim", "retry"}, NEW place, EndClaim(c, letter, place), UNCHANGED batch PROVE RestOK'
  <2>1. stale' \subseteq Callers \cup Sessions
    BY <1>2, FlushKeepsStale DEF EndClaim, Commit
  <2> QED
    BY <1>2, <2>1 DEF EndClaim, RestOK, Letters
<1>3. CASE Claim(c) \/ RetryClaim(c)
  BY <1>2, <1>3 DEF Claim, RetryClaim
<1>4. CASE ImportRecords(c)
  <2>1. stale' = Callers \cup Sessions
    BY <1>4 DEF ImportRecords, Commit
  <2> QED
    BY <1>4, <2>1 DEF ImportRecords, RestOK, pending
<1>7. CASE HeldCommits(c) \/ HeldIsLost(c) \/ LosesOtherKey(c) \/ ImportLedger(c)
  <2>1. stale' \subseteq Callers \cup Sessions
    BY <1>7, FlushKeepsStale DEF HeldCommits, HeldIsLost, LosesOtherKey, ImportLedger, RestOK
  <2>2. rolled' \subseteq Callers
    BY <1>7 DEF HeldCommits, HeldIsLost, LosesOtherKey, ImportLedger, RestOK, pending
  <2> QED
    BY <1>7, <2>1, <2>2 DEF HeldCommits, HeldIsLost, LosesOtherKey, ImportLedger, RestOK
<1>5. CASE Select(c) \/ ImportDone(c) \/ ImportRaises(c) \/ DownloadFails(c) \/ DetailFails(c)
  BY <1>5 DEF Select, ImportDone, ImportRaises, DownloadFails, DetailFails, ImportFails, RestOK, Letters, pending
<1>6. CASE CycleDies(c)
  BY <1>6 DEF CycleDies, RestOK, Batches, pending
<1> QED
  BY <1>1, <1>3, <1>4, <1>5, <1>6, <1>7

LEMMA RestStays == RestOK /\ [IntakeNext]_intakeVars => RestOK'
<1> SUFFICES ASSUME RestOK, [IntakeNext]_intakeVars PROVE RestOK'
  OBVIOUS
<1> USE IntakeAssumption
<1>1. ASSUME edits < MaxEdits, edits' = edits + 1 PROVE edits' \in 0 .. MaxEdits
  BY <1>1 DEF RestOK
<1>2. CASE UNCHANGED intakeVars \/ AllIdle \/ LeasesExpire
  BY <1>2 DEF intakeVars, orderVars, pending, AllIdle, LeasesExpire, RestOK, Batches
<1>3. ASSUME NEW s \in Sessions, SessionReads(s) PROVE RestOK'
  BY <1>1, <1>3 DEF SessionReads, RestOK, pending
<1>4. ASSUME NEW s \in Sessions, SessionRollsBack(s) PROVE RestOK'
  BY <1>4 DEF SessionRollsBack, RestOK, pending
<1>5. ASSUME NEW s \in Sessions, SessionCommits(s) PROVE RestOK'
  <2>1. stale' = Callers \cup Sessions
    BY <1>5 DEF SessionCommits, Commit
  <2>2. assets' \subseteq Callers \cup Sessions
    BY <1>5 DEF SessionCommits, Recorded, RestOK
  <2> QED
    BY <1>5, <2>1, <2>2 DEF SessionCommits, RestOK, pending
<1>6. CASE ScanAdds
  <2>1. stale' = Callers \cup Sessions
    BY <1>6 DEF ScanAdds, Commit
  <2> QED
    BY <1>6, <2>1 DEF ScanAdds, RestOK, pending
<1>7. CASE ImportGallery \/ EditGallery \/ OrderMoves
  <2>1. /\ stale' = Callers \cup Sessions /\ edits < MaxEdits /\ edits' = edits + 1
        /\ UNCHANGED <<foreign, claimed, assets, letters, batch, inserting, rolled>>
    BY <1>7 DEF ImportGallery, EditGallery, OrderMoves, NewGallery, Commit, pending
  <2> QED
    BY <1>1, <2>1 DEF RestOK
<1>8. CASE IntakeNext
  BY <1>2, <1>3, <1>4, <1>5, <1>6, <1>7, <1>8, CyclesKeepRest DEF IntakeNext
<1> QED
  BY <1>2, <1>8

(* Rows, copies and cycles keep their types (crawl.py, crawl_tasks.py).    *)
THEOREM IntakeTypesHold == IntakeSpec => []IntakeTypeOK
<1>1. IntakeInit => RestOK
  <2>1. 0 \in 0 .. MaxEdits
    BY IntakeAssumption
  <2> QED
    BY <2>1 DEF IntakeInit, RestOK, Batches
<1>2. TypeOK /\ Facts /\ RestOK => IntakeTypeOK
  BY DEF Facts, RowOK, RestOK, Letters, Batches, There, IntakeTypeOK
<1> QED
  BY <1>1, <1>2, RestStays, FactsHold, ImportIsACommand, OperationIsWellFormed, PTL DEF IntakeSpec
=============================================================================
