------------------------------- MODULE Intake -------------------------------
(***************************************************************************)
(* How one order of Printerval gets its row: the crawl cycles that         *)
(* discover, claim and import it (crawl.py, crawl_tasks.py), the scan, the *)
(* refresh and the scrape of its gallery an Admin asks for, the lists the  *)
(* status syncs read, and the galleries that people and the browser        *)
(* extension send.  The order has a source file.                           *)
(* The import is a command of run_idempotent with the key                  *)
(* import_order:<id>: the callers of IdempotentOps are the cycles, and op  *)
(* is that key's row.  The row of the order has a version, so a session    *)
(* that read it before somebody else's commit cannot commit its own.       *)
(***************************************************************************)
EXTENDS IdempotentOps

CONSTANTS
  Sessions,  \* the other sessions that copy what Printerval shows into the row
  MaxEdits   \* bound on the requests of people

ASSUME IntakeAssumption ==
  /\ Sessions \subseteq {"scan", "refresh", "sync", "scrape"} /\ (Callers \cup {NoCaller}) \cap Sessions = {}
  /\ MaxEdits \in Nat

VARIABLES
  foreign,  \* the cycles of other platforms, which import this order as well
  row,      \* the order's row, with how much of its gallery is stored
  claimed,  \* a claim was confirmed by Printerval (ExternalObservation)
  assets,   \* who recorded a downloaded file of the order (OrderAsset)
  letters,  \* the DeadLetters that are committed, by source
  batch,    \* the row of claim_batch for this order alone
  at,       \* where each crawl cycle is
  copy,     \* what each session read, Nothing when it is not at work
  stale,    \* the cycles and sessions whose row was changed by another's commit
  inserting,\* the cycle whose INSERT of the row is not committed
  edits,    \* requests of people so far
  held,     \* the gallery of the row a cycle's session has changed and not committed
  rolled    \* history: the cycles whose session was rolled back since they selected the order

pending == <<held, rolled>>
orderVars == <<foreign, row, claimed, assets, letters, batch, at, copy, stale, inserting, edits, pending>>
intakeVars == <<vars, orderVars>>

\* What is read of a gallery: nothing, one thumbnail, or several pictures.
Galleries == {"empty", "thumb", "rich"}
Row == [state : {"none", "open", "worked"}, detail : BOOLEAN, gallery : Galleries]
Nothing == [state |-> "none", detail |-> FALSE, gallery |-> "empty"]
Idle == [Nothing EXCEPT !.state = "idle"]
Places == {"start", "claim", "claiming", "claimed", "retry", "retrying", "select", "import", "over"}

IntakeInit ==
  /\ Init
  /\ foreign \in SUBSET Callers
  /\ row = Nothing /\ claimed = FALSE /\ assets = {} /\ letters = {} /\ batch = "none"
  /\ at = [c \in Callers |-> IF c \in foreign THEN "select" ELSE "start"]
  /\ copy = [s \in Sessions |-> Idle]
  /\ stale = {} /\ inserting = NoCaller /\ edits = 0
  /\ held = [c \in Callers |-> "none"] /\ rolled = {}

There == row.state # "none"
Move(c, place) == at' = [at EXCEPT ![c] = place]

(* A commit that changes the row leaves everybody with an old version but  *)
(* who goes on with the row it has committed.                              *)
Commit(going, new) == row' = new /\ stale' = (Callers \cup Sessions) \ going

-----------------------------------------------------------------------------
(* apply_crawled_product_gallery: nothing read changes nothing, one        *)
(* picture never replaces several, and is added to the one there is.       *)
Bug_Overwrites(gallery, read) == {read}
Crawled(gallery, read) ==
  IF read = "empty" THEN {gallery}
  ELSE IF "rich" \in {gallery, read} THEN {"rich"}
  ELSE {"thumb"} \cup {g \in {"rich"} : gallery = "thumb"}

Bug_LastWriterWins(s) == TRUE
MayCommit(s) == s \notin stale

(* Every commit of a cycle carries what its session holds of the row. *)
Flush(c) ==
  IF held[c] = "none" THEN UNCHANGED <<row, stale, held>>
  ELSE /\ MayCommit(c) /\ Commit({x \in {c} : at[x] = "import"}, [row EXCEPT !.gallery = held[c]])
       /\ held' = [held EXCEPT ![c] = "none"]

(* A rollback drops it, and the next look at the order loads it anew. *)
RollBack(c) == held' = [held EXCEPT ![c] = "none"] /\ stale' = stale \ {c}

-----------------------------------------------------------------------------
(* A cycle reads the Waiting list in the browser.  A list that cannot be   *)
(* read ends the cycle with a DeadLetter.                                  *)
DiscoverFails(c) ==
  /\ at[c] = "start"
  /\ letters' = letters \cup {"discover"} /\ Move(c, "over")
  /\ UNCHANGED <<vars, foreign, row, claimed, assets, batch, copy, stale, inserting, edits, pending>>

(* The order is on the list or not.  One that has a row is given what the  *)
(* list shows, if it is anything new: nothing is committed yet.            *)
Discover(c) ==
  /\ at[c] = "start"
  /\ \/ /\ Move(c, "retry")
        /\ There
        /\ \E read \in Galleries : \E gallery \in Crawled(row.gallery, read) :
             held' = [held EXCEPT ![c] = gallery]
        /\ stale' = stale \ {c}
     \/ \E listed \in BOOLEAN : Move(c, IF listed /\ ~There THEN "claim" ELSE "retry")
        /\ UNCHANGED <<held, stale>>
  /\ UNCHANGED <<vars, foreign, row, claimed, assets, letters, batch, copy, inserting, edits, rolled>>

(* What is held goes out with the claim or the import of another order, of *)
(* this cycle or of the next one of its session ...                        *)
HeldCommits(c) ==
  /\ held[c] # "none" /\ Flush(c)
  /\ UNCHANGED <<vars, foreign, claimed, assets, letters, batch, at, copy, inserting, edits, rolled>>

(* ... or is lost: the session is rolled back or closed without a commit.  *)
HeldIsLost(c) ==
  /\ held[c] # "none" /\ at[c] # "import" /\ RollBack(c)
  /\ UNCHANGED <<vars, foreign, row, claimed, assets, letters, batch, at, copy, inserting, edits, rolled>>

(* claim_batch for the new orders: the key is a hash of them, so a batch   *)
(* that is done answers from its row, and one under way turns the cycle    *)
(* away with an exception, unless its lease is over or it failed.          *)
ClaimBatch(c) ==
  /\ at[c] = "claim"
  /\ \/ batch \in {"none", "failed", "expired"} /\ batch' = "pending" /\ Move(c, "claiming")
     \/ batch = "pending" /\ Move(c, "over") /\ UNCHANGED batch
     \/ batch = "completed" /\ Move(c, "select") /\ UNCHANGED batch
  /\ UNCHANGED <<vars, foreign, row, claimed, assets, letters, copy, stale, inserting, edits, pending>>

(* _claim_one_order: the row is inserted, and held back from the others    *)
(* until the commit; then Printerval is asked to set the team's Designer.  *)
BeginClaim(c) ==
  /\ at[c] = "claiming" /\ inserting # c
  /\ ~There /\ inserting = NoCaller
  /\ inserting' = c
  /\ UNCHANGED <<vars, foreign, row, claimed, assets, letters, batch, at, copy, stale, edits, pending>>

EndClaim(c, letter, next) ==
  /\ There \/ inserting = c
  /\ IF There THEN Flush(c)
     ELSE /\ \E read \in Galleries : Commit({}, [Nothing EXCEPT !.state = "open", !.gallery = read])
          /\ UNCHANGED held
  /\ inserting' = IF inserting = c THEN NoCaller ELSE inserting
  /\ \/ claimed' = TRUE /\ UNCHANGED letters
     \/ letters' = letters \cup {letter} /\ UNCHANGED claimed
  /\ Move(c, next)
  /\ UNCHANGED <<vars, foreign, assets, copy, edits, rolled>>

Claim(c) == at[c] = "claiming" /\ EndClaim(c, "claim", "claimed") /\ UNCHANGED batch

\* The retries leave out what this cycle has just tried to claim.
BatchDone(c) ==
  /\ at[c] = "claimed"
  /\ batch' = "completed" /\ Move(c, "select")
  /\ UNCHANGED <<vars, foreign, row, claimed, assets, letters, copy, stale, inserting, edits, pending>>

(* find_unclaimed_order_ids: every open order without a confirmed claim,   *)
(* whoever made its row, and without the ledger of run_idempotent.         *)
FindUnclaimed(c) ==
  /\ at[c] = "retry"
  /\ Move(c, IF row.state = "open" /\ ~claimed THEN "retrying" ELSE "select")
  /\ UNCHANGED <<vars, foreign, row, claimed, assets, letters, batch, copy, stale, inserting, edits, pending>>

RetryClaim(c) == at[c] = "retrying" /\ EndClaim(c, "retry", "select") /\ UNCHANGED batch

(* import_claimed_orders takes every order that is open, claimed and has   *)
(* no details, of any platform, and reads its row; a row that is held is   *)
(* not read again.                                                         *)
Select(c) ==
  /\ at[c] = "select"
  /\ Move(c, IF row.state = "open" /\ claimed /\ ~row.detail THEN "import" ELSE "over")
  /\ stale' = IF held[c] = "none" THEN stale \ {c} ELSE stale
  /\ rolled' = rolled \ {c}
  /\ UNCHANGED <<vars, foreign, row, claimed, assets, letters, batch, copy, inserting, edits, held>>

-----------------------------------------------------------------------------
(* The orders before this one are imported first: the cycle that loses the *)
(* race for the key of one of them rolls its session back.                 *)
LosesOtherKey(c) ==
  /\ at[c] = "import" /\ step[c] = "idle"
  /\ RollBack(c) /\ rolled' = rolled \cup {c}
  /\ UNCHANGED <<vars, foreign, row, claimed, assets, letters, batch, at, copy, inserting, edits>>

(* The import goes through the ledger like any command of run_idempotent:  *)
(* who claims the key commits, and who loses the race for it rolls back.   *)
ImportLedger(c) ==
  /\ at[c] = "import"
  /\ \/ Look(c) /\ UNCHANGED <<row, stale, pending>>
     \/ ((Insert(c) /\ op.status = "none") \/ Reclaim(c)) /\ Flush(c) /\ UNCHANGED rolled
     \/ /\ Insert(c) /\ op.status # "none"
        /\ RollBack(c) /\ rolled' = rolled \cup {c} /\ UNCHANGED row
  /\ IF step'[c] = "done" THEN Move(c, "over") ELSE UNCHANGED at
  /\ UNCHANGED <<foreign, claimed, assets, letters, batch, copy, inserting, edits>>

Bug_ForgetsTheLetter(c, stage) ==
  /\ at[c] = "import" /\ Complete(c) /\ Move(c, "over")
  /\ UNCHANGED <<foreign, row, claimed, assets, letters, batch, copy, stale, inserting, edits, pending>>

(* What fails for good completes the operation with "not imported", and    *)
(* the DeadLetter is in the same commit.                                   *)
ImportFails(c, stage) ==
  /\ at[c] = "import" /\ Complete(c)
  /\ letters' = letters \cup {stage}
  /\ Move(c, "over")
  /\ UNCHANGED <<foreign, row, claimed, assets, batch, copy, stale, inserting, edits, pending>>

(* The file cannot be had; a cycle of another platform, whose session does *)
(* not find the order, gets no further.                                    *)
DownloadFails(c) == ImportFails(c, "download")

\* The order's row cannot be read, or the details in it.
DetailFails(c) == c \notin foreign /\ ImportFails(c, "detail")

(* The file, the details and the transition to OPEN are one commit.  The   *)
(* row is not looked at again, even if a rollback made it be reloaded.     *)
ImportRecords(c) ==
  /\ at[c] = "import" /\ step[c] = "running" /\ c \notin foreign
  /\ c \notin assets /\ MayCommit(c)
  /\ \E read \in Galleries : \E gallery \in Crawled(row.gallery, read) :
       Commit({}, [row EXCEPT !.state = "open", !.detail = TRUE, !.gallery = gallery])
  /\ assets' = assets \cup {c}
  /\ UNCHANGED <<vars, foreign, claimed, letters, batch, at, copy, inserting, edits, pending>>

ImportDone(c) ==
  /\ at[c] = "import" /\ c \in assets /\ Complete(c) /\ Move(c, "over")
  /\ UNCHANGED <<foreign, row, claimed, assets, letters, batch, copy, stale, inserting, edits, pending>>

(* A version that is no longer the row's: the flush fails, the session is  *)
(* rolled back, the operation is failed, and the exception ends the cycle. *)
ImportRaises(c) ==
  /\ at[c] = "import" /\ c \notin assets
  /\ Raise(c) /\ effects' = effects
  /\ Move(c, "over")
  /\ UNCHANGED <<foreign, row, claimed, assets, letters, batch, copy, stale, inserting, edits, pending>>

(* An exception or the end of the process, anywhere: an INSERT that is not *)
(* committed is gone, and a batch is failed or pending until its lease is  *)
(* over.                                                                   *)
CycleDies(c) ==
  /\ at[c] # "over"
  /\ IF at[c] = "import" /\ step[c] = "running" THEN Crash(c) ELSE UNCHANGED vars
  /\ Move(c, "over")
  /\ inserting' = IF inserting = c THEN NoCaller ELSE inserting
  /\ batch' \in {batch} \cup {b \in {"failed"} : at[c] \in {"claiming", "claimed"}}
  /\ UNCHANGED <<foreign, row, claimed, assets, letters, copy, stale, edits, pending>>

(* PENDING_LEASE passes: for the batch, or for the import (no cycle sleeps *)
(* that long between the SELECT and the INSERT of run_idempotent).         *)
LeasesExpire ==
  \/ batch = "pending" /\ batch' = "expired"
     /\ UNCHANGED <<vars, foreign, row, claimed, assets, letters, at, copy, stale, inserting, edits, pending>>
  \/ (\A c \in Callers : step[c] # "insert") /\ LeaseExpires /\ UNCHANGED orderVars

-----------------------------------------------------------------------------
(* The scan an Admin asks for, the refresh of one order and the list of a  *)
(* status sync read the row; a scan goes on without one, the others do not *)
(* know the order then.                                                    *)
SessionReads(s) ==
  /\ copy[s] = Idle /\ edits < MaxEdits
  /\ s = "scan" \/ There
  /\ copy' = [copy EXCEPT ![s] = row]
  /\ stale' = stale \ {s}
  /\ edits' = edits + 1
  /\ UNCHANGED <<vars, foreign, row, claimed, assets, letters, batch, at, inserting, pending>>

SessionOver(s) == copy' = [copy EXCEPT ![s] = Idle]

(* Nothing stays when Printerval could not be read, when the row changed   *)
(* or came to be meanwhile: not even the DeadLetter of a refresh, which    *)
(* its route never commits.                                                *)
SessionRollsBack(s) ==
  /\ copy[s] # Idle
  /\ SessionOver(s)
  /\ UNCHANGED <<vars, foreign, row, claimed, assets, letters, batch, at, stale, inserting, edits, pending>>

\* An order the scan did not know: nobody else may have inserted it.
ScanAdds ==
  /\ "scan" \in Sessions /\ copy["scan"] = Nothing
  /\ ~There /\ inserting = NoCaller
  /\ \E detail \in BOOLEAN, gallery \in Galleries :
       Commit({}, [state |-> "open", detail |-> detail, gallery |-> gallery])
  /\ SessionOver("scan")
  /\ UNCHANGED <<vars, foreign, claimed, assets, letters, batch, at, inserting, edits, pending>>

\* The list of a status sync has no details; a refresh reads them.
Detailed(s, detail) ==
  CASE s \in {"sync", "scrape"} -> detail = row.detail
    [] s = "scan" -> row.detail => detail
    [] s = "refresh" -> detail

(* The scrape of the shop's page replaces the gallery by what it found,    *)
(* and without a picture it stores nothing.                                *)
Scraped == Galleries \ {"empty"}
Written(s) ==
  IF s = "scrape" THEN Scraped ELSE UNION {Crawled(copy[s].gallery, read) : read \in Galleries}

(* A refresh records the file unless its checksum is that of one record,   *)
(* the one with the greatest random id, so it may record a file twice.     *)
Recorded(s) == {assets, assets \cup ({s} \cap {"refresh"})}

\* The details a scan or a refresh reads are written whole.
SessionCommits(s) ==
  /\ copy[s] \notin {Idle, Nothing} /\ MayCommit(s)
  /\ \E gallery \in Written(s), detail \in {d \in BOOLEAN : Detailed(s, d)} :
       Commit({}, [row EXCEPT !.detail = detail, !.gallery = gallery])
  /\ assets' \in Recorded(s)
  /\ SessionOver(s)
  /\ UNCHANGED <<vars, foreign, claimed, letters, batch, at, inserting, edits, pending>>

NewGallery(galleries) ==
  /\ There /\ edits < MaxEdits
  /\ \E gallery \in galleries : Commit({}, [row EXCEPT !.gallery = gallery])
  /\ edits' = edits + 1
  /\ UNCHANGED <<vars, foreign, claimed, assets, letters, batch, at, copy, inserting, pending>>

\* The extension sends what its page shows, if it is anything at all.
ImportGallery == NewGallery(Galleries \ {"empty"})

\* An Admin edits the gallery, with the row locked; it may end empty.
EditGallery == NewGallery(Galleries)

\* The order is given to a Designer, or comes back to OPEN.
OrderMoves ==
  /\ There /\ edits < MaxEdits
  /\ Commit({}, [row EXCEPT !.state = IF row.state = "open" THEN "worked" ELSE "open"])
  /\ edits' = edits + 1
  /\ UNCHANGED <<vars, foreign, claimed, assets, letters, batch, at, copy, inserting, pending>>

AllIdle ==
  /\ \A c \in Callers : at[c] = "over"
  /\ UNCHANGED intakeVars

IntakeNext ==
  \/ \E c \in Callers :
       \/ DiscoverFails(c) \/ Discover(c) \/ ClaimBatch(c) \/ BeginClaim(c) \/ Claim(c) \/ BatchDone(c)
       \/ FindUnclaimed(c) \/ RetryClaim(c) \/ Select(c)
       \/ HeldCommits(c) \/ HeldIsLost(c) \/ LosesOtherKey(c)
       \/ ImportLedger(c) \/ ImportRecords(c) \/ ImportDone(c) \/ ImportRaises(c)
       \/ DownloadFails(c) \/ DetailFails(c)
       \/ CycleDies(c)
  \/ LeasesExpire
  \/ \E s \in Sessions : SessionReads(s) \/ SessionRollsBack(s) \/ SessionCommits(s)
  \/ ScanAdds \/ ImportGallery \/ EditGallery \/ OrderMoves \/ AllIdle

IntakeSpec == IntakeInit /\ [][IntakeNext]_intakeVars
-----------------------------------------------------------------------------
(* Rows, copies and cycles keep their types; an order that has no row has  *)
(* no details and no gallery.                                              *)
IntakeTypeOK ==
  /\ TypeOK
  /\ foreign \subseteq Callers
  /\ row \in Row /\ (row.state = "none" => row = Nothing)
  /\ claimed \in BOOLEAN
  /\ assets \subseteq Callers \cup Sessions
  /\ letters \subseteq {"discover", "claim", "retry", "download", "detail"}
  /\ batch \in {"none", "pending", "expired", "failed", "completed"}
  /\ at \in [Callers -> Places]
  /\ copy \in [Sessions -> Row \cup {Idle}]
  /\ stale \subseteq Callers \cup Sessions /\ inserting \in Callers \cup {NoCaller}
  /\ edits \in 0 .. MaxEdits
  /\ held \in [Callers -> Galleries \cup {"none"}] /\ rolled \subseteq Callers

(* However often the import is run, dies and is run again, and whoever     *)
(* else fetches the file meanwhile, it never records a file for an order   *)
(* that has one ("must be idempotent", crawl.py:676-682): nothing but the  *)
(* version of the row stands between two of them, so a cycle whose session *)
(* was rolled back, and took the new version with it, is excepted.         *)
FileImportedOnce ==
  [][\A c \in Callers : c \in assets' \ assets => assets = {} \/ c \in rolled]_intakeVars

(* An import whose operation is completed is never run again, so by then   *)
(* the order has its details or a DeadLetter says why it has none          *)
(* ("needs an operator's explicit recovery action", crawl.py:630-633).     *)
SettledImportIsAnswered ==
  op.status = "completed" => row.detail \/ letters \cap {"download", "detail"} # {}

(* "Once a multi-image gallery is stored, a single-thumbnail fallback must *)
(* never erase it" (crawl.py:43): only who sends the gallery itself takes  *)
(* pictures away, and no copy of what Printerval's lists show, not even    *)
(* one that was read before the pictures were stored.                      *)
GalleryGiven ==
  \/ ImportGallery \/ EditGallery
  \/ \E s \in Sessions \cap {"scrape"} : SessionCommits(s)
RichGalleryStays ==
  [][row.gallery = "rich" /\ row'.gallery # "rich" => GalleryGiven]_intakeVars
=============================================================================
