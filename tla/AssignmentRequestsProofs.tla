----------------------- MODULE AssignmentRequestsProofs -----------------------
(***************************************************************************)
(* The requests of an order, for any number of them, of retries and of     *)
(* faults.  What is reported rests on the one write that is under way: it  *)
(* ends "ok" for the status only when Printerval showed the status asked   *)
(* for, and until somebody else writes that stays what Printerval has.     *)
(***************************************************************************)
EXTENDS AssignmentRequests, TLAPS

CallSteps == {"find", "send", "verify", "open", "save", "check", "ok", "failed"}
Call == [step : CallSteps, try : Int, http : BOOLEAN, seen : {"nothing", "target", "no row"}]
Row == [life : {"none", "pending", "succeeded", "failed"}, target : Statuses, queued : BOOLEAN,
        pc : {"none", "designer", "status", "record", "alert"},
        got : BOOLEAN, set : BOOLEAN, watched : BOOLEAN, told : BOOLEAN]
Designers == {"none", Mine, Other}

RequestTypeOK ==
    /\ request \in [Requests -> Row] /\ worker \in 0 .. Pair
    /\ call \in Call /\ remote \in [designer : Designers, status : Statuses]
    /\ held \in [Syncs -> Statuses \cup {"unread"}] /\ touched \in BOOLEAN
    /\ mirror \in Statuses \cup {"cancelled"} /\ paired \in {"no", "designer", "status"}
    /\ faults \in Int

\* The worker runs one request, which left the queue when it began; one that succeeded is over.
OneRuns ==
    \A r \in Requests :
        /\ request[r].pc # "none" => worker = r /\ ~request[r].queued
        /\ request[r].life \in {"none", "succeeded"} => request[r].pc = "none" /\ ~request[r].queued
        /\ worker = r => request[r].pc # "none"

\* A write of the status that ended well has read back the status asked for, and so has what follows it.
StatusWasRead ==
    /\ call.step = "ok" /\ Writing /\ Field = "status" => call.seen = "target"
    /\ \A r \in Requests : request[r].pc = "record" => request[r].set

\* Around the requests nobody writes: Printerval has the status that was read back. What the task of a
\* plain assignment writes is not mirrored.
StatusStands ==
    /\ worker = Pair => touched
    /\ ~touched => \A r \in Requests :
        \/ request[r].pc = "status" /\ call.step = "ok"
        \/ request[r].pc = "record"
        => remote.status = request[r].target

ReportInv ==
    /\ RequestTypeOK /\ OneRuns /\ StatusWasRead /\ StatusStands
    /\ OutcomeIsHonest /\ FailureIsAnnounced /\ MirrorIsTrue

-----------------------------------------------------------------------------
(* A write that starts, goes on or fails rests on nothing yet.             *)
LEMMA StartOK ==
  ASSUME NEW http \in BOOLEAN, NEW try \in Int
  PROVE  Start(http, try) \in Call /\ Start(http, try).step \in {"find", "open"}
  BY DEF Call, CallSteps, Start

LEMMA AtOK ==
  ASSUME NEW c \in Call, NEW step \in CallSteps
  PROVE  At(c, step) \in Call /\ At(c, step).step = step
  BY DEF Call, CallSteps, At

LEMMA SeenOK ==
  ASSUME NEW c \in Call, NEW what \in {"nothing", "target", "no row"}
  PROVE  Seen(c, what) \in Call /\ Seen(c, what).step = "ok" /\ Seen(c, what).seen = what
  BY DEF Call, CallSteps, Seen

(* What a search shows is what Printerval has, or not the target.          *)
LEMMA FoundRow ==
  ASSUME NEW now, NEW row \in FindOrder(now)
  PROVE  row \in {now, "no row", "raised"}
  BY DEF FindOrder, FetchRows

\* Where a step of a write may lead: to the old value or the target, and, for the status, to "ok" only
\* with the target read back.
Led(lead, field, now, target) ==
    /\ lead.call \in Call /\ lead.now \in {now, target}
    /\ lead.call.step = "ok" /\ field = "status" => lead.call.seen = "target" /\ lead.now = target

LEMMA FallbackOK ==
  ASSUME NEW c \in Call
  PROVE  Fallback(c) \in Call /\ Fallback(c).step = "open"
  BY AtOK DEF Fallback, CallSteps

LEMMA FailuresOK ==
  ASSUME NEW c \in Call, NEW d \in Failures(c)
  PROVE  d \in Call /\ d.step # "ok"
<1>1. c.try + 1 \in Int /\ c.http \in BOOLEAN
  <2>1. c.try \in Int /\ c.http \in BOOLEAN
    BY DEF Call
  <2> QED
    BY <2>1
<1>2. d = Start(c.http, c.try + 1) \/ d = At(c, "failed")
  BY DEF Failures, Ended
<1> QED
  BY <1>1, <1>2, StartOK, AtOK DEF CallSteps

LEMMA FindLeads ==
  ASSUME NEW c \in Call, NEW now, NEW target \in Designers \cup Statuses,
         NEW lead \in FindStatus(c, now, target)
  PROVE  lead.call \in Call /\ lead.now = now /\ (lead.call.step = "ok" => lead.call.seen = "target" /\ now = target)
<1>1. PICK row \in FindOrder(now) :
        lead = [call |-> CASE row \in {"no row", "raised"} -> Fallback(c)
                           [] row = target -> Seen(c, "target")
                           [] OTHER -> At(c, "send"), now |-> now]
  BY DEF FindStatus, Leads
<1>2. row \in {now, "no row", "raised"}
  BY FoundRow
<1>3. CASE row \in {"no row", "raised"}
  <2>1. row # target
    BY <1>3 DEF Designers, Statuses, Mine, Other
  <2>2. lead.call = Fallback(c) /\ lead.now = now
    BY <1>1, <1>3, <2>1
  <2> QED
    BY <2>2, FallbackOK
<1>4. CASE row \notin {"no row", "raised"} /\ row = target
  <2>1. lead.call = Seen(c, "target") /\ lead.now = now
    BY <1>1, <1>4
  <2> QED
    BY <1>2, <1>4, <2>1, SeenOK
<1>5. CASE row \notin {"no row", "raised"} /\ row # target
  <2>1. lead.call = At(c, "send") /\ lead.now = now
    BY <1>1, <1>5
  <2> QED
    BY <2>1, AtOK DEF CallSteps
<1> QED
  BY <1>3, <1>4, <1>5

(* Over HTTP: what a search does not show goes to the browser.             *)
LEMMA HttpLeads ==
  ASSUME NEW c \in Call, NEW field \in {"designer", "status"}, NEW now,
         NEW target \in Designers \cup Statuses, c.step \in HttpSteps,
         NEW lead \in HttpStep(c, field, now, target)
  PROVE  Led(lead, field, now, target)
<1>5. /\ {Fallback(c), At(c, "verify")} \subseteq Call
      /\ Fallback(c).step # "ok" /\ At(c, "verify").step # "ok"
  BY FallbackOK, AtOK DEF CallSteps
<1>6. Seen(c, "target") \in Call /\ Seen(c, "target").seen = "target" /\ Seen(c, "no row") \in Call
  BY SeenOK
<1>1. CASE c.step = "find"
  <2>1. \/ lead \in FindStatus(c, now, target)
        \/ lead \in Leads({Fallback(c) : option \in DesignerOptions \ {"offered"}}, now)
    BY <1>1 DEF HttpStep, FindDesigner
  <2>2. CASE lead \in FindStatus(c, now, target)
    BY <2>2, FindLeads DEF Led
  <2>3. CASE lead \in Leads({Fallback(c) : option \in DesignerOptions \ {"offered"}}, now)
    <3>1. lead = [call |-> Fallback(c), now |-> now]
      BY <2>3 DEF Leads
    <3> QED
      BY <1>5, <3>1 DEF Led
  <2> QED
    BY <2>1, <2>2, <2>3
<1>2. CASE c.step = "send"
  <2>1. lead \in Send(c, now, target)
    BY <1>2 DEF HttpStep
  <2>2. PICK answer \in WriteAnswers, value \in {now, target} :
          lead \in Leads({IF answer = "ok" THEN At(c, "verify") ELSE Fallback(c)}, value)
    BY <2>1 DEF Send
  <2>3. lead.now = value /\ lead.call \in {At(c, "verify"), Fallback(c)}
    BY <2>2 DEF Leads
  <2> QED
    BY <1>5, <2>3 DEF Led
<1>3. CASE c.step = "verify" /\ field = "status"
  <2>1. lead \in VerifyStatus(c, now, target)
    BY <1>3 DEF HttpStep
  <2>2. PICK row \in FindOrder(now) :
          lead = [call |-> IF row = target THEN Seen(c, "target") ELSE Fallback(c), now |-> now]
    BY <2>1 DEF VerifyStatus, Leads
  <2>3. row = target => now = target
    <3>1. row \in {now, "no row", "raised"}
      BY FoundRow
    <3> QED
      BY <3>1 DEF Designers, Statuses, Mine, Other
  <2>4. lead.now = now /\ lead.call = IF row = target THEN Seen(c, "target") ELSE Fallback(c)
    BY <2>2
  <2> QED
    BY <1>5, <1>6, <2>3, <2>4 DEF Led
<1>4. CASE c.step = "verify" /\ field = "designer"
  <2>1. lead \in VerifyDesigner(c, now, target)
    BY <1>4 DEF HttpStep
  <2>2. lead.now = now /\ lead.call \in {Fallback(c), Seen(c, "target"), Seen(c, "no row")}
    <3>1. PICK row \in FindOrder(now) :
            lead = [call |-> CASE row = "raised" -> Fallback(c)
                               [] row = target -> Seen(c, "target")
                               [] row \in {"no row", "none"} -> Seen(c, "no row")
                               [] OTHER -> Fallback(c), now |-> now]
      BY <2>1 DEF VerifyDesigner, Leads
    <3>2. CASE row = "raised"
      BY <3>1, <3>2 DEF Designers, Statuses, Mine, Other
    <3>3. CASE row # "raised" /\ row = target
      BY <3>1, <3>3
    <3>4. CASE row # "raised" /\ row # target /\ row \in {"no row", "none"}
      BY <3>1, <3>4
    <3>5. CASE row # "raised" /\ row # target /\ row \notin {"no row", "none"}
      BY <3>1, <3>5
    <3> QED
      BY <3>2, <3>3, <3>4, <3>5
  <2> QED
    BY <1>4, <1>5, <1>6, <2>2 DEF Led
<1> QED
  BY <1>1, <1>2, <1>3, <1>4 DEF HttpSteps

(* In the browser: only a check that shows the target is "ok".             *)
LEMMA BrowserLeads ==
  ASSUME NEW c \in Call, NEW field \in {"designer", "status"}, NEW now,
         NEW target \in Designers \cup Statuses, c.step \in BrowserSteps,
         NEW lead \in BrowserStep(c, now, target)
  PROVE  Led(lead, field, now, target)
<1>4. \A step \in {"failed", "save", "check"} : At(c, step) \in Call /\ At(c, step).step = step
  BY AtOK DEF CallSteps
<1>5. Seen(c, "target") \in Call /\ Seen(c, "target").seen = "target"
  BY SeenOK
<1>6. \A d \in Failures(c) : d \in Call /\ d.step # "ok"
  BY FailuresOK
<1>1. CASE c.step = "open"
  <2>1. lead \in Open(c, now, target)
    BY <1>1 DEF BrowserStep
  <2>2. lead.now = now /\ lead.call \in Failures(c) \cup {At(c, "check"), At(c, "save")}
    BY <2>1 DEF Open, Leads, SearchRow
  <2> QED
    BY <1>4, <1>5, <1>6, <2>2 DEF Led
<1>2. CASE c.step = "save"
  <2>1. lead \in Save(c, now, target)
    BY <1>2 DEF BrowserStep
  <2>2. lead.now \in {now, target} /\ lead.call \in Failures(c) \cup {At(c, "check")}
    BY <2>1 DEF Save, Leads
  <2> QED
    BY <1>4, <1>5, <1>6, <2>2 DEF Led
<1>3. CASE c.step = "check"
  <2>1. lead \in Check(c, now, target)
    BY <1>3 DEF BrowserStep
  <2>2. lead.now = now /\ (lead.call = At(c, "failed") \/ (now = target /\ lead.call = Seen(c, "target")))
    BY <2>1 DEF Check, Leads
  <2> QED
    BY <1>4, <1>5, <1>6, <2>2 DEF Led
<1> QED
  BY <1>1, <1>2, <1>3 DEF BrowserSteps

-----------------------------------------------------------------------------
(* A row that is written is a row, and no other changes.                   *)
LEMMA UpdateOK ==
  ASSUME RequestTypeOK, NEW r \in Requests, NEW row \in Row, Update(r, row)
  PROVE  /\ request' \in [Requests -> Row] /\ request'[r] = row
         /\ \A q \in Requests : q # r => request'[q] = request[q]
  BY DEF RequestTypeOK, Update

(* How a request ends: well, with all it observed, or failed, to be told.  *)
LEMMA EndsOK ==
  ASSUME NEW row \in Row, NEW life \in {"succeeded", "failed"}, NEW end, end = Ends(row, life)
  PROVE  /\ end \in Row /\ end.life = life /\ end.queued = row.queued
         /\ life = "succeeded" => end.pc = "none" /\ end.got = row.got /\ end.set = row.set
         /\ life = "failed" => end.pc = "alert"
<1>1. CASE life = "succeeded"
  BY <1>1 DEF Ends, Row
<1>2. CASE life = "failed"
  BY <1>2 DEF Ends, Row
<1> QED
  BY <1>1, <1>2

LEMMA Numbers == Pair \notin Requests /\ Pair # 0 /\ 0 \notin Requests /\ Requests \subseteq 0 .. Pair /\ 0 .. Pair = {0, Pair} \cup Requests
  BY RequestConstants DEF Pair, Requests

LEMMA InitOK == Init => ReportInv
<1> SUFFICES ASSUME Init PROVE ReportInv
  OBVIOUS
<1>1. Start(TRUE, 1) \in Call
  BY DEF Start, Call, CallSteps
<1>2. NoCall \in Call /\ NoCall.step = "failed"
  BY <1>1 DEF NoCall, Call, CallSteps
<1>3. NoRequest \in Row /\ NoRequest.life = "none" /\ NoRequest.pc = "none" /\ ~NoRequest.queued
  BY DEF NoRequest, Row, Statuses
<1>4. RequestTypeOK
  <2>1. 0 \in 0 .. Pair
    BY Numbers
  <2>2. [designer |-> "none", status |-> "waiting"] \in [designer : Designers, status : Statuses]
    BY DEF Designers, Statuses
  <2>3. request \in [Requests -> Row] /\ worker \in 0 .. Pair /\ call \in Call
    BY <1>2, <1>3, <2>1 DEF Init
  <2>4. remote \in [designer : Designers, status : Statuses] /\ mirror \in Statuses
    BY <2>2 DEF Init, Statuses
  <2>5. touched \in BOOLEAN /\ paired = "no" /\ faults = 0 /\ held \in [Syncs -> Statuses \cup {"unread"}]
    BY DEF Init
  <2> QED
    BY <2>3, <2>4, <2>5 DEF RequestTypeOK
<1>5. OneRuns /\ StatusWasRead /\ StatusStands
  BY <1>2, <1>3, Numbers DEF Init, OneRuns, StatusWasRead, StatusStands
<1> QED
  BY <1>3, <1>4, <1>5 DEF Init, ReportInv, OutcomeIsHonest, FailureIsAnnounced, MirrorIsTrue

LEMMA NoCallOK == NoCall \in Call /\ NoCall.step = "failed"
<1>1. Start(TRUE, 1) \in Call
  BY DEF Start, Call, CallSteps
<1> QED
  BY <1>1 DEF NoCall, Call, CallSteps

(* A step on one row that lets nobody write: it keeps what the row tells,  *)
(* and what is reported of it stays told.                                  *)
LEMMA RowStep ==
  ASSUME ReportInv, NEW r \in Requests, NEW row \in Row, Update(r, row),
         worker' \in 0 .. Pair, call' \in Call, faults' \in Int, UNCHANGED <<Site, mirror, paired>>,
         worker \in {0, r}, worker' \in {0, r}, row.pc # "none" <=> worker' = r,
         row.pc # "none" => ~row.queued,
         row.life \in {"none", "succeeded"} => row.pc = "none" /\ ~row.queued,
         row.life = "succeeded" => request[r].life = "succeeded" /\ row.set /\ (r \in Asking => row.got),
         row.life = "none" => request[r].life = "none",
         row.life = "failed" => row.told \/ row.pc = "alert" \/ row.watched,
         call'.step # "ok" \/ row.pc # "status",
         row.pc = "record" => row.set /\ (~touched => remote.status = row.target)
  PROVE  ReportInv'
<1>1. /\ request' \in [Requests -> Row] /\ request'[r] = row
      /\ \A q \in Requests : q # r => request'[q] = request[q]
  BY UpdateOK DEF ReportInv
<1>2. RequestTypeOK'
  BY <1>1 DEF ReportInv, RequestTypeOK, Site
<1>3. OneRuns'
  BY <1>1, Numbers DEF ReportInv, OneRuns
<1>4. StatusWasRead' /\ StatusStands'
  BY <1>1, Numbers DEF ReportInv, OneRuns, StatusWasRead, StatusStands, Site, Writing, Field
<1>5. OutcomeIsHonest' /\ FailureIsAnnounced'
  BY <1>1 DEF ReportInv, OutcomeIsHonest, FailureIsAnnounced
<1>6. MirrorIsTrue'
  BY <1>1 DEF ReportInv, MirrorIsTrue, Site
<1> QED
  BY <1>2, <1>3, <1>4, <1>5, <1>6 DEF ReportInv

(* A new request is pending, and nobody runs it.                           *)
LEMMA CreateStep ==
  ASSUME ReportInv, NEW r \in Requests, NEW t \in Statuses, CreateRequest(r, t)
  PROVE  ReportInv'
<1>1. PICK queued \in BOOLEAN :
        /\ Update(r, [NoRequest EXCEPT !.life = "pending", !.target = t, !.queued = queued])
        /\ IF queued THEN Quiet ELSE Fault
  BY DEF CreateRequest
<1> DEFINE row == [NoRequest EXCEPT !.life = "pending", !.target = t, !.queued = queued]
<1>2. row \in Row /\ row.life = "pending" /\ row.pc = "none"
  BY DEF NoRequest, Row, Statuses
<1> HIDE DEF row
<1>3. /\ request' \in [Requests -> Row] /\ request'[r] = row
      /\ \A q \in Requests : q # r => request'[q] = request[q]
  BY <1>1, <1>2, UpdateOK DEF ReportInv, row
<1>4. UNCHANGED <<worker, call, remote, held, touched, mirror, paired>> /\ faults' \in Int /\ request[r].life = "none"
  BY <1>1 DEF CreateRequest, Order, Site, Quiet, Fault, ReportInv, RequestTypeOK
<1>5. RequestTypeOK'
  BY <1>3, <1>4 DEF ReportInv, RequestTypeOK
<1>6. OneRuns'
  BY <1>2, <1>3, <1>4 DEF ReportInv, OneRuns
<1>7. StatusWasRead' /\ StatusStands'
  BY <1>2, <1>3, <1>4, Numbers DEF ReportInv, RequestTypeOK, OneRuns, StatusWasRead, StatusStands, Writing, Field
<1>8. OutcomeIsHonest' /\ FailureIsAnnounced' /\ MirrorIsTrue'
  BY <1>2, <1>3, <1>4 DEF ReportInv, OutcomeIsHonest, FailureIsAnnounced, MirrorIsTrue
<1> QED
  BY <1>5, <1>6, <1>7, <1>8 DEF ReportInv

(* The task of a request, up to its record.                                *)
LEMMA StartStep ==
  ASSUME ReportInv, NEW r \in Requests, StartRequest(r)
  PROVE  ReportInv'
<1>1. /\ request[r] \in Row /\ request[r].queued /\ worker = 0 /\ worker' = r /\ worker' \in 0 .. Pair
      /\ UNCHANGED <<Site, mirror, paired, faults>>
  BY Numbers DEF StartRequest, ReportInv, RequestTypeOK, Quiet
<1>2. /\ request[r].pc = "none" /\ request[r].life \notin {"none", "succeeded"}
      /\ request[r].life = "failed" => request[r].told \/ request[r].watched
  BY <1>1, Numbers DEF ReportInv, OneRuns, FailureIsAnnounced
<1>3. CASE /\ Update(r, [request[r] EXCEPT !.queued = FALSE, !.pc = IF r \in Asking THEN "designer" ELSE "status"])
           /\ call' = Start(TRUE, 1)
  <2> DEFINE row == [request[r] EXCEPT !.queued = FALSE, !.pc = IF r \in Asking THEN "designer" ELSE "status"]
  <2>1. /\ row \in Row /\ ~row.queued /\ row.pc \in {"designer", "status"} /\ row.life = request[r].life
        /\ row.told = request[r].told /\ row.watched = request[r].watched
    BY <1>1 DEF Row
  <2>2. call' \in Call /\ call'.step # "ok"
    BY <1>3 DEF Start, Call, CallSteps
  <2>3. Update(r, row)
    BY <1>3
  <2> HIDE DEF row
  <2> QED
    BY <1>1, <1>2, <2>1, <2>2, <2>3, RowStep DEF ReportInv, RequestTypeOK
<1>4. CASE Update(r, [Ends(request[r], "failed") EXCEPT !.queued = FALSE]) /\ UNCHANGED call
  <2> DEFINE end == Ends(request[r], "failed")
             row == [end EXCEPT !.queued = FALSE]
  <2>1. end \in Row /\ end.life = "failed" /\ end.pc = "alert"
    BY <1>1, EndsOK
  <2>2. row \in Row /\ ~row.queued /\ row.life = "failed" /\ row.pc = "alert"
    BY <2>1 DEF Row
  <2>3. Update(r, row)
    BY <1>4
  <2> HIDE DEF row
  <2>4. /\ request' \in [Requests -> Row] /\ request'[r] = row
        /\ \A q \in Requests : q # r => request'[q] = request[q]
    BY <2>2, <2>3, UpdateOK DEF ReportInv
  <2>5. RequestTypeOK'
    BY <1>1, <1>4, <2>4 DEF ReportInv, RequestTypeOK, Site
  <2>6. OneRuns'
    BY <1>1, <2>2, <2>4, Numbers DEF ReportInv, OneRuns
  <2>7. StatusWasRead' /\ StatusStands'
    BY <1>1, <1>4, <2>2, <2>4, Numbers DEF ReportInv, OneRuns, StatusWasRead, StatusStands, Site, Writing, Field
  <2>8. OutcomeIsHonest' /\ FailureIsAnnounced' /\ MirrorIsTrue'
    BY <1>1, <2>2, <2>4 DEF ReportInv, OutcomeIsHonest, FailureIsAnnounced, MirrorIsTrue, Site
  <2> QED
    BY <2>5, <2>6, <2>7, <2>8 DEF ReportInv
<1> QED
  BY <1>3, <1>4 DEF StartRequest

(* The request that runs is the one whose row says so.                     *)
LEMMA Running ==
  ASSUME ReportInv, NEW r \in Requests, worker = r
  PROVE  /\ request[r] \in Row /\ worker # Pair /\ worker # 0
         /\ Field = request[r].pc /\ (Field = "status" => Target = request[r].target)
         /\ request[r].pc # "none" /\ ~request[r].queued /\ request[r].life \in {"pending", "failed"}
  BY Numbers DEF ReportInv, RequestTypeOK, OneRuns, Field, Target, Row

LEMMA DesignerStep ==
  ASSUME ReportInv, NEW r \in Requests, DesignerIsSet(r)
  PROVE  ReportInv'
<1>1. /\ request[r] \in Row /\ worker = r /\ worker' = r /\ worker' \in 0 .. Pair /\ request[r].pc = "designer"
      /\ UNCHANGED <<Site, mirror, paired, faults>> /\ ~request[r].queued /\ request[r].life \in {"pending", "failed"}
      /\ request[r].life = "failed" => request[r].told \/ request[r].watched
  BY Running, Numbers DEF DesignerIsSet, ReportInv, RequestTypeOK, Quiet, FailureIsAnnounced
<1>2. CASE /\ Update(r, [request[r] EXCEPT !.pc = "status", !.got = call.seen # "nothing"])
           /\ call' = Start(TRUE, 1)
  <2> DEFINE row == [request[r] EXCEPT !.pc = "status", !.got = call.seen # "nothing"]
  <2>1. /\ row \in Row /\ row.queued = request[r].queued /\ row.pc = "status" /\ row.life = request[r].life
        /\ row.told = request[r].told /\ row.watched = request[r].watched
    BY <1>1 DEF Row
  <2>2. call' \in Call /\ call'.step # "ok"
    BY <1>2 DEF Start, Call, CallSteps
  <2>3. Update(r, row)
    BY <1>2
  <2> HIDE DEF row
  <2> QED
    BY <1>1, <2>1, <2>2, <2>3, RowStep DEF ReportInv, RequestTypeOK
<1>3. CASE Update(r, Ends(request[r], "failed")) /\ call' = NoCall
  <2> DEFINE row == Ends(request[r], "failed")
  <2>1. row \in Row /\ row.queued = request[r].queued /\ row.pc = "alert" /\ row.life = "failed"
    BY <1>1, EndsOK
  <2>2. call' \in Call /\ call'.step # "ok"
    BY <1>3, NoCallOK
  <2>3. Update(r, row)
    BY <1>3
  <2> HIDE DEF row
  <2> QED
    BY <1>1, <2>1, <2>2, <2>3, RowStep DEF ReportInv, RequestTypeOK
<1> QED
  BY <1>2, <1>3 DEF DesignerIsSet

LEMMA StatusStep ==
  ASSUME ReportInv, NEW r \in Requests, StatusIsSet(r)
  PROVE  ReportInv'
<1>1. /\ request[r] \in Row /\ worker = r /\ worker' = r /\ worker' \in 0 .. Pair /\ request[r].pc = "status"
      /\ UNCHANGED <<Site, mirror, paired, faults>> /\ ~request[r].queued /\ request[r].life \in {"pending", "failed"}
      /\ request[r].life = "failed" => request[r].told \/ request[r].watched
  BY Running, Numbers DEF StatusIsSet, ReportInv, RequestTypeOK, Quiet, FailureIsAnnounced
<1>2. call' \in Call /\ call'.step # "ok"
  BY NoCallOK DEF StatusIsSet
<1>3. CASE call.step = "ok"
  <2> DEFINE row == [request[r] EXCEPT !.pc = "record", !.set = call.seen = "target"]
  <2>1. Writing /\ Field = "status"
    BY <1>1, Running DEF Writing
  <2>2. call.seen = "target" /\ (~touched => remote.status = request[r].target)
    BY <1>1, <1>3, <2>1 DEF ReportInv, StatusWasRead, StatusStands
  <2>3. /\ row \in Row /\ row.queued = request[r].queued /\ row.pc = "record" /\ row.life = request[r].life
        /\ row.told = request[r].told /\ row.watched = request[r].watched
        /\ row.set = (call.seen = "target") /\ row.target = request[r].target
    BY <1>1 DEF Row
  <2>4. Update(r, row)
    BY <1>3 DEF StatusIsSet
  <2> HIDE DEF row
  <2> QED
    BY <1>1, <1>2, <2>2, <2>3, <2>4, RowStep DEF ReportInv, RequestTypeOK
<1>4. CASE call.step # "ok"
  <2> DEFINE row == Ends(request[r], "failed")
  <2>1. row \in Row /\ row.queued = request[r].queued /\ row.pc = "alert" /\ row.life = "failed"
    BY <1>1, EndsOK
  <2>2. Update(r, row)
    BY <1>4 DEF StatusIsSet
  <2> HIDE DEF row
  <2> QED
    BY <1>1, <1>2, <2>1, <2>2, RowStep DEF ReportInv, RequestTypeOK
<1> QED
  BY <1>3, <1>4

(* The commit that ends a request mirrors what was read back for it.       *)
LEMMA RecordStep ==
  ASSUME ReportInv, NEW r \in Requests, RecordRequest(r)
  PROVE  ReportInv'
<1> DEFINE row == Ends(request[r], Outcome(r))
<1>1. /\ request[r] \in Row /\ worker = r /\ request[r].pc = "record" /\ ~request[r].queued
      /\ UNCHANGED <<remote, held, touched, call, paired, faults>>
  BY Running DEF RecordRequest, ReportInv, Quiet, Site
<1>2. mirror' = request[r].target /\ mirror' \in Statuses
  BY <1>1 DEF RecordRequest, Mirrored, Row
<1>3. request[r].set /\ (~touched => remote.status = request[r].target)
  BY <1>1 DEF ReportInv, StatusWasRead, StatusStands
<1>4. /\ row \in Row /\ row.life = Outcome(r) /\ ~row.queued
      /\ Outcome(r) = "succeeded" => row.pc = "none" /\ row.got = request[r].got /\ row.set = request[r].set
      /\ Outcome(r) = "failed" => row.pc = "alert"
  <2>1. Outcome(r) \in {"succeeded", "failed"}
    BY DEF Outcome
  <2> QED
    BY <1>1, <2>1, EndsOK
<1>5. Update(r, row) /\ worker' = Freed(row)
  BY DEF RecordRequest
<1> HIDE DEF row
<1>6. worker' \in {0, r} /\ (row.pc # "none" <=> worker' = r) /\ worker' \in 0 .. Pair
  BY <1>1, <1>5, Numbers DEF Freed
<1>7. /\ request' \in [Requests -> Row] /\ request'[r] = row
      /\ \A q \in Requests : q # r => request'[q] = request[q]
  BY <1>4, <1>5, UpdateOK DEF ReportInv
<1>8. RequestTypeOK'
  BY <1>1, <1>2, <1>6, <1>7 DEF ReportInv, RequestTypeOK
<1>9. Outcome(r) = "succeeded" \/ (Outcome(r) = "failed" /\ r \in Asking)
  BY DEF Outcome
<1>10. OneRuns'
  BY <1>1, <1>4, <1>6, <1>7, <1>9, Numbers DEF ReportInv, OneRuns
<1>11. StatusWasRead' /\ StatusStands'
  BY <1>1, <1>4, <1>6, <1>7, <1>9, Numbers DEF ReportInv, OneRuns, StatusWasRead, StatusStands, Writing, Field
<1>12. OutcomeIsHonest' /\ FailureIsAnnounced'
  BY <1>1, <1>3, <1>4, <1>7, <1>9 DEF ReportInv, OutcomeIsHonest, FailureIsAnnounced, Outcome
<1>13. MirrorIsTrue'
  BY <1>1, <1>2, <1>3, <1>7 DEF MirrorIsTrue
<1> QED
  BY <1>8, <1>10, <1>11, <1>12, <1>13 DEF ReportInv

(* A task that raises, tells or dies.                                      *)
LEMMA RaiseStep ==
  ASSUME ReportInv, NEW r \in Requests, RequestRaises(r)
  PROVE  ReportInv'
<1>1. /\ request[r] \in Row /\ worker = r /\ ~request[r].queued
      /\ UNCHANGED <<Site, mirror, paired, faults>>
  BY Running DEF RequestRaises, ReportInv, Quiet
<1>2. call' \in Call /\ call'.step # "ok"
  BY NoCallOK DEF RequestRaises
<1> DEFINE row == Ends(request[r], "failed")
<1>3. row \in Row /\ row.queued = request[r].queued /\ row.pc = "alert" /\ row.life = "failed"
  BY <1>1, EndsOK
<1>4. Update(r, row) /\ worker' = Freed(row)
  BY DEF RequestRaises, Raised
<1> HIDE DEF row
<1>5. worker' = r /\ worker' \in 0 .. Pair
  BY <1>1, <1>3, <1>4, Numbers DEF Freed
<1> QED
  BY <1>1, <1>2, <1>3, <1>4, <1>5, RowStep DEF ReportInv, RequestTypeOK

LEMMA AlertStep ==
  ASSUME ReportInv, NEW r \in Requests, AlertAdmins(r)
  PROVE  ReportInv'
<1>1. /\ request[r] \in Row /\ worker = r /\ worker' = 0 /\ worker' \in 0 .. Pair /\ ~request[r].queued
      /\ request[r].life \in {"pending", "failed"} /\ UNCHANGED <<call, remote, held, touched, mirror, paired, faults>>
  BY Running, Numbers DEF AlertAdmins, ReportInv, Quiet, Order, Site
<1> DEFINE row == [request[r] EXCEPT !.pc = "none", !.told = TRUE]
<1>2. /\ row \in Row /\ row.queued = request[r].queued /\ row.pc = "none" /\ row.life = request[r].life /\ row.told
  BY <1>1 DEF Row
<1>3. Update(r, row)
  BY DEF AlertAdmins
<1> HIDE DEF row
<1> QED
  BY <1>1, <1>2, <1>3, Numbers, RowStep DEF ReportInv, RequestTypeOK, Site

LEMMA DieStep ==
  ASSUME ReportInv, WorkerDies
  PROVE  ReportInv'
<1>1. /\ worker # 0 /\ worker' = 0 /\ worker' \in 0 .. Pair /\ call' = NoCall /\ faults' \in Int
      /\ UNCHANGED <<remote, held, touched, mirror>>
  BY Numbers DEF WorkerDies, Site, Fault, ReportInv, RequestTypeOK
<1>2. call' \in Call /\ call'.step = "failed"
  BY <1>1, NoCallOK
<1>3. CASE worker = Pair
  <2>1. paired' = "no" /\ UNCHANGED request
    BY <1>3 DEF WorkerDies
  <2>2. \A r \in Requests : request[r].pc = "none"
    BY <1>3, Numbers DEF ReportInv, OneRuns
  <2>3. RequestTypeOK'
    BY <1>1, <1>2, <2>1 DEF ReportInv, RequestTypeOK
  <2>4. OneRuns'
    BY <1>1, <2>1, <2>2, Numbers DEF ReportInv, OneRuns
  <2>5. StatusWasRead' /\ StatusStands'
    BY <1>1, <1>2, <2>1, <2>2, Numbers DEF ReportInv, StatusWasRead, StatusStands
  <2>6. OutcomeIsHonest' /\ FailureIsAnnounced' /\ MirrorIsTrue'
    BY <1>1, <2>1 DEF ReportInv, OutcomeIsHonest, FailureIsAnnounced, MirrorIsTrue
  <2> QED
    BY <2>3, <2>4, <2>5, <2>6 DEF ReportInv
<1>4. CASE worker # Pair
  <2>1. worker \in Requests
    BY <1>1, <1>4, Numbers DEF ReportInv, RequestTypeOK
  <2> DEFINE r == worker
             row == Died(request[r])
  <2>2. /\ request[r] \in Row /\ request[r].pc # "none" /\ ~request[r].queued /\ request[r].life \in {"pending", "failed"}
    BY <2>1, Running
  <2>3. /\ row \in Row /\ row.queued = request[r].queued /\ row.pc = "none" /\ row.life = request[r].life
        /\ row.told = (request[r].told \/ request[r].pc = "alert") /\ row.watched = request[r].watched
    BY <2>2 DEF Died, Row
  <2>4. Update(r, row) /\ UNCHANGED paired
    BY <1>4 DEF WorkerDies
  <2> HIDE DEF row
  <2>5. row.life = "failed" => row.told \/ row.pc = "alert" \/ row.watched
    BY <2>1, <2>3 DEF ReportInv, FailureIsAnnounced
  <2> QED
    BY <1>1, <1>2, <2>1, <2>2, <2>3, <2>4, <2>5, Numbers, RowStep DEF ReportInv, RequestTypeOK, Site
<1> QED
  BY <1>3, <1>4

-----------------------------------------------------------------------------
(* A step of a write moves the call, and the one field it is about.        *)
LEMMA WriteStep ==
  ASSUME ReportInv, WriteOverHttp \/ WriteInBrowser
  PROVE  ReportInv'
<1>1. /\ Writing /\ Field \in {"designer", "status"} /\ call \in Call
      /\ UNCHANGED <<request, worker, held, touched, mirror, paired, faults>>
  BY DEF WriteOverHttp, WriteInBrowser, Writing, Quiet, ReportInv, RequestTypeOK
<1>2. /\ Target \in Designers \cup Statuses
      /\ Field = "designer" => Target \in Designers
      /\ Field = "status" => Target \in Statuses
  <2>1. worker = Pair \/ worker \in Requests
    BY <1>1, Numbers DEF Writing, ReportInv, RequestTypeOK
  <2>2. worker \in Requests => request[worker].target \in Statuses
    BY DEF ReportInv, RequestTypeOK, Row
  <2> QED
    BY <1>1, <2>1, <2>2 DEF Target, Designers, Statuses
<1>3. PICK lead : /\ call' = lead.call /\ remote' = [remote EXCEPT ![Field] = lead.now]
                  /\ Led(lead, Field, remote[Field], Target)
  <2>1. CASE WriteOverHttp
    BY <1>1, <1>2, <2>1, HttpLeads DEF WriteOverHttp, Took
  <2>2. CASE WriteInBrowser
    BY <1>1, <1>2, <2>2, BrowserLeads DEF WriteInBrowser, Took
  <2> QED
    BY <2>1, <2>2
<1>4. /\ remote' \in [designer : Designers, status : Statuses]
      /\ Field = "designer" => remote'.status = remote.status
      /\ Field = "status" => remote'.status = lead.now
  <2>1. remote \in [designer : Designers, status : Statuses]
    BY DEF ReportInv, RequestTypeOK
  <2>2. CASE Field = "designer"
    BY <1>2, <1>3, <2>1, <2>2 DEF Led
  <2>3. CASE Field = "status"
    BY <1>2, <1>3, <2>1, <2>3 DEF Led
  <2> QED
    BY <1>1, <2>2, <2>3
<1>5. call' \in Call /\ (call'.step = "ok" /\ Field = "status" => call'.seen = "target" /\ lead.now = Target)
  BY <1>3 DEF Led
<1>6. RequestTypeOK' /\ OneRuns' /\ OutcomeIsHonest' /\ FailureIsAnnounced'
  BY <1>1, <1>4, <1>5 DEF ReportInv, RequestTypeOK, OneRuns, OutcomeIsHonest, FailureIsAnnounced
<1>7. StatusWasRead'
  BY <1>1, <1>5 DEF ReportInv, StatusWasRead, Field, Writing
<1>8. CASE worker = Pair
  <2>1. touched /\ touched'
    BY <1>1, <1>8 DEF ReportInv, StatusStands
  <2> QED
    BY <1>6, <1>7, <2>1 DEF ReportInv, StatusStands, MirrorIsTrue
<1>9. CASE worker # Pair
  <2>1. worker \in Requests
    BY <1>1, <1>9, Numbers DEF Writing, ReportInv, RequestTypeOK
  <2>2. /\ Field = request[worker].pc /\ (Field = "status" => Target = request[worker].target)
        /\ request[worker].life \in {"pending", "failed"}
    BY <2>1, Running
  <2>3. \A q \in Requests : q # worker => request[q].pc = "none"
    BY DEF ReportInv, OneRuns
  <2>4. StatusStands'
    BY <1>1, <1>4, <1>5, <1>9, <2>1, <2>2, <2>3 DEF StatusStands
  <2>5. MirrorIsTrue'
    BY <1>1, <2>1, <2>2 DEF MirrorIsTrue
  <2> QED
    BY <1>6, <1>7, <2>4, <2>5 DEF ReportInv
<1> QED
  BY <1>8, <1>9

(* The plain assignment runs while no request does, and its writes are not *)
(* mirrored.                                                               *)
LEMMA PairStep ==
  ASSUME ReportInv, StartPair \/ PairGoesOn
  PROVE  ReportInv'
<1>1. /\ worker \in {0, Pair} /\ worker' \in {0, Pair} /\ worker' \in 0 .. Pair
      /\ paired' \in {"no", "designer", "status"} /\ touched' = TRUE
      /\ UNCHANGED <<request, remote, held, mirror, faults>>
  BY Numbers DEF StartPair, PairGoesOn, Quiet, Site, ReportInv, StatusStands
<1>2. call' \in Call /\ call'.step # "ok"
  <2>1. call' \in {Start(FALSE, 1), NoCall}
    BY DEF StartPair, PairGoesOn
  <2>2. Start(FALSE, 1) \in Call /\ Start(FALSE, 1).step # "ok"
    BY DEF Start, Call, CallSteps
  <2> QED
    BY <2>1, <2>2, NoCallOK
<1>3. RequestTypeOK'
  BY <1>1, <1>2 DEF ReportInv, RequestTypeOK
<1>4. OneRuns'
  BY <1>1, Numbers DEF ReportInv, OneRuns
<1>5. StatusWasRead' /\ StatusStands'
  BY <1>1, <1>2 DEF ReportInv, StatusWasRead, StatusStands
<1>6. OutcomeIsHonest' /\ FailureIsAnnounced' /\ MirrorIsTrue'
  BY <1>1 DEF ReportInv, OutcomeIsHonest, FailureIsAnnounced, MirrorIsTrue
<1> QED
  BY <1>3, <1>4, <1>5, <1>6 DEF ReportInv

(* What others write on one side, and what a sync applies, ends no request *)
(* and no write; the mirror goes wrong only where that is remembered.      *)
LEMMA AroundStep ==
  ASSUME ReportInv, UNCHANGED <<request, worker, call, paired>>, faults' \in Int,
         remote' \in [designer : Designers, status : Statuses],
         held' \in [Syncs -> Statuses \cup {"unread"}], touched' \in BOOLEAN,
         mirror' \in Statuses \cup {"cancelled"},
         worker # 0 /\ touched => touched',
         ~touched' => remote'.status = remote.status /\ (mirror' = remote.status \/ (~touched /\ mirror' = mirror))
  PROVE  ReportInv'
<1>1. RequestTypeOK' /\ OneRuns' /\ OutcomeIsHonest' /\ FailureIsAnnounced'
  BY DEF ReportInv, RequestTypeOK, OneRuns, OutcomeIsHonest, FailureIsAnnounced
<1>2. StatusWasRead'
  BY DEF ReportInv, StatusWasRead, Field, Writing
<1>3. worker' = Pair => touched'
  BY Numbers DEF ReportInv, StatusStands
<1>4. ASSUME ~touched', NEW r \in Requests,
             (request'[r].pc = "status" /\ call'.step = "ok") \/ request'[r].pc = "record"
      PROVE  remote'.status = request'[r].target
  <2>1. worker = r /\ worker # 0
    BY <1>4, Numbers DEF ReportInv, OneRuns
  <2> QED
    BY <1>4, <2>1 DEF ReportInv, StatusStands
<1>5. StatusStands'
  BY <1>3, <1>4 DEF StatusStands
<1>6. MirrorIsTrue'
  BY DEF ReportInv, MirrorIsTrue
<1> QED
  BY <1>1, <1>2, <1>5, <1>6 DEF ReportInv

LEMMA OthersStep ==
  ASSUME ReportInv, OthersWrite \/ FormWrites \/ SyncMisses
  PROVE  ReportInv'
<1>1. /\ remote \in [designer : Designers, status : Statuses] /\ faults \in Int /\ touched \in BOOLEAN
      /\ mirror \in Statuses \cup {"cancelled"} /\ held \in [Syncs -> Statuses \cup {"unread"}]
  BY DEF ReportInv, RequestTypeOK
<1>2. UNCHANGED <<request, worker, call, held, paired>> /\ faults' \in Int
  BY <1>1 DEF OthersWrite, FormWrites, SyncMisses, Fault
<1>3. CASE OthersWrite
  <2>1. /\ remote' \in [designer : Designers, status : Statuses] /\ mirror' = mirror
        /\ touched' = (touched \/ remote'.status # remote.status)
    BY <1>3 DEF OthersWrite, Designers
  <2> QED
    BY <1>1, <1>2, <2>1, AroundStep
<1>4. CASE FormWrites \/ SyncMisses
  <2>1. remote' = remote /\ mirror' \in Statuses \cup {"cancelled"} /\ touched' = TRUE
    BY <1>4 DEF FormWrites, SyncMisses
  <2> QED
    BY <1>1, <1>2, <2>1, AroundStep
<1> QED
  BY <1>3, <1>4

(* A sync that applies its row makes the mirror true, or remembers that    *)
(* the row had been overtaken.                                             *)
LEMMA SyncStep ==
  ASSUME ReportInv, NEW s \in Syncs, SyncReads(s) \/ SyncApplies(s)
  PROVE  ReportInv'
<1>1. /\ remote \in [designer : Designers, status : Statuses] /\ remote.status \in Statuses
      /\ held \in [Syncs -> Statuses \cup {"unread"}] /\ held[s] \in Statuses \cup {"unread"}
      /\ touched \in BOOLEAN /\ mirror \in Statuses \cup {"cancelled"} /\ faults \in Int
  BY DEF ReportInv, RequestTypeOK
<1>2. CASE SyncReads(s)
  <2>1. held' \in [Syncs -> Statuses \cup {"unread"}]
    BY <1>1, <1>2 DEF SyncReads
  <2>2. UNCHANGED <<request, worker, call, remote, touched, mirror, paired, faults>>
    BY <1>2 DEF SyncReads, Quiet
  <2> QED
    BY <1>1, <2>1, <2>2, AroundStep
<1>3. CASE SyncApplies(s)
  <2>1. held' \in [Syncs -> Statuses \cup {"unread"}]
    BY <1>1, <1>3 DEF SyncApplies
  <2>2. /\ UNCHANGED <<request, worker, call, remote, paired, faults>> /\ mirror' = held[s]
        /\ held[s] # "unread"
    BY <1>3 DEF SyncApplies, Quiet
  <2>3. /\ touched' \in BOOLEAN /\ (worker # 0 /\ touched => touched')
        /\ ~touched' => held[s] = remote.status
    BY <1>1, <1>3 DEF SyncApplies
  <2> QED
    BY <1>1, <2>1, <2>2, <2>3, AroundStep
<1> QED
  BY <1>2, <1>3

(* What the watchdog changes of a row: a pending one is failed, and a      *)
(* failed one is told or about to be.                                      *)
Watched(old, new) ==
    /\ new \in Row
    /\ new.target = old.target /\ new.queued = old.queued /\ new.pc = old.pc /\ new.got = old.got /\ new.set = old.set
    /\ new.life = old.life \/ (old.life = "pending" /\ new.life = "failed")
    /\ new.life = "failed" => new.told \/ new.pc = "alert" \/ new.watched

LEMMA WatchStep ==
  ASSUME ReportInv, UNCHANGED <<worker, call, remote, held, touched, mirror, paired>>, faults' \in Int,
         request' \in [Requests -> Row], \A r \in Requests : Watched(request[r], request'[r])
  PROVE  ReportInv'
<1>1. RequestTypeOK' /\ OneRuns'
  BY DEF ReportInv, RequestTypeOK, OneRuns, Watched
<1>2. StatusStands'
  BY DEF ReportInv, StatusStands, Watched
<1>3. StatusWasRead'
  <2>1. Field' = Field \/ worker \notin {Pair} \cup Requests
    BY DEF Field, Watched
  <2> QED
    BY <2>1, Numbers DEF ReportInv, StatusWasRead, Writing, Watched, RequestTypeOK
<1>4. OutcomeIsHonest' /\ FailureIsAnnounced' /\ MirrorIsTrue'
  BY DEF ReportInv, OutcomeIsHonest, FailureIsAnnounced, MirrorIsTrue, Watched
<1> QED
  BY <1>1, <1>2, <1>3, <1>4 DEF ReportInv

LEMMA WatchdogStep ==
  ASSUME ReportInv, FailStuck \/ BeatDies \/ \E r \in Requests : AlertStuck(r)
  PROVE  ReportInv'
<1>1. /\ UNCHANGED <<worker, call, remote, held, touched, mirror, paired>> /\ faults' \in Int
  <2>1. UNCHANGED Order /\ UNCHANGED worker /\ (Quiet \/ Fault)
    BY Zenon DEF FailStuck, BeatDies, AlertStuck
  <2> QED
    BY <2>1 DEF Order, Site, Quiet, Fault, ReportInv, RequestTypeOK
<1>2. \A q \in Requests : request[q] \in Row /\ Watched(request[q], request[q])
  BY DEF ReportInv, RequestTypeOK, FailureIsAnnounced, Watched
<1>3. request' \in [Requests -> Row] /\ \A q \in Requests : Watched(request[q], request'[q])
  <2>1. CASE FailStuck
    <3>1. PICK S \in SUBSET {r \in Requests : IsStuck(r)} :
            request' = [r \in Requests |->
               IF r \in S THEN [request[r] EXCEPT !.life = "failed", !.watched = TRUE] ELSE request[r]]
      BY <2>1 DEF FailStuck
    <3>2. ASSUME NEW q \in S
          PROVE  Watched(request[q], [request[q] EXCEPT !.life = "failed", !.watched = TRUE])
      BY <1>2, <3>2 DEF IsStuck, Watched, Row
    <3> QED
      BY <1>2, <3>1, <3>2 DEF Watched
  <2>2. CASE BeatDies
    <3>1. request' = [r \in Requests |->
            IF request[r].watched THEN [request[r] EXCEPT !.watched = FALSE, !.told = TRUE] ELSE request[r]]
      BY <2>2 DEF BeatDies
    <3>2. ASSUME NEW q \in Requests
          PROVE  Watched(request[q], [request[q] EXCEPT !.watched = FALSE, !.told = TRUE])
      BY <1>2 DEF Watched, Row
    <3> QED
      BY <1>2, <3>1, <3>2 DEF Watched
  <2>3. ASSUME NEW r \in Requests, AlertStuck(r)
        PROVE  request' \in [Requests -> Row] /\ \A q \in Requests : Watched(request[q], request'[q])
    <3> DEFINE row == [request[r] EXCEPT !.watched = FALSE, !.told = TRUE]
    <3>1. Watched(request[r], row)
      BY <1>2 DEF Watched, Row
    <3>2. Update(r, row)
      BY <2>3 DEF AlertStuck
    <3> HIDE DEF row
    <3>3. /\ request' \in [Requests -> Row] /\ request'[r] = row
          /\ \A q \in Requests : q # r => request'[q] = request[q]
      BY <3>1, <3>2, UpdateOK DEF ReportInv, Watched
    <3> QED
      BY <1>2, <3>1, <3>3
  <2> QED
    BY <2>1, <2>2, <2>3
<1> QED
  BY <1>1, <1>3, WatchStep

LEMMA StepOK == ReportInv /\ [Next]_vars => ReportInv'
<1> SUFFICES ASSUME ReportInv, [Next]_vars PROVE ReportInv'
  OBVIOUS
<1>1. ASSUME NEW r \in Requests, NEW t \in Statuses, CreateRequest(r, t) PROVE ReportInv'
  BY <1>1, CreateStep
<1>2. ASSUME NEW r \in Requests, Task(r) PROVE ReportInv'
  BY <1>2, StartStep, DesignerStep, StatusStep, RecordStep, RaiseStep, AlertStep DEF Task
<1>3. CASE WriteOverHttp \/ WriteInBrowser
  BY <1>3, WriteStep
<1>4. CASE StartPair \/ PairGoesOn
  BY <1>4, PairStep
<1>5. CASE WorkerDies \/ OthersWrite \/ FormWrites \/ SyncMisses
  BY <1>5, DieStep, OthersStep
<1>8. ASSUME NEW s \in Syncs, SyncReads(s) \/ SyncApplies(s) PROVE ReportInv'
  BY <1>8, SyncStep
<1>6. CASE FailStuck \/ BeatDies \/ \E r \in Requests : AlertStuck(r)
  BY <1>6, WatchdogStep
<1>7. CASE UNCHANGED vars
  BY <1>7 DEF vars, ReportInv, RequestTypeOK, OneRuns, StatusWasRead, Field, Writing, StatusStands,
              OutcomeIsHonest, FailureIsAnnounced, MirrorIsTrue
<1> QED
  BY <1>1, <1>2, <1>3, <1>4, <1>5, <1>6, <1>7, <1>8 DEF Next

-----------------------------------------------------------------------------
(* A request that counts as succeeded had its status read back, and its    *)
(* Designer not refuted, whoever failed it, died or wrote in between       *)
(* (printerval_assignment_requests.py:150-189).                            *)
THEOREM SuccessWasReadBack == Spec => []OutcomeIsHonest
<1>1. ReportInv => OutcomeIsHonest
  BY DEF ReportInv
<1> QED
  BY <1>1, InitOK, StepOK, PTL DEF Spec

(* No failure stays quiet: the task or the watchdog tells the Admins, for  *)
(* as long as the process that must say so lives                           *)
(* (fail_stuck_requests, printerval_assignment_requests.py:250-282).       *)
THEOREM FailuresAreAnnounced == Spec => []FailureIsAnnounced
<1>1. ReportInv => FailureIsAnnounced
  BY DEF ReportInv
<1> QED
  BY <1>1, InitOK, StepOK, PTL DEF Spec

(* However many requests ran, over HTTP or in browsers, and whatever syncs *)
(* applied beside them, the order mirrors the status Printerval has, while *)
(* no request failed or is under way and what was written around them, or  *)
(* applied too late, has been set right by a sync                          *)
(* (printerval_assignment_requests.py:185-199, status_sync.py:650-736).    *)
THEOREM MirrorFollowsPrinterval == Spec => []MirrorIsTrue
<1>1. ReportInv => MirrorIsTrue
  BY DEF ReportInv
<1> QED
  BY <1>1, InitOK, StepOK, PTL DEF Spec
===============================================================================
