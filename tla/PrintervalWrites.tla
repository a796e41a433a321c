--------------------------- MODULE PrintervalWrites ---------------------------
(***************************************************************************)
(* One write of a field of an order, its Designer or its status, on        *)
(* Printerval: over HTTP (api_adapter.py), then in a browser               *)
(* (playwright_adapter.py) when HTTP comes to nothing, read back before it *)
(* counts, and tried again while the browser fails for a moment            *)
(* (playwright_support.py). Operators only: a caller keeps the call and    *)
(* the field in its own state.                                             *)
(***************************************************************************)
EXTENDS Integers

CONSTANT MaxTries   \* max_attempts of with_retry

ASSUME TriesAssumption == MaxTries \in Nat \ {0}

\* step: find, send, verify over HTTP, open, save, check in the browser, then ok or failed; http: it goes
\* over HTTP first; seen: what the answer "ok" rests on, "nothing", the "target" or "no row".
Start(http, try) ==
    [step |-> IF http THEN "find" ELSE "open", try |-> try, http |-> http, seen |-> "nothing"]

At(call, step) == [call EXCEPT !.step = step]
Seen(call, what) == [call EXCEPT !.step = "ok", !.seen = what]
Over(call) == call.step \in {"ok", "failed"}

-----------------------------------------------------------------------------
\* An answer of the site: accepted, a session that ended, a refusal for the moment or for good.
Answers == {"ok", "expired", "down", "rejected"}

\* A login is accepted, or it raises: it is never half way.
LogsIn == {answer \in Answers : answer = "ok"}

\* A read logs in once when its session ended, and asks again whatever the login said.
ReadAnswers == {IF first = "expired" THEN again ELSE first : first \in Answers, again \in Answers}

\* A write logs in once as well, and gives up when the login raises.
WriteAnswers ==
    (Answers \ {"expired"}) \cup {IF login \in LogsIn THEN again ELSE "expired" : login, again \in Answers}

FetchRows(shown) == {IF answer = "ok" THEN shown ELSE "raised" : answer \in ReadAnswers}

\* The search may show another order's row or none, which counts as no row.
FindOrder(now) == FetchRows(now) \cup FetchRows("no row")

DesignerOptions == FetchRows("offered") \cup FetchRows("not offered")

-----------------------------------------------------------------------------
\* with_retry: the whole call starts again while its last result is retryable.
Ended(call, retryable) ==
    IF retryable /\ call.try < MaxTries THEN Start(call.http, call.try + 1)
    ELSE At(call, "failed")

\* Without a password, or when no browser opens, there is no fallback: that is a browser that fails.
Fallback(call) == At(call, "open")

\* Every step yields the calls it may lead to, with the value the field has on Printerval then.
Leads(calls, now) == {[call |-> c, now |-> now] : c \in calls}

FindStatus(call, now, target) ==
    Leads({CASE row \in {"no row", "raised"} -> Fallback(call)
             [] row = target -> Seen(call, "target")
             [] OTHER -> At(call, "send") : row \in FindOrder(now)}, now)

\* The Designer's email is looked up as well.
FindDesigner(call, now, target) ==
    FindStatus(call, now, target)
        \cup Leads({Fallback(call) : option \in DesignerOptions \ {"offered"}}, now)

\* A write that is answered may not persist; one that failed on the way may have.
Send(call, now, target) ==
    UNION {Leads({IF answer = "ok" THEN At(call, "verify") ELSE Fallback(call)}, value) :
              answer \in WriteAnswers, value \in {now, target}}

Bug_TrustsAnswer(call, now, target) == Leads({Seen(call, "nothing")}, now)
VerifyStatus(call, now, target) ==
    Leads({IF row = target THEN Seen(call, "target") ELSE Fallback(call) : row \in FindOrder(now)}, now)

\* Only a row with another Designer refutes the write: no row, or a row with none, lets it pass.
VerifyDesigner(call, now, target) ==
    Leads({CASE row = "raised" -> Fallback(call)
             [] row = target -> Seen(call, "target")
             [] row \in {"no row", "none"} -> Seen(call, "no row")
             [] OTHER -> Fallback(call) : row \in FindOrder(now)}, now)

-----------------------------------------------------------------------------
\* A timeout or a server that is down is worth a retry; a missing row or field, a refusal, a bug is not.
Failures(call) == {Ended(call, retryable) : retryable \in BOOLEAN}

\* The page is opened with a fresh login and searched until a row of the order is visible.
SearchRow(call, step) == Failures(call) \cup {At(call, step)}

\* A field that has the target already is not saved again: no request would follow.
Open(call, now, target) == Leads(SearchRow(call, IF now = target THEN "check" ELSE "save"), now)

\* A save that timed out, or was refused by its answer, may have been taken.
Save(call, now, target) ==
    UNION {Leads(Failures(call) \cup {At(call, "check")}, value) : value \in {now, target}}

\* The row is searched anew; what it does not show is an unknown outcome, never retried.
Check(call, now, target) ==
    Leads({At(call, "failed")} \cup (IF now = target THEN {Seen(call, "target")} ELSE {}), now)

HttpStep(call, field, now, target) ==
    CASE call.step = "find" /\ field = "designer" -> FindDesigner(call, now, target)
      [] call.step = "find" /\ field = "status" -> FindStatus(call, now, target)
      [] call.step = "send" -> Send(call, now, target)
      [] call.step = "verify" /\ field = "designer" -> VerifyDesigner(call, now, target)
      [] call.step = "verify" /\ field = "status" -> VerifyStatus(call, now, target)

BrowserStep(call, now, target) ==
    CASE call.step = "open" -> Open(call, now, target)
      [] call.step = "save" -> Save(call, now, target)
      [] call.step = "check" -> Check(call, now, target)

HttpSteps == {"find", "send", "verify"}
BrowserSteps == {"open", "save", "check"}
=============================================================================
