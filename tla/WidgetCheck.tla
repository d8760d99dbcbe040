---------------------------- MODULE WidgetCheck ----------------------------
(***************************************************************************)
(* A dashboard widget is checked against the database: the test makes the  *)
(* page ask for its data, NetworkInterceptor captures what is answered,    *)
(* WidgetDataExtractor picks the widget's exchange, DashboardRepository    *)
(* asks ClickHouse for the same number and DataComparator compares the two *)
(* (network, hybrid, database/clickhouse, models/dashboard_config.py; the  *)
(* flow is the one of examples/data_validation).  The page, its server and *)
(* whoever writes to the database go on meanwhile.                         *)
(***************************************************************************)
EXTENDS Comparison, FiniteSets, Sequences

CONSTANTS
    Totals,         \* what the database may hold for a filter
    Databases,      \* what it may hold for all of them at first
    Defects,        \* what the dashboard may add to the numbers it shows
    Tolerance,      \* the widget's tolerance
    MaxAttempts,    \* RETRY_MAX_ATTEMPTS
    MaxRounds,      \* bound: checks of one test, each under a filter of its own
    MaxOwn,         \* bound: requests that the page sends by itself
    MaxDrift        \* bound: changes of the database

Rounds == 1 .. MaxRounds
\* Check n is under filter n; the page opens under filter 0.
Filters == 0 .. MaxRounds
\* One request for each check, and the page's own.
Requests == 1 .. MaxRounds + MaxOwn
Modes == {"ui_only", "ui_api", "ui_database", "ui_api_database"}

ASSUME BoundsAssumption ==
    MaxRounds \in Nat \ {0} /\ MaxOwn \in Nat /\ MaxDrift \in Nat /\ MaxAttempts \in Nat \ {0}
ASSUME NumbersAssumption ==
    /\ Databases \subseteq [Filters -> Totals] /\ Totals \subseteq Int /\ Defects \subseteq Int
    /\ Tolerance.percentage \subseteq Nat /\ Tolerance.absolute \subseteq Nat
\* Tolerance.__post_init__ refuses a tolerance without a margin.
ASSUME ToleranceAssumption == Tolerance.percentage \cup Tolerance.absolute # {}

VARIABLES
    db,             \* filter -> the total in the database
    defect,         \* what this dashboard adds
    mode,           \* the validation mode
    page,           \* request -> [kind, filter, stage, answer, stale]
    events,         \* responses whose event Playwright has not dispatched yet
    attached,       \* the interceptor listens
    captured,       \* the requests whose exchange was captured, in order
    round, at,      \* the check under way and its stage
    picked,         \* the request whose exchange is compared, 0: none
    attempts,       \* attempts of the query
    drift,          \* changes of the database so far
    settled         \* history: the requests that were done with when the check began

vars == <<db, defect, mode, page, events, attached, captured, round, at,
          picked, attempts, drift, settled>>
world == <<db, defect, mode, drift>>

\* The widget's own requests, and those of the forecast next to it, which carry
\* the widget's name too.
Kinds == {"widget", "forecast"}
\* A body without a row for the dimension, an error or no JSON at all.
NoRow == [kind |-> "norow"]
Unsent == [kind |-> "widget", filter |-> 0, stage |-> "unsent", answer |-> NoRow, stale |-> FALSE]
\* missed: over without having been captured.
Stages == {"unsent", "sent", "answered", "queued", "reading", "over", "missed"}
Final == {"passed", "mismatch", "unmatched", "error"}
\* The last verdict, or one that fails the test.
Over == at \in Final /\ (at = "passed" => round = MaxRounds)
\* Playwright dispatches events while the test is inside one of its calls; there
\* are others between two checks.
InPlaywright == at \in {"start", "act", "wait", "passed"}

TypeOK ==
    /\ db \in [Filters -> Totals] /\ defect \in Defects
    /\ mode \in Modes
    /\ page \in [Requests -> [kind : Kinds, filter : Filters, stage : Stages,
                              answer : [kind : {"number"}, n : Int] \cup {NoRow}, stale : BOOLEAN]]
    /\ events \in Seq(Requests) /\ captured \in Seq(Requests) /\ attached \in BOOLEAN
    /\ round \in Rounds /\ picked \in {0} \cup Requests /\ attempts \in 0 .. MaxAttempts
    /\ at \in {"start", "act", "wait", "leave", "match", "api", "database"} \cup Final
    /\ settled \subseteq Requests

Init ==
    /\ db \in Databases /\ defect \in Defects
    /\ mode \in Modes
    /\ page = [r \in Requests |-> Unsent] /\ events = <<>>
    /\ attached = FALSE /\ captured = <<>> /\ round = 1 /\ at = "start"
    /\ picked = 0 /\ attempts = 0 /\ drift = 0 /\ settled = {}

-----------------------------------------------------------------------------
(* The dashboard, its server and the database. *)

Drift ==
    /\ drift < MaxDrift /\ drift' = drift + 1
    /\ \E f \in Filters, n \in Totals :
          /\ n # db[f] /\ db' = [db EXCEPT ![f] = n]
          /\ page' = [r \in Requests |->
                [page[r] EXCEPT !.stale = @ \/ (page[r].filter = f /\ page[r].answer # NoRow)]]
    /\ UNCHANGED <<defect, mode, events, attached, captured, round, at, picked, attempts, settled>>

Send(r, kind, filter) ==
    /\ page[r].stage = "unsent"
    /\ page' = [page EXCEPT ![r] = [Unsent EXCEPT !.kind = kind, !.filter = filter, !.stage = "sent"]]

\* The filter that the page is under: the test sets it when it acts.
Shown == IF at \in {"start", "act"} THEN round - 1 ELSE round

\* The page refreshes by a timer of its own.
PageSends(r, kind) ==
    /\ r > MaxRounds /\ Send(r, kind, Shown)
    /\ UNCHANGED <<world, events, attached, captured, round, at, picked, attempts, settled>>

\* The server reads the database; the forecast is some other number.
Answer(r) ==
    /\ page[r].stage = "sent"
    /\ \E answer \in { NoRow, Number(db[page[r].filter] + defect
                                     + IF page[r].kind = "forecast" THEN 1000 ELSE 0) } :
          page' = [page EXCEPT ![r].stage = "answered", ![r].answer = answer]
    /\ UNCHANGED <<world, events, attached, captured, round, at, picked, attempts, settled>>

\* The response reaches the browser; its event is sent when somebody listens.
Arrive(r) ==
    /\ page[r].stage = "answered"
    /\ page' = [page EXCEPT ![r].stage = IF attached THEN "queued" ELSE "missed"]
    /\ events' = IF attached THEN Append(events, r) ELSE events
    /\ UNCHANGED <<world, attached, captured, round, at, picked, attempts, settled>>

-----------------------------------------------------------------------------
(* NetworkInterceptor. *)

\* _on_response begins, and waits for the body of the response; an event that
\* comes when nobody listens any more, or not yet again, is nobody's.
Dispatch ==
    /\ InPlaywright /\ events # <<>>
    /\ events' = Tail(events)
    /\ page' = [page EXCEPT ![Head(events)].stage = IF attached THEN "reading" ELSE "missed"]
    /\ UNCHANGED <<world, attached, captured, round, at, picked, attempts, settled>>

\* Mutant of ReadBody: a body that is no JSON is not recorded.
ReadJsonOnly(r) ==
    /\ InPlaywright /\ page[r].stage = "reading"
    /\ \E answer \in {page[r].answer, NoRow} :
          /\ page' = [page EXCEPT ![r].stage = "over", ![r].answer = answer]
          /\ captured' = IF answer = NoRow THEN captured ELSE Append(captured, r)
    /\ UNCHANGED <<world, events, attached, round, at, picked, attempts, settled>>

\* The body came, or reading it failed and counts as no JSON.  Handlers wait
\* independently, so bodies come in any order, and go to the list that is the
\* interceptor's when they come.
ReadBody(r) ==
    /\ InPlaywright /\ page[r].stage = "reading"
    /\ \E answer \in {page[r].answer, NoRow} :
          page' = [page EXCEPT ![r].stage = "over", ![r].answer = answer]
    /\ captured' = Append(captured, r)
    /\ UNCHANGED <<world, events, attached, round, at, picked, attempts, settled>>

-----------------------------------------------------------------------------
(* The test. *)

Stay == UNCHANGED <<world, round>>

\* The next check of the test, if there is one.
Begin ==
    /\ at = "start" \/ (at = "passed" /\ round < MaxRounds)
    /\ at' = "act" /\ round' = IF at = "start" THEN round ELSE round + 1
    /\ settled' = {r \in Requests : page[r].stage \in {"over", "missed"}}
    /\ attached' = TRUE /\ attempts' = 0

\* What the handlers of another interceptor still read is not for a new one.
Abandoned ==
    [r \in Requests |-> IF page[r].stage = "reading" THEN [page[r] EXCEPT !.stage = "missed"] ELSE page[r]]

\* Mutant of Enter: the list is not made anew.
EnterKeeping ==
    /\ Begin
    /\ \/ captured' = <<>> /\ page' = Abandoned
       \/ UNCHANGED <<captured, page>>
    /\ UNCHANGED <<world, events, picked>>

\* A new interceptor, or the one of the check before once more: that one has a
\* new list, and the handlers that still read are its own.
Enter ==
    /\ Begin
    /\ captured' = <<>>
    /\ page' = Abandoned \/ UNCHANGED page
    /\ UNCHANGED <<world, events, picked>>

Act ==
    /\ at = "act" /\ at' = "wait"
    /\ Send(round, "widget", round)
    /\ Stay /\ UNCHANGED <<events, attached, captured, picked, attempts, settled>>

\* A sleep ends at any time, expect_api_response also in a timeout.
WaitEnds ==
    /\ at = "wait" /\ at' \in {"leave", "error"}
    /\ Stay /\ UNCHANGED <<page, events, attached, captured, picked, attempts, settled>>

Leave ==
    /\ at = "leave" /\ at' = "match" /\ attached' = FALSE
    /\ Stay /\ UNCHANGED <<page, events, captured, picked, attempts, settled>>

\* What identifies the widget, under any filter, and what a request says.
Identify == [mustHave |-> {"widget"}, mustNotHave |-> {"forecast"}, skip |-> {}, require |-> {}]
Tokens(r) == {"widget", page[r].kind}

Identifies(identify, tokens) ==
    /\ identify.skip \cap tokens = {} /\ identify.require \subseteq tokens
    /\ identify.mustHave \subseteq tokens /\ identify.mustNotHave \cap tokens = {}

\* find_matching takes the first exchange; a response without the row raises.
Match ==
    /\ at = "match"
    /\ LET matching == {i \in DOMAIN captured : Identifies(Identify, Tokens(captured[i]))}
       IN  \/ matching = {} /\ at' = "unmatched" /\ picked' = 0
           \/ \E i \in matching :
                 /\ \A k \in matching : i <= k
                 /\ picked' = captured[i]
                 /\ at' = IF page[captured[i]].answer = NoRow THEN "error" ELSE "api"
    /\ Stay /\ UNCHANGED <<page, events, attached, captured, attempts, settled>>

Payload(total) == [f \in {"dimension", "total"} |-> IF f = "total" THEN total ELSE Text("US", 0)]
Ui == Payload(page[picked].answer)

\* run_widget_query fills the template for the filter of this check.
WidgetQuery == Number(db[round])
Db == Payload(WidgetQuery)
Fields(left, right) == CommonFields(left, right)

\* The facade runs the check of a layer when the mode includes the layer.
SkipApi ==
    /\ at = "api" /\ mode \notin {"ui_api", "ui_api_database"} /\ at' = "database"
    /\ Stay /\ UNCHANGED <<page, events, attached, captured, picked, attempts, settled>>

\* What the test passes to verify_api returns or raises.
VerifyApi ==
    /\ at = "api" /\ mode \in {"ui_api", "ui_api_database"}
    /\ at' \in {"database", "error"}
    /\ Stay /\ UNCHANGED <<page, events, attached, captured, picked, attempts, settled>>

\* The check is done.
Verdict(ok) ==
    /\ at' = IF ok THEN "passed" ELSE "mismatch"
    /\ Stay /\ UNCHANGED <<page, events, attached, captured, picked, attempts, settled>>

SkipDatabase ==
    /\ at = "database" /\ mode \notin {"ui_database", "ui_api_database"}
    /\ Verdict(TRUE)

\* ClickHouse answers; the database is the expected side.
QueryAnswers ==
    /\ at = "database" /\ mode \in {"ui_database", "ui_api_database"}
    /\ attempts < MaxAttempts
    /\ Verdict(Matched(Db, Ui, Fields(Db, Ui), {Tolerance}))

\* Mutant of QueryFails: no stop is given to tenacity.
QueryFailsAgain ==
    /\ at = "database" /\ mode \in {"ui_database", "ui_api_database"}
    /\ attempts' = (attempts + 1) % MaxAttempts /\ at' = at
    /\ Stay /\ UNCHANGED <<page, events, attached, captured, picked, settled>>

\* A ClickHouseError is retried, up to the last attempt; anything else is not.
QueryFails ==
    /\ at = "database" /\ mode \in {"ui_database", "ui_api_database"}
    /\ \/ attempts' = attempts + 1 /\ at' = IF attempts + 1 < MaxAttempts THEN at ELSE "error"
       \/ attempts' = attempts /\ at' = "error"
    /\ Stay /\ UNCHANGED <<page, events, attached, captured, picked, settled>>

-----------------------------------------------------------------------------
\* What happens after the test is of no interest.
Environment ==
    /\ ~Over
    /\ \/ Drift \/ Dispatch
       \/ \E r \in Requests : Answer(r) \/ Arrive(r) \/ ReadBody(r) \/ \E kind \in Kinds : PageSends(r, kind)
Test ==
    \/ Enter \/ Act \/ WaitEnds \/ Leave \/ Match
    \/ SkipApi \/ VerifyApi \/ SkipDatabase \/ QueryAnswers \/ QueryFails

Next == Environment \/ Test

\* The test goes on: each of its waits has a timeout, and each call returns.
Spec == Init /\ [][Next]_vars /\ WF_vars(Test)

-----------------------------------------------------------------------------
(* Properties. *)

\* What is compared cannot decide: the database changed after it was read, or it
\* is the page's number for the filter before, which came or was asked for after
\* this check began.  No rule can tell that one apart: it is one for all filters.
Undecided(r) == page[r].stale \/ (page[r].filter # round /\ r \notin settled)

\* Otherwise a dashboard that shows wrong numbers does not pass: what passes is
\* within the tolerance, a percentage of what the database has and not of what
\* the widget shows.
DefectIsFound ==
    at = "passed" /\ mode \in {"ui_database", "ui_api_database"} /\ ~Undecided(picked) =>
        \/ \E p \in Tolerance.percentage : 100 * Distance(defect, 0) <= p * Distance(db[round], 0)
        \/ \E m \in Tolerance.absolute : Distance(defect, 0) <= m

\* And one that is right is not called wrong, whatever else the page asks for and
\* in whatever order it is answered: nothing of an earlier check that was done
\* with is compared again.
NoFalseAlarm == at = "mismatch" => defect # 0 \/ Undecided(picked)

\* A widget that is not found is one whose response had not been read when the
\* test stopped listening, also with a body that is no JSON.
ReadIsFound == at = "unmatched" => page[round].stage # "over"

\* A check comes to an end: a query is tried a limited number of times.
CheckEnds == (at \notin Final) ~> (at \in Final)
=============================================================================
