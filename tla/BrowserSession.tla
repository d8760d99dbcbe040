---------------------------- MODULE BrowserSession ----------------------------
(***************************************************************************)
(* framework/drivers, fixtures and auth: the pytest-xdist workers, each    *)
(* with one shared browser (_BrowserSession), give every test a context of *)
(* its own (DriverManager) and share one saved login on disk               *)
(* (AuthStateManager).  Playwright and the browsers are external; a        *)
(* browser may die, and any call to one may fail, at any moment.           *)
(***************************************************************************)
EXTENDS Naturals, FiniteSets

CONSTANTS
    Worker,         \* pytest-xdist workers that share the state directory
    Record,         \* what BrowserConfig captures on failure
    MaxTests,       \* bound: tests of a worker
    MaxCrashes      \* bound: deaths of a worker's browser, and of the worker

ASSUME RecordAssumption == Record \subseteq {"screenshot", "trace"}
ASSUME BoundAssumption == MaxTests \in Nat /\ MaxCrashes \in Nat

VARIABLES
    file,           \* .auth/<profile>.json
    browser,        \* browser[w]: _BrowserSession._browser
    contexts,       \* contexts[w]: contexts open in w's browser
    login,          \* login[w]: the session fixture auth_state_path
    stage,          \* where w's test is
    test,           \* test[w]: number of the test, 0 before the first
    kind,           \* kind[w]: the fixture the test asked for
    opened,         \* opened[w]: the state file the test's context was opened with
    failed,         \* failed[w]: rep_call.failed of the test
    artifacts,      \* artifacts[w]: files written for the test
    errored,        \* errored[w]: history: tests with an error in setup or teardown
    lost,           \* lost[w]: history: those whose browser was gone
    crashes,        \* crashes[w]: history: deaths of w's browser
    tries,          \* tries[w]: history: logins tried in this session
    broken,         \* broken[w]: history: its tests whose login lost the browser
    spoilt          \* spoilt[w]: history: its tests that got the exception of such a login

report == <<opened, failed, artifacts>>
mishaps == <<errored, lost, crashes>>
session == <<tries, broken, spoilt>>
vars == <<file, browser, contexts, login, stage, test, kind, report, mishaps, session>>

Test == 1..MaxTests
Context == [of : Test, role : {"login", "test"}]
Readable == {"fresh", "stale"}
\* "empty" is truncated and not yet written, "garbled" the mix of two writes.
File == Readable \cup {"absent", "empty", "garbled"}
Setup == {"auth", "login", "save", "write", "launch", "open", "page"}
Teardown == {"capture", "trace", "close"}
Stage == {"idle", "body"} \cup Setup \cup Teardown

TypeOK ==
    /\ file \in File
    /\ browser \in [Worker -> {"none", "up", "down"}]
    /\ contexts \in [Worker -> SUBSET Context]
    /\ login \in [Worker -> {"unset", "ready", "failed", "broken"}]
    /\ stage \in [Worker -> Stage]
    /\ test \in [Worker -> Test \cup {0}]
    /\ kind \in [Worker -> {"page", "authenticated_page"}]
    /\ opened \in [Worker -> Readable \cup {"nothing"}]
    /\ failed \in [Worker -> BOOLEAN]
    /\ artifacts \in [Worker -> SUBSET Record]
    /\ errored \in [Worker -> SUBSET Test]
    /\ lost \in [Worker -> SUBSET Test]
    /\ crashes \in [Worker -> Nat]
    /\ tries \in [Worker -> Nat]
    /\ broken \in [Worker -> SUBSET Test]
    /\ spoilt \in [Worker -> SUBSET Test]

Init ==
    /\ file \in {"absent", "fresh", "stale"}
    /\ browser = [w \in Worker |-> "none"]
    /\ contexts = [w \in Worker |-> {}]
    /\ login = [w \in Worker |-> "unset"]
    /\ stage = [w \in Worker |-> "idle"]
    /\ test = [w \in Worker |-> 0]
    /\ kind = [w \in Worker |-> "page"]
    /\ opened = [w \in Worker |-> "nothing"]
    /\ failed = [w \in Worker |-> FALSE]
    /\ artifacts = [w \in Worker |-> {}]
    /\ errored = [w \in Worker |-> {}]
    /\ lost = [w \in Worker |-> {}]
    /\ broken = [w \in Worker |-> {}]
    /\ spoilt = [w \in Worker |-> {}]
    /\ crashes = [w \in Worker |-> 0]
    /\ tries = [w \in Worker |-> 0]

Up(w) == browser[w] = "up"
Advance(w, next) == stage' = [stage EXCEPT ![w] = next]
Own(w, role) == [of |-> test[w], role |-> role]
Holding(w, held) == contexts' = [contexts EXCEPT ![w] = held]

\* The exception ends the test's setup or teardown; pytest reports an error.
Raise(w) ==
    /\ Advance(w, "idle")
    /\ errored' = [errored EXCEPT ![w] = @ \cup {test[w]}]
    /\ UNCHANGED crashes

Error(w) ==
    /\ Raise(w)
    /\ lost' = IF Up(w) THEN lost ELSE [lost EXCEPT ![w] = @ \cup {test[w]}]

\* The session's fixture raises; pytest keeps the exception for the session.
LoginError(w) ==
    /\ Raise(w)
    /\ IF Up(w)
       THEN login' = [login EXCEPT ![w] = "failed"] /\ UNCHANGED <<lost, broken>>
       ELSE /\ login' = [login EXCEPT ![w] = "broken"]
            /\ lost' = [lost EXCEPT ![w] = @ \cup {test[w]}]
            /\ broken' = [broken EXCEPT ![w] = @ \cup {test[w]}]
    /\ UNCHANGED <<tries, spoilt>>

-----------------------------------------------------------------------------
(* The shared browser *)

StartTest(w, fixture) ==
    /\ stage[w] = "idle"
    /\ test[w] < MaxTests
    /\ test' = [test EXCEPT ![w] = @ + 1]
    /\ kind' = [kind EXCEPT ![w] = fixture]
    /\ Advance(w, IF fixture = "page" THEN "launch" ELSE "auth")
    /\ opened' = [opened EXCEPT ![w] = "nothing"]
    /\ failed' = [failed EXCEPT ![w] = FALSE]
    /\ artifacts' = [artifacts EXCEPT ![w] = {}]
    /\ UNCHANGED <<file, browser, contexts, login, mishaps, session>>

\* Mutant of GetBrowser: a browser that was launched once is not looked at.
GetBrowserOnce(w) ==
    browser' = [browser EXCEPT ![w] = IF @ = "none" THEN "up" ELSE @]

\* _BrowserSession.get relaunches a browser that is gone.
GetBrowser(w) == browser' = [browser EXCEPT ![w] = "up"]

Launch(w) ==
    /\ stage[w] = "launch"
    /\ GetBrowser(w)
    /\ Advance(w, "open")
    /\ UNCHANGED <<file, contexts, login, test, kind, report, mishaps, session>>

\* BrowserFactory.launch raises DriverInitializationError.
LaunchFails(w) ==
    /\ stage[w] = "launch"
    /\ ~Up(w)
    /\ Raise(w)
    /\ UNCHANGED <<file, browser, contexts, login, test, kind, report, lost,
                   session>>

-----------------------------------------------------------------------------
(* The saved login *)

\* The launch for load_or_create fails.
LoginLaunchFails(w) ==
    /\ stage[w] = "auth"
    /\ login[w] = "unset"
    /\ ~Up(w)
    /\ login' = [login EXCEPT ![w] = "failed"]
    /\ Raise(w)
    /\ UNCHANGED <<file, browser, contexts, test, kind, report, lost, session>>

\* The fixture's value or exception is kept for the session.
Cached(w) ==
    /\ stage[w] = "auth"
    /\ login[w] = "ready"
    /\ Advance(w, "launch")
    /\ UNCHANGED <<file, browser, contexts, login, test, kind, report, mishaps, session>>

CachedError(w) ==
    /\ stage[w] = "auth"
    /\ login[w] \in {"failed", "broken"}
    /\ Raise(w)
    /\ spoilt' = IF login[w] = "failed" THEN spoilt
                 ELSE [spoilt EXCEPT ![w] = @ \cup {test[w]}]
    /\ UNCHANGED <<file, browser, contexts, login, test, kind, report, lost, tries,
                   broken>>

\* load_or_create takes a valid file as it is, else logs in.
CheckState(w) ==
    /\ stage[w] = "auth"
    /\ login[w] = "unset"
    /\ GetBrowser(w)
    /\ IF file = "fresh"
       THEN /\ login' = [login EXCEPT ![w] = "ready"]
            /\ Advance(w, "launch")
            /\ UNCHANGED session
       ELSE /\ tries' = [tries EXCEPT ![w] = @ + 1]
            /\ Advance(w, "login")
            /\ UNCHANGED <<login, broken, spoilt>>
    /\ UNCHANGED <<file, contexts, test, kind, report, mishaps>>

Login(w) ==
    /\ stage[w] = "login"
    /\ Up(w)
    /\ Holding(w, contexts[w] \cup {Own(w, "login")})
    /\ Advance(w, "save")
    /\ UNCHANGED <<file, browser, login, test, kind, report, mishaps, session>>

\* Mutant of LoginFails: the exception is not kept, the next test tries again.
LoginFailsUncached(w) ==
    /\ stage[w] = "login"
    /\ UNCHANGED login
    /\ Error(w)
    /\ UNCHANGED <<file, browser, contexts, test, kind, report, session>>

\* The login page cannot be opened or driven; its context is closed.
LoginFails(w) ==
    /\ stage[w] = "login"
    /\ LoginError(w)
    /\ UNCHANGED <<file, browser, contexts, test, kind, report>>

\* Playwright truncates the file, then writes it.
TruncateState(w) ==
    /\ stage[w] = "save"
    /\ Up(w)
    /\ file' = "empty"
    /\ Advance(w, "write")
    /\ UNCHANGED <<browser, contexts, login, test, kind, report, mishaps, session>>

\* What another worker wrote since is overwritten from its start.
WriteState(w) ==
    /\ stage[w] = "write"
    /\ file' \in IF file = "empty" THEN {"fresh"} ELSE {"fresh", "garbled"}
    /\ Holding(w, contexts[w] \ {Own(w, "login")})
    /\ login' = [login EXCEPT ![w] = "ready"]
    /\ Advance(w, "launch")
    /\ UNCHANGED <<browser, test, kind, report, mishaps, session>>

\* save raises before or after the file was truncated; nobody closes the context.
SaveFails(w) ==
    /\ stage[w] \in {"save", "write"}
    /\ LoginError(w)
    /\ UNCHANGED <<file, browser, contexts, test, kind, report>>

-----------------------------------------------------------------------------
(* DriverManager.start *)

OpenContext(w) ==
    /\ stage[w] = "open"
    /\ Up(w)
    /\ kind[w] = "authenticated_page" => file \in Readable
    /\ opened' = [opened EXCEPT ![w] = IF kind[w] = "page" THEN "nothing" ELSE file]
    /\ Holding(w, contexts[w] \cup {Own(w, "test")})
    /\ Advance(w, "page")
    /\ UNCHANGED <<file, browser, login, test, kind, failed, artifacts, mishaps, session>>

\* start goes on with tracing and the page.
NewPage(w) ==
    /\ stage[w] = "page"
    /\ Up(w)
    /\ Advance(w, "body")
    /\ UNCHANGED <<file, browser, contexts, login, test, kind, report, mishaps, session>>

\* new_context, tracing.start or new_page raises: the fixture never gets to
\* finalize, so a context that was opened stays open.
StartFails(w) ==
    /\ stage[w] \in {"open", "page"}
    /\ Error(w)
    /\ UNCHANGED <<file, browser, contexts, login, test, kind, report, session>>

-----------------------------------------------------------------------------
(* The test's body and DriverManager.finalize *)

AfterBody(hasFailed) ==
    CASE hasFailed /\ "screenshot" \in Record -> "capture"
      [] ~(hasFailed /\ "screenshot" \in Record) /\ "trace" \in Record -> "trace"
      [] OTHER -> "close"

EndBody(w) ==
    /\ stage[w] = "body"
    /\ \E result \in BOOLEAN :
           /\ failed' = [failed EXCEPT ![w] = result]
           /\ Advance(w, AfterBody(result))
    /\ UNCHANGED <<file, browser, contexts, login, test, kind, opened, artifacts,
                   mishaps, session>>

Capture(w) ==
    /\ stage[w] = "capture"
    /\ Up(w)
    /\ artifacts' = [artifacts EXCEPT ![w] = @ \cup {"screenshot"}]
    /\ Advance(w, IF "trace" \in Record THEN "trace" ELSE "close")
    /\ UNCHANGED <<file, browser, contexts, login, test, kind, opened, failed,
                   mishaps, session>>

\* Mutant of StopTrace: the trace is written for every test.
StopTraceAlways(w) ==
    /\ stage[w] = "trace"
    /\ Up(w)
    /\ artifacts' = [artifacts EXCEPT ![w] = @ \cup {"trace"}]
    /\ Advance(w, "close")
    /\ UNCHANGED <<file, browser, contexts, login, test, kind, opened, failed,
                   mishaps, session>>

StopTrace(w) ==
    /\ stage[w] = "trace"
    /\ Up(w)
    /\ artifacts' = [artifacts EXCEPT ![w] = IF failed[w] THEN @ \cup {"trace"} ELSE @]
    /\ Advance(w, "close")
    /\ UNCHANGED <<file, browser, contexts, login, test, kind, opened, failed,
                   mishaps, session>>

\* Mutant of CloseContext: finalize closes the page only.
ClosePageOnly(w) ==
    /\ stage[w] = "close"
    /\ Advance(w, "idle")
    /\ UNCHANGED <<file, browser, contexts, login, test, kind, report, mishaps, session>>

CloseContext(w) ==
    /\ stage[w] = "close"
    /\ Holding(w, contexts[w] \ {Own(w, "test")})
    /\ Advance(w, "idle")
    /\ UNCHANGED <<file, browser, login, test, kind, report, mishaps, session>>

\* The screenshot, the trace or the close raises: what follows is skipped.
FinalizeFails(w) ==
    /\ stage[w] \in Teardown
    /\ Error(w)
    /\ UNCHANGED <<file, browser, contexts, login, test, kind, report, session>>

-----------------------------------------------------------------------------
(* Ends and deaths *)

NewSession(w) ==
    /\ browser' = [browser EXCEPT ![w] = "none"]
    /\ Holding(w, {})
    /\ login' = [login EXCEPT ![w] = "unset"]
    /\ tries' = [tries EXCEPT ![w] = 0]
    /\ broken' = [broken EXCEPT ![w] = {}]
    /\ spoilt' = [spoilt EXCEPT ![w] = {}]

\* The pytest session ends, closes the browser, and another one follows.
EndSession(w) ==
    /\ stage[w] = "idle"
    /\ NewSession(w)
    /\ UNCHANGED <<file, stage, test, kind, report, mishaps>>

\* The worker dies with its test; what it was writing stays as it is.
WorkerDies(w) ==
    /\ stage[w] # "idle"
    /\ crashes[w] < MaxCrashes
    /\ crashes' = [crashes EXCEPT ![w] = @ + 1]
    /\ errored' = [errored EXCEPT ![w] = @ \cup {test[w]}]
    /\ Advance(w, "idle")
    /\ NewSession(w)
    /\ UNCHANGED <<file, test, kind, report, lost>>

BrowserDies(w) ==
    /\ Up(w)
    /\ crashes[w] < MaxCrashes
    /\ crashes' = [crashes EXCEPT ![w] = @ + 1]
    /\ browser' = [browser EXCEPT ![w] = "down"]
    /\ Holding(w, {})
    /\ UNCHANGED <<file, login, stage, test, kind, report, errored, lost, session>>

\* The file passes max_age_seconds, or its last cookie expires.
Expire ==
    /\ file = "fresh"
    /\ file' = "stale"
    /\ UNCHANGED <<browser, contexts, login, stage, test, kind, report, mishaps, session>>

-----------------------------------------------------------------------------
Next ==
    \/ \E w \in Worker :
           \/ \E fixture \in {"page", "authenticated_page"} : StartTest(w, fixture)
           \/ Launch(w) \/ LaunchFails(w)
           \/ Cached(w) \/ CachedError(w) \/ CheckState(w)
           \/ LoginLaunchFails(w) \/ Login(w) \/ LoginFails(w)
           \/ TruncateState(w) \/ WriteState(w) \/ SaveFails(w)
           \/ OpenContext(w) \/ NewPage(w) \/ StartFails(w)
           \/ EndBody(w) \/ Capture(w) \/ StopTrace(w) \/ CloseContext(w) \/ FinalizeFails(w)
           \/ EndSession(w) \/ WorkerDies(w) \/ BrowserDies(w)
    \/ Expire

Spec == Init /\ [][Next]_vars

-----------------------------------------------------------------------------
(* Properties *)

Running(w) == stage[w] # "idle"

\* "Zero state leaks between tests": the shared browser holds contexts of the
\* running test only, whatever passed, failed or died before; a context stays
\* behind only of a test pytest reported an error for.
LeaksAreErrors ==
    \A w \in Worker : \A c \in contexts[w] :
        (c.of = test[w] /\ Running(w)) \/ c.of \in errored[w]

\* "Captures ... artifacts only when the test actually failed", and then all
\* that is configured, unless the teardown itself ended in an error.
ArtifactsTellFailure ==
    \A w \in Worker : ~Running(w) =>
        /\ artifacts[w] # {} => failed[w]
        /\ failed[w] /\ test[w] \notin errored[w] => artifacts[w] = Record

\* _BrowserSession self-heals: a browser that dies costs at most one test its
\* setup or teardown, the next one gets a browser that is up; unless it died
\* under the login of the session: that costs the later tests of this session
\* that ask for the saved login as well, and tests of no other session.
CrashCostsOneTest ==
    \A w \in Worker :
        /\ Cardinality(lost[w]) <= crashes[w]
        /\ \A t \in spoilt[w] : \E l \in broken[w] : l < t

\* auth_state_path: "login happens at most once per session instead of once per
\* test", also when it fails.
LoginOncePerSession == \A w \in Worker : tries[w] <= 1
=============================================================================
