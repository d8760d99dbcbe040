---------------------------- MODULE Sessions_proofs ----------------------------
(***************************************************************************)
(* The two parts of the framework that log in and keep what the login      *)
(* gave them.  The invariants of ApiClient for every set of methods, every *)
(* number of attempts and all times, and those of                          *)
(* BrowserSession for any number of workers and tests, whatever is         *)
(* recorded and however often browsers and workers die.                    *)
(***************************************************************************)
EXTENDS ApiClient, BrowserSession, FiniteSetTheorems, TLAPS

-----------------------------------------------------------------------------
(* API calls and their token. *)

\* How many attempts a phase may have behind it.
Counting ==
    /\ phase \in {"attempt", "backoff"} => attempts < MaxAttempts
    /\ phase = "backoff" => method \in SafeMethods
    /\ phase = "attempt" /\ method \in UnsafeMethods => attempts = 0
    /\ phase \in UnderWay => attempts > 0

\* An unsafe request on its way has not been carried out before, and an
\* answer says whether this one was.
Once ==
    /\ method \in UnsafeMethods =>
           /\ phase \in {"attempt", "fetch", "refresh", "sent"} => applied = 0
           /\ phase = "answered" => applied <= 1
           /\ phase = "done" => applied <= 1
           /\ phase = "idle" => applied = 0
    /\ phase = "answered" =>
           /\ outcome \in Answer
           /\ outcome = "ok" => applied > 0
           /\ outcome \in {"refused", "unauthorized"} /\ method \in UnsafeMethods => applied = 0

\* No request travels into the future.
Timed == since <= clock

Refreshing ==
    /\ refreshes <= attempts
    /\ phase = "fetch" => ~refreshed
    /\ phase \in {"fetch", "sent", "answered"} /\ ~refreshed => refreshes < attempts

CInv == ClientTypeOK /\ Timed /\ Counting /\ Once /\ OutcomeIsHonest /\ Refreshing

USE MethodAssumption, StrategyAssumption, NumberAssumption

\* The first state satisfies the invariant of calls.
LEMMA CInit == ClientInit => CInv
  <1> SUFFICES ASSUME ClientInit PROVE CInv
    OBVIOUS
  <1>1. token \in [life : Int, until : Int, lag : Int, renewAt : Int]
    <2>1. ASSUME NEW life \in Lifetimes PROVE Store(Issue(life)) \in [life : Int, until : Int, lag : Int, renewAt : Int]
      <3>1. life \in Int /\ clock \in Int /\ Margin \in Int
        BY DEF ClientInit
      <3> QED
        BY <3>1 DEF Store, Issue
    <2>2. NoToken \in [life : Int, until : Int, lag : Int, renewAt : Int]
      BY DEF NoToken
    <2> QED
      BY <2>1, <2>2 DEF ClientInit
  <1>2. ClientTypeOK
    <2>1. pending \in [life : Int, until : Int]
      BY DEF ClientInit, NoPending
    <2>2. refreshable \in BOOLEAN
      BY DEF ClientInit
    <2>3. clock \in 0..MaxClock /\ since \in 0..MaxClock /\ attempts \in 0..MaxAttempts
      BY DEF ClientInit
    <2>4. calls \in 0..MaxCalls /\ applied \in Nat /\ refreshes \in Nat /\ late \in Nat
      BY DEF ClientInit
    <2>5. phase \in Phase /\ outcome \in Answer \cup Raised
      BY DEF ClientInit, Phase, Answer
    <2> QED
      BY <1>1, <2>1, <2>2, <2>3, <2>4, <2>5 DEF ClientInit, ClientTypeOK
  <1> QED
    BY <1>2 DEF ClientInit, CInv, Timed, Counting, Once, OutcomeIsHonest, Refreshing, UnderWay

\* Every step of client, service and clock keeps it.
LEMMA CStep == CInv /\ [ClientNext]_clientVars => CInv'
  <1> SUFFICES ASSUME CInv, [ClientNext]_clientVars PROVE CInv'
    OBVIOUS
  <1> USE DEF CInv, ClientTypeOK, Phase, UnderWay, Answer, Raised, AuthErrors, Timed, Retryable, Method,
              Go, Send, Finish, auth, request, history
  <1>1. ASSUME NEW m \in Method, Call(m) PROVE CInv'
    <2>1. ClientTypeOK' /\ Timed'
      BY <1>1 DEF Call
    <2>2. Counting' /\ Refreshing'
      BY <1>1 DEF Call, Counting, Refreshing
    <2>3. Once' /\ OutcomeIsHonest'
      BY <1>1 DEF Call, Once, OutcomeIsHonest
    <2> QED
      BY <2>1, <2>2, <2>3
  <1>2. CASE Attempt
    <2>1. phase' = "fetch" \/ phase' = "sent"
      <3>1. CASE NeedsToken
        BY <1>2, <3>1 DEF Attempt
      <3>2. CASE ~NeedsToken
        BY <1>2, <3>2 DEF Attempt
      <3> QED
        BY <3>1, <3>2
    <2>2. ClientTypeOK' /\ Timed'
      <3>1. since' \in 0..MaxClock /\ since' <= clock
        BY <1>2 DEF Attempt
      <3>2. attempts' \in 0..MaxAttempts
        BY <1>2 DEF Attempt, Counting
      <3> QED
        BY <1>2, <2>1, <3>1, <3>2 DEF Attempt
    <2>3. Counting' /\ Refreshing'
      BY <1>2, <2>1 DEF Attempt, Counting, Refreshing
    <2>4. Once' /\ OutcomeIsHonest'
      BY <1>2, <2>1 DEF Attempt, Counting, Once, OutcomeIsHonest
    <2> QED
      BY <2>2, <2>3, <2>4
  <1>3. CASE Retry
    BY <1>3 DEF Retry, Counting, Once, OutcomeIsHonest, Refreshing
  <1>4. CASE IssueToken
    <2>1. pending' \in [life : Int, until : Int]
      <3>1. PICK life \in Lifetimes : pending' = Issue(life)
        BY <1>4 DEF IssueToken
      <3>2. life \in Int /\ clock \in Int
        OBVIOUS
      <3> QED
        BY <3>1, <3>2 DEF Issue
    <2> QED
      BY <1>4, <2>1 DEF IssueToken, Counting, Once, OutcomeIsHonest, Refreshing
  <1>5. CASE ReceiveToken
    <2>1. token' \in [life : Int, until : Int, lag : Int, renewAt : Int] /\ pending' \in [life : Int, until : Int]
      BY <1>5 DEF ReceiveToken, Store, NoPending
    <2>2. refreshable' \in BOOLEAN /\ refreshed' \in BOOLEAN
      BY <1>5 DEF ReceiveToken
    <2>3. since' = clock /\ phase' = "sent"
      BY <1>5 DEF ReceiveToken
    <2>4. ClientTypeOK' /\ Timed'
      BY <1>5, <2>1, <2>2, <2>3 DEF ReceiveToken
    <2>5. Counting' /\ Refreshing'
      BY <1>5, <2>3 DEF ReceiveToken, Counting, Refreshing
    <2>6. Once' /\ OutcomeIsHonest'
      BY <1>5, <2>3 DEF ReceiveToken, Once, OutcomeIsHonest
    <2> QED
      BY <2>4, <2>5, <2>6
  <1>6. CASE TokenFails
    BY <1>6 DEF TokenFails, NoPending, Counting, Once, OutcomeIsHonest, Refreshing
  <1>14. CASE TokenMalformed
    <2>1. token' \in [life : Int, until : Int, lag : Int, renewAt : Int]
      <3>1. Store(pending) \in [life : Int, until : Int, lag : Int, renewAt : Int]
        BY DEF Store
      <3>2. [Store(pending) EXCEPT !.renewAt = token.renewAt]
                \in [life : Int, until : Int, lag : Int, renewAt : Int]
        BY <3>1
      <3> QED
        BY <1>14, <3>2 DEF TokenMalformed
    <2>2. pending' \in [life : Int, until : Int]
      BY <1>14 DEF TokenMalformed, NoPending
    <2>3. refreshable' \in BOOLEAN
      BY <1>14 DEF TokenMalformed
    <2> QED
      BY <1>14, <2>1, <2>2, <2>3 DEF TokenMalformed, Counting, Once, OutcomeIsHonest, Refreshing
  <1>15. CASE RefreshFails
    BY <1>15 DEF RefreshFails, MayRetry, NoPending, Counting, Once, OutcomeIsHonest, Refreshing
  <1>7. CASE Handle
    <2>1. late' \in Nat
      BY <1>7 DEF Handle
    <2> QED
      BY <1>7, <2>1 DEF Handle, Counting, Once, OutcomeIsHonest, Refreshing
  <1>8. CASE Refresh
    BY <1>8 DEF Refresh, MayRefresh, Counting, Once, OutcomeIsHonest, Refreshing
  <1>9. CASE Respond
    BY <1>9 DEF Respond, MayRetry, Counting, Once, OutcomeIsHonest, Refreshing
  <1>10. CASE TransportFails
    BY <1>10 DEF TransportFails, MayRetry, Counting, Once, OutcomeIsHonest, Refreshing
  <1>11. CASE RequestFails
    BY <1>11 DEF RequestFails, Counting, Once, OutcomeIsHonest, Refreshing
  <1>12. CASE Tick
    BY <1>12 DEF Tick, Counting, Once, OutcomeIsHonest, Refreshing
  <1>13. CASE UNCHANGED clientVars
    BY <1>13 DEF clientVars, Counting, Once, OutcomeIsHonest, Refreshing
  <1> QED
    BY <1>1, <1>2, <1>3, <1>4, <1>5, <1>6, <1>7, <1>8, <1>9, <1>10, <1>11, <1>12, <1>13,
       <1>14, <1>15
       DEF ClientNext, Proceed

\* Every state of the client satisfies the inductive invariant.
THEOREM CInvHolds == ClientSpec => []CInv
  BY CInit, CStep, PTL DEF ClientSpec

\* Type correctness of the client, for every instance.
THEOREM ClientTypeCorrect == ClientSpec => []ClientTypeOK
  BY CInvHolds, PTL DEF CInv

\* An unsafe call is carried out at most once by ApiClient._execute, however
\* often the service loses answers or rejects tokens.
THEOREM UnsafeAtMostOnceHolds == ClientSpec => []UnsafeAtMostOnce
  <1>1. CInv => UnsafeAtMostOnce
    BY DEF CInv, ClientTypeOK, Phase, UnderWay, Counting, Once, UnsafeAtMostOnce, Method
  <1> QED
    BY <1>1, CInvHolds, PTL

\* The response or exception _execute_with_retry ends with is the truth about
\* the call.
THEOREM OutcomeIsHonestHolds == ClientSpec => []OutcomeIsHonest
  BY CInvHolds, PTL DEF CInv

\* JwtAuth refreshes at most once for every request httpx sends.
THEOREM RefreshesAreBoundedHolds == ClientSpec => []RefreshesAreBounded
  <1>1. CInv => RefreshesAreBounded
    BY DEF CInv, Refreshing, RefreshesAreBounded
  <1> QED
    BY <1>1, CInvHolds, PTL

-----------------------------------------------------------------------------
\* What a client-credentials client has checked of its token: the end it goes
\* by is the true one but for the lag and the margin, or has passed; and a
\* request goes out before that end or when the token arrives.
Checked ==
    strategy = ClientCredentials =>
        /\ phase # "refresh"
        /\ phase = "fetch" => token.renewAt <= clock
        /\ token.renewAt <= clock \/ token.renewAt = token.until + token.lag - Margin
        /\ phase = "sent" =>
               \/ since < token.until + token.lag - Margin
               \/ since = token.until + token.lag - token.life

DInv == CInv /\ Checked /\ ExpiredIsLate

\* The first state satisfies the invariant of client-credentials tokens.
LEMMA DInit == ClientInit => DInv
  <1> SUFFICES ASSUME ClientInit PROVE DInv
    OBVIOUS
  <1>1. strategy = ClientCredentials => token.renewAt = -1
    BY DEF ClientInit, ClientCredentials, Jwt, NoToken
  <1>2. Checked /\ ExpiredIsLate
    BY <1>1 DEF ClientInit, Checked, ExpiredIsLate
  <1> QED
    BY <1>2, CInit DEF DInv

\* Every step keeps it.
LEMMA DStep == DInv /\ [ClientNext]_clientVars => DInv'
  <1> SUFFICES ASSUME DInv, [ClientNext]_clientVars PROVE DInv'
    OBVIOUS
  <1>0. CInv'
    BY CStep DEF DInv
  <1> USE <1>0 DEF DInv, CInv, ClientTypeOK, Timed, Go, Send, Finish, auth, request, history
  <1>1. ASSUME NEW m \in Method, Call(m) PROVE DInv'
    BY <1>1 DEF Call, Checked, ExpiredIsLate
  <1>2. CASE Attempt
    <2>1. \/ phase' = "fetch" /\ NeedsToken
          \/ phase' = "sent" /\ ~NeedsToken
      BY <1>2 DEF Attempt
    <2>2. since' = clock
      BY <1>2 DEF Attempt
    <2>3. strategy = ClientCredentials => NeedsToken <=> clock >= token.renewAt
      <3>1. token = NoToken => token.renewAt <= clock
        BY DEF NoToken
      <3> QED
        BY <3>1 DEF NeedsToken, ClientCredentials, AuthorizationCode
    <2> QED
      BY <1>2, <2>1, <2>2, <2>3 DEF Attempt, Checked, ExpiredIsLate
  <1>3. CASE Retry
    BY <1>3 DEF Retry, Checked, ExpiredIsLate
  <1>4. CASE IssueToken
    BY <1>4 DEF IssueToken, Checked, ExpiredIsLate
  <1>5. CASE ReceiveToken
    <2>1. /\ token'.renewAt = clock + pending.life - Margin
          /\ token'.until + token'.lag = clock + pending.life /\ token'.life = pending.life
      BY <1>5 DEF ReceiveToken, Store
    <2> QED
      BY <1>5, <2>1 DEF ReceiveToken, Checked, ExpiredIsLate
  <1>6. CASE TokenFails
    BY <1>6 DEF TokenFails, Checked, ExpiredIsLate
  <1>7. CASE Handle
    <2>1. outcome' = "unauthorized" /\ strategy = ClientCredentials => clock >= token.until
      BY <1>7 DEF Handle, Expired, Retryable
    <2>2. outcome' = "unauthorized" /\ strategy = ClientCredentials => late' = clock - since
      BY <1>7, <2>1 DEF Handle, Expired, StaticAuth, ClientCredentials
    <2> QED
      BY <1>7, <2>1, <2>2 DEF Handle, Checked, ExpiredIsLate
  <1>8. CASE Refresh
    BY <1>8 DEF Refresh, MayRefresh, Jwt, ClientCredentials, Checked, ExpiredIsLate
  <1>9. CASE Respond
    BY <1>9 DEF Respond, Checked, ExpiredIsLate
  <1>10. CASE TransportFails
    BY <1>10 DEF TransportFails, Checked, ExpiredIsLate
  <1>11. CASE RequestFails
    BY <1>11 DEF RequestFails, Checked, ExpiredIsLate
  <1>12. CASE Tick
    BY <1>12 DEF Tick, Checked, ExpiredIsLate
  <1>13. CASE UNCHANGED clientVars
    BY <1>13 DEF clientVars, Checked, ExpiredIsLate
  <1>14. CASE TokenMalformed
    <2>1. token'.renewAt = token.renewAt
      BY <1>14 DEF TokenMalformed, Store
    <2> QED
      BY <1>14, <2>1 DEF TokenMalformed, Checked, ExpiredIsLate
  <1>15. CASE RefreshFails
    BY <1>15 DEF RefreshFails, Checked, ExpiredIsLate
  <1> QED
    BY <1>1, <1>2, <1>3, <1>4, <1>5, <1>6, <1>7, <1>8, <1>9, <1>10, <1>11, <1>12, <1>13,
       <1>14, <1>15
       DEF ClientNext, Proceed

\* OAuth2ClientCredentialsAuth: whatever the delays, the margin and the
\* lifetimes, a call gets a 401 from an expired token only if the token's
\* answer and the request that carried it were together slower than the margin.
THEOREM ExpiredIsLateHolds == ClientSpec => []ExpiredIsLate
  <1>1. DInv => ExpiredIsLate
    BY DEF DInv
  <1> QED
    BY <1>1, DInit, DStep, PTL DEF ClientSpec

-----------------------------------------------------------------------------
(* Browser sessions and the saved login. *)

USE RecordAssumption, BoundAssumption

\* Only tests that were started have errors, the running one has none yet.
Numbered == \A w \in Worker :
    /\ errored[w] \subseteq 1..test[w]
    /\ lost[w] \subseteq errored[w]
    /\ Running(w) => test[w] \in Test /\ test[w] \notin errored[w]

\* A login's context is closed before its test goes on.
LoginClosed == \A w \in Worker :
    Running(w) /\ stage[w] \notin {"save", "write"} => Own(w, "login") \notin contexts[w]

\* A test found its browser up when it began: if it is gone, a death is not
\* accounted for yet.
Accounted == \A w \in Worker :
    /\ Cardinality(lost[w]) <= crashes[w]
    /\ stage[w] \notin {"idle", "auth", "launch"} /\ ~Up(w) => Cardinality(lost[w]) < crashes[w]

\* A login a death has broken is one of an earlier test, and so are those that
\* spoilt a test.
Costly == \A w \in Worker :
    /\ login[w] = "broken" =>
           \E l \in broken[w] : l <= test[w] /\ (Running(w) => l < test[w])
    /\ \A t \in spoilt[w] : \E l \in broken[w] : l < t

\* A login that was tried is under way or has left its result.
LoginTried == \A w \in Worker :
    /\ tries[w] <= 1
    /\ tries[w] = 1 => login[w] # "unset" \/ stage[w] \in {"login", "save", "write"}

\* What has been captured at each stage of the teardown.
CapturedAt(w) ==
    /\ stage[w] \in Setup \cup {"body", "capture"} => artifacts[w] = {}
    /\ stage[w] = "capture" => failed[w] = TRUE /\ "screenshot" \in Record
    /\ stage[w] = "trace" /\ failed[w] = TRUE =>
           "trace" \in Record /\ artifacts[w] = Record \ {"trace"}
    /\ stage[w] = "trace" /\ failed[w] # TRUE => "trace" \in Record /\ artifacts[w] = {}
    /\ stage[w] = "close" => artifacts[w] = IF failed[w] = TRUE THEN Record ELSE {}
Captured == \A w \in Worker : CapturedAt(w)

\* What is left of Record with the screenshot or the trace taken.
LEMMA Recorded ==
    /\ "trace" \in Record => (Record \ {"trace"}) \cup {"trace"} = Record
    /\ "screenshot" \notin Record => Record \ {"trace"} = {}
    /\ "screenshot" \in Record => Record \ {"trace"} = {"screenshot"}
    /\ "trace" \notin Record => Record \ {"trace"} = Record
  OBVIOUS

\* Counting the running test among those that lost their browser adds one.
LEMMA LostOne ==
  ASSUME TypeOK, Numbered, NEW w \in Worker
  PROVE  /\ Cardinality(lost[w]) \in Nat
         /\ Running(w) => Cardinality(lost[w] \cup {test[w]}) = Cardinality(lost[w]) + 1
  <1>1. IsFiniteSet(Test)
    BY FS_Interval DEF Test
  <1>2. lost[w] \subseteq Test
    BY DEF TypeOK
  <1>3. IsFiniteSet(lost[w])
    BY <1>1, <1>2, FS_Subset
  <1>4. Running(w) => test[w] \notin lost[w]
    BY DEF Numbered
  <1> QED
    BY <1>3, <1>4, FS_CardinalityType, FS_AddElement

\* The first state satisfies each invariant.
LEMMA InitAll == Init => TypeOK /\ Numbered /\ LoginClosed /\ LeaksAreErrors
                           /\ Accounted /\ Costly /\ LoginTried /\ Captured /\ ArtifactsTellFailure
  <1> SUFFICES ASSUME Init
               PROVE TypeOK /\ Numbered /\ LoginClosed /\ LeaksAreErrors
                       /\ Accounted /\ Costly /\ LoginTried /\ Captured /\ ArtifactsTellFailure
    OBVIOUS
  <1>1. TypeOK
    BY DEF Init, TypeOK, File, Readable, Stage, Context, Test
  <1>2. Numbered /\ LoginClosed /\ LeaksAreErrors /\ LoginTried /\ Captured /\ ArtifactsTellFailure
    BY DEF Init, Numbered, LoginClosed, LeaksAreErrors, LoginTried, Captured, CapturedAt,
           ArtifactsTellFailure, Running, Setup, Up, Own
  <1>3. Accounted /\ Costly
    BY FS_EmptySet DEF Init, Accounted, Costly
  <1> QED
    BY <1>1, <1>2, <1>3

\* Every step keeps the types.
LEMMA StepType == TypeOK /\ Numbered /\ Captured /\ [Next]_vars => TypeOK'
  <1> SUFFICES ASSUME TypeOK, Numbered, Captured, [Next]_vars PROVE TypeOK'
    OBVIOUS
  <1> USE DEF TypeOK, Numbered, Captured, CapturedAt, Stage, Setup, Teardown, File, Readable, Context, Test, Running, Up, Advance, Own, Holding, report, mishaps, session, Raise
  <1>1. ASSUME NEW w \in Worker, NEW fixture \in {"page", "authenticated_page"}, StartTest(w, fixture)
        PROVE  TypeOK'
    BY <1>1 DEF StartTest
  <1>2. ASSUME NEW w \in Worker, Launch(w) PROVE TypeOK'
    BY <1>2 DEF Launch, GetBrowser
  <1>3. ASSUME NEW w \in Worker, LaunchFails(w) PROVE TypeOK'
    BY <1>3 DEF LaunchFails
  <1>4. ASSUME NEW w \in Worker, LoginLaunchFails(w) PROVE TypeOK'
    BY <1>4 DEF LoginLaunchFails
  <1>5. ASSUME NEW w \in Worker, Cached(w) PROVE TypeOK'
    BY <1>5 DEF Cached
  <1>6. ASSUME NEW w \in Worker, CachedError(w) PROVE TypeOK'
    BY <1>6 DEF CachedError
  <1>7. ASSUME NEW w \in Worker, CheckState(w) PROVE TypeOK'
    <2>1. browser' \in [Worker -> {"none", "up", "down"}]
      BY <1>7 DEF CheckState, GetBrowser
    <2>2. CASE file = "fresh"
      <3>1. login' \in [Worker -> {"unset", "ready", "failed", "broken"}]
        BY <1>7, <2>2 DEF CheckState
      <3>2. stage' \in [Worker -> Stage] /\ tries' = tries
        BY <1>7, <2>2 DEF CheckState
      <3> QED
        BY <1>7, <2>1, <3>1, <3>2 DEF CheckState
    <2>3. CASE file /= "fresh"
      <3>1. tries' \in [Worker -> Nat]
        BY <1>7, <2>3 DEF CheckState
      <3>2. stage' \in [Worker -> Stage] /\ login' = login
        BY <1>7, <2>3 DEF CheckState
      <3> QED
        BY <1>7, <2>1, <3>1, <3>2 DEF CheckState
    <2> QED
      BY <2>2, <2>3
  <1>8. ASSUME NEW w \in Worker, Login(w) PROVE TypeOK'
    BY <1>8 DEF Login
  <1>9. ASSUME NEW w \in Worker, LoginFails(w) PROVE TypeOK'
    <2>1. CASE Up(w)
      BY <1>9, <2>1 DEF LoginFails, LoginError
    <2>2. CASE ~Up(w)
      <3>1. /\ login' \in [Worker -> {"unset", "ready", "failed", "broken"}]
            /\ test[w] \in Test
        BY <1>9, <2>2 DEF LoginFails, LoginError
      <3>2. lost' \in [Worker -> SUBSET Test] /\ broken' \in [Worker -> SUBSET Test]
        BY <1>9, <2>2, <3>1 DEF LoginFails, LoginError
      <3> QED
        BY <1>9, <3>1, <3>2 DEF LoginFails, LoginError
    <2> QED
      BY <2>1, <2>2
  <1>10. ASSUME NEW w \in Worker, TruncateState(w) PROVE TypeOK'
    BY <1>10 DEF TruncateState
  <1>11. ASSUME NEW w \in Worker, WriteState(w) PROVE TypeOK'
    BY <1>11 DEF WriteState
  <1>12. ASSUME NEW w \in Worker, SaveFails(w) PROVE TypeOK'
    <2>1. CASE Up(w)
      BY <1>12, <2>1 DEF SaveFails, LoginError
    <2>2. CASE ~Up(w)
      <3>1. /\ login' \in [Worker -> {"unset", "ready", "failed", "broken"}]
            /\ test[w] \in Test
        BY <1>12, <2>2 DEF SaveFails, LoginError
      <3>2. lost' \in [Worker -> SUBSET Test] /\ broken' \in [Worker -> SUBSET Test]
        BY <1>12, <2>2, <3>1 DEF SaveFails, LoginError
      <3> QED
        BY <1>12, <3>1, <3>2 DEF SaveFails, LoginError
    <2> QED
      BY <2>1, <2>2
  <1>13. ASSUME NEW w \in Worker, OpenContext(w) PROVE TypeOK'
    BY <1>13 DEF OpenContext
  <1>14. ASSUME NEW w \in Worker, NewPage(w) PROVE TypeOK'
    BY <1>14 DEF NewPage
  <1>15. ASSUME NEW w \in Worker, StartFails(w) PROVE TypeOK'
    BY <1>15 DEF StartFails, Error
  <1>16. ASSUME NEW w \in Worker, EndBody(w) PROVE TypeOK'
    BY <1>16 DEF EndBody, AfterBody
  <1>17. ASSUME NEW w \in Worker, Capture(w) PROVE TypeOK'
    <2>1. artifacts[w] \cup {"screenshot"} \in SUBSET Record
      <3>1. artifacts[w] \in SUBSET Record /\ stage[w] = "capture"
        BY <1>17 DEF Capture
      <3>2. "screenshot" \in Record
        BY <3>1
      <3> QED
        BY <3>1, <3>2
    <2>2. artifacts' \in [Worker -> SUBSET Record]
      BY <1>17, <2>1 DEF Capture
    <2>3. stage' \in [Worker -> Stage]
      BY <1>17 DEF Capture
    <2> QED
      BY <1>17, <2>2, <2>3 DEF Capture
  <1>18. ASSUME NEW w \in Worker, StopTrace(w) PROVE TypeOK'
    <2>1. artifacts[w] \cup {"trace"} \in SUBSET Record
      <3>1. artifacts[w] \in SUBSET Record /\ stage[w] = "trace"
        BY <1>18 DEF StopTrace
      <3>2. "trace" \in Record
        BY <3>1
      <3> QED
        BY <3>1, <3>2
    <2>2. artifacts' \in [Worker -> SUBSET Record]
      BY <1>18, <2>1 DEF StopTrace
    <2>3. stage' \in [Worker -> Stage]
      BY <1>18 DEF StopTrace
    <2> QED
      BY <1>18, <2>2, <2>3 DEF StopTrace
  <1>19. ASSUME NEW w \in Worker, CloseContext(w) PROVE TypeOK'
    BY <1>19 DEF CloseContext
  <1>20. ASSUME NEW w \in Worker, FinalizeFails(w) PROVE TypeOK'
    BY <1>20 DEF FinalizeFails, Error
  <1>21. ASSUME NEW w \in Worker, EndSession(w) PROVE TypeOK'
    BY <1>21 DEF EndSession, NewSession
  <1>22. ASSUME NEW w \in Worker, WorkerDies(w) PROVE TypeOK'
    BY <1>22 DEF WorkerDies, NewSession
  <1>23. ASSUME NEW w \in Worker, BrowserDies(w) PROVE TypeOK'
    BY <1>23 DEF BrowserDies
  <1>24. CASE Expire
    BY <1>24 DEF Expire
  <1>25. CASE UNCHANGED vars
    BY <1>25 DEF vars
  <1> HIDE DEF TypeOK, Numbered, Captured
  <1> QED
    BY <1>1, <1>2, <1>3, <1>4, <1>5, <1>6, <1>7, <1>8, <1>9, <1>10, <1>11, <1>12, <1>13, <1>14, <1>15, <1>16, <1>17, <1>18, <1>19, <1>20, <1>21, <1>22, <1>23, <1>24, <1>25 DEF Next

\* Every step keeps the numbers of tests with errors.
LEMMA StepNumbered == TypeOK /\ Numbered /\ [Next]_vars => Numbered'
  <1> SUFFICES ASSUME TypeOK, Numbered, [Next]_vars PROVE Numbered'
    OBVIOUS
  <1> USE DEF TypeOK, Numbered, Test, Running, Up, Advance, Setup, Teardown, report, mishaps, session, Raise
  <1>1. ASSUME NEW w \in Worker, NEW fixture \in {"page", "authenticated_page"}, StartTest(w, fixture)
        PROVE  Numbered'
    BY <1>1 DEF StartTest
  <1>2. ASSUME NEW w \in Worker, Launch(w) PROVE Numbered'
    BY <1>2 DEF Launch, GetBrowser
  <1>3. ASSUME NEW w \in Worker, LaunchFails(w) PROVE Numbered'
    BY <1>3 DEF LaunchFails
  <1>4. ASSUME NEW w \in Worker, LoginLaunchFails(w) PROVE Numbered'
    BY <1>4 DEF LoginLaunchFails
  <1>5. ASSUME NEW w \in Worker, Cached(w) PROVE Numbered'
    BY <1>5 DEF Cached
  <1>6. ASSUME NEW w \in Worker, CachedError(w) PROVE Numbered'
    BY <1>6 DEF CachedError
  <1>7. ASSUME NEW w \in Worker, CheckState(w) PROVE Numbered'
    BY <1>7 DEF CheckState, GetBrowser
  <1>8. ASSUME NEW w \in Worker, Login(w) PROVE Numbered'
    BY <1>8 DEF Login
  <1>9. ASSUME NEW w \in Worker, LoginFails(w) PROVE Numbered'
    BY <1>9 DEF LoginFails, LoginError
  <1>10. ASSUME NEW w \in Worker, TruncateState(w) PROVE Numbered'
    BY <1>10 DEF TruncateState
  <1>11. ASSUME NEW w \in Worker, WriteState(w) PROVE Numbered'
    BY <1>11 DEF WriteState
  <1>12. ASSUME NEW w \in Worker, SaveFails(w) PROVE Numbered'
    BY <1>12 DEF SaveFails, LoginError
  <1>13. ASSUME NEW w \in Worker, OpenContext(w) PROVE Numbered'
    BY <1>13 DEF OpenContext
  <1>14. ASSUME NEW w \in Worker, NewPage(w) PROVE Numbered'
    BY <1>14 DEF NewPage
  <1>15. ASSUME NEW w \in Worker, StartFails(w) PROVE Numbered'
    BY <1>15 DEF StartFails, Error
  <1>16. ASSUME NEW w \in Worker, EndBody(w) PROVE Numbered'
    BY <1>16 DEF EndBody, AfterBody
  <1>17. ASSUME NEW w \in Worker, Capture(w) PROVE Numbered'
    BY <1>17 DEF Capture
  <1>18. ASSUME NEW w \in Worker, StopTrace(w) PROVE Numbered'
    BY <1>18 DEF StopTrace
  <1>19. ASSUME NEW w \in Worker, CloseContext(w) PROVE Numbered'
    BY <1>19 DEF CloseContext
  <1>20. ASSUME NEW w \in Worker, FinalizeFails(w) PROVE Numbered'
    BY <1>20 DEF FinalizeFails, Error
  <1>21. ASSUME NEW w \in Worker, EndSession(w) PROVE Numbered'
    BY <1>21 DEF EndSession, NewSession
  <1>22. ASSUME NEW w \in Worker, WorkerDies(w) PROVE Numbered'
    BY <1>22 DEF WorkerDies, NewSession
  <1>23. ASSUME NEW w \in Worker, BrowserDies(w) PROVE Numbered'
    BY <1>23 DEF BrowserDies
  <1>24. CASE Expire
    BY <1>24 DEF Expire
  <1>25. CASE UNCHANGED vars
    BY <1>25 DEF vars
  <1> HIDE DEF TypeOK, Numbered
  <1> QED
    BY <1>1, <1>2, <1>3, <1>4, <1>5, <1>6, <1>7, <1>8, <1>9, <1>10, <1>11, <1>12, <1>13, <1>14, <1>15, <1>16, <1>17, <1>18, <1>19, <1>20, <1>21, <1>22, <1>23, <1>24, <1>25 DEF Next

\* Every step keeps the login's context closed.
LEMMA StepLoginClosed == TypeOK /\ Numbered /\ LoginClosed /\ LeaksAreErrors /\ [Next]_vars => LoginClosed'
  <1> SUFFICES ASSUME TypeOK, Numbered, LoginClosed, LeaksAreErrors, [Next]_vars PROVE LoginClosed'
    OBVIOUS
  <1> USE DEF TypeOK, Numbered, LoginClosed, LeaksAreErrors, Test, Running, Advance, Own, Holding, Context, Setup, Teardown, report, mishaps, session, Raise
  <1>1. ASSUME NEW w \in Worker, NEW fixture \in {"page", "authenticated_page"}, StartTest(w, fixture)
        PROVE  LoginClosed'
    BY <1>1 DEF StartTest
  <1>2. ASSUME NEW w \in Worker, Launch(w) PROVE LoginClosed'
    BY <1>2 DEF Launch, GetBrowser
  <1>3. ASSUME NEW w \in Worker, LaunchFails(w) PROVE LoginClosed'
    BY <1>3 DEF LaunchFails
  <1>4. ASSUME NEW w \in Worker, LoginLaunchFails(w) PROVE LoginClosed'
    BY <1>4 DEF LoginLaunchFails
  <1>5. ASSUME NEW w \in Worker, Cached(w) PROVE LoginClosed'
    BY <1>5 DEF Cached
  <1>6. ASSUME NEW w \in Worker, CachedError(w) PROVE LoginClosed'
    BY <1>6 DEF CachedError
  <1>7. ASSUME NEW w \in Worker, CheckState(w) PROVE LoginClosed'
    BY <1>7 DEF CheckState, GetBrowser
  <1>8. ASSUME NEW w \in Worker, Login(w) PROVE LoginClosed'
    BY <1>8 DEF Login
  <1>9. ASSUME NEW w \in Worker, LoginFails(w) PROVE LoginClosed'
    BY <1>9 DEF LoginFails, LoginError
  <1>10. ASSUME NEW w \in Worker, TruncateState(w) PROVE LoginClosed'
    BY <1>10 DEF TruncateState
  <1>11. ASSUME NEW w \in Worker, WriteState(w) PROVE LoginClosed'
    BY <1>11 DEF WriteState
  <1>12. ASSUME NEW w \in Worker, SaveFails(w) PROVE LoginClosed'
    BY <1>12 DEF SaveFails, LoginError
  <1>13. ASSUME NEW w \in Worker, OpenContext(w) PROVE LoginClosed'
    BY <1>13 DEF OpenContext
  <1>14. ASSUME NEW w \in Worker, NewPage(w) PROVE LoginClosed'
    BY <1>14 DEF NewPage
  <1>15. ASSUME NEW w \in Worker, StartFails(w) PROVE LoginClosed'
    BY <1>15 DEF StartFails, Error
  <1>16. ASSUME NEW w \in Worker, EndBody(w) PROVE LoginClosed'
    BY <1>16 DEF EndBody, AfterBody
  <1>17. ASSUME NEW w \in Worker, Capture(w) PROVE LoginClosed'
    BY <1>17 DEF Capture
  <1>18. ASSUME NEW w \in Worker, StopTrace(w) PROVE LoginClosed'
    BY <1>18 DEF StopTrace
  <1>19. ASSUME NEW w \in Worker, CloseContext(w) PROVE LoginClosed'
    BY <1>19 DEF CloseContext
  <1>20. ASSUME NEW w \in Worker, FinalizeFails(w) PROVE LoginClosed'
    BY <1>20 DEF FinalizeFails, Error
  <1>21. ASSUME NEW w \in Worker, EndSession(w) PROVE LoginClosed'
    BY <1>21 DEF EndSession, NewSession
  <1>22. ASSUME NEW w \in Worker, WorkerDies(w) PROVE LoginClosed'
    BY <1>22 DEF WorkerDies, NewSession
  <1>23. ASSUME NEW w \in Worker, BrowserDies(w) PROVE LoginClosed'
    BY <1>23 DEF BrowserDies
  <1>24. CASE Expire
    BY <1>24 DEF Expire
  <1>25. CASE UNCHANGED vars
    BY <1>25 DEF vars
  <1> HIDE DEF TypeOK, Numbered, LoginClosed, LeaksAreErrors
  <1> QED
    BY <1>1, <1>2, <1>3, <1>4, <1>5, <1>6, <1>7, <1>8, <1>9, <1>10, <1>11, <1>12, <1>13, <1>14, <1>15, <1>16, <1>17, <1>18, <1>19, <1>20, <1>21, <1>22, <1>23, <1>24, <1>25 DEF Next

\* The contexts of a test are the one of its login and its own.
LEMMA OwnContexts ==
  ASSUME TypeOK, NEW w \in Worker, NEW c \in contexts[w], c.of = test[w]
  PROVE  c \in {Own(w, "login"), Own(w, "test")}
  <1>1. c \in Context
    BY DEF TypeOK
  <1> QED
    BY <1>1 DEF Context, Own

\* A test that closes its context leaves none of its own.
LEMMA CloseContextLeaks ==
  ASSUME TypeOK, LoginClosed, LeaksAreErrors, NEW w \in Worker, CloseContext(w)
  PROVE  LeaksAreErrors'
  <1>1. /\ stage[w] = "close" /\ Own(w, "login") \notin contexts[w]
        /\ contexts' = [contexts EXCEPT ![w] = contexts[w] \ {Own(w, "test")}]
        /\ stage' = [stage EXCEPT ![w] = "idle"] /\ test' = test /\ errored' = errored
    BY DEF CloseContext, Holding, Advance, mishaps, LoginClosed, Running
  <1>2. contexts \in [Worker -> SUBSET Context] /\ stage \in [Worker -> Stage]
    BY DEF TypeOK
  <1>3. ASSUME NEW c \in contexts'[w] PROVE c.of \in errored'[w]
    <2>1. c \in contexts[w] /\ c # Own(w, "test") /\ c # Own(w, "login")
      BY <1>1, <1>2, <1>3
    <2>2. c.of # test[w]
      BY <2>1, OwnContexts
    <2> QED
      BY <1>1, <2>1, <2>2 DEF LeaksAreErrors
  <1>4. ASSUME NEW v \in Worker, v # w, NEW c \in contexts'[v]
        PROVE  (c.of = test'[v] /\ Running(v)') \/ c.of \in errored'[v]
    <2>1. c \in contexts[v] /\ stage'[v] = stage[v]
      BY <1>1, <1>2, <1>4
    <2> QED
      BY <1>1, <2>1 DEF LeaksAreErrors, Running
  <1> QED
    BY <1>3, <1>4 DEF LeaksAreErrors

\* Every step leaves contexts open of failed tests only.
LEMMA StepLeaks == TypeOK /\ Numbered /\ LoginClosed /\ LeaksAreErrors /\ [Next]_vars => LeaksAreErrors'
  <1> SUFFICES ASSUME TypeOK, Numbered, LoginClosed, LeaksAreErrors, [Next]_vars PROVE LeaksAreErrors'
    OBVIOUS
  <1> USE DEF TypeOK, Numbered, LoginClosed, LeaksAreErrors, Test, Running, Advance, Own, Holding, Context, Setup, Teardown, report, mishaps, session, Raise
  <1>1. ASSUME NEW w \in Worker, NEW fixture \in {"page", "authenticated_page"}, StartTest(w, fixture)
        PROVE  LeaksAreErrors'
    BY <1>1 DEF StartTest
  <1>2. ASSUME NEW w \in Worker, Launch(w) PROVE LeaksAreErrors'
    BY <1>2 DEF Launch, GetBrowser
  <1>3. ASSUME NEW w \in Worker, LaunchFails(w) PROVE LeaksAreErrors'
    BY <1>3 DEF LaunchFails
  <1>4. ASSUME NEW w \in Worker, LoginLaunchFails(w) PROVE LeaksAreErrors'
    BY <1>4 DEF LoginLaunchFails
  <1>5. ASSUME NEW w \in Worker, Cached(w) PROVE LeaksAreErrors'
    BY <1>5 DEF Cached
  <1>6. ASSUME NEW w \in Worker, CachedError(w) PROVE LeaksAreErrors'
    BY <1>6 DEF CachedError
  <1>7. ASSUME NEW w \in Worker, CheckState(w) PROVE LeaksAreErrors'
    BY <1>7 DEF CheckState, GetBrowser
  <1>8. ASSUME NEW w \in Worker, Login(w) PROVE LeaksAreErrors'
    BY <1>8 DEF Login
  <1>9. ASSUME NEW w \in Worker, LoginFails(w) PROVE LeaksAreErrors'
    BY <1>9 DEF LoginFails, LoginError
  <1>10. ASSUME NEW w \in Worker, TruncateState(w) PROVE LeaksAreErrors'
    BY <1>10 DEF TruncateState
  <1>11. ASSUME NEW w \in Worker, WriteState(w) PROVE LeaksAreErrors'
    BY <1>11 DEF WriteState
  <1>12. ASSUME NEW w \in Worker, SaveFails(w) PROVE LeaksAreErrors'
    BY <1>12 DEF SaveFails, LoginError
  <1>13. ASSUME NEW w \in Worker, OpenContext(w) PROVE LeaksAreErrors'
    BY <1>13 DEF OpenContext
  <1>14. ASSUME NEW w \in Worker, NewPage(w) PROVE LeaksAreErrors'
    BY <1>14 DEF NewPage
  <1>15. ASSUME NEW w \in Worker, StartFails(w) PROVE LeaksAreErrors'
    BY <1>15 DEF StartFails, Error
  <1>16. ASSUME NEW w \in Worker, EndBody(w) PROVE LeaksAreErrors'
    BY <1>16 DEF EndBody, AfterBody
  <1>17. ASSUME NEW w \in Worker, Capture(w) PROVE LeaksAreErrors'
    BY <1>17 DEF Capture
  <1>18. ASSUME NEW w \in Worker, StopTrace(w) PROVE LeaksAreErrors'
    BY <1>18 DEF StopTrace
  <1>19. ASSUME NEW w \in Worker, CloseContext(w) PROVE LeaksAreErrors'
    BY <1>19, CloseContextLeaks
  <1>20. ASSUME NEW w \in Worker, FinalizeFails(w) PROVE LeaksAreErrors'
    BY <1>20 DEF FinalizeFails, Error
  <1>21. ASSUME NEW w \in Worker, EndSession(w) PROVE LeaksAreErrors'
    BY <1>21 DEF EndSession, NewSession
  <1>22. ASSUME NEW w \in Worker, WorkerDies(w) PROVE LeaksAreErrors'
    BY <1>22 DEF WorkerDies, NewSession
  <1>23. ASSUME NEW w \in Worker, BrowserDies(w) PROVE LeaksAreErrors'
    BY <1>23 DEF BrowserDies
  <1>24. CASE Expire
    BY <1>24 DEF Expire
  <1>25. CASE UNCHANGED vars
    BY <1>25 DEF vars
  <1> HIDE DEF TypeOK, Numbered, LoginClosed, LeaksAreErrors
  <1> QED
    BY <1>1, <1>2, <1>3, <1>4, <1>5, <1>6, <1>7, <1>8, <1>9, <1>10, <1>11, <1>12, <1>13, <1>14, <1>15, <1>16, <1>17, <1>18, <1>19, <1>20, <1>21, <1>22, <1>23, <1>24, <1>25 DEF Next

\* Every step keeps the account of lost browsers.
LEMMA StepAccounted == TypeOK /\ Numbered /\ Accounted /\ [Next]_vars => Accounted'
  <1> SUFFICES ASSUME TypeOK, Numbered, Accounted, [Next]_vars PROVE Accounted'
    OBVIOUS
  <1> USE DEF TypeOK, Numbered, Accounted, Running, Up, Advance, Setup, Teardown, report, mishaps, session, Raise
  <1>0. \A v \in Worker :
           /\ Cardinality(lost[v]) \in Nat
           /\ Running(v) => Cardinality(lost[v] \cup {test[v]}) = Cardinality(lost[v]) + 1
    BY LostOne
  <1>1. ASSUME NEW w \in Worker, NEW fixture \in {"page", "authenticated_page"}, StartTest(w, fixture)
        PROVE  Accounted'
    BY <1>0, <1>1 DEF StartTest
  <1>2. ASSUME NEW w \in Worker, Launch(w) PROVE Accounted'
    BY <1>0, <1>2 DEF Launch, GetBrowser
  <1>3. ASSUME NEW w \in Worker, LaunchFails(w) PROVE Accounted'
    BY <1>0, <1>3 DEF LaunchFails
  <1>4. ASSUME NEW w \in Worker, LoginLaunchFails(w) PROVE Accounted'
    BY <1>0, <1>4 DEF LoginLaunchFails
  <1>5. ASSUME NEW w \in Worker, Cached(w) PROVE Accounted'
    BY <1>0, <1>5 DEF Cached
  <1>6. ASSUME NEW w \in Worker, CachedError(w) PROVE Accounted'
    BY <1>0, <1>6 DEF CachedError
  <1>7. ASSUME NEW w \in Worker, CheckState(w) PROVE Accounted'
    BY <1>0, <1>7 DEF CheckState, GetBrowser
  <1>8. ASSUME NEW w \in Worker, Login(w) PROVE Accounted'
    BY <1>0, <1>8 DEF Login
  <1>9. ASSUME NEW w \in Worker, LoginFails(w) PROVE Accounted'
    <2>1. ASSUME NEW v \in Worker, v /= w
          PROVE  lost'[v] = lost[v] /\ crashes'[v] = crashes[v] /\ stage'[v] = stage[v]
                 /\ browser'[v] = browser[v]
      BY <1>9, <2>1 DEF LoginFails, LoginError
    <2>2. stage'[w] = "idle" /\ crashes'[w] = crashes[w] /\ Running(w)
          /\ stage[w] \notin {"idle", "auth", "launch"}
      BY <1>9 DEF LoginFails, LoginError
    <2>3. lost'[w] = IF Up(w) THEN lost[w] ELSE lost[w] \cup {test[w]}
      BY <1>9 DEF LoginFails, LoginError
    <2>4. Cardinality(lost'[w]) <= crashes[w]
      BY <1>0, <2>2, <2>3
    <2> QED
      BY <2>1, <2>2, <2>4
  <1>10. ASSUME NEW w \in Worker, TruncateState(w) PROVE Accounted'
    BY <1>0, <1>10 DEF TruncateState
  <1>11. ASSUME NEW w \in Worker, WriteState(w) PROVE Accounted'
    BY <1>0, <1>11 DEF WriteState
  <1>12. ASSUME NEW w \in Worker, SaveFails(w) PROVE Accounted'
    <2>1. ASSUME NEW v \in Worker, v /= w
          PROVE  lost'[v] = lost[v] /\ crashes'[v] = crashes[v] /\ stage'[v] = stage[v]
                 /\ browser'[v] = browser[v]
      BY <1>12, <2>1 DEF SaveFails, LoginError
    <2>2. stage'[w] = "idle" /\ crashes'[w] = crashes[w] /\ Running(w)
          /\ stage[w] \notin {"idle", "auth", "launch"}
      BY <1>12 DEF SaveFails, LoginError
    <2>3. lost'[w] = IF Up(w) THEN lost[w] ELSE lost[w] \cup {test[w]}
      BY <1>12 DEF SaveFails, LoginError
    <2>4. Cardinality(lost'[w]) <= crashes[w]
      BY <1>0, <2>2, <2>3
    <2> QED
      BY <2>1, <2>2, <2>4
  <1>13. ASSUME NEW w \in Worker, OpenContext(w) PROVE Accounted'
    BY <1>0, <1>13 DEF OpenContext
  <1>14. ASSUME NEW w \in Worker, NewPage(w) PROVE Accounted'
    BY <1>0, <1>14 DEF NewPage
  <1>15. ASSUME NEW w \in Worker, StartFails(w) PROVE Accounted'
    <2>1. ASSUME NEW v \in Worker, v /= w
          PROVE  lost'[v] = lost[v] /\ crashes'[v] = crashes[v] /\ stage'[v] = stage[v]
                 /\ browser'[v] = browser[v]
      BY <1>15, <2>1 DEF StartFails, Error
    <2>2. stage'[w] = "idle" /\ crashes'[w] = crashes[w] /\ Running(w)
          /\ stage[w] \notin {"idle", "auth", "launch"}
      BY <1>15 DEF StartFails, Error
    <2>3. lost'[w] = IF Up(w) THEN lost[w] ELSE lost[w] \cup {test[w]}
      BY <1>15 DEF StartFails, Error
    <2>4. Cardinality(lost'[w]) <= crashes[w]
      BY <1>0, <2>2, <2>3
    <2> QED
      BY <2>1, <2>2, <2>4
  <1>16. ASSUME NEW w \in Worker, EndBody(w) PROVE Accounted'
    BY <1>0, <1>16 DEF EndBody, AfterBody
  <1>17. ASSUME NEW w \in Worker, Capture(w) PROVE Accounted'
    BY <1>0, <1>17 DEF Capture
  <1>18. ASSUME NEW w \in Worker, StopTrace(w) PROVE Accounted'
    BY <1>0, <1>18 DEF StopTrace
  <1>19. ASSUME NEW w \in Worker, CloseContext(w) PROVE Accounted'
    BY <1>0, <1>19 DEF CloseContext
  <1>20. ASSUME NEW w \in Worker, FinalizeFails(w) PROVE Accounted'
    <2>1. ASSUME NEW v \in Worker, v /= w
          PROVE  lost'[v] = lost[v] /\ crashes'[v] = crashes[v] /\ stage'[v] = stage[v]
                 /\ browser'[v] = browser[v]
      BY <1>20, <2>1 DEF FinalizeFails, Error
    <2>2. stage'[w] = "idle" /\ crashes'[w] = crashes[w] /\ Running(w)
          /\ stage[w] \notin {"idle", "auth", "launch"}
      BY <1>20 DEF FinalizeFails, Error
    <2>3. lost'[w] = IF Up(w) THEN lost[w] ELSE lost[w] \cup {test[w]}
      BY <1>20 DEF FinalizeFails, Error
    <2>4. Cardinality(lost'[w]) <= crashes[w]
      BY <1>0, <2>2, <2>3
    <2> QED
      BY <2>1, <2>2, <2>4
  <1>21. ASSUME NEW w \in Worker, EndSession(w) PROVE Accounted'
    BY <1>0, <1>21 DEF EndSession, NewSession
  <1>22. ASSUME NEW w \in Worker, WorkerDies(w) PROVE Accounted'
    <2>1. ASSUME NEW v \in Worker, v /= w
          PROVE  lost'[v] = lost[v] /\ crashes'[v] = crashes[v] /\ stage'[v] = stage[v]
                 /\ browser'[v] = browser[v]
      BY <1>22, <2>1 DEF WorkerDies, NewSession
    <2>2. lost' = lost /\ crashes'[w] = crashes[w] + 1
      BY <1>22 DEF WorkerDies, NewSession
    <2>3. /\ Cardinality(lost[w]) \in Nat /\ crashes[w] \in Nat
          /\ Cardinality(lost[w]) <= crashes[w]
      BY <1>0
    <2>4. Cardinality(lost'[w]) < crashes'[w] /\ Cardinality(lost'[w]) <= crashes'[w]
      BY <2>2, <2>3
    <2> QED
      BY <2>1, <2>4
  <1>23. ASSUME NEW w \in Worker, BrowserDies(w) PROVE Accounted'
    <2>1. ASSUME NEW v \in Worker, v /= w
          PROVE  lost'[v] = lost[v] /\ crashes'[v] = crashes[v] /\ stage'[v] = stage[v]
                 /\ browser'[v] = browser[v]
      BY <1>23, <2>1 DEF BrowserDies
    <2>2. lost' = lost /\ crashes'[w] = crashes[w] + 1
      BY <1>23 DEF BrowserDies
    <2>3. /\ Cardinality(lost[w]) \in Nat /\ crashes[w] \in Nat
          /\ Cardinality(lost[w]) <= crashes[w]
      BY <1>0
    <2>4. Cardinality(lost'[w]) < crashes'[w] /\ Cardinality(lost'[w]) <= crashes'[w]
      BY <2>2, <2>3
    <2> QED
      BY <2>1, <2>4
  <1>24. CASE Expire
    BY <1>0, <1>24 DEF Expire
  <1>25. CASE UNCHANGED vars
    BY <1>0, <1>25 DEF vars
  <1> HIDE DEF TypeOK, Numbered, Accounted
  <1> QED
    BY <1>1, <1>2, <1>3, <1>4, <1>5, <1>6, <1>7, <1>8, <1>9, <1>10, <1>11, <1>12, <1>13, <1>14, <1>15, <1>16, <1>17, <1>18, <1>19, <1>20, <1>21, <1>22, <1>23, <1>24, <1>25 DEF Next

\* Every step keeps the account of the tests a broken login cost.
LEMMA StepCostly == TypeOK /\ Numbered /\ Costly /\ [Next]_vars => Costly'
  <1> SUFFICES ASSUME TypeOK, Numbered, Costly, [Next]_vars PROVE Costly'
    OBVIOUS
  <1> USE DEF TypeOK, Numbered, Costly, Running, Up, Advance, Setup, Teardown, Test,
              report, mishaps, session, Raise
  <1>1. ASSUME NEW w \in Worker, NEW fixture \in {"page", "authenticated_page"}, StartTest(w, fixture)
        PROVE  Costly'
    <2>1. /\ login' = login /\ broken' = broken /\ spoilt' = spoilt
          /\ test'[w] = test[w] + 1 /\ test[w] \in Nat
          /\ \A v \in Worker \ {w} : test'[v] = test[v] /\ stage'[v] = stage[v]
      BY <1>1 DEF StartTest
    <2>2. \A l \in broken[w] : l \in Nat /\ (l <= test[w] => l < test'[w])
      BY <2>1
    <2> QED
      BY <2>1, <2>2
  <1>2. ASSUME NEW w \in Worker, Launch(w) PROVE Costly'
    BY <1>2 DEF Launch, GetBrowser
  <1>3. ASSUME NEW w \in Worker, LaunchFails(w) PROVE Costly'
    BY <1>3 DEF LaunchFails
  <1>4. ASSUME NEW w \in Worker, LoginLaunchFails(w) PROVE Costly'
    BY <1>4 DEF LoginLaunchFails
  <1>5. ASSUME NEW w \in Worker, Cached(w) PROVE Costly'
    BY <1>5 DEF Cached
  <1>6. ASSUME NEW w \in Worker, CachedError(w) PROVE Costly'
    BY <1>6 DEF CachedError
  <1>7. ASSUME NEW w \in Worker, CheckState(w) PROVE Costly'
    BY <1>7 DEF CheckState, GetBrowser
  <1>8. ASSUME NEW w \in Worker, Login(w) PROVE Costly'
    BY <1>8 DEF Login
  <1>9. ASSUME NEW w \in Worker, LoginFails(w) PROVE Costly'
    BY <1>9 DEF LoginFails, LoginError
  <1>10. ASSUME NEW w \in Worker, TruncateState(w) PROVE Costly'
    BY <1>10 DEF TruncateState
  <1>11. ASSUME NEW w \in Worker, WriteState(w) PROVE Costly'
    BY <1>11 DEF WriteState
  <1>12. ASSUME NEW w \in Worker, SaveFails(w) PROVE Costly'
    BY <1>12 DEF SaveFails, LoginError
  <1>13. ASSUME NEW w \in Worker, OpenContext(w) PROVE Costly'
    BY <1>13 DEF OpenContext
  <1>14. ASSUME NEW w \in Worker, NewPage(w) PROVE Costly'
    BY <1>14 DEF NewPage
  <1>15. ASSUME NEW w \in Worker, StartFails(w) PROVE Costly'
    BY <1>15 DEF StartFails, Error
  <1>16. ASSUME NEW w \in Worker, EndBody(w) PROVE Costly'
    BY <1>16 DEF EndBody, AfterBody
  <1>17. ASSUME NEW w \in Worker, Capture(w) PROVE Costly'
    BY <1>17 DEF Capture
  <1>18. ASSUME NEW w \in Worker, StopTrace(w) PROVE Costly'
    BY <1>18 DEF StopTrace
  <1>19. ASSUME NEW w \in Worker, CloseContext(w) PROVE Costly'
    BY <1>19 DEF CloseContext
  <1>20. ASSUME NEW w \in Worker, FinalizeFails(w) PROVE Costly'
    BY <1>20 DEF FinalizeFails, Error
  <1>21. ASSUME NEW w \in Worker, EndSession(w) PROVE Costly'
    BY <1>21 DEF EndSession, NewSession
  <1>22. ASSUME NEW w \in Worker, WorkerDies(w) PROVE Costly'
    BY <1>22 DEF WorkerDies, NewSession
  <1>23. ASSUME NEW w \in Worker, BrowserDies(w) PROVE Costly'
    BY <1>23 DEF BrowserDies
  <1>24. CASE Expire
    BY <1>24 DEF Expire
  <1>25. CASE UNCHANGED vars
    BY <1>25 DEF vars
  <1> HIDE DEF TypeOK, Numbered, Costly
  <1> QED
    BY <1>1, <1>2, <1>3, <1>4, <1>5, <1>6, <1>7, <1>8, <1>9, <1>10, <1>11, <1>12, <1>13, <1>14,
       <1>15, <1>16, <1>17, <1>18, <1>19, <1>20, <1>21, <1>22, <1>23, <1>24, <1>25 DEF Next

\* Every step keeps the account of the session's login.
LEMMA StepLoginTried == TypeOK /\ LoginTried /\ [Next]_vars => LoginTried'
  <1> SUFFICES ASSUME TypeOK, LoginTried, [Next]_vars PROVE LoginTried'
    OBVIOUS
  <1> USE DEF TypeOK, LoginTried, Advance, Teardown, report, mishaps, session, Raise
  <1>1. ASSUME NEW w \in Worker, NEW fixture \in {"page", "authenticated_page"}, StartTest(w, fixture)
        PROVE  LoginTried'
    BY <1>1 DEF StartTest
  <1>2. ASSUME NEW w \in Worker, Launch(w) PROVE LoginTried'
    BY <1>2 DEF Launch, GetBrowser
  <1>3. ASSUME NEW w \in Worker, LaunchFails(w) PROVE LoginTried'
    BY <1>3 DEF LaunchFails
  <1>4. ASSUME NEW w \in Worker, LoginLaunchFails(w) PROVE LoginTried'
    BY <1>4 DEF LoginLaunchFails
  <1>5. ASSUME NEW w \in Worker, Cached(w) PROVE LoginTried'
    BY <1>5 DEF Cached
  <1>6. ASSUME NEW w \in Worker, CachedError(w) PROVE LoginTried'
    BY <1>6 DEF CachedError
  <1>7. ASSUME NEW w \in Worker, CheckState(w) PROVE LoginTried'
    BY <1>7 DEF CheckState, GetBrowser
  <1>8. ASSUME NEW w \in Worker, Login(w) PROVE LoginTried'
    BY <1>8 DEF Login
  <1>9. ASSUME NEW w \in Worker, LoginFails(w) PROVE LoginTried'
    BY <1>9 DEF LoginFails, LoginError
  <1>10. ASSUME NEW w \in Worker, TruncateState(w) PROVE LoginTried'
    BY <1>10 DEF TruncateState
  <1>11. ASSUME NEW w \in Worker, WriteState(w) PROVE LoginTried'
    BY <1>11 DEF WriteState
  <1>12. ASSUME NEW w \in Worker, SaveFails(w) PROVE LoginTried'
    BY <1>12 DEF SaveFails, LoginError
  <1>13. ASSUME NEW w \in Worker, OpenContext(w) PROVE LoginTried'
    BY <1>13 DEF OpenContext
  <1>14. ASSUME NEW w \in Worker, NewPage(w) PROVE LoginTried'
    BY <1>14 DEF NewPage
  <1>15. ASSUME NEW w \in Worker, StartFails(w) PROVE LoginTried'
    BY <1>15 DEF StartFails, Error
  <1>16. ASSUME NEW w \in Worker, EndBody(w) PROVE LoginTried'
    BY <1>16 DEF EndBody, AfterBody
  <1>17. ASSUME NEW w \in Worker, Capture(w) PROVE LoginTried'
    BY <1>17 DEF Capture
  <1>18. ASSUME NEW w \in Worker, StopTrace(w) PROVE LoginTried'
    BY <1>18 DEF StopTrace
  <1>19. ASSUME NEW w \in Worker, CloseContext(w) PROVE LoginTried'
    BY <1>19 DEF CloseContext
  <1>20. ASSUME NEW w \in Worker, FinalizeFails(w) PROVE LoginTried'
    BY <1>20 DEF FinalizeFails, Error
  <1>21. ASSUME NEW w \in Worker, EndSession(w) PROVE LoginTried'
    BY <1>21 DEF EndSession, NewSession
  <1>22. ASSUME NEW w \in Worker, WorkerDies(w) PROVE LoginTried'
    BY <1>22 DEF WorkerDies, NewSession
  <1>23. ASSUME NEW w \in Worker, BrowserDies(w) PROVE LoginTried'
    BY <1>23 DEF BrowserDies
  <1>24. CASE Expire
    BY <1>24 DEF Expire
  <1>25. CASE UNCHANGED vars
    BY <1>25 DEF vars
  <1> HIDE DEF TypeOK, LoginTried
  <1> QED
    BY <1>1, <1>2, <1>3, <1>4, <1>5, <1>6, <1>7, <1>8, <1>9, <1>10, <1>11, <1>12, <1>13, <1>14, <1>15, <1>16, <1>17, <1>18, <1>19, <1>20, <1>21, <1>22, <1>23, <1>24, <1>25 DEF Next

\* Every step keeps what the teardown has captured.
LEMMA StepCaptured == TypeOK /\ Captured /\ [Next]_vars => Captured'
  <1> SUFFICES ASSUME TypeOK, Captured, [Next]_vars PROVE Captured'
    OBVIOUS
  <1> USE DEF TypeOK, Captured, CapturedAt, Stage, Advance, Setup, Teardown, report, mishaps, session, Raise
  <1>1. ASSUME NEW w \in Worker, NEW fixture \in {"page", "authenticated_page"}, StartTest(w, fixture)
        PROVE  Captured'
    BY <1>1 DEF StartTest
  <1>2. ASSUME NEW w \in Worker, Launch(w) PROVE Captured'
    BY <1>2 DEF Launch, GetBrowser
  <1>3. ASSUME NEW w \in Worker, LaunchFails(w) PROVE Captured'
    BY <1>3 DEF LaunchFails
  <1>4. ASSUME NEW w \in Worker, LoginLaunchFails(w) PROVE Captured'
    BY <1>4 DEF LoginLaunchFails
  <1>5. ASSUME NEW w \in Worker, Cached(w) PROVE Captured'
    BY <1>5 DEF Cached
  <1>6. ASSUME NEW w \in Worker, CachedError(w) PROVE Captured'
    BY <1>6 DEF CachedError
  <1>7. ASSUME NEW w \in Worker, CheckState(w) PROVE Captured'
    <2>1. ASSUME NEW v \in Worker PROVE CapturedAt(v)'
      <3>1. \/ stage'[v] = stage[v]
            \/ stage'[v] \in {"launch", "login"} /\ stage[v] = "auth"
        <4>1. \E next \in {"launch", "login"} : stage' = [stage EXCEPT ![w] = next]
          <5>1. file = "fresh" => Advance(w, "launch")
            BY <1>7 DEF CheckState
          <5>2. file /= "fresh" => Advance(w, "login")
            BY <1>7 DEF CheckState
          <5> QED
            BY <5>1, <5>2
        <4>2. stage[w] = "auth"
          BY <1>7 DEF CheckState
        <4>3. PICK next \in {"launch", "login"} : stage' = [stage EXCEPT ![w] = next]
          BY <4>1
        <4>4. v = w => stage'[v] \in {"launch", "login"} /\ stage[v] = "auth"
          BY <4>2, <4>3
        <4>5. v /= w => stage'[v] = stage[v]
          BY <4>3
        <4> QED
          BY <4>4, <4>5
      <3>2. artifacts' = artifacts /\ failed' = failed
        BY <1>7 DEF CheckState
      <3> QED
        BY <3>1, <3>2
    <2> QED
      BY <2>1
  <1>8. ASSUME NEW w \in Worker, Login(w) PROVE Captured'
    BY <1>8 DEF Login
  <1>9. ASSUME NEW w \in Worker, LoginFails(w) PROVE Captured'
    BY <1>9 DEF LoginFails, LoginError
  <1>10. ASSUME NEW w \in Worker, TruncateState(w) PROVE Captured'
    BY <1>10 DEF TruncateState
  <1>11. ASSUME NEW w \in Worker, WriteState(w) PROVE Captured'
    BY <1>11 DEF WriteState
  <1>12. ASSUME NEW w \in Worker, SaveFails(w) PROVE Captured'
    BY <1>12 DEF SaveFails, LoginError
  <1>13. ASSUME NEW w \in Worker, OpenContext(w) PROVE Captured'
    BY <1>13 DEF OpenContext
  <1>14. ASSUME NEW w \in Worker, NewPage(w) PROVE Captured'
    BY <1>14 DEF NewPage
  <1>15. ASSUME NEW w \in Worker, StartFails(w) PROVE Captured'
    BY <1>15 DEF StartFails, Error
  <1>16. ASSUME NEW w \in Worker, EndBody(w) PROVE Captured'
    <2>2. PICK result \in BOOLEAN : /\ failed' = [failed EXCEPT ![w] = result]
                                   /\ Advance(w, AfterBody(result))
      BY <1>16 DEF EndBody
    <2>1. ASSUME NEW v \in Worker, v /= w PROVE CapturedAt(v)'
      <3>1. /\ stage'[v] = stage[v] /\ artifacts'[v] = artifacts[v]
            /\ failed'[v] = failed[v]
        BY <1>16, <2>1, <2>2 DEF EndBody
      <3> QED
        BY <3>1
    <2>3. failed'[w] = result /\ stage'[w] = AfterBody(result) /\ artifacts'[w] = {}
      BY <1>16, <2>2 DEF EndBody
    <2>4. CASE result = TRUE /\ "screenshot" \in Record
      BY <2>1, <2>3, <2>4 DEF AfterBody
    <2>5. CASE ~(result = TRUE /\ "screenshot" \in Record) /\ "trace" \in Record
      <3>1. stage'[w] = "trace" /\ (result = TRUE => Record \ {"trace"} = {})
        BY <2>3, <2>5, Recorded DEF AfterBody
      <3> QED
        BY <2>1, <2>3, <2>5, <3>1
    <2>6. CASE "trace" \notin Record /\ ~(result = TRUE /\ "screenshot" \in Record)
      <3>1. stage'[w] = "close" /\ (result = TRUE => Record = {})
        BY <2>3, <2>6, Recorded DEF AfterBody
      <3> QED
        BY <2>1, <2>3, <3>1
    <2> QED
      BY <2>4, <2>5, <2>6
  <1>17. ASSUME NEW w \in Worker, Capture(w) PROVE Captured'
    <2>1. ASSUME NEW v \in Worker, v /= w PROVE CapturedAt(v)'
      BY <1>17, <2>1 DEF Capture
    <2>2. artifacts[w] = {} /\ failed[w] = TRUE /\ "screenshot" \in Record
      BY <1>17 DEF Capture
    <2>3. artifacts'[w] = {"screenshot"} /\ failed'[w] = TRUE
      BY <1>17, <2>2 DEF Capture
    <2>4. stage'[w] = IF "trace" \in Record THEN "trace" ELSE "close"
      BY <1>17 DEF Capture
    <2>5. CASE "trace" \in Record
      <3>1. Record \ {"trace"} = {"screenshot"}
        BY <2>2, Recorded
      <3> QED
        BY <2>1, <2>3, <2>4, <2>5, <3>1
    <2>6. CASE "trace" \notin Record
      <3>1. Record = {"screenshot"}
        BY <2>2, <2>6, Recorded
      <3> QED
        BY <2>1, <2>3, <2>4, <2>6, <3>1
    <2> QED
      BY <2>5, <2>6
  <1>18. ASSUME NEW w \in Worker, StopTrace(w) PROVE Captured'
    <2>1. ASSUME NEW v \in Worker, v /= w PROVE CapturedAt(v)'
      BY <1>18, <2>1 DEF StopTrace
    <2>2. stage'[w] = "close" /\ failed'[w] = failed[w] /\ "trace" \in Record
      BY <1>18 DEF StopTrace
    <2>3. CASE failed[w] = TRUE
      <3>1. artifacts'[w] = (Record \ {"trace"}) \cup {"trace"}
        BY <1>18, <2>3 DEF StopTrace
      <3>2. (Record \ {"trace"}) \cup {"trace"} = Record
        BY <2>2, Recorded
      <3> QED
        BY <2>1, <2>2, <2>3, <3>1, <3>2
    <2>4. CASE failed[w] = FALSE
      <3>1. artifacts'[w] = {}
        BY <1>18, <2>4 DEF StopTrace
      <3> QED
        BY <2>1, <2>2, <2>4, <3>1
    <2> QED
      BY <2>3, <2>4
  <1>19. ASSUME NEW w \in Worker, CloseContext(w) PROVE Captured'
    BY <1>19 DEF CloseContext
  <1>20. ASSUME NEW w \in Worker, FinalizeFails(w) PROVE Captured'
    BY <1>20 DEF FinalizeFails, Error
  <1>21. ASSUME NEW w \in Worker, EndSession(w) PROVE Captured'
    BY <1>21 DEF EndSession, NewSession
  <1>22. ASSUME NEW w \in Worker, WorkerDies(w) PROVE Captured'
    BY <1>22 DEF WorkerDies, NewSession
  <1>23. ASSUME NEW w \in Worker, BrowserDies(w) PROVE Captured'
    BY <1>23 DEF BrowserDies
  <1>24. CASE Expire
    BY <1>24 DEF Expire
  <1>25. CASE UNCHANGED vars
    BY <1>25 DEF vars
  <1> HIDE DEF TypeOK, Captured
  <1> QED
    BY <1>1, <1>2, <1>3, <1>4, <1>5, <1>6, <1>7, <1>8, <1>9, <1>10, <1>11, <1>12, <1>13, <1>14, <1>15, <1>16, <1>17, <1>18, <1>19, <1>20, <1>21, <1>22, <1>23, <1>24, <1>25 DEF Next

\* Every step leaves the right artifacts behind.
LEMMA StepArtifacts == TypeOK /\ Numbered /\ Captured /\ ArtifactsTellFailure /\ [Next]_vars => ArtifactsTellFailure'
  <1> SUFFICES ASSUME TypeOK, Numbered, Captured, ArtifactsTellFailure, [Next]_vars PROVE ArtifactsTellFailure'
    OBVIOUS
  <1> USE DEF TypeOK, Numbered, Captured, CapturedAt, ArtifactsTellFailure, Running, Stage, Advance, Setup, Teardown, report, mishaps, session, Raise
  <1>1. ASSUME NEW w \in Worker, NEW fixture \in {"page", "authenticated_page"}, StartTest(w, fixture)
        PROVE  ArtifactsTellFailure'
    BY <1>1 DEF StartTest
  <1>2. ASSUME NEW w \in Worker, Launch(w) PROVE ArtifactsTellFailure'
    BY <1>2 DEF Launch, GetBrowser
  <1>3. ASSUME NEW w \in Worker, LaunchFails(w) PROVE ArtifactsTellFailure'
    BY <1>3 DEF LaunchFails
  <1>4. ASSUME NEW w \in Worker, LoginLaunchFails(w) PROVE ArtifactsTellFailure'
    BY <1>4 DEF LoginLaunchFails
  <1>5. ASSUME NEW w \in Worker, Cached(w) PROVE ArtifactsTellFailure'
    BY <1>5 DEF Cached
  <1>6. ASSUME NEW w \in Worker, CachedError(w) PROVE ArtifactsTellFailure'
    BY <1>6 DEF CachedError
  <1>7. ASSUME NEW w \in Worker, CheckState(w) PROVE ArtifactsTellFailure'
    BY <1>7 DEF CheckState, GetBrowser
  <1>8. ASSUME NEW w \in Worker, Login(w) PROVE ArtifactsTellFailure'
    BY <1>8 DEF Login
  <1>9. ASSUME NEW w \in Worker, LoginFails(w) PROVE ArtifactsTellFailure'
    BY <1>9 DEF LoginFails, LoginError
  <1>10. ASSUME NEW w \in Worker, TruncateState(w) PROVE ArtifactsTellFailure'
    BY <1>10 DEF TruncateState
  <1>11. ASSUME NEW w \in Worker, WriteState(w) PROVE ArtifactsTellFailure'
    BY <1>11 DEF WriteState
  <1>12. ASSUME NEW w \in Worker, SaveFails(w) PROVE ArtifactsTellFailure'
    BY <1>12 DEF SaveFails, LoginError
  <1>13. ASSUME NEW w \in Worker, OpenContext(w) PROVE ArtifactsTellFailure'
    BY <1>13 DEF OpenContext
  <1>14. ASSUME NEW w \in Worker, NewPage(w) PROVE ArtifactsTellFailure'
    BY <1>14 DEF NewPage
  <1>15. ASSUME NEW w \in Worker, StartFails(w) PROVE ArtifactsTellFailure'
    BY <1>15 DEF StartFails, Error
  <1>16. ASSUME NEW w \in Worker, EndBody(w) PROVE ArtifactsTellFailure'
    BY <1>16 DEF EndBody, AfterBody
  <1>17. ASSUME NEW w \in Worker, Capture(w) PROVE ArtifactsTellFailure'
    BY <1>17 DEF Capture
  <1>18. ASSUME NEW w \in Worker, StopTrace(w) PROVE ArtifactsTellFailure'
    BY <1>18 DEF StopTrace
  <1>19. ASSUME NEW w \in Worker, CloseContext(w) PROVE ArtifactsTellFailure'
    BY <1>19 DEF CloseContext
  <1>20. ASSUME NEW w \in Worker, FinalizeFails(w) PROVE ArtifactsTellFailure'
    BY <1>20 DEF FinalizeFails, Error
  <1>21. ASSUME NEW w \in Worker, EndSession(w) PROVE ArtifactsTellFailure'
    BY <1>21 DEF EndSession, NewSession
  <1>22. ASSUME NEW w \in Worker, WorkerDies(w) PROVE ArtifactsTellFailure'
    BY <1>22 DEF WorkerDies, NewSession
  <1>23. ASSUME NEW w \in Worker, BrowserDies(w) PROVE ArtifactsTellFailure'
    BY <1>23 DEF BrowserDies
  <1>24. CASE Expire
    BY <1>24 DEF Expire
  <1>25. CASE UNCHANGED vars
    BY <1>25 DEF vars
  <1> HIDE DEF TypeOK, Numbered, Captured, ArtifactsTellFailure
  <1> QED
    BY <1>1, <1>2, <1>3, <1>4, <1>5, <1>6, <1>7, <1>8, <1>9, <1>10, <1>11, <1>12, <1>13, <1>14, <1>15, <1>16, <1>17, <1>18, <1>19, <1>20, <1>21, <1>22, <1>23, <1>24, <1>25 DEF Next

-----------------------------------------------------------------------------
BInv == TypeOK /\ Numbered /\ Captured

\* Types, numbers and captures are kept together.
THEOREM BInvHolds == Spec => []BInv
  <1>1. Init => BInv
    BY InitAll DEF BInv
  <1>2. BInv /\ [Next]_vars => BInv'
    BY StepType, StepNumbered, StepCaptured DEF BInv
  <1> QED
    BY <1>1, <1>2, PTL DEF Spec

\* Type correctness of browsers, contexts, logins and tests.
THEOREM BrowserTypeCorrect == Spec => []TypeOK
  <1>1. BInv => TypeOK
    BY DEF BInv
  <1> QED
    BY <1>1, BInvHolds, PTL

\* DriverManager and the fixtures leave a context open only of a test that
\* ended in an error: passing and failing tests leak nothing.
THEOREM LeaksAreErrorsHolds == Spec => []LeaksAreErrors
  <1>1. Init => LoginClosed /\ LeaksAreErrors
    BY InitAll
  <1>2. BInv /\ LoginClosed /\ LeaksAreErrors /\ [Next]_vars => (LoginClosed /\ LeaksAreErrors)'
    BY StepLoginClosed, StepLeaks DEF BInv
  <1> QED
    BY <1>1, <1>2, BInvHolds, PTL DEF Spec

\* finalize writes artifacts of failed tests, all of them, and of no others.
THEOREM ArtifactsTellFailureHolds == Spec => []ArtifactsTellFailure
  <1>1. Init => ArtifactsTellFailure
    BY InitAll
  <1>2. BInv /\ ArtifactsTellFailure /\ [Next]_vars => ArtifactsTellFailure'
    BY StepArtifacts DEF BInv
  <1> QED
    BY <1>1, <1>2, BInvHolds, PTL DEF Spec

\* _BrowserSession.get: however often browsers die, each death costs at most
\* one test its browser, and later ones only by the session's cached login.
THEOREM CrashCostsOneTestHolds == Spec => []CrashCostsOneTest
  <1>1. Init => Accounted /\ Costly
    BY InitAll
  <1>2. BInv /\ Accounted /\ Costly /\ [Next]_vars => (Accounted /\ Costly)'
    BY StepAccounted, StepCostly DEF BInv
  <1>3. Accounted /\ Costly => CrashCostsOneTest
    BY DEF Accounted, Costly, CrashCostsOneTest
  <1> QED
    BY <1>1, <1>2, <1>3, BInvHolds, PTL DEF Spec

\* auth_state_path: a worker tries at most one login in a session.
THEOREM LoginOncePerSessionHolds == Spec => []LoginOncePerSession
  <1>1. Init => LoginTried
    BY InitAll
  <1>2. BInv /\ LoginTried /\ [Next]_vars => LoginTried'
    BY StepLoginTried DEF BInv
  <1>3. LoginTried => LoginOncePerSession
    BY DEF LoginTried, LoginOncePerSession
  <1> QED
    BY <1>1, <1>2, <1>3, BInvHolds, PTL DEF Spec
=============================================================================
