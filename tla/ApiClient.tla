------------------------------ MODULE ApiClient ------------------------------
(***************************************************************************)
(* framework/api: one ApiClient sends one call at a time through an auth   *)
(* strategy to a service, retries what RetryPolicy allows, and translates  *)
(* the errors.  The service, its token endpoint, httpx and the network are *)
(* external; clock is the time.monotonic() both sides go by.               *)
(***************************************************************************)
EXTENDS Integers

CONSTANTS
    SafeMethods,    \* RetryPolicy.SAFE_METHODS
    UnsafeMethods,  \* POST and PATCH
    MaxAttempts,    \* RetryPolicy.MAX_ATTEMPTS
    Strategies,     \* the auth strategies a client may be built with
    Lifetimes,      \* values of expires_in
    Margin,         \* _EXPIRY_SAFETY_MARGIN_SECONDS
    Delay,          \* how long a request and its answer may be under way
    MaxClock,       \* bound: time
    MaxCalls        \* bound: calls of the client

StaticAuth == "static"      \* NoAuth, Basic, ApiKey, Bearer, Cookie
Jwt == "jwt"
ClientCredentials == "client_credentials"
AuthorizationCode == "authorization_code"

ASSUME MethodAssumption == SafeMethods \cap UnsafeMethods = {}
ASSUME StrategyAssumption ==
    Strategies \subseteq {StaticAuth, Jwt, ClientCredentials, AuthorizationCode}
ASSUME NumberAssumption ==
    /\ MaxAttempts \in Nat \ {0}
    /\ Margin \in Nat /\ Delay \in Nat /\ MaxClock \in Nat /\ MaxCalls \in Nat
    /\ Lifetimes \subseteq Nat

VARIABLES
    clock,
    strategy,       \* which httpx.Auth the client was built with
    token,          \* [life, until, lag, renewAt] of the access token held, or NoToken
    refreshable,    \* a refresh_token callable, or a refresh token, is there
    phase,          \* how far the call in progress is
    since,          \* when the request under way was sent
    late,           \* history: how long it was under way when its token had expired
    pending,        \* expires_in and end of the token the endpoint just issued
    method,         \* method of the call
    attempts,       \* attempts of the call so far
    refreshed,      \* this attempt's auth flow has already refreshed
    outcome,        \* what the service answers, then what the caller gets
    applied,        \* history: times the service carried this call out
    refreshes,      \* history: refreshes during this call
    calls           \* history: number of calls

auth == <<strategy, token, refreshable, pending>>
request == <<method, attempts, refreshed, outcome>>
history == <<late, applied, refreshes, calls>>
clientVars == <<clock, auth, phase, since, request, history>>

NoToken == [life |-> -1, until |-> -1, lag |-> 0, renewAt |-> -1]
NoPending == [life |-> -1, until |-> -1]
Method == SafeMethods \cup UnsafeMethods
Retryable == "retryable_status"     \* RETRYABLE_STATUS_CODES
Answer == {"ok", "refused", "unauthorized", Retryable}
\* MalformedToken: the KeyError or ValueError of a token answer that cannot be
\* read; RefreshError: what the callable of JwtAuth raised, passed on as it is,
\* an ApiTimeoutError of the client that it logs in with included.
AuthErrors == {"ApiAuthenticationError", "MalformedToken", "RefreshError"}
Raised == {"ApiTimeoutError", "ApiRequestError"} \cup AuthErrors
UnderWay == {"fetch", "refresh", "sent", "answered"}
Phase == {"idle", "attempt", "backoff", "done"} \cup UnderWay

ClientTypeOK ==
    /\ clock \in 0..MaxClock
    /\ strategy \in Strategies
    /\ token \in [life : Int, until : Int, lag : Int, renewAt : Int]
    /\ refreshable \in BOOLEAN
    /\ phase \in Phase
    /\ since \in 0..MaxClock
    /\ late \in Nat
    /\ pending \in [life : Int, until : Int]
    /\ method \in Method
    /\ attempts \in 0..MaxAttempts
    /\ refreshed \in BOOLEAN
    /\ outcome \in Answer \cup Raised
    /\ applied \in Nat /\ refreshes \in Nat
    /\ calls \in 0..MaxCalls

Issue(life) == [life |-> life, until |-> clock + life]
\* The strategy does not know the lag, how long the token's answer was under way.
Store(issued) ==
    [life |-> issued.life, until |-> issued.until, lag |-> clock + issued.life - issued.until,
     renewAt |-> clock + issued.life - Margin]

ClientInit ==
    /\ clock = 0
    /\ strategy \in Strategies
    /\ token \in IF strategy = Jwt THEN {Store(Issue(life)) : life \in Lifetimes} ELSE {NoToken}
    /\ refreshable \in IF strategy = Jwt THEN BOOLEAN ELSE {FALSE}
    /\ phase = "idle"
    /\ since = 0
    /\ late = 0
    /\ pending = NoPending
    /\ method \in Method
    /\ attempts = 0
    /\ refreshed = FALSE
    /\ outcome = "ok"
    /\ applied = 0
    /\ refreshes = 0
    /\ calls = 0

Go(next) == phase' = next
Send(next) == Go(next) /\ since' = clock
Finish(result) == Go("done") /\ outcome' = result

-----------------------------------------------------------------------------
(* A call and its attempts *)

Call(m) ==
    /\ phase \in {"idle", "done"}
    /\ calls < MaxCalls
    /\ Go("attempt")
    /\ method' = m
    /\ attempts' = 0
    /\ applied' = 0
    /\ refreshes' = 0
    /\ calls' = calls + 1
    /\ UNCHANGED <<clock, auth, since, late, refreshed, outcome>>

\* OAuth2 strategies: is a token request needed before this request?
NeedsToken ==
    \/ strategy = ClientCredentials /\ (token = NoToken \/ clock >= token.renewAt)
    \/ strategy = AuthorizationCode /\ token = NoToken
    \/ strategy = AuthorizationCode /\ clock >= token.renewAt /\ refreshable

\* Mutant of Attempt: every attempt is counted as the first.
AttemptUncounted ==
    /\ phase = "attempt"
    /\ attempts' = 1
    /\ refreshed' = FALSE
    /\ IF NeedsToken THEN Send("fetch") ELSE Send("sent")
    /\ UNCHANGED <<clock, auth, method, outcome, history>>

\* _dispatch hands the request to httpx, which starts the auth flow.
Attempt ==
    /\ phase = "attempt"
    /\ attempts' = attempts + 1
    /\ refreshed' = FALSE
    /\ IF NeedsToken THEN Send("fetch") ELSE Send("sent")
    /\ UNCHANGED <<clock, auth, method, outcome, history>>

\* After the wait tenacity dispatches the call again.
Retry ==
    /\ phase = "backoff"
    /\ Go("attempt")
    /\ UNCHANGED <<clock, auth, since, request, history>>

MayRetry == method \in SafeMethods /\ attempts < MaxAttempts

-----------------------------------------------------------------------------
(* Tokens *)

\* The token endpoint, or the callable of JwtAuth, issues a token.
IssueToken ==
    /\ phase \in {"fetch", "refresh"}
    /\ pending = NoPending
    /\ \E life \in Lifetimes : pending' = Issue(life)
    /\ UNCHANGED <<clock, strategy, token, refreshable, phase, since, request, history>>

\* Mutant of ReceiveToken: the safety margin is added instead of subtracted.
ReceiveTokenLate ==
    /\ phase \in {"fetch", "refresh"}
    /\ pending # NoPending
    /\ token' = [Store(pending) EXCEPT !.renewAt = @ + 2 * Margin]
    /\ refreshable' = refreshable
    /\ refreshed' = (phase = "refresh")
    /\ pending' = NoPending
    /\ Send("sent")
    /\ UNCHANGED <<clock, strategy, method, attempts, outcome, history>>

\* The token arrives and the request goes out with it.  A response without a
\* refresh_token leaves the one held before.
ReceiveToken ==
    /\ phase \in {"fetch", "refresh"}
    /\ pending # NoPending
    /\ token' = Store(pending)
    /\ \/ refreshable' = refreshable
       \/ strategy = AuthorizationCode /\ refreshable' = TRUE
    /\ refreshed' = (phase = "refresh")
    /\ pending' = NoPending
    /\ Send("sent")
    /\ UNCHANGED <<clock, strategy, method, attempts, outcome, history>>

\* The token request fails, or its answer is lost or an error.
TokenFails ==
    /\ phase = "fetch"
    /\ pending' = NoPending
    /\ Finish("ApiAuthenticationError")
    /\ UNCHANGED <<clock, strategy, token, refreshable, since, method, attempts,
                   refreshed, history>>

\* The answer has no access_token, which leaves everything as it was, or an
\* expires_in that is no number, when the token is stored and its end is not.
TokenMalformed ==
    /\ phase = "fetch"
    /\ pending # NoPending
    /\ pending' = NoPending
    /\ \/ UNCHANGED <<token, refreshable>>
       \/ /\ token' = [Store(pending) EXCEPT !.renewAt = token.renewAt]
          /\ \/ refreshable' = refreshable
             \/ strategy = AuthorizationCode /\ refreshable' = TRUE
    /\ Finish("MalformedToken")
    /\ UNCHANGED <<clock, strategy, since, method, attempts, refreshed, history>>

\* The callable of JwtAuth raises inside the dispatch: an exception of httpx is
\* taken for one of the request, any other passes as it is.
RefreshFails ==
    /\ phase = "refresh"
    /\ pending' = NoPending
    /\ \/ MayRetry /\ Go("backoff") /\ UNCHANGED outcome
       \/ ~MayRetry /\ Finish("ApiTimeoutError")
       \/ Finish("ApiRequestError")
       \/ Finish("RefreshError")
    /\ UNCHANGED <<clock, strategy, token, refreshable, since, method, attempts,
                   refreshed, history>>

-----------------------------------------------------------------------------
(* Requests *)

\* The service rejects an expired token, a revoked one, and credentials it does
\* not know; for client credentials the expired token is the case of interest.
Expired == strategy # StaticAuth /\ clock >= token.until

\* The service handles the request; a 502, 503 or 504 may hide that it did.
Handle ==
    /\ phase = "sent"
    /\ Go("answered")
    /\ late' = IF Expired THEN clock - since ELSE 0
    /\ IF Expired
       THEN outcome' = "unauthorized" /\ UNCHANGED applied
       ELSE \/ outcome' = "ok" /\ applied' = applied + 1
            \/ outcome' = "refused" /\ UNCHANGED applied
            \/ outcome' = "unauthorized" /\ strategy # ClientCredentials /\ UNCHANGED applied
            \/ outcome' = Retryable /\ applied' \in {applied, applied + 1}
    /\ UNCHANGED <<clock, auth, since, method, attempts, refreshed, refreshes, calls>>

\* Mutant of MayRefresh: every 401 is answered by a refresh.
MayRefreshAgain == strategy = Jwt /\ outcome = "unauthorized" /\ refreshable

MayRefresh == strategy = Jwt /\ outcome = "unauthorized" /\ refreshable /\ ~refreshed

\* JwtAuth: a 401 is answered by one refresh and the same request again.
Refresh ==
    /\ phase = "answered"
    /\ MayRefresh
    /\ refreshes' = refreshes + 1
    /\ Send("refresh")
    /\ UNCHANGED <<clock, auth, request, late, applied, calls>>

\* Mutant of Respond: the method is not looked at.
RespondRetriesAll ==
    /\ phase = "answered"
    /\ ~MayRefresh
    /\ IF outcome = Retryable /\ attempts < MaxAttempts
       THEN Go("backoff") /\ UNCHANGED outcome
       ELSE Finish(outcome)
    /\ UNCHANGED <<clock, auth, since, method, attempts, refreshed, history>>

\* A response: a retryable status is retried while attempts are left, then
\* returned as it is.
Respond ==
    /\ phase = "answered"
    /\ ~MayRefresh
    /\ IF outcome = Retryable /\ MayRetry
       THEN Go("backoff") /\ UNCHANGED outcome
       ELSE Finish(outcome)
    /\ UNCHANGED <<clock, auth, since, method, attempts, refreshed, history>>

\* Mutant of TransportFails: the last attempt's status is returned as if it
\* were the answer to this one.
TransportFailsSilently ==
    /\ phase \in {"sent", "answered"}
    /\ IF MayRetry THEN Go("backoff") /\ UNCHANGED outcome ELSE Finish(outcome)
    /\ UNCHANGED <<clock, auth, since, method, attempts, refreshed, history>>

\* A transient exception, before or after the service handled the request;
\* ApiTimeoutError stands for ApiConnectionError as well.
TransportFails ==
    /\ phase \in {"sent", "answered"}
    /\ IF MayRetry THEN Go("backoff") /\ UNCHANGED outcome ELSE Finish("ApiTimeoutError")
    /\ UNCHANGED <<clock, auth, since, method, attempts, refreshed, history>>

\* Any other httpx.HTTPError (a reset, a broken answer) is raised at once.
RequestFails ==
    /\ phase \in {"sent", "answered"}
    /\ Finish("ApiRequestError")
    /\ UNCHANGED <<clock, auth, since, method, attempts, refreshed, history>>

\* Time passes while nothing is under way, or not longer than Delay.
Tick ==
    /\ clock < MaxClock
    /\ phase # "attempt"
    /\ phase \in UnderWay => clock < since + Delay
    /\ clock' = clock + 1
    /\ UNCHANGED <<auth, phase, since, request, history>>

-----------------------------------------------------------------------------
Proceed ==
    \/ Attempt \/ Retry
    \/ IssueToken \/ ReceiveToken \/ TokenFails \/ TokenMalformed \/ RefreshFails
    \/ Handle \/ Refresh \/ Respond \/ TransportFails \/ RequestFails

ClientNext ==
    \/ \E m \in Method : Call(m)
    \/ Proceed
    \/ Tick

\* httpx ends every wait by its timeouts, tenacity every backoff.
ClientSpec == ClientInit /\ [][ClientNext]_clientVars /\ WF_clientVars(Proceed)

-----------------------------------------------------------------------------
(* Properties *)

\* RetryPolicy: "retrying POST/PATCH blindly can duplicate side effects": the
\* service carries an unsafe call out at most once, whatever is lost, retried
\* or sent again after a refresh.
UnsafeAtMostOnce == method \in UnsafeMethods => applied <= 1

\* What the caller gets is the truth about the call: success only if it was
\* carried out; a refused or unauthorized unsafe call was not, nor was one that
\* ended because of the credentials, whichever error that was, so it may be made
\* again; and a failure that may be retried is reported of a safe call only
\* after the last attempt.
OutcomeIsHonest ==
    phase = "done" =>
        /\ outcome = "ok" => applied > 0
        /\ outcome \in {"refused", "unauthorized"} \cup AuthErrors /\ method \in UnsafeMethods => applied = 0
        /\ outcome \in {Retryable, "ApiTimeoutError"} /\ method \in SafeMethods =>
               attempts = MaxAttempts

\* JwtAuth: "refresh_token is called at most once per request".
RefreshesAreBounded == refreshes <= attempts

\* OAuth2ClientCredentialsAuth renews tokens early, "so callers never see a 401
\* from an expired token": a caller sees one only if the answer that brought
\* the token and the request that carries it took longer together than the
\* safety margin, or as long as the token lives.
ExpiredIsLate ==
    strategy = ClientCredentials /\ phase \in {"answered", "done"} /\ outcome = "unauthorized" =>
        \/ late + token.lag > Margin
        \/ late + token.lag >= token.life

\* Every call ends in a response or an exception.
EveryCallReturns == phase = "attempt" ~> phase = "done"
=============================================================================
