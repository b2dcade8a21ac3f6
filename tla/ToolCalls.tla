------------------------------ MODULE ToolCalls ------------------------------
(***************************************************************************)
(* MCP requests on their way through the server: the HTTP middlewares, the *)
(* checks of tools/call, the tool, and the call of the Magic Hour API that *)
(* a generated tool makes through the shared client.  Requests overlap in  *)
(* one event loop; what tells them apart is the context variable that      *)
(* BearerPassthroughMiddleware sets.                                       *)
(*                                                                         *)
(* One request carries one tools/call, or a GET.  A header that is missing *)
(* or malformed is NoHeader; a credential opens as long as it is live.     *)
(***************************************************************************)
EXTENDS Naturals, FiniteSets, Sequences

CONSTANTS Requests,
          Credentials,
          NoHeader,
          MaxConnections,     \* API_LIMITS.max_connections
          Retries             \* API_RETRIES

ASSUME PoolAssumption ==
  /\ MaxConnections \in Nat \ {0}
  /\ Retries \in Nat
  /\ NoHeader \notin Credentials

VARIABLES at,           \* how far each request is
          ask,          \* its Authorization header and what it wants
          ctx,          \* _authorization_header in the context of each request
          live,         \* credentials that still open
          carried,      \* credential on each request to the API
          attempts,     \* failed attempts to connect
          free,         \* free connections of the shared client
          received,     \* credentials the API got calls with, by request
          answer,       \* what each request is answered
          pending,      \* requests whose analytics are not delivered yet
          awaited       \* what the flush of each request waits for

vars == <<at, ask, ctx, live, carried, attempts, free, received, answer, pending, awaited>>
call == <<carried, attempts, free, received>>     \* the call of the API
analytics == <<pending, awaited>>

Headers == Credentials \cup {NoHeader}
\* A tool that calls the API, one that does not (ping), an unknown tool or
\* invalid arguments, and a GET instead of a POST.
Wants == {"api", "local", "invalid", "get"}
Holding == {"connecting", "sending", "served"}    \* places with a connection
Places == {"idle", "challenged", "entered", "valid", "ready", "waiting",
           "answered", "flushing", "done"} \cup Holding
Answers == {"none", "http_401", "rpc_error", "challenge", "tool_error", "result", "raised"}

TypeOK ==
  /\ at \in [Requests -> Places]
  /\ ask \in [Requests -> [header : Headers, wants : Wants]]
  /\ ctx \in [Requests -> Headers]
  /\ live \subseteq Credentials
  /\ carried \in [Requests -> Headers]
  /\ attempts \in [Requests -> 0..Retries]
  /\ free = MaxConnections - Cardinality({r \in Requests : at[r] \in Holding})
  /\ received \in [Requests -> Seq(Headers)]
  /\ answer \in [Requests -> Answers]
  /\ pending \subseteq Requests
  /\ awaited \in [Requests -> SUBSET Requests]

Init ==
  /\ at = [r \in Requests |-> "idle"]
  /\ ask = [r \in Requests |-> [header |-> NoHeader, wants |-> "get"]]
  /\ ctx = [r \in Requests |-> NoHeader]
  /\ live = Credentials
  /\ carried = [r \in Requests |-> NoHeader]
  /\ attempts = [r \in Requests |-> 0]
  /\ free = MaxConnections
  /\ received = [r \in Requests |-> <<>>]
  /\ answer = [r \in Requests |-> "none"]
  /\ pending = {}
  /\ awaited = [r \in Requests |-> {}]

Go(r, place) == at' = [at EXCEPT ![r] = place]
-----------------------------------------------------------------------------
Arrive(r) ==
  /\ at[r] = "idle"
  /\ \E h \in Headers, w \in Wants : ask' = [ask EXCEPT ![r] = [header |-> h, wants |-> w]]
  /\ Go(r, "challenged")
  /\ UNCHANGED <<ctx, live, call, answer, analytics>>

\* A GET without a bearer header is refused, or a browser sent to the setup
\* page, before it reaches the MCP app.
Challenge(r) ==
  /\ at[r] = "challenged"
  /\ ask[r].wants = "get" /\ ask[r].header = NoHeader
  /\ answer' = [answer EXCEPT ![r] = "http_401"]
  /\ Go(r, "done")
  /\ UNCHANGED <<ask, ctx, live, call, analytics>>

SetForAll(r, h) == [q \in Requests |-> h]                   \* mutant
SetHeader(r, h) == [ctx EXCEPT ![r] = h]

Enter(r) ==
  /\ at[r] = "challenged"
  /\ ask[r].wants # "get" \/ ask[r].header # NoHeader
  /\ ctx' = SetHeader(r, ask[r].header)
  /\ Go(r, "entered")
  /\ UNCHANGED <<ask, live, call, answer, analytics>>

\* The request has its answer; ToolCallLoggingMiddleware logs it, the
\* instrumentation of the server captures it, and both hand it on unchanged.
Answer(r, a) ==
  /\ answer' = [answer EXCEPT ![r] = a]
  /\ pending' = pending \cup {r}
  /\ Go(r, "answered")
  /\ UNCHANGED awaited

\* The MCP library answers a GET; tools/call checks the tool and its arguments.
Validate(r) ==
  /\ at[r] = "entered"
  /\ \/ ask[r].wants = "get" /\ Answer(r, "result")
     \/ ask[r].wants = "invalid" /\ Answer(r, "rpc_error")
     \/ ask[r].wants \in {"api", "local"} /\ Go(r, "valid") /\ UNCHANGED <<answer, analytics>>
  /\ UNCHANGED <<ask, ctx, live, call>>

\* current_authorization_header returns instead of raising AuthError.
Authorized(r) == ctx[r] \in live

\* MCPToolOAuthMiddleware: no tool runs without a credential that opens.
Gate(r) ==
  /\ at[r] = "valid"
  /\ \/ ~Authorized(r) /\ Answer(r, "challenge")
     \/ Authorized(r) /\ ask[r].wants = "local" /\ Answer(r, "result")
     \/ /\ Authorized(r) /\ ask[r].wants = "api"
        /\ Go(r, "ready")
        /\ UNCHANGED <<answer, analytics>>
  /\ UNCHANGED <<ask, ctx, live, call>>
-----------------------------------------------------------------------------
\* The credential is opened a second time for the call of the API.
AuthFlow(r) ==
  /\ at[r] = "ready"
  /\ \/ ~Authorized(r) /\ Answer(r, "tool_error") /\ UNCHANGED carried
     \/ /\ Authorized(r)
        /\ carried' = [carried EXCEPT ![r] = ctx[r]]
        /\ Go(r, "waiting")
        /\ UNCHANGED <<answer, analytics>>
  /\ UNCHANGED <<ask, ctx, live, attempts, free, received>>

Acquire(r) ==
  /\ at[r] = "waiting" /\ free > 0
  /\ free' = free - 1
  /\ Go(r, "connecting")
  /\ UNCHANGED <<ask, ctx, live, carried, attempts, received, answer, analytics>>

PoolTimeout(r) ==
  /\ at[r] = "waiting"
  /\ Answer(r, "tool_error")
  /\ UNCHANGED <<ask, ctx, live, call>>

\* The call is over: its connection goes back to the pool and the tool answers.
Finish(r, a) ==
  /\ free' = free + 1
  /\ carried' = [carried EXCEPT ![r] = NoHeader]
  /\ attempts' = [attempts EXCEPT ![r] = 0]
  /\ Answer(r, a)

ConnectFails(r) ==
  /\ at[r] = "connecting"
  /\ \/ /\ attempts[r] < Retries
        /\ attempts' = [attempts EXCEPT ![r] = @ + 1]
        /\ UNCHANGED <<at, carried, free, answer, analytics>>
     \/ attempts[r] = Retries /\ Finish(r, "tool_error")
  /\ UNCHANGED <<ask, ctx, live, received>>

Connect(r) ==
  /\ at[r] = "connecting"
  /\ Go(r, "sending")
  /\ UNCHANGED <<ask, ctx, live, call, answer, analytics>>

\* The API acts on the request.
Serve(r) ==
  /\ at[r] = "sending"
  /\ received' = [received EXCEPT ![r] = Append(@, carried[r])]
  /\ Go(r, "served")
  /\ UNCHANGED <<ask, ctx, live, carried, attempts, free, answer, analytics>>

ApiAnswers(r) ==
  /\ at[r] = "served"
  /\ Finish(r, "result")
  /\ UNCHANGED <<ask, ctx, live, received>>

RetriesSent(r) ==                                           \* mutant
  /\ at[r] \in {"sending", "served"}
  /\ \/ attempts[r] < Retries /\ attempts' = [attempts EXCEPT ![r] = @ + 1]
        /\ Go(r, "connecting") /\ UNCHANGED <<carried, free, answer, analytics>>
     \/ attempts[r] = Retries /\ Finish(r, "tool_error")
  /\ UNCHANGED <<ask, ctx, live, received>>
NoReadTimeout(r) ==                                         \* mutant
  /\ at[r] = "sending"
  /\ Finish(r, "tool_error")
  /\ UNCHANGED <<ask, ctx, live, received>>
KeepsConnection(r) ==                                       \* mutant
  /\ at[r] \in {"sending", "served"}
  /\ Answer(r, "tool_error")
  /\ UNCHANGED <<ask, ctx, live, call>>
\* The request, or its answer, is lost or late.  Only connecting is retried.
CallLost(r) ==
  /\ at[r] \in {"sending", "served"}
  /\ Finish(r, "tool_error")
  /\ UNCHANGED <<ask, ctx, live, received>>
-----------------------------------------------------------------------------
FlushesOnSuccess(r) ==                                      \* mutant
  /\ at[r] = "answered"
  /\ ctx' = [ctx EXCEPT ![r] = NoHeader]
  /\ \/ Go(r, "flushing") /\ awaited' = [awaited EXCEPT ![r] = pending] /\ UNCHANGED answer
     \/ Go(r, "done") /\ answer' = [answer EXCEPT ![r] = "raised"] /\ UNCHANGED awaited
  /\ UNCHANGED <<ask, live, call, pending>>
\* The MCP app returns, or it raises after all, as when the client is gone:
\* the context variable is reset and the flush begins either way.
Leave(r) ==
  /\ at[r] = "answered"
  /\ ctx' = [ctx EXCEPT ![r] = NoHeader]
  /\ answer' \in {answer, [answer EXCEPT ![r] = "raised"]}
  /\ awaited' = [awaited EXCEPT ![r] = pending]
  /\ Go(r, "flushing")
  /\ UNCHANGED <<ask, live, call, pending>>

\* flush_mcp returns when the work that was pending when it was called is done.
Flushed(r) ==
  /\ at[r] = "flushing" /\ awaited[r] \cap pending = {}
  /\ Go(r, "done")
  /\ UNCHANGED <<ask, ctx, live, call, answer, analytics>>

Deliver ==
  /\ \E r \in pending : pending' = pending \ {r}
  /\ UNCHANGED <<at, ask, ctx, live, call, answer, awaited>>

Expire ==
  /\ \E c \in live : live' = live \ {c}
  /\ UNCHANGED <<at, ask, ctx, call, answer, analytics>>

\* What the server does, timeouts included, and what the API does.
Handle(r) ==
  \/ Challenge(r) \/ Enter(r) \/ Validate(r) \/ Gate(r) \/ AuthFlow(r)
  \/ Acquire(r) \/ PoolTimeout(r) \/ ConnectFails(r) \/ CallLost(r)
  \/ Leave(r) \/ Flushed(r)
Api(r) == Connect(r) \/ Serve(r) \/ ApiAnswers(r)

Next == Deliver \/ Expire \/ \E r \in Requests : Arrive(r) \/ Handle(r) \/ Api(r)

Spec == Init /\ [][Next]_vars

\* Handlers run, every network operation ends after its timeout at the latest,
\* analytics are delivered or given up.  The API need not answer.
FairSpec ==
  /\ Spec
  /\ \A r \in Requests : WF_vars(Handle(r))
  /\ WF_vars(Deliver)
-----------------------------------------------------------------------------
(* However requests overlap, what the API gets on behalf of a request      *)
(* bears the credential of that request: BearerPassthroughMiddleware and   *)
(* BearerPassthroughAuth never mix up two clients.                         *)
OwnCredential ==
  \A r \in Requests : \A n \in DOMAIN received[r] : received[r][n] = ask[r].header

(* A tool call reaches the API at most once, whatever is retried - a       *)
(* create call is not paid for twice -, exactly once if the tool reports a *)
(* result of the API, and not at all if it is refused.                     *)
ReachesApiOnce ==
  \A r \in Requests :
    /\ Len(received[r]) <= 1
    /\ answer[r] = "result" /\ ask[r].wants = "api" => Len(received[r]) = 1
    /\ answer[r] \in {"http_401", "rpc_error", "challenge"} => received[r] = <<>>

(* When no request is in flight - the platform may suspend the instance -  *)
(* no analytics are left behind, also after requests that raised:          *)
(* PostHogFlushMiddleware.                                                 *)
NothingLeftBehind ==
  (\A r \in Requests : at[r] \in {"idle", "done"}) => pending = {}

(* Every request ends, although requests wait for one connection and the   *)
(* API may not be reachable.                                               *)
RequestsEnd ==
  \A r \in Requests : at[r] = "challenged" ~> at[r] = "done"
=============================================================================
