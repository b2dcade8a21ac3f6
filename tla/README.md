# Formal models of the Magic Hour MCP server

The Magic Hour MCP server is an ASGI application that (1) acts as an OAuth
authorization server for MCP clients such as ChatGPT, and (2) turns calls of MCP
tools into calls of the Magic Hour API. Most of it is stateless or pure; what can
go wrong between two requests is in the OAuth flow, in the caches, in the tools
that wait and download, and in what requests share while they overlap; what can
go wrong between two deployments is in the secrets and in the API document that
the tools are built from. This directory models those parts in TLA+, checks them
with TLC and proves the central results with TLAPS.

    tlc -config AuthCodeFlow.cfg MCAuthCodeFlow      # model-check one run
    tlapm AuthCodeFlowProofs.tla                     # check the proofs

`PROJECT.json` lists the runs, the source lines of every definition, the hazards
with the properties that cover them, and for every property a mutated definition
under which it fails (the operators marked `\* mutant` in the modules).

## Inventory

| Component | State | Operations | Interacts with | What is hard | What makes it correct |
|---|---|---|---|---|---|
| `AuthorizationCodeStore` (oauth_code_store.py) | `_codes` under a lock | issue, get, consume, has_capacity, expiry, restart | authorize, callback, token | two calls per exchange with other requests between; limits; expiry at the boundary; lost codes | codes single-use, in time, within limits, quota comes back |
| `RedisAuthorizationCodeStore` (same file) | codes and two counters with TTLs, in Redis | the same, by one or more HTTP calls each | the same, on many instances | pipelines that are no transactions, lost calls, recycled instances, counters and codes that expire apart | the same promise; leaked slots come back |
| OAuth server, `/authorize` and `/token` (oauth_compat.py) | `_validation_slots` | authorize, token | code store, API (key validation), CIMD, token codec | awaits between check and use; semaphore with timeout | answers every login; checks before it consumes |
| Broker login (oauth_compat.py, upstream_oauth.py) | none on the server; browser cookie and sealed state | GET /authorize, callback | browser, Magic Hour OAuth, code store | tabs, reloads, callbacks in flight | browsers and accounts are never mixed up |
| Sealed tokens (oauth_tokens.py), refresh grant, `openapi_auth` | the secret of each server; the rest is in the token | issue, open, refresh, call, redeploy | `/token`, every API call | long chains, several servers with one secret, rolling deployments | nothing beyond the grant; a rotated secret ends every connection |
| CIMD resolver (cimd.py) | `_cache` under a lock | resolve | client's host | fetch outside the lock | bounded staleness |
| MCP and HTTP middlewares (openapi_auth.py, oauth_compat.py, mcp_errors.py, tool_logging.py, posthog_client.py), shared API client | context variables, connection pool, captured events | challenge, validate, authorize, forward, flush | every tool call, API, PostHog | concurrent requests; a credential opened twice; lost calls; suspension of the instance | isolation, no duplicate call, nothing left behind |
| Wait tools (openapi_server.py) | none | poll loop | API, clock | project, deadline and token race | truthful, bounded |
| Project results (openapi_server.py) | none | text blocks, inline downloads, fetch | media hosts | one of several downloads fails; a host never stops | every download accounted for |
| OpenAPI policies (openapi_policies.py), `create_mcp`, the sync workflow | the published document, the job's copy, the pull request, the merged document, the live tools | publish, fetch, test, open or update a pull request, merge, deploy | Magic Hour's API, GitHub, FastMCP | what is tested is not what is merged; reviews go by method and path, the submission by name | only what was reviewed goes live, with hints and disclosures that fit |
| Registration, metadata, app events, widget, settings | none that outlives a request | - | - | - | unit tests suffice |

The hazards found in this code, each at its line, are in `PROJECT.json`.

## Modules

| Module | Models | Built on |
|---|---|---|
| `CodeLedger` | the promise about authorization codes, whichever store: minted once, may lapse, redeemed at most once by a fitting exchange | - |
| `Grants` | what a code is minted for, what an exchange shows, and the checks of `/token` that compare them (`Fits`); `BoundTo` is the independent statement of what a token must satisfy | - |
| `AuthCodeFlow` | one process, API-key mode: in-process store, `POST /authorize`, `POST /token` | `Grants`; implements `CodeLedger` |
| `AuthCodeFlowProofs` | theorems about `AuthCodeFlow` | `AuthCodeFlow`, TLAPS |
| `RedisCodeFlow` | many instances on the shared store, pipelines command by command, lost calls, recycled instances | `Grants`; implements `CodeLedger` |
| `RedisCodeFlowProofs` | theorems about `RedisCodeFlow`, and what the promise of `CodeLedger` entails | `RedisCodeFlow`, TLAPS |
| `BrokerLogin`, `BrokerLoginProofs` | account login in broker mode, and theorems about it | - |
| `SealedTokens`, `SealedTokensProofs` | access and refresh tokens after the exchange, while secrets change, and theorems | - |
| `CimdCache`, `CimdCacheProofs` | the cache of client metadata documents, and theorems | - |
| `ToolPolicies`, `ToolPoliciesProofs` | from the published API to the tools of the deployed server, and theorems | - |
| `ProjectWait` | the wait tools | - |
| `ProjectResult` | the result of a wait, inline downloads, the fetch tools | - |
| `ProjectProofs` | theorems about `ProjectWait` and `ProjectResult` | `ProjectWait`, `ProjectResult`, TLAPS |
| `ToolCalls` | overlapping MCP requests through the middlewares to the API | - |
| `ToolCallsProofs` | theorems about `ToolCalls` | `ToolCalls`, TLAPS |
| `MCAuthCodeFlow`, `MCRedisCodeFlow`, `MCBrokerLogin`, `MCSealedTokens`, `MCToolPolicies` | instances for TLC | |

### AuthCodeFlow

`codes` is `_codes`, `slots` the value of the semaphore, `auth` and `tok` say how
far each request is. `AuthorizeStart` is `authorize` up to the first suspension
that matters: validation of the parameters, `has_capacity`, and either an
immediate slot or the wait for one. A waiter leaves the queue by `AcquireReturn`
or `SlotTimeout`; `Release` hands the slot to a waiter, who may time out after
that (state `handed`), in which case the slot is passed on. A request that was
handed a slot is in the queue until it runs, and nobody overtakes the queue
(`Locked`), so with two slots or more one can be free while others queue; whoever
leaves the queue then hands out what is free (`LeaveQueue`). This is the semaphore
of CPython 3.12, the version of the workflows; older ones differ in how many they
wake at a time, and on 3.10, which `pyproject.toml` allows, the timeout of
`wait_for` is not the built-in `TimeoutError` that the handler catches. `ValidationFails` and
`ValidationSucceeds` are the rest of the handler: the slot is given back on every
path, then the code is minted by `issue`, which checks the limits again.
`TokenLookup` is `get` and all checks, `TokenConsume` is `consume` and the
comparison with what the lookup saw. `Restart` replaces the process: the codes and
the requests in flight are lost, the semaphore is new.

* Every method of the store holds its lock from beginning to end, so one call is
  one step. Other requests may act between two calls: the real in-process store
  never suspends between `get` and `consume`, so the model allows more.
* Waiters are a set: the order of the semaphore's queue is not used by anything.
* A code bears the name of the request that mints it: 256 random bits never
  collide. `Guesses` are codes nobody minted.
* Codes keep the time they have left instead of a deadline, so no bound on the
  clock is needed.
* Scope and the refresh flag travel with the code unchanged and are the business
  of `SealedTokens`.

### RedisCodeFlow

A single command of Redis is one action with what the handler does with the
answer; it may fail before or after Redis applied it. The two pipelines, the
reservation of slots (`ReserveCmds`) and their release (`ReleaseCmds`), are sent
in one step and run by `RunCommand`, one command at a time among those of other
instances; Redis may refuse a command and run the next. A handler may die between
any two steps, and its pipeline runs on. A counter that has expired is `Missing`;
`Expire` sets the time to live only once (`EXPIRE ... NX`); `Add` may leave a
negative counter without one, as `DECR` of a missing key does. Between `GETDEL`
and the token response the code is in the hands of its request; the refinement
counts it as live, and as lapsed if the handler dies. `has_capacity` and the
validation of the key, which leaves Redis alone, are one step.

Two assumptions about Redis and its HTTP API: a pipeline is one POST that arrives
as a whole or not at all, and `EXPIRE` of a key is not refused right after the
`INCR` of that key was accepted. Without the second, `CountersExpire` is false.

Seen while modelling, beyond the finding below: releases that arrive after the
counter has expired make it negative, and each one lets another code through.

### BrokerLogin

The server keeps nothing: `cookie` is what a browser has, `login` the age of a
sealed state, `upstream` what Magic Hour made each of its codes for. `SignIn` and
the spending of an upstream code are Magic Hour's, as the code uses them (PKCE,
single-use codes); a user may sign in to one login repeatedly. A callback may
bring any state and any code. `issue` may mint, be out of capacity, or raise.
`latest` is a history variable.

Seen while modelling: the answer to a callback deletes the cookie of the browser
whoever set it, so an older callback undoes a newer login in the same browser.
`CookieLostForCause` says that nothing else does: not a callback that is refused,
not one in another browser, not a code store that fails.

### SealedTokens

`secret` is what each server runs with, `pairs` the sequence of all pairs minted,
`served` the call that the latest step let through. `ExchangeCode` stands for a
successful code exchange, `Refresh` for the refresh grant, `Call` for a tool call
that opens its token. Tokens are presented by any client, at any server, whether
or not they are of the right kind. `Redeploy` gives one server another secret, or
none: then it hands out the API key itself, as the legacy mode does, and serves
API keys as every server does. `Configured` are the servers with an expected
resource; the others do not check the audience, and `OnlyItsAudience` promises
nothing for them. Old refresh tokens stay good, as the comment in
`_refresh_access_token` says. An exchange is one step with the secret under which
the code was minted: a code in memory dies with its process, and one in Redis is
sealed with the same secret.

`RotationLogsOut` is the sentence of `CURRENT-STATUS.md` that rotating the secret
logs every user out. It does not hold for API keys handed out in the legacy mode,
and the property says so.

### CimdCache

Documents are versions. A fetch reads the version its host serves at some moment
and may arrive later than one that was started after it; it then overwrites the
newer entry. `BoundedStaleness` shows that what is used was nevertheless current
less than a cache lifetime plus a fetch ago, and one tick less is refuted: the
bound is tight. Of `parse_client_metadata` there remains whether it refuses a
version (`Malformed`). That a document is parsed before it is cached is in the shape of
`Receive`; no property restates it. `FetchTime` is an assumption: the 5 s timeout of the client is
per network operation, so a host that sends its document slowly can exceed it.

### ProjectWait

The loop of `_wait_for_project`: `SendPoll` opens the token for every poll,
`ServePoll` is the moment the API reads the status, `ReceivePoll` looks at the
status first and at the deadline second. Time is counted in half seconds.
`Latency` stands for `API_TIMEOUT`, which bounds each network operation of a
poll; the model takes it as the bound of the whole poll. `status` is the status of
the project at Magic Hour, `seen` what the last answer said of it. Its names
(`WaitSpec`, `WaitTypeOK`) keep it apart from `ProjectResult` in `ProjectProofs`.

### ProjectResult

`_project_to_tool_result` as a loop over the project's URLs (`turn`), with
`_fetch_media_bytes` inside: refused by the server (`max_bytes`, host) or by the
host (`Open`), piece by piece (`Chunk`), complete (`EndOfMedia`) or broken
(`StreamBreaks`). An exception makes a block of its own and the loop goes on; the
fetch tools let it out. Image stands for audio as well: the code treats them the
same. Entries without a URL are in the model because the code skips them; the
API's schema has a URL in each. `DownloadUrls` is the listing, from first to last,
of the positions `WithUrl`; `UrlsListed` in `ProjectProofs` shows that there is one.

Seen while modelling: the text that a completed project has no download URLs is
in the `elif` of the branch that inlines, so a wait that may inline never says it
(`NoUrlsText`); and `download_index` as well as the numbers in the guidance text
count the project's own list, `exact_download_urls` only the entries with a URL.

### ToolCalls

`ctx[r]` is the context variable in the task of request r. `Arrive`, `Challenge`
and `Enter` are the HTTP side; `Validate` is the handler of mcp_errors, `Gate` is
`MCPToolOAuthMiddleware`. A generated tool opens the credential again
(`AuthFlow`), waits for one of the shared client's connections, connects with
`API_RETRIES` retries, and calls. `Leave` is what `BearerPassthroughMiddleware`
does when the MCP app returns or raises, and the start of the flush; `Flushed`
its end. `pending` are captured events by request.

* Of the libraries the model takes: a request runs in its own task with its own
  context; httpx retries connecting and nothing else; a flush ends when what was
  pending at its start is delivered.
* A client that goes away makes the app raise once the call is over; a call
  canceled in the middle is not modelled.
* The wait tools make a client of their own for each call and are not held up by
  the shared pool.

### ToolPolicies

A document maps names of tools to operations; of an operation there remain its
method, the kind of its path, whether it has a project tag, and whether its
description brings "MCP guidance:" of its own. `IsReviewed` is the condition
`supported` of `customize_openapi_component`, `Annotations` what becomes of it,
`Guidance` the sentence about logging that `_apply_operation_policy` adds,
`TestsPass` what `tests/test_openapi*.py` check of a document: that the names are
those of the submission (`SubmissionMatches`), hints, and what is said of logging.

* `Fetch`, `UpdatePullRequest` and `EndJob` are the sync workflow; its
  `concurrency` group lets one job run at a time. `fetched` and `branch` remember
  the document they were checked out over. The document may change between any
  two steps, and an older pull request may be merged while a job runs.
* `Merge` is git's three-way merge, operation by operation where git goes by
  line, and is refused on a conflict. It can produce a document that no job has fetched or tested.
* `Deploy` starts a server on the merged document, or on the zipped sibling where
  the plain file is absent. The sync never updates the sibling, which says what
  the submission says; the submission itself does not change in the model, so
  that a sibling left behind by a later review is outside it.
* `PUT` and `PATCH` are never reviewed, whatever the path; one such operation is
  among those the API may publish.
* FastMCP is external: it catches what `mcp_component_fn` raises and keeps the
  tool without hints (`CURRENT-STATUS.md`, limitation 9).

`OnlyReviewedLive` compares the live tools with the submission, which names tools,
while the policies go by method and path: an operation that is renamed, changes
its method, loses its tag or is new must not go live under a reviewed name with
other effects. It holds because of the tests of the job, not because of the
check in `customize_openapi_component` (finding 3).

## Runs

Bounds are chosen so that each hazard occurs; the mutants show that it does.

| Run | Instance | Shows | States |
|---|---|---|---|
| AuthCodeFlow | 3 logins of 2 accounts, 1 slot, limits 1 per key and 2 in all, 2 exchanges, TTL 2, restarts at any time | codes are single-use, in time, within limits; failed exchanges burn nothing; slots are conserved; every login is answered; quota comes back; `CodeLedger` is implemented | 109,924 |
| RedisCodeFlow | 2 logins of one account, 2 exchanges, TTL 2, all losses, refusals and deaths | `CodeLedger` is implemented; no counter stays for ever; leaked slots come back | 186,981 |
| RedisPerKeyCap | 3 logins of one account, 2 allowed | **violated** (finding 1) | |
| BrokerLogin | 2 browsers, 2 logins, 2 accounts, 2 upstream codes, 3 callbacks, symmetry | sessions are not mixed, an answered login is over, cookies are lost for cause only | 60,599 |
| BrokerLatest | the same with 2 callbacks | **violated** (finding 2) | |
| SealedTokens | chains of 3 pairs, 2 clients, a server that knows its resource and one that does not, 2 scopes, TTLs 1 and 2, 2 redeployments between 2 secrets and none | no refresh where not allowed, no wider scope, no other audience, no call on a refresh token, none on a rotated secret | 152,103 |
| CimdCache | 3 requests, 3 versions with a broken one, TTL 2, fetches of 1 | staleness bound | 102,774 |
| ProjectWait | intervals below, at and above the floor; three timeouts; three token lives | truth, bounded overrun, no polling without end or pause, termination | 9,546 |
| ProjectResult | up to 3 downloads of all kinds, 0 to 3 inlined, 0 or 4 bytes, pieces of 1 or 2 | every download accounted for, every call ends | 5,157 |
| ToolCalls | 2 requests, 2 credentials, 1 connection, 1 retry | own credentials, at most one call, nothing left behind, every request ends | 569,852 |
| ToolPolicies | 3 submitted tools, a new one, one with a name too short; 12 operations; 3 changes of the API | only what was reviewed goes live, and says what it hints | 358,070 |
| FailsClosed | the same with a document chosen by an operator | **violated** (finding 3) | |

One slot makes three logins wait for each other. What a second one adds, a free
slot beside a queue, takes four logins, too many for the liveness properties of
the run; `SlotsHold` covers it, which is proved for any number of slots and
logins. Two accounts are needed for one to fill the store for the other; two
exchanges for a race; a TTL of 2 for a state in which a code is neither new nor
over; three pairs for a refresh of a refreshed token; two redeployments for two
servers to change one after the other; two changes for a merge that mixes
documents, the third to break a mixed one.
Deadlock is not checked where the system rightly stops: all requests are
answered, and the clock moves only while something is left to expire.

Three runs find that the code departs from what the repository says of it:

1. `PerKeyCapacity` in the shared store. Counters get their time to live at the
   first `INCR` only. Codes minted late in the window outlive the counter, and
   the account starts from zero. The test
   `test_per_key_capacity_is_enforced_and_released_on_consume` uses a fake Redis
   in which `EXPIRE` does nothing. `CountersExpire` and `CapacityRecovers`, which
   the comment in `_release_capacity` is about, do hold: the store trades the
   limit for recovery.
2. `OnlyLatestLoginCompletes` in the broker. `CURRENT-STATUS.md` says that only
   the latest login started in a browser can complete. The cookie is compared
   before the upstream exchange, so a callback in flight completes after a newer
   login was started.
3. `FailsClosed` in the tool policies. The comment in `customize_openapi_component`
   says to fail closed on a new kind of operation; the `ValueError` is caught by
   FastMCP and the tool is exposed without hints. `CURRENT-STATUS.md` admits it and
   relies on the tests, which a document set with `MAGIC_HOUR_OPENAPI_PATH` does
   not pass through. For documents that come by the sync, `SyncFailsClosed` proves
   the promise.

## Fairness

* `AuthCodeFlow`: nothing makes a client send a request. Once sent, timers of
  asyncio fire, runnable tasks run, the API answers or httpx times out after 10 s:
  weak fairness of each request's next step. Weak fairness of the clock. No
  fairness between the two outcomes of a validation, nor of the hand-over of a
  slot to a particular waiter.
* `RedisCodeFlow`: the same with the 5 s timeout of calls to Redis, and Redis runs
  the commands it has received. A handler may die; it does not have to.
* `ProjectWait`: the loop runs, a poll ends after its timeout, time passes. The
  API need not ever answer, and the project need not ever finish.
* `ProjectResult`: the handler runs, and a silent host is given up after
  `API_TIMEOUT`; a host may send for ever.
* `ToolCalls`: handlers run, timeouts (connect, pool, read) fire, captured events
  are delivered or given up. No fairness of the API. The read timeout is per
  network read, so an API that keeps sending its answer in small pieces never runs
  into it: `RequestsEnd` is about an API that answers or is silent.

## Proofs

`AuthCodeFlowProofs` proves for every value of the constants that satisfies
`AsksAssumption` (a request names no other resource than this server's, which
`_validate_authorization_request` ensures) and `LimitsAssumption`, and for finite
sets of requests where cardinalities are involved:

| Theorem | Statement | Argument |
|---|---|---|
| `TypeCorrect` | `Spec => []TypeOK` | `TypeOK` is inductive; one step per action |
| `SingleUseHolds` | `Spec => []SingleUse` | `CodeHistory`: a granted code was minted and is not in the store any more. Without the first half a code could be minted again after it was redeemed; without the second it could be redeemed again. `StepKinds` reduces a step to what it does to codes, requests and grants |
| `RedemptionInTimeHolds` | `Spec => RedemptionInTime` | `TokenConsume` looks the code up in what `RemoveExpired` left |
| `OnlyRedemptionTakesLiveCodeHolds` | `Spec => OnlyRedemptionTakesLiveCode` | `SnapshotTrue`: what a lookup saw is still true of its code while the code is there, because `CodeHistory` keeps a code from being minted again; so a consume of a live code always redeems it. `OthersKeepLive` covers the other steps |
| `FlowImplementsLedger` | `Spec => ImplementsLedger` | `CodeHistory`; every step mints one code, redeems one, drops a set of expired ones, or leaves the ledger alone (`LedgerStep`, `ShrinkLapses`); `FitsIsBound` bridges the checks and the promise |
| `CapacityHolds` | `Spec => []CapacityRespected` | `WithinLimits` adds that the store is finite; stores only shrink (`ShrinkWithinLimits`) or grow by one code below both limits (`MintWithinLimits`) |
| `SlotsHold` | `Spec => []SlotsConserved` | `SlotsInv` adds finiteness of holders and waiters; `ReleaseConserves` covers the hand-over by a request that is done, `LeaveQueueConserves` those by one that leaves the queue |

What the promise of `CodeLedger` is good for is proved in `RedisCodeFlowProofs`, of
the instance `Ledger` that `RedisCodeFlow` implements, by the definitions of
`CodeLedger` alone: `LedgerAtMostOnce` (no code is redeemed twice) and
`LedgerOnlyFitting` (every redemption fits), from `LedgerInv`: a redeemed code was
issued and is not live. The shared store inherits both through
`RedisImplementsLedger` (`RedisKeepsPromise`); for the process `FlowKeepsPromise`
has them directly from `CodeHistory`.

The other proof modules, each for all values of the constants that satisfy the
named assumptions of the module it is about:

| Theorem | Statement | Argument |
|---|---|---|
| `RedisCodeFlowProofs` `TypeCorrect` | `Spec => []TypeOK` | `TypeParts` splits `TypeOK` into what concerns codes, pipelines and counters |
| `RedisImplementsLedger` | `Spec => ImplementsLedger` | `Custody`: a code that a request holds or has redeemed was minted, is out of the store and with nobody else. Every step stores a code, answers with one, or only drops codes (`StepMoves`: `Stays`, which is a lapse or a stutter of the ledger) |
| `CountersExpireHolds` | `Spec => []CountersExpire` | `Shapes`: what is left of a pipeline is a suffix of one of the two lists; `ExpiryDue`: a positive counter without a time to live has its `EXPIRE` on the way, in what is left of some pipeline. `CommandKeepsDue` and `StepKeepsDue` cover commands of other instances in between. The strengthening is needed because a refused `INCR` is followed by an `EXPIRE` that nobody owes |
| `BrokerLoginProofs` `SessionsNotMixedHolds`, `AnsweredLoginIsOverHolds`, `CookieLostForCauseHolds`, `TypeCorrect` | `Spec => []...` | `NonceAtHome`: a cookie is of a login its own browser started, `CallbackAtHome`: so is a callback that passed the check. The browser of a login is fixed, so overlapping callbacks of other browsers cannot touch it |
| `SealedTokensProofs` `RefreshOnlyWhereAllowedHolds`, `ScopeNeverWidensHolds`, `OnlyItsAudienceHolds`, `RotationLogsOutHolds`, `TypeCorrect` | `Spec => []...` | `Inv`: each pair is faithful to its grant and to the pair it was refreshed from, and a refresh token was sent only where allowed. `MintPreserves` reduces both ways of minting to one lemma |
| `CimdCacheProofs` `BoundedStalenessHolds`, `TypeCorrect` | `Spec => BoundedStaleness` | `Fetched`: an answer in flight is of a version that was current less than the time of its fetch ago; `Cached`: the entry's version was current less than a fetch and the spent part of its life ago |
| `ToolPoliciesProofs` `OnlyReviewedGoesLive`, `SaysWhatItHintsHolds`, `SyncFailsClosed` | `TestsPass(Submitted)` assumed: `Spec => []...` | `Passing`: every document on its way to a deployment passes the tests. `MixedPasses`: a merge of passing documents passes, although nobody tested it, because the tests look at one tool at a time and both sides have the submitted names |
| `ToolPoliciesProofs` `TypeCorrect`, `OperatorTypeCorrect` | `Starts(Submitted)` assumed: `Spec => []TypeOK`, `OperatorSpec => []TypeOK` | `BuiltTyped`: what `Build` makes of any document a server starts on is typed; no tool is called read-only and destructive at once. No test is needed for that |
| `ToolCallsProofs` `OwnCredentialHolds` | `Spec => []OwnCredential` | `CallsInv`: inside the middleware the context, and on its way the call, bear the request's own header (`Own`). A step of one request is invisible to the others (`OthersKeep`, `ViewDecides`), so one step per action of the request itself remains |
| `ReachesApiOnceHolds` | `Spec => []ReachesApiOnce` | `Progress` in `CallsInv`: how far a request is says whether the API got its call |
| `NothingLeftBehindHolds` | `Spec => []NothingLeftBehind` | `AwaitedLater`: an event captured and not delivered belongs to a request that is still to flush, or whose flush waits for it |
| `ToolCallsProofs` `TypeCorrect` | for finite `Requests`, `Spec => []TypeOK` | `Pooled`: free connections and requests that hold one add up to the pool |
| `ProjectProofs` `WaitTypeCorrect`, `AnswerIsTrueHolds`, `BoundedOverrunHolds` | `WaitSpec => []...` | `WaitInv`: `Served`, what the API said and the handler has not yet seen is still true of the project if it says it has ended; and `Budget`, a bound of the clock for each phase. `BoundedOverrun` alone is not inductive: a poll that begins at the bound would end after it, so the bound of a call that is about to poll must leave room for `Latency`, and that of one that sleeps for what is left of its pause |
| `ProjectProofs` `ResultTypeCorrect`, `AllAccountedForHolds` | `Spec => []...` | `Story`: after the opening blocks there is one block for each download before `turn`, in their order (`Told`), and at the end the count of the rest (`Finished`). `TellOutcome` covers media and failure alike; `Places` reads the sets of `AllAccountedFor` off the finished story. `ListingExists`, by the least-number principle, gives `DownloadUrls` for projects of any size |
| `ProjectProofs` `PollsRunOutHolds` | `WaitSpec => PollsRunOut` | `StepsLeft` is a variant: every step of the call or of the clock lowers it. A poll costs five at most per moment, and the floor under the interval (`Pause` is never 0) makes each poll cost a moment; `BoundedOverrun` keeps it above zero |
| `ProjectProofs` `DownloadsMoveOn` | `Spec => [][MovesOn]_vars` | a lexicographic variant: downloads left, `Stage`, bytes left; `ResultTypeCorrect` bounds each |
| `AuthCodeFlowProofs` `SomebodyToWaitFor`, `ToolCallsProofs` `EmptyPoolIsInUse` | `Spec => [](Waiters # {} => Holders # {})`, `Spec => [](free = 0 => Holders # {})` | from `SlotsConserved` and `TypeOK`: what is lent out is with somebody, and beside a free slot one queues behind a request that was handed another |

`TimesAssumption` says that lengths of time are natural numbers, that the pause
has a floor above zero, and that the bound of the clock is beyond any deadline, so
that it bounds the model only: by `BoundedOverrunHolds` no call reaches it.

Every safety invariant and every action property of a passing run, and the
implementations of `CodeLedger`, are proved. Model-checked only is liveness, which
the prover cannot do: `AuthorizeAnswered`, both `CapacityRecovers`, `WaitEnds`,
`CallEnds`, `RequestsEnd`. Proved is what they rest on apart from fairness: a wait
and a download have a variant (`PollsRunOutHolds`, `DownloadsMoveOn`); who
queues for a slot or a connection waits for somebody who has one
(`SomebodyToWaitFor`, `EmptyPoolIsInUse`); and a counter that keeps an account out
expires (`CountersExpireHolds`).

## What is left

A composition of `BrokerLogin` with a code store (the store's failures are in
`BrokerLogin` as outcomes of `ExchangeSucceeds`); cancellation of a tool call in
its middle; the cache of several clients, which share it and never make room.

## Not modelled

Registration and metadata endpoints, app events and the widget keep no state
between requests and call nothing whose order matters: `register` answers with
what it was sent, the metadata is computed from the settings, events are fire and
forget, and the widget renders one result. `docs/build_reference.py` and
`scripts/verify_chatgpt_readiness.py` are tools of the developers that read files
or a running server once. Wording, pages, URLs and the syntax of parameters are
abstracted in every module: a client, a redirect URI or a scope is a value.
Cryptography is perfect: a sealed value is opened by its servers only and is not
made by anybody else.
