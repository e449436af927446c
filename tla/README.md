# The LinkBridge SDKs in TLA+

This directory is a verification project for the LinkBridge e-invoicing SDKs:
TLA+ models of what the six SDKs (Go, Node, Python, Java, .NET, PHP) and the
Laravel package do, TLC configurations that check them on small instances, and
TLAPS proofs of what matters most.

## 1. The system

Each SDK is a client library of one HTTP API. It has no persistent state; all
of its state lives in one client object that the application's threads, tasks
or callbacks share, and everything hard about it is in four places.

| Component | State it keeps | Operations | What makes it correct |
|---|---|---|---|
| Token source | the cached bearer token and its local expiry; a mutex (Go, Python, Java), an in-flight promise (Node), a semaphore (.NET), nothing (PHP) | obtain a token for a request, exchanging client credentials when the cached one is about to expire | a request never carries a token the server has stopped honouring; one exchange at a time, none while the cached token is good; a failed exchange leaves the cache alone and nobody stuck |
| Token reply decoder | none | turn the answer of `POST /v1/oauth/token` into a token and a lifetime, or an error | no SDK believes a token to live longer than the server said, none caches an empty one |
| Webhook verifier | none (a clock is read) | accept or reject a delivery from its signature header, body and secret | with a secret set, only what the sender signed within the last five minutes is accepted, everything the sender signs is; the six verifiers agree |
| Response decoder | none | turn an answer of the API into a value or an error | every non-success answer surfaces as the SDK's API error; no refusal passes for a result |
| Invoices | an idempotency key per call | submit, get, list, transmit, update status | a submission that is repeated under the application's own key is filed once; a result is never another invoice's |
| Webhook subscriptions | none | create, list, delete | the secret shown once reaches the caller |
| Lookups | a list and its ETag, kept by the application | tax codes, HSN codes, conditional requests in Go | the ETag that is passed back is that of the list the application has |
| Crypto material (Go) | none | set, status, with requests put together by hand | as any other request |
| Generated client (Go) | none | 34 operations, behind the SDK's own and through `Client.Raw()` | a request reaches the operation that was called; parser and SDK read a reply alike |
| Transports | none | send one request, within a time-out where there is one | an answer, or an error, for every request |
| Configuration, Laravel provider | the resolved options | construct a client, or refuse to | the same options make the same client; what leaves the client carries what was configured |
| Laravel middleware | the configured secret | verify an incoming webhook | an unverified webhook never reaches a controller |
| Result models, generated types (Node) | none | - | plain data and types |

Components interact by calls: every resource operation asks the token source
for a token and hands the answer to the response decoder; the token source
sends its own exchange through the same transport, and in .NET and PHP through
the same request routine. The API server and the network are external.

What is hard about it:

- *Concurrency.* Many threads, callbacks or tasks find the cached token expired
  at once. Who exchanges, who waits, and what becomes of those who wait when
  the exchange fails, is cancelled, or the client is disposed of?
- *Time.* An expiry is compared with a local clock before the request is sent;
  latency, truncation to seconds and a clock that is set all eat into the 60 s
  of leeway. A webhook's timestamp is the sender's and is compared with the
  receiver's clock.
- *Six implementations of one contract.* The SDKs take the same options and parse
  the same answers, errors and signature headers with six standard libraries that
  disagree on numbers, blanks, hex and null.
- *Two layers in Go.* The SDK's functions read replies that a generated parser has
  read before them, tell one request from another by the tail of its path, and put
  some requests together beside the generated builders.
- *Failure.* A gateway answers in the API's place, a reply is lost after the
  server has acted, a late request overtakes its own repetition.

No SDK retries anything or keeps anything on disk, so there is no crash recovery
to get right. PROJECT.json lists each hazard at its line with the properties
that would catch it.

## 2. Modules

| Module | Models | Composes |
|---|---|---|
| `TokenService` | the abstract specification of every token source | - |
| `TokenReply` | the six decoders of `POST /v1/oauth/token` | - |
| `LockedTokenSource` | the mutex of Go, Python and Java; PHP's single thread | `TokenReply`; implements `TokenService` |
| `CoalescedTokenSource` | Node's shared promise | `TokenReply`; implements `TokenService` |
| `SemaphoreTokenSource` | .NET's `SemaphoreSlim`, cancellation and `Dispose` | implements `TokenService` |
| `WebhookVerify` | the six verifiers | - |
| `WebhookDelivery` | a delivery under way to a receiver, and Laravel's middleware | `WebhookVerify` |
| `OapiOperations` | the requests of the generated Go client and the replies it declares | - |
| `ResponseDecode` | the six decoders of API responses and errors, and Go's generated parsers | `OapiOperations` |
| `ClientConfig` | the six constructors and the Laravel provider | - |
| `RequestPath` | the life of a client: construction, then one call after another | `ResponseDecode`, `ClientConfig` |
| `Lookups` | an application that follows a lookup with If-None-Match | `RequestPath`; implements it |
| `FilingService` | the abstract specification of submitting invoices | - |
| `Submission` | idempotency keys, the server's memory of them, repeated calls | `ResponseDecode`; implements `FilingService` |
| `LockedTokenSourceProofs`, `CoalescedProofs`, `SemaphoreProofs` | theorems about the token sources | |
| `WebhookProofs` | theorems about deliveries | |
| `ResponseProofs` | lemmas about operations and decoders | |
| `RequestPathProofs`, `LookupsProofs`, `SubmissionProofs` | theorems about calls | `ResponseProofs` |
| `MC*` | constants for TLC, no definition of the models | one each |

Definitions marked *Slip* are the code with one plausible mistake in it; each
breaks exactly the property it was written against, which shows that the
property can fail. They are no part of any specification.

### How state and actions correspond to the code

**LockedTokenSource.** `lock` is `tokenSource.mu` (Go), `_token_lock` (Python),
the monitor of `synchronized token()` (Java); in PHP one thread runs the method
from end to end, which the lock stands for. `cache` is the pair of token and
expiry; `stamp` is the clock reading that Java and PHP take before the exchange
(`StampsBefore`), where Go and Python take theirs after it. `Acquire`,
`ServeCached`, `StartExchange`, `AdoptToken` and `ExchangeFails` are the pieces
of `tokenSource.Token` between which another thread or the clock may move;
everything from the answer to the unlock is one step, as nothing else can see
it. `Finish` is the API request made with the token: it changes nothing in the
client, a 401 included. Each SDK's way of writing the freshness test is a
definition of its own.

**CoalescedTokenSource.** `flight` is `tokenLock.p`. JavaScript runs to
completion, so a step is a callback: the synchronous part of `token()`
(`ServeCached`, `JoinExchange`, `StartExchange`), the end of `fetchToken`
(`SettleAccepted`, `SettleRejected`), the `finally` callback (`Release`) and
the resumption of each `await` (`Resume`). Between the settling and the
`finally` callback `tokenLock.p` still holds a settled promise, which a call in
between is given.

**SemaphoreTokenSource.** `permits` and `queue` are the semaphore's count and
its asynchronous waiters; `WaitThrows`, `WaitTakes`, `WaitQueues` and
`WaitCancelled` are what `WaitAsync` may do, `Release` and `ReleaseThrows` the
`finally` block. `client` follows `Dispose`, which sets `_disposed` and then
disposes of the semaphore, in two steps. Time is reduced to `Age`.

**TokenReply and ResponseDecode** have one operator for each SDK's decoder: a
function from an answer, abstracted to what the decoders tell apart, to a
verdict or outcome. In Go an operation of the SDK has two readers: the generated
parser, `ParseReply`, and the SDK's own, `GoDecode`.

**OapiOperations** lists the generated client's 34 operations in the eight groups
of the source file, the request each builder puts together (`RequestOf`: method,
path, whether a body is marshalled, whether a key or an ETag goes out as a
header) and the statuses whose body each parser decodes (`RepliesOf`). `Placed` puts
an identifier into a path. All SDKs escape it, so that a slash in it starts no
segment, but the decoded path has the slash again, and dots are not escaped: a
segment on the wire is therefore the sequence of its pieces, which escaped slashes
separate, and `Normal` is what the URL libraries of Go, Node, .NET and PHP make of a
segment `.` or `..`. Python's and Java's send it as it is.

**ClientConfig** has one operator for each constructor, from options to a client
or `Refused`. A client is what its requests will carry and whether they have a
host. The Laravel provider is `LaravelOptions` in front of PHP's.

**RequestPath** is the life of one client. `Construct` and `ConstructFails` are the
constructor; then each call goes from `NextCall` through `Build` (the request's
method and path: generated, or by hand for Go's crypto operations, `Draft`),
`Authorize`, `SkipAuth` or `Unauthorized` (Go's `injectAuth`, and the first lines of
the other SDKs' request routine), `Send`, `Answer` and `DecodeReply`. `Build` takes
any of `Identifiers` where the SDK takes a string; Go's generated client wants UUIDs
for all but invoices, and .NET throws at an empty one (`IdentifierRefused`). `BuildFails`,
`EditFails` and `TransportFails` are the errors on the way, in each SDK where its
code meets them. Go's `op` ranges over the SDK's operations and, by way of
`Client.Raw()`, over all generated ones.

**Lookups** adds to `RequestPath` what an application keeps of Go's two lookups. It
composes with it by conjunction: each of its steps is a step of `RequestPath` with
what that means to the list and its ETag, and the server's `Publish` is a step of
its own. `LookupsImplementRequestPath` states that nothing else was added.

**WebhookVerify** has one skeleton, `Verify`, and one `Dialect` record for each
SDK: which ways of writing a number it reads, whether it trims, whether it
reads whole seconds, what it makes of a digest that is not hex. A header is a
sequence of parts, not of characters. The HMAC is ideal: a digest is the triple
it was computed from. So whoever rewrites a delivery has the digest that the server
put in, and those under the empty secret, which need none (`BareDigests`). `Handle` in `WebhookDelivery` is the Laravel middleware: it
passes a request on, answers 401, or throws where no secret is configured.

**Submission.** `SubmitKey` decides the Idempotency-Key from what the
application passed, as each SDK does (`GoUnset` to `PhpUnset`: what counts as no
key). `write` is the operation the invoice is passed to: `submit`, or, in Go, one
of the generated writes that take a key, which make none of their own. `wire`
holds the requests that have not reached the server, those given up by their
call included.

**FilingService** is what an application sees of that. An `order` is a key of the
application's own, and invoices submitted under one order are filed once between
them; a call ends in a result, in the notice that its order is taken, or in an
error that says nothing. `Told` and `Verdict` in `Submission` map to it what a call
has returned: an error of status 409 is that notice. The wire, the keys that the
SDKs make, the server's memory and every other status and error are gone.

External, and so marked in PROJECT.json: the API server (token issue, filing,
replay of a key), the network and gateways, the application, the clocks, and
the cancellation of a .NET call. They are modelled from what the SDKs say of
them: the doc comments on the 24 h replay window of keys, on the canonical
error envelope, and the fallback lifetime.

## 3. What is checked

| Run | Module, configuration | Properties | Distinct states |
|---|---|---|---|
| `locked_safety` | `MCLockedTokenSource` | `TypeOK`, `MutualExclusion`, `ExchangeJustified`, `NoTransient401`, `NoBlankToken`, `ImplementsService` | 435 000 |
| `locked_progress` | `MCLockedTokenSource`, `MCLockedLiveness.cfg` | `LockIsReleased`, `GoCallsEnd` | 65 000 |
| `coalesced` | `MCCoalescedTokenSource` | `TypeOK`, `NobodyAbandoned`, `ExchangeJustified`, `ServedValid`, `AwaitEnds`, `ImplementsService` | 200 000 |
| `semaphore` | `MCSemaphoreTokenSource` | `TypeOK`, `PermitConserved`, `NoLostWakeup`, `WaitEnds`, `ImplementsService` | 18 600 |
| `webhook` | `MCWebhookDelivery` | `TypeOK`, `AcceptedWasSigned`, `SignedIsAccepted`, `SdksAgree`, `ControllerSeesSigned` | 516 000 |
| `request_path` | `MCRequestPath` | `TypeOK`, `CompleteOptionsAgree`, `ProviderNormalises`, `BearerIsConfigured`, `RequestReachesOperation`, `RefusalsAreApiErrors`, `CanonicalCodeArrives`, `ResultMeansSuccess`, `FacadeAgreesWithParser`, `EmptyIsNoResult`, `ValidatorMatchesList` | 148 000 |
| `submission` | `MCSubmission` | `TypeOK`, `FiledOnce`, `ResultIsOwn`, `KeylessNeverConflicts`, `ImplementsFiling` | 1 295 000 |

Five more runs check one documented statement each, and TLC refutes it; see
section 6.

What they show, beyond types:

- *Token sources.* One exchange at a time, and none that runs beside a cache
  that is good (`MutualExclusion`, `PermitConserved`, `ExchangeJustified`). A
  failure releases the lock, the permit or the shared promise and leaves the
  cache alone (`ImplementsService`: every step of each of the three is a step
  of `TokenService` or none). Nobody is left behind by a promise that is
  cleared, or asleep beside a free permit, whatever is cancelled
  (`NobodyAbandoned`, `NoLostWakeup`). The leeway is enough: for as long as a
  request may be under way the server honours the token it carries
  (`NoTransient401`), and in Node, whenever a call is answered
  (`ServedValid`).
- *Webhooks.* Whatever happens to a delivery, a receiver with the server's secret
  accepts only what the server signed, with its digest whole (in Node also with a
  tail that is not hex), within the window (`AcceptedWasSigned`). Under another secret nothing is accepted, but that Go,
  Python and Node do not refuse an empty one, under which anybody can sign; the
  property says so. What a gateway may do to
  the header without breaking it is accepted by all six SDKs; on an untouched
  delivery the six give the same verdict. The Laravel middleware lets through to
  the controller exactly what PHP's verifier accepts, a missing secret included
  (`ControllerSeesSigned`).
- *Construction.* Options of which each is set or missing mean the same everywhere
  (`CompleteOptionsAgree`). On empty and blank ones the constructors differ; the
  Laravel provider makes PHP's treat them as .NET's does (`ProviderNormalises`).
- *Requests.* A request leaves with the token that was configured or exchanged.
  Without one leave only the request for a token and, as `injectAuth` goes by the
  tail of the decoded path, Go's request for an invoice whose identifier ends in
  `oauth/token`; no operation but that one can be mistaken so (`BearerIsConfigured`).
  A server takes a request for the operation that was called and no other, if the
  identifier is neither empty nor a dot segment and has no slash. With one that is,
  a request that reads may be taken for another one that reads; one that writes
  is never taken for another operation, whether the server resolves dot segments,
  drops empty segments, decodes slashes or does nothing of the kind
  (`RequestReachesOperation`).
- *Replies.* In Python, Node and Java every refusal is the API error with its
  status; an error in the canonical envelope reaches the caller of all six with
  status and code; no refusal is taken for a result. Go's two readers of a reply do
  not contradict each other (`FacadeAgreesWithParser`), but for the tax codes. An
  empty answer becomes no value, but for Java's list of webhooks, and where a value
  was due only Python, Node and Java may return nothing without an error
  (`EmptyIsNoResult`): a caller of the other three need not look for null.
- *Lookups.* The ETag that is passed back is that of the list the application
  holds, over publications, 304s with and without an ETag, caches that answer with
  an earlier version, and errors (`ValidatorMatchesList`). With another ETag, a 304
  would leave the application with an old list for good.
- *Submissions.* A repeated submission is filed once under the application's own
  key; a result is never that of another invoice; a call without a key never
  collides with another. The same holds of the keyed writes of Go's generated
  client, which make no keys: without one the server turns them down. Of two
  invoices under one key of the application's own at most one is filed
  (`FiledOnce`), and only the other is told that the key is taken: submitting is what
  `FilingService` promises, step by step (`ImplementsFiling`).

### Bounds, and why they are enough

- *Token sources.* Two threads that never stop asking show every way in which
  one may meet another at the lock, and a third adds only a longer queue; where
  the queue matters (`locked_progress`, `semaphore`) there are three. Time is
  scaled: a tick is 30 s, so that `Leeway = 2` is 60 s, `Timeout = 1` is 30 s and
  `Fallback = 4` a lifetime beyond the leeway. Lifetimes are one below the leeway
  and one above it; answers are those two, a negative one, a missing one and an
  empty token. `Horizon = 6` lets a token be issued late in an exchange, age and
  be replaced by a second (five for `coalesced`, where an exchange may last two
  ticks).
- *Webhooks.* A window of one second in ticks of half a second puts the edge of
  the window, half a second beyond it and a whole one at separate ticks. The
  receiver's clock is behind, right or ahead. Two rewritings reach every pair
  (a doubled timestamp in another script, a padded key with upper-case hex).
- *Construction and calls.* All 320 combinations of options, in all six SDKs and
  Laravel; every operation of each SDK and every generated one; every status that a
  decoder or a generated parser tells apart, with every kind of body, announced
  length and content type. An identifier is an IRN, empty, `.`, `..`, `oauth/token`,
  the path of another operation (`irn/pdf`), or the name of a fixed segment
  (`status`). Calls follow each other without end.
- *Lookups.* Three versions of the catalogue: the one the application has, the one
  the server has, and a third that a cache may still answer with.
- *Submissions.* Two invoices and two calls for each are the smallest case in
  which keys collide, an early request overtakes a later one, and a lost reply is
  followed by a repetition.

`CHECK_DEADLOCK FALSE` is set for `submission` only, where the application stops
after its last attempt.

### Fairness

Safety is checked without any. `locked_progress`, `coalesced` and `semaphore`
assume:

- threads, tasks and callbacks that can run do run (weak fairness of each
  step), and every exchange ends, successfully or not. In Go and PHP a time-out
  sees to that; elsewhere it is an assumption on the network;
- in Go only, strong fairness of taking the mutex: `sync.Mutex` hands itself to a
  waiter that has starved for a millisecond. Python's and Java's locks promise
  nothing of the kind, so `GoCallsEnd` is stated for Go alone;
- in .NET, that `SemaphoreSlim` serves its asynchronous waiters in order, which
  is in the model (`queue`), not in the fairness.

### Assumptions about time

`TimingAssumption` says what the leeway has to cover: an exchange, a request and
what the local clock may be ahead of where it was. With the 30 s time-outs and
the 60 s leeway of the code it holds with nothing to spare for Go and Python,
which read the clock after the exchange; Java and PHP, which read it before,
can put up with a clock that is set back by 30 s. Truncation to whole seconds
counts against the same margin. The time-out is a bound on a whole round trip
only in Go (`http.Client.Timeout`) and PHP (`CURLOPT_TIMEOUT`); Python's is per
socket operation, Java's and .NET's end with the headers, and Node has none.
For those, `NoTransient401` speaks of exchanges and requests that do end in
time. The server is assumed to honour a token for at least the `expires_in` it
announced, or 300 s if it announced none.

## 4. What is proved

TLAPS proves these for every value of the constants that meets the named
assumptions: every number of callers, threads, invoices, attempts and rewritings, every identifier,
every lifetime, window and clock.

| Module | Theorems: what `Spec` implies |
|---|---|
| `LockedTokenSourceProofs` | `TypeCorrect` (`TypeOK`), `Exclusive` (`MutualExclusion`), `Justified` (`ExchangeJustified`), `LeewaySuffices` (`NoTransient401`), `NeverBlank` (`NoBlankToken`), `LockKeepsPromises` (`ImplementsService`) |
| `CoalescedProofs` | `NodeTypeCorrect` (`TypeOK`), `NoneAbandoned` (`NobodyAbandoned`), `NodeJustified` (`ExchangeJustified`), `NodeServesValid` (`ServedValid`), `NodeKeepsPromises` (`ImplementsService`) |
| `SemaphoreProofs` | `TypeCorrect` (`TypeOK`), `PermitKept` (`PermitConserved`), `WakeupKept` (`NoLostWakeup`), `KeepsPromises` (`ImplementsService`) |
| `WebhookProofs` | `DeliveryTypeCorrect` (`TypeOK`), `AcceptsOnlySigned` (`AcceptedWasSigned`), `SignedGetsThrough` (`SignedIsAccepted`), `VerifiersAgree` (`SdksAgree`), `MiddlewareSound` (`ControllerSeesSigned`) |
| `RequestPathProofs` | `OptionsAgree` (`CompleteOptionsAgree`), `ProviderSound` (`ProviderNormalises`), `BearerKept` (`BearerIsConfigured`), `RefusalsTyped` (`RefusalsAreApiErrors`), `CodesArrive` (`CanonicalCodeArrives`), `ResultsSucceed` (`ResultMeansSuccess`), `ParsersAgree` (`FacadeAgreesWithParser`), `NothingFromEmpty` (`EmptyIsNoResult`), `RequestsRouted` (`RequestReachesOperation`), `PathTypeCorrect` (`TypeOK`) |
| `LookupsProofs` | `LookupsImplementRequestPath` (the specification of `RequestPath`), `ValidatorKept` (`ValidatorMatchesList`), `LookupClientsSound` (every invariant of `RequestPath`, for such a client) |
| `SubmissionProofs` | `SubmissionTypeCorrect` (`TypeOK`), `KeyedOnce` (`FiledOnce`), `OwnResult` (`ResultIsOwn`), `KeylessUndisturbed` (`KeylessNeverConflicts`), `SubmissionKeepsPromises` (`ImplementsFiling`) |

The assumptions on the constants are named in the modules that declare them:
`CallersAssumption`, `DialectsAssumption`, `RepliesAssumption`, `FallbackAssumption`,
`TimingAssumption`, `NodeAssumption` (token sources), `WindowAssumption`,
`DeliveryAssumption` (webhooks), `StatusesAreCodes` (replies), `IdentifiersAreStrings`
(identifiers) and `AttemptsAssumption` (submissions). TLC evaluates each of them.

### The mutex

`NoTransient401` is not inductive: it speaks of the token in a caller's hand,
and that came from a cache which was filled by an exchange that read a clock.
`IInv` adds the links of this chain: the local clock is ahead of the server's by
at most `MaxStep` (`ClockBound`); no exchange or request is older than its
time-out (`InFlight`); a stamp is no later than the clock allows
(`StampBound`); a cached expiry overestimates the server's by at most
`Lag(sdk)` (`CacheSound`); a token in use outlives the time-out of the request
made with it (`HeldSound`); and nobody else holds one (`NothingHeld`). `LagBound`
and `TimingAssumption` then give `Lag + Timeout <= Leeway`, which is what
`LeewaySuffices` needs. `VerdictBound` is where the decoders come in: no verdict
of Go, Python, Java or PHP gives a token a longer life than the server promised.
`NeverBlank` needs one more link, `BlankFree`: the cache of an SDK other than PHP
holds no empty token.

### The shared promise

`NodeInv` says what `tokenLock.p` stands for: the calls that await a flight await
the one that is there, a flight has calls, and while it is open no outcome
(`FlightHasCalls`, `OpenIsEmpty`), and a cached expiry is late by no more than the
answer took and the clock may be ahead (`CacheSound`). `JustBrought` covers the turn between
the settling of the promise and the resumption of its calls, where the token comes
from the promise and not from the cache.

### The semaphore

`SemInv` counts the permit: it is in the semaphore or with exactly one call that
is past `WaitAsync` and not yet past `Release` (`PermitHeld`), and the queue has
each waiting call once. The lemmas on sequences (`Head`, `Tail` and `RemoveAt` of an
injective queue) are what a hand-over and a cancellation do to it. The refinement
adds `OwedInRelease`: outside its `finally` block no call has an outcome that it has
not returned.

### The token sources as `TokenService`

Each of the three token sources implements `TokenService`. The initial states map to
its initial state, and every step is shown to be one of its actions or a stutter,
action by action. The invariants above are what makes that true: without
`MutualExclusion`, for one, a second exchange would begin while one is under way,
which `TokenService` forbids. For the static token of the locked source
`StaticIsAlone` is needed as well.

### Webhooks

`DeliveryInv` follows a header through any number of rewritings. `Carries` says that
every digest in it is the one the server signed, however it is written, or one made
under the empty secret, which no other secret takes (`SecretNeeded`); each
rewriting keeps that (`ChangesForgeNothing`). `AsSent`
says that a header that only went through faithful rewritings still reads as the
server wrote it, in every SDK (`FaithfulChangesKeep`). From the first follows
`AcceptsOnlySigned`, from the second `SignedGetsThrough` and `VerifiersAgree`. What is
left is arithmetic on the window, for clocks that are read in whole seconds or in
fractions of them (`InsideWindow`, `WithinWindow`, `BeyondWindow`).

### Requests and replies

`RequestInv` follows the request from the constructor to the wire: it has the
method of its draft and the path of that with the identifier in it (`Routed`), and
either a token that its SDK lets out or none (`BearerSound`). What the proofs need to
know of the 34 templates is one lemma on each of the eight groups of operations
(`Shaped`): which one ends in the suffix that `injectAuth` exempts, that none has a
dot segment, and where those of requests that write end. `ExemptPath` then adds the
identifier: every path but that of `GetInvoice` ends in a segment of the template,
which resolving a dot segment leaves alone (`NormalEnds`).

For an identifier that stays in its place (`Contained`), a path has one reading only
(`ContainedPath`), and `RequestReachesOperation` comes down to this: no two operations
share a route, an identifier being any one segment (`RoutesApart`). The 34 operations
would make over a thousand pairs. The proof tells the groups apart by the first
segment behind the version (`Stem`), where no identifier stands, and which only the
two groups of invoice operations share; within a group, and between those two, the
method, the length of the path or a fixed segment tells. For all other identifiers
every reading of the path still ends as the template does (`ReadingEnds`), and that
or the method tells the requests that write apart (`EndRoute`). What Go's crypto
operations put together by hand has the route of the generated builder (`DraftRoute`).

`ReplyInv` says no more than that the outcome is what the operation's decoder made of
a reply there can be; the lemmas of `ResponseProofs` say what that is: only a
success becomes a result, an error envelope becomes its status and code, an empty
body becomes no value (`EmptyReturned`), and what Go's parsers read its hand-written
functions do not contradict. `TypeOK` needs one lemma for every decoder as well, that
its outcomes are among those the SDK has names for (`DecodeOutcome`).

`LookupInv` adds `ServedSound`: the reply that is about to be stored has the list
its ETag names, or no list and the ETag that was asked for. That is an assumption on
the server and on the caches before it, and it is in `AnswerLookup`. As every step of
`Lookups` is one of `RequestPath`, such a client keeps all that is proved of the
latter (`LookupClientsSound`).

### Submissions

`FiledOnce` needs two links: every request on the wire for an invoice with a key of
its own carries that key, those of abandoned calls included (`WireKeyed`), and
the server remembers the key of each invoice it has filed (`FiledIsSeen`). The
second is the assumption on the server: that it remembers a key for as long as
the application repeats the call (the API's 24-hour window). The type invariant is
inductive only with `Counted`, that the filings of an invoice and its requests
on the wire are together no more than the calls made for it. `AnswerInv` gives the
other two: keys made by an SDK are of one call only (`WireKeys`), a key is known to
the server with an invoice it has filed and may have come with (`SeenIsFiled`), and so what a call is
told is about its own invoice (`AnswersSound`).

The refinement of `FilingService` rests on all of these and on two more
(`TakenInv`): what the server remembers under an application's key was submitted
under it (`SeenIsOrdered`), and a reply of 409 comes only where another invoice is
filed under the same key (`TakenSound`). `FiledIsSeen` makes `ServerFiles` a `File`
step, as a key that the server does not know has had nothing filed under it;
`Counted` keeps it within the calls that were made. `VerdictSound` turns the
decoders into what a call is told: whatever the SDK, a result comes from an answer to
a filed invoice, and an error of status 409 from a 409.

### Only model-checked

Liveness (`LockIsReleased`, `GoCallsEnd`, `AwaitEnds`, `WaitEnds`), which is beyond
this prover.

## 5. What is not modelled

- Query parameters: filters, cursors and page sizes. PHP sends empty ones
  (`src/sdk-php/src/LinkbridgeClient.php:108`), the others drop them. Cursors are
  passed on as they come.
- The variants of the generated client that take a body already encoded
  (`...WithBody`), and its types, plain data; Node's `schema.gen.ts` and the result
  models of the other SDKs likewise.
- Laravel's container, manager and facade, beyond what its provider makes of the
  options and its middleware of a request.
- Scopes, user agents and default time-outs among the options: each SDK passes
  them on as they are.
- Redirects, TLS, proxies and header handling, which belong to the HTTP
  libraries; so does the turning of a redirected POST into a GET.
- HTTP clients that the application supplies, which may have no time-out.
- PHP fibres and event loops in which two calls of `token()` could overlap.
- Messages, trace ids and details of errors.
- 64-bit overflow of timestamps other than as the forms `huge` and `vast`.
- Tests' overrides of the clock and the tolerance.

Behaviour that the code has and that no document of the repository rules
out, so that it is no finding, but worth knowing:

- A 401 does not evict the cached token in any SDK: a revoked token is sent
  until it expires.
- .NET's `Dispose` forgets the queued waiters of the semaphore, which then
  complete only if they are cancelled; `_disposed` is not looked at again between
  the token and the request. `WaitEnds` excludes a disposed client.
- PHP takes a 3xx for a success (`PhpDecode`; compare
  `src/sdk-php/src/ApiError.php:10`), which is why `ResultMeansSuccess` excepts it.
- Node accepts a digest followed by characters that are not hex, as
  `Buffer.from` stops at them (compare `src/sdk-node/src/webhook.ts:108`).
- An empty success is null in Python and Java, null or a `SyntaxError` in Node
  depending on Content-Length, an API error in .NET, a `TypeError` in PHP and an
  `io.EOF` in Go's hand-written operations. The comment at
  `src/sdk-java/src/main/java/ng/linkbridge/sdk/LinkbridgeClient.java:287` says
  otherwise of its siblings.
- What an SDK takes for "no idempotency key" differs: only null in Node, Java and
  PHP, the empty string too in Go and Python, blanks too in .NET.
- A body that is not JSON makes `delete` fail in Java, .NET and PHP after the
  server has deleted, and `transmit` in all that have it.
- A verified webhook that is sent again within the window is accepted again;
  the verifiers keep no record, and none is promised.
- PHP's constructor accepts blank and empty options, which the Laravel provider
  drops before it.
- After a 304 without an ETag, Go's lookups return an empty one: an application that
  stores it asks without a condition the next time. `ValidatorMatchesList` allows
  for it.
- A webhook subscription whose create reply is lost exists with a secret nobody
  has seen; nothing in the SDKs finds that out.
- Identifiers are not looked at, but for empty and blank ones in .NET. An empty
  identifier makes the path of another route: `Get("")` in Go asks for the list. A
  `..` is resolved away with the segment before it, except in Python and Java:
  `RenderInvoicePdf("..")` in Go asks for `/v1/pdf`.
- `injectAuth` tests the suffix of the decoded path (`src/sdk-go/linkbridge.go:157`), so
  that Go's `Invoices.Get` of an identifier that is or ends in `oauth/token` goes out
  without a token. `BearerIsConfigured` excepts it.
- Go, Python and Node do not refuse an empty webhook secret
  (`src/sdk-go/webhook.go:54`, `src/sdk-python/linkbridge/webhook.py:64`,
  `src/sdk-node/src/webhook.ts:100`), Java, .NET and PHP do. Nothing is verified under
  one; `AcceptedWasSigned` excepts it.
- The requests made through `Client.Raw()` go through `injectAuth` as all others do,
  probes and the key set included (compare `src/sdk-go/linkbridge.go:148`).
- The package comment at `src/sdk-go/linkbridge.go:3` speaks of defaults for retries;
  no SDK retries.

## 6. Findings

Statements of the repository that a run refutes:

| Run | Statement | What happens |
|---|---|---|
| `php_blank_token` | `LinkbridgeClient.php:162` "Returns a valid bearer token" | an empty `access_token` passes `isset`, is cached and sent |
| `coalesced_slow_exchange` | `client.ts:71` "refreshing 60s before expiry" | the life of a token is counted from the end of an exchange that nothing bounds; after a slow one, an expired token is served from the cache |
| `webhook_python_crash` | `webhook.py:33` "Raises SignatureError on any failure mode" | a `v1` that is not ASCII raises `TypeError`, a vast timestamp `OverflowError` |
| `refusals` | `errors.go:75` "APIError is returned by the SDK whenever the API responds with a non-success status", and the .NET README, line 107, "Non-success responses throw `LinkbridgeApiException`" | a refusal with a JSON body that is no object: in Go the generated parser fails first, and the status is lost; in .NET `DecodeError` throws `InvalidOperationException`. The property is that at least one of the two reports it as promised |
| `go_tax_codes` | `resources.go:172` "TaxCodes returns the tax-code reference list" | the function decodes an object with the list under `items`; the reply is the list itself (`client.gen.go:5592`, and `ResourcesTests.cs:134`), so that every successful answer ends in an error |

## 7. Plan

Done: the token sources with their abstract specification and the proofs that they
implement it; webhook verification, delivery and the Laravel middleware;
construction; the requests of all operations and the decoding of their replies;
lookups; submissions. What each run checks is proved, but for liveness.

Left, in this order:

1. A composition of `LockedTokenSource` and `RequestPath`: calls of several
   threads with the replies they get, to state what a revoked token does to them.
   No SDK promises anything of it today.
2. Query parameters and pagination by cursor, with the differing treatment of empty
   values.
