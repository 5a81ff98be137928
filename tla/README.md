# A TLA+ model of the AAuth Python library

This directory models the parts of the library that keep state, wait, retry or
run concurrently. TLC checks small instances of each model; TLAPS proves the
central safety properties for every value of the constants. Definitions carry
the names of the code they model; `PROJECT.json` maps each one to its lines.

## 1. Inventory

The library implements the AAuth protocol for four roles (agent, resource,
person server PS, access server AS). It is a library: hosts own the event loop,
the HTTP client and the server framework. Everything runs in one process on one
`asyncio` event loop (or synchronously), so code interleaves only at an `await`.

| Component | Source | State | Operations | Hard behaviour | What makes it correct |
|---|---|---|---|---|---|
| Revocation store and cascades | `aauth/revocation.py` | `RevocationStore`: revoked, issued (with an outcome per recipient), agents; the locals of each running `revoke` | `record`, `is_revoked`, `record_agent`, `record_issued`, `revoke`, `handle_request`, `send_revocation` | cascades interleave at every send; tokens are issued meanwhile; sends fail; tasks are cancelled; the clock moves during a cascade | everything below a revoked token is revoked and nothing else; recorded before anybody is told; reports tell the truth; it ends |
| Deferred-response poller | `aauth/agent/poller.py` | pending URL, poll count, default wait, prompts made | `_steps` (a generator) with a synchronous and an asynchronous driver | the server answers anything in any order: moves, questions, interactions, 429, 503 | one budget; one origin; one prompt per interaction; back-off lasts; it ends |
| Key discovery | `aauth/keys/jwks.py` | `JWKSCache` (key set and time per URL), last fetch time per issuer | `fetch`, `get`, `set`, `invalidate`, `clear` | concurrent fetches with two awaits each; rotation; slow and failing answers | rate limit; bounded staleness; the cache does not go back; rotation is followed |
| Token exchange | `aauth/agent/token_exchange.py` | none kept; verified claims held across polling | `exchange_resource_token`, `request_person_token`, `complete_deferred_resource_request` | tokens age while the PS defers | the returned token is bound to, and does not outlive, what it was asked for with |
| Tokens | `aauth/tokens/*`, `aauth_signing/tokens/*` | none | create and verify agent, person, resource and auth tokens; delegation | chains of tokens of several issuers | lifetimes nest; bindings match |
| Resource verifier | `aauth/resource/*` | configuration only | `verify_request`, challenges | duplicate or late requests; revocation between checks | accepted requests are fresh, bound and of a token that was good at one moment |
| HTTP message signatures | `aauth_signing/*`, `aauth/agent/signer.py` | none; the caller's headers are changed in place | `sign_request`, `verify_signature` | requests edited and signed again; parts altered on the way; clock skew | what is accepted is what was signed; nothing signed properly is refused; signature window |
| Deferred-response helpers | `aauth/http/deferred.py` | none | build 202 responses and errors | their pairing with the poller, over several codes and questions | the poller understands every response they build, and the client ends with what the server decided |
| Headers, identifiers, metadata, missions, messages, errors, debug | the remaining files | none | parse, format, validate | none | functional |

How they interact: the exchange and `send_revocation` both run the poller; the
token verification calls a key fetcher and a revocation checker, normally
`JWKSFetcher` and `RevocationStore.is_revoked`; a host records what it issues
with `record_issued`, with expirations from `bounded_exp`; the manager's `send`
is normally `send_revocation`, which reaches another server's
`handle_request`; a server that forwards a revocation is the sender of the next
hop, so each wait contains the waits below it.

What is hard to test in this code is listed, with its line and the properties
that cover it, under `hazards` in `PROJECT.json`. Left out there as too small:
the metadata is requested by every `fetch`, cached or not (`jwks.py:190`);
`complete_deferred_resource_request` polls twice with a limit each
(`token_exchange.py:363`); a refusal after a 202 loses its `error_code`
(`token_exchange.py:73`).

## 2. Plan

Done, in this order:

1. `Revocation` - the cascades, the most stateful and most concurrent part.
   `RevocationInv` holds its inductive invariants, `RevocationProofs` the
   proofs.
2. `Poller` and `PollerProofs`.
3. `JWKS` and `JWKSProofs`.
4. `Tokens` - issuance chains (agent, person, resource, auth token, delegation)
   over a clock - and `Exchange`, which composes it with the calls of
   `token_exchange.py` that verify, wait, verify again and compare.
   `ExchangeProofs`.
5. `Access` - signed requests, `verify_request` with time passing between its
   checks, challenges, and the agent's refresh. `AccessProofs`.
6. `Deferred`, the abstract deferred operation, and `DeferredFlow`, which
   composes `Poller` with a server built from `http/deferred.py` and a user, and
   implements it.
7. `RevocationNet`, several servers connected by `send_revocation`, its polling
   and `handle_request`.
8. `Signing` - what `sign_request` covers and `verify_signature` demands, with
   `SigningProofs`.

Then proofs rather than models:

9. `RevocationNetProofs` - `OutcomesAreTrue` and `RepeatHeals` for any tree of
   servers.
10. `DeferredProofs` - the step refinement of `Deferred` and of `Poller`,
    `DecidedInTime` and `EveryCodeShown`, for any server and any gateway.
11. `NoLiveDescendant` and `NoCollateral` in `RevocationProofs`, over any
    dependency graph.

Every safety property of the passing runs is proved. Next to prove: that a
server of `RevocationNet` does what `Revocation` says of one, and what bounds
the work of a call of `revoke` (the safety half of `Termination`).

Left to model: what section 6 lists as left out of `Tokens` and `Access`.

## 3. The modules

### Revocation (`aauth/revocation.py`)

One server's store and the concurrent calls of `RevocationManager.revoke` over
it. `revoked`, `agents`, `registered`, `exp` and `outcomes` are the store;
`root` to `report` are the locals of each call, `pc` its place in the code.
`revoke` gives up the loop only in `await self.send`: `running` is the call that
holds the loop, and every other call, and the host, may act only when it is
`None`. The clock is no part of the program and ticks at any moment.

* `Revoke` is the code up to the loop: the two checks, `record`, the lookup of
  the agent, the first queue. `Refuse` stands for every early return of
  `handle_request` and `revoke`.
* `Pop`, `Cascade`, `EndScan` are the two outer loops. The snapshot is `todo`.
  `Cascade` takes an entry that must be revoked (`Hit`); the entries the scan
  passes over need no step, because an entry that is expired, unaffected or
  already scheduled stays so. The order in which a snapshot lists its entries is
  left open, which includes the dictionary's.
* `SkipRecipient`, `Send`, `Reply`, `EndNotify` are the loops over the
  recipients. A send ends with any member of `Answers`, among them a malformed
  value and an exception; with an error the recipient may or may not have
  recorded the revocation (`got`).
* `Cancel` is `asyncio` cancelling the task in its await.
* `CheckToken`, `RecordAgent`, `AcceptIssue`, `RecordIssued` are the host: it
  looks tokens up, records agents, and issues a token whose dependencies
  `verify_token` accepts, with an expiration `bounded_exp` may compute. With
  `DeferredIssue` it awaits between the check and the record.

`peer` is what recipients have recorded and `known` is history: the tokens
registered when a call began.

### Poller (`aauth/agent/poller.py`)

The generator `_steps` and its drivers in one machine: `pc` is what the
generator has yielded (`get`, `sleep`, `prompt`, `clarify`, `post`), or `poll`
and `handle` where it computes. A response is a record of what the code looks
at. Each branch of the loop is an action; `IoFails` is the drivers' `except
Exception`, `Invalid` their `except TokenError`, or the former for a URL that
cannot be parsed. The synchronous and the asynchronous driver treat events alike
and are one model. `sent`, `targets`,
`prompts` and `slowed` are history. `PollerProofs` is about any responses at
all; TLC checks the machine inside `DeferredFlow`.

### Deferred and DeferredFlow (`aauth/http/deferred.py`, `_post_ps`)

`Deferred` is the promise: the server decides once; its questions are answered
one at a time, each at most once and while it still wants to know; the client
ends with the verdict or a failure of its own. `DeferredFlow` extends `Poller`
with the other side. `Pending202` is what `build_pending_response_headers` and
`build_pending_response_body` make of the host's state, as the loop reads it;
`Final` a final response. `Ask`, `RequireInteraction`
(`generate_interaction_code`), `Decide` and `Arrive` are the host and the user,
at any moment. `ServeGet` and `ServePost` answer the client, `Stray` is anything
that answers instead: an overloaded server, a gateway, a redirect, with moves
and prompts of its own. `Break` loses a request after the server may have acted
on it, or its reply. A lost reply to an answer leaves the server with the answer
and the client with a failure.

The refinement mapping takes `verdict` and `open` over; `answered` lists the
questions the client was asked, and `outcome` is the client's result, a status
only if the response it ended with was the server's. `answers` keeps, for each
answer, both the question the client had and the one the server took it for, so
an answer to a stale question breaks the mapping: the abstract specification
appends the open question, the mapping the question the client saw.

### RevocationNet (`aauth/revocation.py`, several servers)

`Revocation` takes what a send ends with for granted; this module shows it. A
hop `<<n, s>>` is the request that server `s` is sent in round `n`. `link`,
`polls` and `outcome` are `send_revocation` on the sender's side (`Begin`,
`Receive`, `Poll`, `Timeout`), `job`, `left`, `good` and `bad` the call of
`revoke` on the other (`Handle`, `Skip`, `Forward`, `Collect`, `Return`), which
is the sender of the hops below. `AnswerPost`, `AnswerGet` and `Stray` are the
replies, at once, after a 202, or by something in between. A sender that has
given up leaves the job it started running, and the issuer's host sends again
while it does. `manner` says how each server is set up: it accepts the one above
it, refuses it (403), or has no revocation endpoint. One token stands for the
tokens a cascade visits; the walk itself is `Revocation`.

### JWKS (`aauth/keys/jwks.py`)

One fetcher with its cache under concurrent calls of `fetch`, and the issuers.
`fetch` awaits twice; what it does to the cache and the limit between is one
step: `UseCache`, `Refuse` or `Begin`. `Serve` is the issuer reading its keys,
`Arrive` the answer coming in, so an answer may travel while keys rotate.
`Invalidate` and `Clear` are the application emptying the cache at any moment. A
key set is the number of its version, `KidsIn` its keys. Times are kept as ages
that stop counting where no comparison can tell them apart any more. An issuer
may have several metadata documents (`dwk`), and documents may share a
`jwks_uri`: the cache is kept by URL, the limit by issuer.
`superseded`, `gap`, `newest` and `outcome` are history.

### Tokens and Exchange (`aauth/tokens/*`, `aauth/agent/token_exchange.py`)

`Tokens` is a ledger of issued tokens. `Claims`, a constant, gives each token
its issuer, audience, subject, key and so on; what a behaviour decides is
whether and when a token is issued, with which expiration (`exp`) and on which
other tokens (`under`, history). `Create...Token` are the `create_*` functions:
their guards are the verifications they make, the new expiration one that
`bounded_exp` may return. `Hosts` are the servers that use this library;
`IssueElsewhere` is every other one, which issues whatever claims it likes with
any expiration and is not trusted to bound anything. `...Binding` are the
comparisons of `_presented`, `verify_resource_token`, `verify_subagent_token`
and `verify_upstream_token`. Expirations are fixed at issue, so that claims read
before a wait are as good after it; only the clock has moved.

`Exchange` adds an agent's calls. Between `Start`, up to the request, and
`Return`, the checks of the answer, other calls, servers and the clock take any
number of steps. The checks of one end and the return of the result are one
step, because nothing in them awaits (the key fetcher is called synchronously).
`Redeem` is `complete_deferred_resource_request` going from the exchange of the
resource token (`token_exchange.py:363`) to polling the resource (383). The
answer is any token at all: that it is
the right one is what `PersonTokenGood` and `AuthTokenGood` find out.
`WouldAccept` is `verify_request`'s verdict on the claims.

### Access (`aauth/resource`, `aauth_signing/verifier.py`, `aauth/agent`)

An agent, a network and a resource with several threads. `Sign` is
`sign_request` and stamps the request by the agent's clock, `skew` ahead of the
resource's. `Begin` is `verify_request` up to the first key fetch, where the
signature's time is checked; `CheckSignature`, `CheckToken` and
`CheckRevocation` are the three readings of clock, keys and revocations that
follow, with `Tick` and `Fault` (a revocation, a dropped key) between them.
`Decide` is the rest: the types a route requires, and `build_challenge` for the
wrong one.

Keys and revocations are what the resource knows of them. `verify_jwt` sees the
key set that its fetcher returns, normally `JWKSFetcher`'s, which `NotStale` of
`JWKS` allows to be a lifetime and a request old: after an issuer has dropped a
key, each fetch may or may not find it still, for `Staleness` ticks
(`Published`, `cached`, `Keyed`). `is_revoked` forgets a revocation once the
token's exp has passed (`Lapsed`, `Revoked`).

What the agent's application does is not in the library and is modelled from how
its functions are meant to be used: `Obtain` and `habit`, whether it refreshes
agent, person and auth token, in this order, when `token_needs_refresh` says so;
`Credential`, which adds to `determine_response_scheme` (`Available`) that it
shows its person token to be challenged for an auth token; and `Handle`, that it
goes by the last challenge. A request is received any number of times, in any
order, until it is lost. `wrong` is history: what was wrong with the token when
its verification began.

`Settle` freezes the faults of the environment for `Served`, see Fairness.
A token that nobody holds any more is used again for a new one, so that an
agent's life has no end.

### Signing (`aauth_signing/signer.py`, `signature_base.py`, `verifier.py`)

A request is a record of the parts a signature can cover, and of the body. An
agent edits it (`Edit`) and signs it (`Sign`, `SignFails`) again and again;
`sign_request` works on the headers its last attempt left behind, and
`Prepared` is what it does to them. `ServerProfile` is what `AgentRequestSigner`
adds for a server that takes bodies. A digest is represented by the body it is
of, a signature by what it is over (`SignatureBase`) and the key that made it.
`Alter` is an intermediary that changes one part and knows no key; removing and
adding a header are changes to and from `None`. `Verified` is `verify_request`
on what arrives: canonical authority, required components, digest, signature,
session bound to the signing key. `Profile`, a constant, says what a recipient
requires. The window of `created` and replays are in `Access`.

### Conventions

Where two operators with the same parameters stand together, the first, with a
longer name, is a plausible bug. No specification uses it; `PROJECT.json` names
it as the mutant that shows that a property notices. The second operator is the
code's. No module declares a
`RECURSIVE` operator, so that TLAPS can be used on all of them. What is below a
token (`Below` in `Revocation`) or a server (`Under` in `RevocationNetProofs`)
is the smallest closed set that holds it; nothing could be proved by recursion.

## 4. The runs

| Run | Instance | Checks |
|---|---|---|
| `revocation_ps` | a PS: a foreign agent token, an unaccepted issuer with the same jti, three issued tokens (one below the agent token, one bound to the agent's identity only, one below that), two calls, clock 1 to 2 | `RecordedBeforeSend`, `CascadeComplete`, `ClosedWhenSettled`, `NoCollateral`, `RevocationHolds` |
| `revocation_as` | an AS whose host awaits before it records, a person token above a chain of two, two recipients, sends that end well, malformed, unsupported or raise | `IInv`, `ErrorFreeMeansDelivered` |
| `revocation_live` | the PS with a chain of three below the agent token, under fair scheduling, every send failing | `NoLiveDescendant`, `Termination`, `RevocationSpreads` |
| `revocation_overlap` | three calls revoking one token with two recipients | `EveryRecipientReported`: **violated**, see the finding |
| `revocation_net` | a PS above an AS above a resource, the lower two set up in any manner, the AS may defer, two rounds, one poll | `OutcomesAreTrue`, `RepeatHeals`, `CascadesEnd` |
| `deferred` | two questions, two interaction codes, two verdicts, 11 stray answers, 3 polls, `retry_after` 2 | `FlowTypeOK`, `BudgetIsExact`, `StaysOnOrigin`, `PromptedOnce`, `BackedOff`, `DecidedInTime`, `EveryCodeShown`, `KeepsPromise` |
| `jwks` | one issuer, two callers that go on asking, one rotation, interval 2, lifetime 2, timeout 1 | `TypeOK`, `CacheNeverGoesBack`, `OncePerInterval`, `NotStale`, `LimitedOnlyByFailure`, `RotationFollowed` |
| `exchange` | an agent with a sub-agent, two calls, an AS and two PSs that issue anything, tokens for another person and of another PS | `TypeOK`, `AcceptedChainAlive`, `BoundToPresented`, `ReturnedAlive` |
| `exchange_chain` | a call chain over two resources, a mission that ends, all servers using the library | `OnePersonServer`, `MissionBound` |
| `access` | one agent token, two person and two auth tokens, two requests, an auth token required, margin 4, window 1, patience 2, keys known for 2 after they are dropped, clock of half seconds, behind or ahead, an agent that refreshes or not, one fault | `TypeOK`, `ValidAtOnce`, `NoneExpiresOnTheWay` |
| `access_live` | one request at a time, an auth token required, one fault, an environment that settles | `Served` |
| `signing` | a PS that requires the body and a resource that requires another header, two bodies, two sessions of which one is another agent's, a token for another key, two signatures, an edit before each, two alterations | `TypeOK`, `AcceptedAsSigned`, `UnalteredAccepted` |

Why the bounds are enough for what the runs ask:

* Two calls suffice for each interleaving hazard of `revoke` (one awaits, one
  walks), three for the finding (one fails late, one succeeds, one relies on
  the success). The graphs have each kind of edge: a foreign dependency, an
  issued one, an identity, and a chain of two.
* The clock lets a token expire between two levels of a chain and a record
  lapse while a call awaits. `MaxTime` bounds it.
* In `deferred` three polls let a question, its answer and a prompt follow each
  other in any order, with a stray reply in between, and the budget run out on a
  poll and on an answer. The second code replaces the first before or after it
  was shown, and the second question is asked when the first is answered, so an
  answer to the wrong one is possible. The strays hold one of each kind the loop
  treats differently.
* In `revocation_net` three servers are the shortest line with a hop that is
  both received and sent, and two rounds the shortest history with a repeat. The
  earlier round may be anywhere when the second begins. One poll is enough to
  have an answer after a 202 and to run out of polls.
* In `signing` the second signature finds what the first left in the headers,
  for each kind of edit, and two alterations are what it takes to change a body
  and its digest together, or a header and the one that names its key.
* In `jwks` a request may take a second, half the interval, and the lifetime is
  as long as the interval: late answers, misses within the interval, expiry and
  an emptied cache all happen within a behaviour. The proofs need `Timeout <
  Interval` for `CacheNeverGoesBack` and `Interval <= Lifetime` for
  `LimitedOnlyByFailure`. The defaults satisfy the second (60 s, one hour). The
  first is an assumption on the HTTP client: httpx's 10 s limit each operation
  of a request and not the whole of it, and a custom client may have no limit.
  Issuers that share a `jwks_uri` or have several documents are left to the
  theorems, which need neither excluded for `OncePerInterval` and `NotStale`.
* In `exchange` two calls are enough to mix up answers, and among the tokens
  there is a wrong one for each binding: another person's, another PS's, another
  key's. Expirations of 2 and 3 (2 to 4 in the chain) over a clock to 3 let each
  dependency be the one that ends first, during a wait or after it.
* `access` keeps the order of the code's defaults, margin (300 s) larger than
  window (60 s) plus a key fetch (`Patience`, 10 s for each): with 4, 1 and 2 it
  is as tight as it can be. A lifetime of 5 lets a token be used once before it
  needs a refresh. Half of the behaviours are of agents that do not refresh;
  with two ticks in a verification their tokens expire in the middle of it, and
  a revocation lapses there: without its second disjunct `ValidAtOnce` is
  violated, after a token with one tick left was found alive. A key may be known
  for two ticks after it was dropped, and then found by one fetch and not by the
  next.
* Symmetry is used on calls, requests, threads and the tokens of one type, in
  runs without liveness. `VIEW` in the runs of `Access` leaves out what is left
  of tokens that nobody holds: no action or property reads it.
* `CHECK_DEADLOCK FALSE`: a finite number of calls of `revoke`, of rounds, of
  signatures, one deferred request, or the calls of an exchange are done after a
  while, and `Exchange`'s clock stops at
  `MaxTime`. In `JWKS` and `Access` time always passes or somebody can act, and
  deadlock is checked.

**Fairness.** `Revocation`: the event loop runs a ready task and every send ends
(`send_revocation` has an HTTP timeout and a poll limit). Nobody has to call,
issue or cancel. `DeferredFlow`: the client goes on (requests end, sleeps end,
callbacks return or raise); the server has to answer nothing but requests, and
need not ask or decide, and the user need not come. `RevocationNet`: something
goes on while any sender or manager can; no request and no reply has to arrive,
because the HTTP client's timeout ends what nobody answers. It is one weak
fairness for all of them, weaker than one for each. `JWKS`: requests end and
time passes (weak fairness). `RotationFollowed` is about verifiers that go on
asking and issuers that are not down for ever, so callers call again, and a
metadata request or a JWKS request does not fail every time (strong fairness).
`Access`: see `Settle`.

**Finding.** "Report prior successes on a repeat too" (`revocation.py:259`) does
not hold for overlapping repeats. Call 1 awaits its send to a recipient; call 2
sends to it and succeeds; call 3 finds that success and skips the recipient, and
awaits the next one; call 1's send fails and overwrites the success (line 248);
call 3 looks for the success (line 261), does not find it, and returns a report
without the recipient. The report has no error for it either. What does hold
(`ErrorFreeMeansDelivered`) is that the recipient has recorded the token; and
the comment holds of repeats that do not overlap (`ReportsAreFull`, proved).

## 5. The proofs

TLAPS checks every theorem from the named assumptions on the constants only.

* **`RevocationProofs`**. `IInv` (in `RevocationInv`) is the conjunction of
  `TypeOK`; `ControlInv`, what the locals hold at each place; `QueueInv`, that a
  scheduled key is either visited or still queued, once; `WalkInv`, that a known
  live token a visited key affects is scheduled, unless the scan under way has
  it before it; and `CoverInv`, that what was scheduled or told to a recipient
  is on record until it expires. `CascadeComplete` alone is not inductive: it
  says nothing before a call returns. When a call returns its queue is empty,
  so by `QueueInv` all it scheduled was visited, and by `WalkInv` all they
  affect was scheduled, and by `CoverInv` is still on record.
  `RevocationsHold` needs only the types. `ClosedAtRest` adds `ClosureInv`: a
  live token with a revoked dependency is revoked, or some call has still to
  look at it; a token registered after the last snapshot was checked against
  the record of its dependencies in the same turn. `ReportsAreTrue` adds
  `DeliveryInv`. `NothingElseRevoked` adds `ReasonInv`: what a call scheduled is
  below its root, or below a token of the root's agent. `NothingLivesBelow` adds
  `NestInv`, that no token outlives an issued one it depends on: `ClosureInv`
  goes one dependency down and stops at a token that has expired, and `NestInv`
  says that nothing lives below that one. So the tokens that are no exception
  form a set closed under dependency, which holds all of `Below`.
  `ReportsAreFull` says that `EveryRecipientReported`, which the overlapping
  calls of the finding violate, holds in every behaviour with no two calls under
  way at once (`[]OneAtATime`): no other call can unsay a success between the
  skip that relies on it and the report (`ReportInv`). `ClosedAtRest` and
  `NothingLivesBelow` assume `~ DeferredIssue`; all other theorems hold for both
  kinds of host.
* **`RevocationNetProofs`** is about any tree of servers, any number of rounds,
  and any faults. `NetInv` has `SpreadInv`, that whoever has the record has it
  from a parent that has it; `JobInv`, that a hop is handled once, for a sender
  that has the record; and `LinkInv`, that a reply about a cascade is its
  answer, and that a send without a fault ended in success unless its server
  does not accept. `OutcomesHold` follows from these. For `RepeatedRequestsHeal`
  the invariant has to say what is true below a server that is skipped because
  it answered "ok" in an earlier round, while jobs of that round still run.
  `CascadeInv` says that its subtree is complete: each server in it that has the
  record has passed it on to all its children that accept. Completeness is not
  undone by later steps, because a server can only get the record from its one
  parent, and the parents in a complete subtree have nobody left to tell. The
  theorem assumes `OnlyASBetween`, that servers with others below them are
  access servers, but for the first. The assumption is needed: with a person
  server in the middle, whose answer is empty even if its own deliveries
  failed, TLC finds `RepeatHeals` violated, because the next round skips it.
* **`PollerProofs`** is about `Poller` with any server; the runs check the same
  properties in `DeferredFlow`, where the server is the library's. `IInv` adds
  to the types where the budget stands at each place, that all URLs have the
  first origin, that prompts made are in `prompted` or at hand, and that the
  wait has grown with each 429.
* **`DeferredProofs`**. `FlowImplementsPoller` shows that within `DeferredFlow`
  the client takes the steps of `Poller` and no others, so that the theorems of
  `PollerProofs` hold of it. `FlowInv` adds to its invariant what relates the
  client to the server: `FlightInv` (a reply is on its way only while one is
  waited for), `QuestionInv` (the question in hand is the open one, or the
  server has decided), `VerdictInv` (what looks like a decision is the server's)
  and, for the two properties named after them, `PaceInv`, `LateInv` and
  `ShownInv`. The arithmetic of `DecidedInTime` is that each poll that was
  neither an answer nor wasted on a stray reply has been slept `retry_after`
  for, or carries the decision already (`LateInv`): where a poll is in flight
  the bound is one poll behind. `Implementation` is the step refinement of
  `Deferred`. `RetryAfter # None` is an assumption: `None` stands for a
  Retry-After that is missing, and the builders always send one.
* **`JWKSProofs`**. `IInv` bounds the ages and relates them: an answer was
  current when it was given, a cached key set at most a request's duration
  before it was cached. `KeysNotLostToMisses` needs `KeptInv` (what arrived last
  is cached as long as the limit forbids a request, unless the application
  dropped it) and that an issuer's documents name one `jwks_uri`, which no other
  issuer names. `CacheMonotone` needs `SingleInv` (one request for an issuer at
  a time) and `NewestInv`.
* **`ExchangeProofs`**. `Inductive` is the invariant. Its core is that
  expirations nest: the token that a chain of `under` reaches expires no earlier
  than the one it starts from, where a host or a call has seen to it. The clock
  does not occur in it: expirations are fixed at issue, so whoever finds the
  youngest alive finds all alive, at any later time. `CallInv` says which
  comparisons a waiting call has behind it; they stay true while it waits.
  `TokensEndWithTheirMission` assumes that all servers use the library.
* **`AccessProofs`**. `WrongInv` says that what was wrong with a token when its
  verification began is wrong as long as it lasts, and which of it the checks
  that are done have left. An expired token stays so; a key that no key set had
  then is in none later; a revocation stays recorded, but counts only until the
  token has expired; and a token that is being verified is not used again for
  another. So nothing but a revocation can be wrong with what is accepted, and
  only if the token expires between the last look at its expiration
  (`aauth_signing/tokens/common.py:127`) and the one at its revocation
  (`aauth/tokens/common.py:133`). The library looks the revocation up after the
  expiration; a record that outlived exp by a verification's length would close
  the gap. `FlightInv` and `JobInv` are the arithmetic of `NoneExpiresOnTheWay`:
  what is left of a token and the age of the request signed with it sum to the
  margin or more. The agent's skew adds to the one what it takes from the other,
  so it does not matter. The theorem assumes `Margin > Window + Patience`.
  Under this assumption an agent that refreshes does not meet the exception
  either (`NoneRevokedIsAccepted`).
* **`SigningProofs`**. Whatever is on its way still carries the Signature-Input
  and Signature of something that was sent (`FlightInv`), and what was sent was
  signed over its own parts, with a digest of its own body (`SentInv`).
  `AcceptedAsSigned` is not inductive by itself: that the altered message agrees
  with the signed one is found out at the end, from equal signature bases
  (`SameBase`). Agreement in the body takes the chain body, digest, signed
  digest, signed body; agreement in Authorization takes the verifier, which
  requires it to be covered if it is there, and the signer, which covers it if
  it is there. `UnalteredAccepted` shows that each check the verifier makes is
  one the signer has provided for. The number of edits, signatures and
  alterations is not bounded in the proofs.

Only model-checked is what needs fairness, which TLAPS cannot reason about:
`Termination`, `RevocationSpreads`, `CascadesEnd`, `RotationFollowed`, `Served`,
and that `KeepsPromise` keeps `Deferred`'s fairness too.

## 6. Abstractions, and what is not modelled

* Tokens, identities, servers, URLs and key sets are members of small sets. In
  `Access` the signature of a request is good (`Signing` is about signatures).
  Formatting and logging are left out.
* The clock counts seconds. The code compares `time.time()`, a float, with
  integers; between two seconds nothing else changes.
* A call's report is a set: its order and repetitions are not modelled.
* In `Revocation` a local is cleared where its value is dead, so that states
  differ only where the program's do.
* In `Revocation` a refused request is one outcome, whichever of 400, 401 and 403
  it is: no state changes. An issuer's requests about other servers' tokens may
  carry any jti and exp; those about the server's own tokens name one that is
  registered, with its own exp, as `send_revocation` does. The code takes any.
  With an exp earlier than the token's the record would lapse while the token
  lives.
* `record_issued` is called once for each token (`jti` is a fresh UUID).
* In `DeferredFlow` requests take no time, only sleeps do. The server asks a
  question once, grants nothing before the user has come if it called for the
  user, and takes an answer for the question it waits for; required claims and
  options of a question, which the poller passes over, are left out. Where a
  response names no interaction URL, the pending URL stands in for it, in the key
  by which prompts are remembered too (`poller.py:142`): after a move the same
  code is shown again, in the code as in the model. With
  `retry_after` 0, the builders' default, `DecidedInTime` promises nothing.
  `generate_pending_id`, `parse_pending_response`, `is_pending_response` and
  `detect_token_request_mode` are called by nothing in the library.
* In `RevocationNet` a server forwards one request to each recipient of one
  token, an issuer repeats after it has its outcome, and nothing in between
  answers 200 with an empty body, which `send_revocation` would believe
  (`revocation.py:105`). `RepeatHeals` depends on no server standing above a PS,
  which answers with an empty body whatever its own deliveries came to.
* In `Signing` a header that a signature cannot cover is not a part of the
  request. `expires` and `keyid`, which `sign_request` never sets, the spelling
  of the three headers, the labels, and how a Signature-Key's key is found
  (`KeyOf`) are left out. The query is covered only if the signed request had
  one, as in the code; `AcceptedAsSigned` claims no more than that. A request
  without a body cannot be signed for a recipient that requires a digest or a
  content type (`SignFails`).
* In `JWKS` metadata does not change its `jwks_uri`; the URL admission policy,
  which keeps no state, and the process's restart (an empty cache, like
  `Clear`, and no limit) are left out.
* In `Tokens` tenant claims, the check that person and auth tokens live at most
  an hour from `iat` (`bounded_exp`'s hour is modelled), audiences given as
  lists and the revocation checker (modelled in `Revocation` and `Access`) are
  left out; so are `login_hint` and other options in `Exchange`, which passes
  them on. `_post_ps` appears as the wait for any answer or error; what goes on
  in it is `DeferredFlow`. The verifications and comparisons with which a call
  ends are one step of `Exchange` at one time, although the key fetches among
  them take some: `ReturnedAlive` speaks of the time of the checks.
* In `Access` a revocation's record carries the token's own exp, which is the
  earliest an honest issuer sends. How old a key set may be (`Staleness`) is
  `JWKS`'s `Lifetime + Timeout` with the library's fetcher, and whatever a
  custom fetcher makes of it; the servers that an agent obtains tokens from are
  taken to know at once what is revoked or dropped. The issuers' clocks are
  right, the scheme is `jwt`, and routes require a type of token but no scope or
  session (sessions are in `Signing`; a scope is one comparison of claims that
  do not change). A resource token is redeemed before its own five minutes are
  over. The presented token is passed to `build_challenge` if it is a person
  token.
* Neither the exchange nor `build_challenge` looks revocations up; the models do
  the same.
* Not to be modelled: cryptography, parsing and formatting without state,
  examples and tests.
