# Flint Gate in TLA+

Flint Gate is an authenticating proxy and API gateway: it verifies an identity (Kratos session,
JWT, API key, OAuth introspection, MCP token), authorizes the request with Cedar policies and
route rules, and forwards it, rewriting streams on the way. Several replicas run side by side.
They share a Postgres database (routes, policies, API keys, approvals, receipts, the durable
authority cursor), a Redis (second level of the session cache, the authority fence,
configuration epochs) and, optionally, an external authority source (ASO) that tells them which
sessions have been denied. Everything else is in the memory of a replica.

This directory is a verification development of that program: TLA+ modules translated from
`src/crates/flint-gate-core/src` (paths below are relative to it), TLC runs on small instances,
and TLAPS proofs for every value of the constants.

## 1. Inventory

What each part keeps, does and has to get right. "Hard" names the behaviour that tests hardly
reach.

| part | state | operations | hard | correct when |
|---|---|---|---|---|
| Authority consumer, readiness (`authority/`) | per process: mode, applied and observed high water, date of the last probe, denied sessions; per deployment: durable cursor | `bootstrap`, `synchronize`, `catch_up`, `replay`, `mark_ready`, `request_bootstrap`, readiness checks | a chain of nine awaits, each of which races the source and the other replicas | a denial is obeyed within the freshness window; nobody is ready behind what is known |
| Shared fence (`cache/redis_fence.rs`, scripts) | Redis hash: high water, configuration revision and epoch; set of superseded namespaces | `BOOTSTRAP`, `ADVANCE`, `ADVANCE_CONFIG_EPOCH`, `PUBLISH_SESSION`, `LOAD_SESSION`, `MATCH_SESSION_EPOCH` | lost replies, losing compare-and-sets, loss of the data set | it never moves back |
| Configuration publication (`cache/mod.rs`) | per process: router, policy bundle, revision, epoch; Postgres: `configuration_revision` | `prepare_configuration`, `publish_prepared_configuration`, listener, `invalidate_all` | notification lost or late; two replicas publish; a request between two swaps | one snapshot per request, never an older one after a newer |
| Session cache (`cache/session.rs`, `cache/redis_fence.rs`) | L1 (moka), L2 (Redis), generation | get / put if current, invalidate, the watchdog of a stream | a fill that races an invalidation | an invalidated session is not served again |
| Governed effects (`governed_effect/mod.rs`, `postgres.rs`) | challenges with a deterministic id, a deadline and one decision | `evaluate`, `decide`, `revalidate` | a deadline or a reload racing a decision; retries with lost answers | an effect is only permitted under the binding that was approved |
| Channel authority (`governed_effect/channel.rs`) | grants (CAS on a revision), policy set, receipts | `put_grant`, `revoke_grant`, `decide(evaluate / release)` | revocation and policy change racing a release | a release is of the grant and the policy it was evaluated under, once |
| In-process and durable approvals (`approval/`) | pending map, cap, TTL; rows | `register`, `decide`, `purge_expired` | two deciders, expiry, cap | one decision per request |
| Request pipeline (`middleware/pipeline.rs`) | none of its own: the captured snapshot, the principal, the deadline | match, authenticate, read, look up, hooks, forward | a configuration, an identity or a deadline that moves between two hooks | every hook that can refuse has let the request pass, in time, by one configuration |
| External authorization (`middleware/ext_authz.rs`, `aso_*`) | none | check endpoint, ASO grant checks | a route with hooks the endpoint cannot run | as the pipeline |
| Streams (`stream/`) | line and event buffers, held calls, limits | SSE, NDJSON, A2UI, AG-UI, WebSocket | chunk boundaries, what is held and released between two chunks | what is withheld is never read, the rest is read as sent |
| Authorization (`authz/`) | compiled Cedar bundle, overlay of the configuration | build strict or lenient, evaluate, structured tool scopes | rows that no longer parse, schemas that do not compose | a skipped row leaves no trace, the overlay stays |
| Rate limits and budgets (`ratelimit/`, pipeline) | counters in Redis, ledger in Postgres | check, charge, log | a check long before the charge, an outage in between | the overshoot is bounded, a window ends when it was going to |
| Authenticators (`auth/`) | key sets, validated API keys, registry of agents | verify, refresh, look up | refresh racing a verification, revocation racing a cache fill | an ended key is accepted for a bounded time |
| OAuth endpoints (`auth/oauth.rs`, `token_exchange.rs`, `jwt_mint.rs`) | clients, issued tokens, signing keys | exchange, client credentials, introspect, rotate, publish keys | chains of exchanges, waiting within one, keys rotated, or replaced under their id, under live tokens | a token never gains authority and stays verifiable until its key is replaced |
| Router (`proxy/router.rs`, admin) | route table | store, merge with the file, sort, match | rows that are overridden, broken, disabled or deleted | the best enabled route that stands serves |
| Start and stop (`flint-gate/src/main.rs`), file watch (`config/loader.rs`) | the step it is at, the background migration, servers, watches | fourteen steps of a start, drain, watch | an outage at any step; a signal between two; links that are swapped | no request before publication; it stops when asked; a change seen is reported |
| Database layer (`db/mod.rs`) | tables | CRUD of routes, policies, keys, agents; `record_config_change` | transactions | a change and its revision commit together |
| Admin API (`admin/`) | none | handlers over the database and the caches | partial failure after a commit | a reported success is published |
| Rust client, SDKs, admin UI, deployment files | – | – | – | outside the core |

How they interact: the consumer proves a replica *ready* and publishes through the fence; the
session cache asks readiness before and after every await and stores entries under the fence's
high water and the configuration epoch; configuration publication moves the epoch and swaps the
router and the policies under one lock; requests take router, policies and identity from these;
governed effects and approvals are decided in Postgres and rechecked at release; budgets are
charged by the stream after its end. A start brings these up in an order of its own.

## 2. Modules

| module | models | uses |
|---|---|---|
| `FenceScripts` | the Lua scripts that keep the fence, as functions from the stored hash and the arguments to the code returned | |
| `MonotonicFence` | abstract: what the fence promises | `FenceScripts` |
| `AuthorityConsumer` | `authority/*.rs`: consumer task, readiness, cursor, source, fence | `FenceScripts`, instance of `MonotonicFence` |
| `AuthorityInvariant`, `MCAuthorityConsumer` | the inductive invariants; the instance for TLC | `AuthorityConsumer` |
| `AuthorityConsumerProofs` | types, publication, fence refinement, cursor, bounded staleness | `AuthorityInvariant` |
| `ConfigPublication` | `cache/mod.rs`, `db/mod.rs`: publication of routes and policies, the listener, admin requests, flushes | |
| `ConfigInvariant`, `MCConfigPublication`, `ConfigPublicationProofs` | its inductive invariant, instance, theorems | `ConfigPublication` |
| `SessionCache` | `cache/session.rs`, `cache/mod.rs`, the watchdog of `middleware/pipeline.rs`: the cache without an authority | |
| `MCSessionCache`, `SessionCacheProofs` | instance; theorems (the invariant stands at the end of `SessionCache`) | `SessionCache` |
| `VersionedSessionCache` | `cache/redis_fence.rs`, `cache/mod.rs`: the cache under an authority | |
| `TokenExchange` | `auth/oauth.rs`, `auth/token_exchange.rs`, `auth/client_credentials.rs`: the token endpoint | |
| `VersionedInvariant` | the inductive invariants of the versioned cache | `VersionedSessionCache` |
| `MCIdentities`, `IdentityProofs` | instance of the cache and the exchange; theorems about both | `VersionedInvariant`, `TokenExchange` |
| `OneShotPermit` | abstract: what a release promises | |
| `ChannelAuthority` | `governed_effect/channel.rs`: evaluation and release of channel effects | instance of `OneShotPermit` |
| `ChannelInvariant` | its inductive invariant | `ChannelAuthority` |
| `Requests` | `middleware/pipeline.rs`, `middleware/ext_authz.rs`: one request, await by await | |
| `UsageLimits` | `ratelimit/`, the budget hook, metering and ledger | |
| `MCAdmission`, `AdmissionProofs` | instance of the last three; theorems about each | `ChannelInvariant`, `Requests`, `UsageLimits` |
| `ChallengeRegister` | abstract: what a register of challenges promises | |
| `GovernedEffects` | `governed_effect/mod.rs`, `postgres.rs` (the invariant stands at its end) | instance of `ChallengeRegister` |
| `DurableApprovals` | `approval/durable`: the two approval stores | |
| `MCGovernedEffects`, `GovernedEffectsProofs` | instance of the last two; theorems about both | `GovernedEffects`, `DurableApprovals` |
| `HumanApproval` | abstract: what "human in the loop" promises | |
| `StreamApprovals` | `approval/mod.rs`, `stream/`, `middleware/pipeline.rs`: held tool calls | instance of `HumanApproval` |
| `StreamFrames` | `stream/processor.rs`, `stream/ndjson.rs`: what is written and what a client reads of it (the invariant stands at its end) | |
| `MCStreams`, `StreamApprovalsProofs` | instance of the last two; theorems about both | `StreamApprovals`, `StreamFrames` |
| `JwksCache` | `auth/jwks.rs`: the cached key set and its forced refresh | |
| `ApiKeys` | `auth/api_key.rs` and the table: keys and what was validated of them | |
| `SigningKeys` | `auth/jwt_mint.rs`, `jwks_publish.rs`, `introspect.rs` and the table | |
| `PolicyStore` | `authz/`, `admin/mod.rs`: policies, versions, the bundle and what it decides | |
| `RouteTable` | `proxy/router.rs`, `admin/mod.rs`: routes, their merge, their order | |
| `Lifecycle` | `flint-gate/src/main.rs`: the start, service and end of a process | |
| `ConfigWatch` | `config/loader.rs`: the watch over the configuration file | |
| `MCTrust`, `TrustProofs` | instance of the last seven; theorems about the first five | all of them |

Where an MC module instantiates several models, they share nothing: `part` says of which of them
a behaviour is, the variables of the others keep one value, and the models' variables are `x1`,
`x2`, … in the order in which the models declare them. In `MCConfigPublication` and
`MCSessionCache` the parts are two deployments of one model.

`PROJECT.json` has, for every definition, the file and lines it stands for. In every module an
action is the code from the end of one await to the end of the next, `pc` is the await a task is
at, `job` its locals, `home` the process it runs in, and `faults` counts what the bounds allow
to go wrong. A variable called history is written and never read by an action. A definition
under a comment that begins with "Variant:" is a mistake the code does not make: no action uses
it, and with it in the place of the definition that follows, one of the runs fails.

### Authority consumer

State and code: `mode … denied` are the fields of `ReadinessState` (one record per replica;
every method takes its lock once, so a method is atomic); `pc … page` are the locals of `run`,
`bootstrap`, `synchronize`, `catch_up` and `replay` between two awaits; `cursor` is
`aso_authority_cursors`; `fence` and `superseded` are the Redis keys. `None` is `NoWater` or
`NoProbe`. An action is what a task does from the end of one await to the end of the next. Two
processes interleave at every await, and so does the source.

Abstractions: a namespace (deployment id, incarnation) is a number given out in the order of
adoption; the code only compares namespaces for equality and so do the actions, the order is for
the properties. A session key is a model value. An event that denies no session
(`MembershipRevision`) carries `NoSession`. Time is a tick; Postgres' `NOW()` and the processes'
clocks are one clock (the code compares the database's `retain_until` with the process clock, so
a skew shortens or lengthens a denial; that is not modelled). The 250 ms ticker and the Redis
timeout are not timed: an attempt may start at any moment and an await may take any time. Redis
scripts are atomic, as Redis runs them. A lost Redis reply is `LoseFenceReply`, an await that
fails before its effect `FailAwait`, after its effect `LoseCursorReply`. A restart keeps the
cursor and the fence only. `BypassOnDrop` (a graceful stop) is the `Abandon` of a process that
never starts again.

External, modelled from how the reader queries use it: the ASO source. Its commits are in
sequence order, a rolled back transaction leaves a gap, a denial is retained and later purged, a
re-created database takes a new incarnation, and (only in `RegressSpec`, which is proved about
and not run) a restored one does not.

### Configuration publication

State and code: `router`, `policies`, `applied`, `epoch`, `guard` are the shared router, the
engine's bundle, `configuration_revision`, `authority_config_epoch` and the write side of
`configuration_snapshot_lock`; `durable` is `config_revision`, `lock` the Postgres advisory
lock, `shared` the configuration fields of the fence. A task is either the listener of a process
or an admin request, so several of them publish in one process. `Prepare…` and `Publish…` follow
`prepare_configuration` and `publish_prepared_configuration` await by await, errors included.

Abstractions: the contents of a table are the revision it was read at, since all that matters is
of which revision each half of a candidate is. `database.override_yaml` is on (otherwise no
route comes from Postgres). A revision in `Ungoverned` fails the strict governance lint. A
process whose first initialisation fails exits, and starts again. `Cancel` is an admin future
dropped with its client, at any await; the advisory lock then goes with its connection, the
guard with the future. The deletion of L2 entries and the new session generation, which a
publication also causes, are in the session modules.

### Session cache without an authority

`l1`, `generation` are the fields `sessions` and `session_generation`; `l2` the Redis key. A
request walks `get_session`, the authenticator and `put_session_if_current`; the same walk with
`watching` is the session watchdog of a stream. `invalidate_session` and `invalidate_all` are
one operation here, because there is one credential: they advance the generation, clear L1, then
delete in L2. An identity is the revision of the account it was verified at. It carries the end
of its session, so the cache sees an expiry and never a revocation. Time to live and capacity of
either level are an eviction that may come at any moment. A process has one invalidation under
way at a time.

### Versioned session cache

The same walk under an authority: every store, load and attestation is a Redis script that
compares the fence with the entry's high water and epoch, and after each await the process asks
its readiness, its denials and its generation again. `water` is the high water a ready process
acquires, `None` when it is not ready; `task` and `notes` are the invalidation of a process and
the Redis message that asks for one.

Taken for granted, because the other modules prove it: a ready process is not ahead of the fence
and has applied the denials up to its water (`ReadyIsPublished`, `BoundedStaleness`);
publications and configuration changes exclude each other (`LockPinsRevision`). Abstractions:
one namespace (superseded ones are in `AuthorityConsumer`), the water in the name of a key is
left out, expiry and eviction are those of `SessionCache`, Redis keeps its memory, a process
runs one invalidation at a time, and a lost message is one that is never heard. The run has one
process; a restarted one stands for another.

### Channel authority

A call is one Postgres transaction at READ COMMITTED: it reads the grant `FOR SHARE` (so it pins
it to its end), the receipts of the effect `FOR UPDATE` (which locks nothing while there is no
row), decides under the policies its process has loaded at that moment, and inserts a receipt
whose unique keys the database checks. Two calls may find no receipt and both insert: the second
waits for the first and then conflicts. A release that is withheld is recorded and burns the
effect. Two identical evaluations at once may be answered "identity collision", and policies may
be reloaded between the last comparison and the commit; both are in the model. The request
stands for its SHA-256. What makes a request invalid by itself (shape, size, dates) is left out.

### Key set cache

`cache` is `CachedJwks`, `last_forced` the instant under the refresh lock; a request looks up,
waits for the lock, looks again, fetches, stores. The server (external) rotates, fails and is
slow up to the HTTP client's timeout, which bounds `Tick`. A token names a key; what a token
without `kid` gets and the rule that keys are asymmetric are functions of the same set and left
out.

### Held tool calls

`calls`, `pending` are fields of the AG-UI processor, `intent` of the A2UI one, `queue` the
decision channel of a stream, `entries` the map of `ApprovalManager`. `register` is split at its
test of the cap, because the map is locked again for the insertion; `decide` at its first look,
for the same reason. A stream reads a chunk at a time and does not read the next one while it
holds a call (the `select!` of the stream task); `over` is set by the session watchdog or by a
client that closes. A fresh UUID is an unused member of `Approval`; which one it is makes no
difference and the model takes any one of them (`CHOOSE`).

Abstractions: what the policies say of a call, and whether its arguments are too long or
unparseable, is any choice; what goes to the client, its framing, and the channel of 64 chunks
behind which a stalled client lets the stream wait, are left out. Time does not pass while a
chunk that has asked is still being processed (there is no await other than the map's lock in
between).

### Governed effects

`challenges` are the stores: a map in the memory of each process, or the table in Postgres
(`StoreOf`). A call captures the policies (`EvaluateHandler`, `RevalidateHandler`), then
registers under the id of its binding, reads back what another call stored there and compares
it, or loads the record and looks at the clock. `DecideHandler` is one statement, or one look
under the lock. `ReloadPolicies`, `Restart` and `Drop` (a lost answer) come at any moment.
Hashes are the records they are hashes of. What makes a request invalid by itself is
`Malformed`, except its dates. `ChallengeRegister` is the promise: one deadline and one decision
for a challenge, a permit only while it is open and approved.

### Approval stores

`entries` is the map or the table. In memory a purge finds what has expired and then removes it
entry by entry, and a second decision overwrites the first; in Postgres either is a single
statement and the first decision stands. No request of the gateway waits on these stores yet.

### Requests

One request on any route with up to `MaxHooks` hooks, through the pipeline or the check
endpoint. `pinned` are the revisions taken with the route under the publication lock; `passed`
the time each hook let it pass; `barred` says that the identity was revoked before the request
and ever since. On a protected route all awaits up to the last hook share `Deadline`. Every
provider and every hook is reduced to what it may answer: a hook may refuse (`Refuse`), wait
(`Tick`), or pass. What a hook of claims, a body transformation or a template computes is left
out; the header that goes upstream is `token`.

### Budgets

`counter` are the keys of the window script with their expiry, `ledger` the rows of
`usage_events` by time. `Arrive`, `Check`, `StreamEnds`, `Charge`, `LogUsage` follow the hooks,
the metering step and `incr_budget`; each call to Redis or Postgres may fail. One principal and
one route, since counters of different names do not meet.

### Token exchange

A request is its form and the await it is at. A token is its actor, scopes and expiry; `root`,
which the code does not keep, is the credential it descends from. The provider of subject tokens
may trust the gateway itself (`policy.own`), so tokens chain.

### Signing keys, API keys

`row` is the table of keys, in which an id has a pair of keys, `minter` what a process read when
it started; a rotation is two statements, whose overlap `rotation` keeps. A pair that is inserted
under an id that is there takes the place of the other (`ON CONFLICT DO UPDATE`), which
`replaced` remembers. HMAC secrets (`Shared`) sign and are not published, and a publishable key
that is no PEM (`Unreadable`) empties the set. One rotation at a time is under way for an id. For
API keys, `cached` is the authenticator's
memory, a lookup two steps, and `EndOf` the revocation or the expiry.

### Policies

`row`, `versions` are the tables, `served` the bundle. An admin request validates, writes under
the lock of the row, and publishes. A policy is one statement about the one call that is asked;
a schema is a name; `broken` are texts and schemas that a new release does not parse. Cedar itself is a
library: `Decision` has its rule that a forbid overrides.

### Routes

`rows` is what was stored, `table` the sorted router, `loaded` the rows it was built of. What a
body says of `enabled` is lost in `Merge`, as in the code; what ought to serve (`Candidates`) are
the enabled routes only. A pattern is its length and the paths it accepts. Ties are in any order, as in the code's hash
map.

### What streams write

The processor reads lines of a chunk (`DataLine`, `EventLine`, …), decides at the end of an
event, writes at the end of a chunk. Output is a sequence of texts and ends of lines, and
`client` reads it by the rules of SSE and NDJSON (`Take`). To an SSE client a line also ends at a
lone CR, which the processor leaves where it stands, `data` needs no colon, and a byte order mark
is no text: so a line that passes as no data may be data (`Unjudged` in `Lines` and `Names`;
`slipped` remembers it), and data that passes as it came may go on in a second line, which is
ignored, is data, or comes after a blank line (`Rest`). What a filter says of an event is any
choice. Where a chunk is cut is any choice too (`EndChunk`).

### Start and stop, file watch

`Lifecycle` has one action for each step of `main`, in its order, with its refusals and its
degraded paths; `options` are what the configuration asks for and the one flaw it has. `open`
are the requests in flight. `ConfigWatch` has the task, its two watches and its debounce;
`leads` is where the configured path leads to. The kernel's queue does not overflow.

## 3. Runs

Constants give the number of actors and values; every `Max…` bounds a counter or what may go
wrong and stands in the guard of the action it bounds. `None`, `NoTask` and the like are model
values.

| run | instance | the question | why the bounds reach it |
|---|---|---|---|
| `AuthorityStaleness` | 1 replica, 1 session, window 1, retention 3, time to 3, pages of 2, 2 incarnations, 1 fault, Redis may lose its data | is a proof of readiness dated before what it proves? | time reaches the window and passes it while an await is slow before the source purges, which it does at the end; the log has a gap, a row more than a page and a re-created source |
| `AuthorityConverge` | 2 replicas, no sessions, 1 fault | does the shared fence only advance; do two replicas that lose compare-and-sets against each other both get ready? | two replicas may each hold a snapshot while the other publishes; a reply is lost, a replica restarts, the source is re-created |
| `Config` | part `tasks`: 1 process, 1 admin request, 3 revisions of which one fails the lint, 1 fault, flushes; part `processes`: 2 processes, 2 revisions, 1 fault, Redis may lose its data | is the pair of router and policies one revision; is "reloaded" true; does everybody end at the last revision and epoch? | three revisions: the one served, the one prepared, the one that overtakes it; a notification or a connection is lost while the other process publishes |
| `ConfigNotActivated` | 1 process, 1 admin request, no fault | (finding) | |
| `Sessions` | part `alone`: 1 process on its Redis, 2 requests, 2 invalidations, 1 fault; part `streams`: 2 processes on one Redis, 2 streams, restarts | may a late answer bring back what was invalidated; does every stream of an ended session end? | a store, an undo and two invalidations overlap; an entry is copied from one process to the other through Redis |
| `Streams` | part `approvals`: 2 streams, 1 tool call id, 2 approvals, 1 caller, cap 1, TTL 1; part `frames`: 3 events of up to 2 lines, up to 2 lines of no event in a chunk, one line or frame in a stream that the client ends where the processor does not, SSE and NDJSON | is what is released approved; does every hold end; is the cap kept; what does a client read? | both streams pass the test of a cap of one at once; decision, deadline, janitor and disconnection meet at one entry; two calls held across chunks, and an event between them; the odd line before, in and after any event |
| `Effects` | 1 process, 2 calls, 1 effect, 2 owners (one unattested), 2 policy sets, TTL 1, time to 2, 1 fault, in memory and in Postgres; approval stores with 2 approvals | is what revalidation permits approved; does a challenge keep its deadline and first decision? | two calls over one challenge, while the deadline, the decision, a reload and a restart come between the load and the look at the clock |
| `Identities` | 2 processes, 1 request. A part for each process: it is alone, with a database or without, 1 account change, and three of 1 event, 1 configuration, 1 flush and 1 fault; `fleet`: both live, an event or a configuration, no flush or fault; `exchange`: 2 clients, 1 scope, 2 tokens, lifetimes 1 and 2 | are denied sessions, old epochs and flushed entries fenced off; does a chain of exchanges gain authority? | what invalidates happens at any await of the request, three causes in any order; a publication moves the epoch under a request in another process; the second token is exchanged from the first while time passes |
| `Admission` | `channel`: 1 process, 2 calls, 1 effect, 2 scopes, 2 policy sets, 2 grant changes; `pipeline`: 1 request, 11 kinds of hooks, up to 2 on a route, 1 republication, deadline 1, time to 2; `limits`: 2 callers, limit 1, windows of 2 ticks, cost up to 1, 2 outages, 2 OAuth calls in a window | is an effect released once and under its grant; does anything go around a hook or come too late; by how much is a budget overshot? | two transactions race; a hook before and after a slow one, with routes and policies swapped and an identity revoked between; both callers pass the check before either is charged |
| `Trust` | `keySets`: 2 requests, 1 key, TTL 2, interval 1, timeout 1, time to 4; `secrets`: 1 API key, 2 requests; `signing`: 2 ids, 2 pairs, one of them both a secret (not published) and unreadable, 1 process, life 1, time to 1, 1 token; `policies`: 3 identifiers, one of the overlay, 4 contents, 2 versions, 1 failed publication, a release that cannot read one text or schema; `routes`: 2 identifiers, 5 routes (one disabled, one unreadable), 3 hosts, 2 paths, 2 methods; `life`: every combination of options and at most one flaw, 1 outage, 1 request in flight for each server; `watch`: 3 files in 3 directories, 1 write to each, 2 swaps, 2 queued events | how old may the set be on which a token or a key is judged; are policies and routes in service those that stand; does a process come up, stop and notice in order? | the key is published and withdrawn while one request fetches and the other waits; a row is broken under an older version; the outage starts and ends between any two steps; a swap and a write in the new directory queue together. A third swap would not fit the time a run may take; that no change is missed is proved for any number |
| `JwksRotation` | 1 request, 1 key, TTL 4, interval 1 | (finding) | |
| `FailsClosed` | part `policies` of `Trust` without an overlay | (finding) | |

Bounds that a run cannot afford are covered by the theorems, which hold for every value of the
constants. Beyond the runs above, `StreamApprovals` was also explored with two concurrent
operators on one stream and two approvals, without another result. Symmetry is only declared
where no liveness property is checked.

Some properties are conjunctions, one for what a component promises as a whole:
`NothingWaitsForever` (held calls end, entries are removed), `ApprovalsStand`,
`LetThroughIsAllowed` (every hook has let the request pass, one configuration judged it, revoked
identities are denied), `PoliciesHold` (the overlay stays, skipped rows leave no trace, only
valid rows are written), `LifeIsOrderly` (nothing is served before publication, no old schema is
left behind without a task, migrations catch up, the process stops), `ChangesAreReported` (the
watch knows of a change or will, and reports it). The parts have names and comments of their own
in the modules.

**Fairness.** Authority: `run()` wakes on a 250 ms ticker whatever happened before, so each
consumer goes on (weak fairness of its next step). Configuration: tasks are scheduled; a
listener's one second timer retries, reconnects, and a process that failed to start is started
again; the consumer installs a fence that Redis lost. Sessions: tasks go on, the watchdog's
ticker ticks, and entries live no longer than their time to live (in the part `streams`, the
only one that promises something in the end). Key sets: tasks go on, and
tokio's `Mutex` serves its waiters in order, hence strong fairness of taking it. Held calls: the
task of a stream, the janitor and time go on; upstream, clients and operators owe nothing. File
watch: its task takes what is queued and its timer fires. Life of a process: the migration task
retries on a timer, the drain and its timeout are tasks of the runtime, and an outage of
Postgres ends (without which nothing could be promised about migrations). No fairness is assumed
of commits, faults, lost messages, clients, operators, upstreams or the authorization server.
`CHECK_DEADLOCK FALSE` stands where a behaviour may really be over: all streams have ended
(`Streams`), the one request is answered (`Admission`), the process has ended or its bounds are
used up (`Trust`, `FailsClosed`).

**Findings.** Three runs are expected to fail. `ConfigNotActivated`: a request that answers
`stored_but_not_activated` (admin/mod.rs:1339) may have its policy enforced by the listener of
its own process, which overtook it; the comment says that no surface is exposed. `JwksRotation`:
the forced refresh for an unknown key returns the cached set while that is within its time to
live (auth/jwks.rs:155), so a newly published key is refused for up to five minutes; the
comments promise one refresh per interval. `FailsClosed`: when the entities of all rows together
do not conform, the bundle keeps none of them (authz/bundle.rs:149), "fail-closed, never
fail-open"; a forbid for a group then forbids nobody, and a permit applies.

## 4. Proofs

Each proof module EXTENDS the modules it is about, and rests on the assumptions that those name
for their constants (`ConsumerAssumption`, `PublicationAssumption`, `SessionAssumption`,
`VersionedAssumption`, `ChannelAssumption`, `JwksAssumption`, `StreamAssumption`,
`EffectsAssumption`, and for the models that stand in an instance `FramesAssumption`,
`ExchangeAssumption`, `PipelineAssumption`, `LimitsAssumption`, `RowsAssumption`, `SecretsAssumption`,
`SigningAssumption`, `RoutesAssumption`, `PoliciesAssumption`, `WatchAssumption`, `LifeAssumption`)
and on nothing else; all of them
are weak (disjointness, naturals, finite sets of streams, approvals and callers, an overlay whose
identifiers are reserved). TLC checked the inductive invariants on small instances before they
were proved. A theorem about a model that is a part of an instance is a theorem of that
instance's specification, whose constants are as free as the model's own.

| theorem | says |
|---|---|
| `StalenessIsBounded` (`AuthorityConsumerProofs`) | `BoundedStaleness`, on a Redis that may lose its data |
| `ReadinessIsPublished` (same) | `ReadyIsPublished`, over a source that may be restored |
| `FenceIsMonotonic`, `CursorOnlyAdvances`, `TypeCorrect` (same) | refinement of `MonotonicFence`, `CursorIsWatermark`, `TypeOK`, with both faults |
| `SnapshotIsOneRevision`, `ReloadedIsTrue`, `ConfigurationOnlyAdvances`, `PublicationTypes` (`ConfigPublicationProofs`) | `PairIsOneRevision`, `ReloadedIsServed`, `NeverOlder`, `TypeOK`, fenced or not, and though Redis may lose its data |
| `NobodyWaitsInACircle` (same) | `WaitingEnds`: who holds a lock is on the way to releasing it, and nobody waits in a circle, whatever fails, is dropped or restarts |
| `ConfigurationIsWithinEpoch`, `WithinEpochWhileKept` (same) | `NotAheadOfEpoch` if Redis keeps its data; `NotAheadWhileKept` as long as it does |
| `RefillsAreFenced`, `TypeCorrect` (`SessionCacheProofs`) | `ServedSinceInvalidation`, without Redis, or while the processes that have requests keep their generations and agree on them (`TagsAgree`); `TypeOK` always |
| `DeploymentsAreFenced` (same) | `ServedSinceInvalidation` of the instance `Sessions`, both of whose parts keep that hypothesis |
| `VersionedDenials`, `VersionedEpochs`, `VersionedTypes` (`IdentityProofs`) | `DeniedIsNotServed`, `EpochFencesIdentities`, `TypeOK`, in a fleet of any size with flushes and faults |
| `VersionedFlushes` (same) | `FlushesAllCaches`, for the requests of the processes that are flushed by hand, whatever the others publish, take up, fail at or restart in |
| `FlushesClearCaches` (same) | `FlushesAllCaches` of the instance `Identities`, which keeps that hypothesis |
| `ExchangesShrink`, `ExchangeTypes` (same) | `AuthorityShrinks`, `TypeOK` of `TokenExchange` |
| `OnePermit`, `ReleasesAreGranted`, `AnswersTellReceipts`, `OncePerAction`, `TypeCorrect` (`AdmissionProofs`) | refinement of `OneShotPermit`, `ReleasedUnderGrant`, `AnswersAreRecorded`, `ReleasedOncePerAction`, `TypeOK` of `ChannelAuthority` |
| `RequestsPassHooks`, `RequestsAreInTime` (same) | `LetThroughIsAllowed`, `SentInTime`, for hooks of any number and kind |
| `OvershootBounded`, `WindowsStayFixed` (same) | `OvershootIsBounded`, `WindowIsFixed` |
| `PermitsApproved`, `ToldStays`, `Implements`, `TypeCorrect` (`GovernedEffectsProofs`) | `PermitsAreApproved`, `ToldIsStored`, refinement of `ChallengeRegister`, `TypeOK` |
| `RowsStand` (same) | `ApprovalsStand`, in memory and in Postgres |
| `DecisionsAreRecent`, `TypeCorrect` (`TrustProofs`) | `AnswersAreRecent`, `TypeOK` of `JwksCache` |
| `FetchesDoNotStampede` (same) | `NoStampede`: one request at a time asks the authorization server, and a cached set stays for its time to live |
| `EndedKeysAreStopped`, `TokensStayVerifiable` (same) | `EndedKeysStop`; `StaysVerifiable`: until the key of a token is replaced under its id, while no publishable key is unreadable, and but for secrets |
| `BestRouteServes`, `PoliciesAreWhole` (same) | `ServedByTheBest` (the best of the enabled routes, or a row that says it is disabled), `PoliciesHold` |
| `NoChangeIsMissed` (same) | `NothingIsMissed` of `ConfigWatch`, for any files, directories, writes and swaps |
| `ServesWhatItPublished` (same) | `ServedIsPublished` and `NotLeftBehind` of `Lifecycle`, for any options, flaws and outages |
| `TypesAreRight` (`IdentityProofs`, `AdmissionProofs`, `TrustProofs`) | `TypesOK` of the three instances: the types of every model in them |
| `PendingBounded`, `Implements`, `TypeCorrect` (`StreamApprovalsProofs`) | `PendingIsBounded`, refinement of `HumanApproval`, `TypeOK` |
| `EventsOfTheirOwn`, `NothingWithheldIsRead` (same) | `FramesAreEvents`, `WithheldIsUnread`, for any number of events, held calls and lines; the first under its three exceptions (next section but one) |

The arguments:

- **Bounded staleness.** A process may answer from its cache while its last probe is younger
  than the window. That is sound if whatever was denied before the *date* of the probe is
  covered by the applied water (`ProofCovers`). The date is taken before the query, and the
  water grows to the query's result before the proof is held (`NoProofWhileMoving`). That an
  applied water means known denials needs that replay skips nothing: the source is a log
  (`SourceIsLog`), a page is a gapless piece of it that continues the applied water and shows
  the retention of now (`PageIsComplete`), a snapshot is complete up to its water
  (`SnapshotIsComplete`), and so is what was applied (`AppliedIsComplete`). None of these is
  inductive without the others: `StalenessInv`.
- **Ready is published.** A process that is about to mark itself ready has had its fence call
  confirmed, and the fence only advances or leaves the namespace: `PublishedInv`.
- **Configuration.** Two equal readings of the revision around the loads make the candidates one
  revision (`CandidatesAreOneRevision`); the confirmation under the advisory lock pins it until
  the swaps (`LocksAreHeld`, `LockPinsRevision`), because a change takes the same lock.
  `PairInv` and `ReplyInv` follow step by step, whatever Redis loses (`Core`); that no process
  is ahead of the epoch (`EpochInv`) follows as long as Redis keeps its data, so every lemma
  says that a step keeps the first, and the second if it held.
- **Waiting.** The advisory lock is held from a publication's lock to its unlock, a process's
  guard inside that or inside a flush (`LocksAreInUse`). So a task that waits for the advisory
  lock waits for one that waits for a guard at most, and the holder of a guard waits for nobody
  (`WaitingEnds`). Steps that take, keep and give back a lock are lemmas of their own.
- **Sessions.** While a generation number stands for the same in every process that has requests,
  and none of them forgets it (`TagsAgree`: one process that does not restart, or any number
  whose sessions nobody invalidates), an entry tagged with the present generation is younger
  than the last invalidation (`EntriesAreTagged`); what a request
  carries is not older than its own start (`AnswersAreYoung`); past values only grow
  (`PastOnly`); without Redis nothing is shared (`NothingShared`).
- **Versioned sessions.** *Denials*: a request that expects the fence of before a denial is
  refused by Redis when it confirms its entry, and what it knew when it began is part of what it
  expects (`DeniedInv`). *Epochs*: nothing carries an epoch or an account of the future
  (`PastInv`); an entry is tagged with an epoch that its identity may carry (`EntriesAreSound`),
  and what a request has verified may carry whatever epoch its process takes up before the next
  invalidation (`VerifiedMayAdopt`), because publications exclude each other and advance the
  epoch after the commit (`Publications`). *Flushes*: an entry of the epoch of now is younger
  than every flush that moved it (`EntriesAreYoung`), for a fleet too; that a request which began
  after an answered flush is served nothing older needs that its process does not share the
  epoch with one that is inside a flush of its own, hence `FlushesAtHome`: only the process of
  the requests is flushed by hand. The others do whatever else they may.
- **Exchanges.** Each token remembers the session or the credentials at its root: its scopes are
  among the root's, and it ends with the root or is of a kind that nothing is exchanged for
  (`TokenShrinks`); a request that waits for a provider still has the form it was let in with
  (`WaitsWith`), though the list of clients changes meanwhile.
- **Pipeline.** Hooks pass in order (`PassedInOrder`), each before the deadline of the authority
  mode (`WithinDeadline`); the policies that judge were pinned with the route (`PinnedIsPair`);
  whoever was barred before the request came has not passed an authorize hook
  (`BarredIsStopped`). Together `PipelineInv`.
- **Budgets.** What a window holds and what those in flight may still charge to it stay below
  the limit and one request for each caller (`Reserved`): a check adds a caller to those in
  flight only while the window is below the limit, and a charge removes one. The product of a
  cardinality and a cost is monotone in both; that is all the arithmetic there is, so no sum
  over callers is needed. A window whose value has expired counts from nothing, with all callers
  in flight at most.
- **Channel.** The share lock pins the grant for the transaction (`GrantIsPinned`), receipts
  stay (`EvaluationIsPinned`), the database's unique keys make the inserter of a receipt the
  only one (`InsertsAreUnique`, `ReceiptsAreUnique`), so what it decided
  (`DecisionsAreAuthorized`, `EvaluationsAreTrue`) is still true at the commit, and the permit
  is with one call or delivered (`PermitIsOne`).
- **Governed effects.** A record is stored under the id of its binding (`StoredUnderId`), and a
  call that is about to store one carries that id (`CallsCarryIds`); an approval that is stored
  was decided while the challenge was open (`ApprovedIsDecided`); and what a call has loaded is
  still stored but for a decision taken meanwhile (`LoadedIsStored`), so that what it compares
  with the clock is the deadline of that approval. Together `EffectsInv`. The refinement maps a
  store and an id to a challenge; a restart forgets the challenges of a memory and of nothing
  else.
- **Approval stores.** What memory has found expired and not removed yet is still expired, since
  no deadline moves and an id is registered once at a time (`DoomedHaveExpired`); the least of
  the deadlines exists because natural numbers are well-founded.
- **API keys.** An answer that is kept was true when it was looked up, and is kept for `Ttl`
  from its storing, which came at most the slowest lookup after that (`KeptIsBounded`).
- **Signing keys.** Rows are never deleted, nor does a rotation deactivate one that is not there
  (`RotatedAreThere`). Whatever signs, or has signed, was read from a row, and has since been
  that of the row or among the pairs that were replaced (`Accounted`, `SignersAreAccounted`); a
  pair that is put back is no longer among them. What is listed and publishable is published.
- **Routes.** The table is one of those that are built from the rows loaded last
  (`TableIsBuilt`); that a table built this way serves the best is a fact about merging and
  sorting: equal identifiers replace each other, the order of the rows in a stable sort is
  irrelevant but for ties, and the first that matches is best because none before it does. A row
  that says it is disabled is in the table, so the first that matches may be one of those
  (`Revived`), but no enabled route that outranks it is passed over.
- **Policies.** The bundle in service is what a build makes of the rows it names
  (`SkippedLeaveNoTrace`). A build adds a row at a time and keeps it if the whole still compiles,
  so its result is a recursive function over the rows: its existence and what it keeps (the
  overlay, which comes first and compiles by itself) are shown by induction. The library's
  induction theorems cannot be instantiated here, but that `<` is well-founded on the natural
  numbers can be cited: a set of counterexamples has a least one (`LeastNatural`,
  `InductionOnSets`, `RecursionUpTo`).
- **Key sets.** What was fetched was right at the moment it was asked (`RightSince`), which is a
  fetch before `fetched_at`; a set is used for less than `Ttl` after that. Whoever is past the
  lock is the only one, and found the set stale there (`SingleFlight`); nobody else stores one
  meanwhile, so it still is when the answer comes.
- **The watch.** The task compares what it observed with what the path yields, so what matters is
  what it can know: what is new at the target it observed is either known to it (a deadline is
  pending) or coming (an event of that target is queued), if the directory of the target is
  watched; and what is there but was neither yielded by the path so far nor written unseen was
  written where the task watches, and is coming (`WatchInv`). The proof of it failed at first, at
  a third swap, for the model and not for the code: a write that no watch sees had been taken for
  one that is new, and `ConfigWatch` was corrected.
- **Start and stop.** Once `publish` is behind, what was published stays in service
  (`Published`), no server is open before, the proxy alone is open when the admin server is about
  to be, and a start that went past the connection without migrating has left the task that does
  (`LifeOrder`).
- **Types.** Each invariant has the types of its own model, but those of a part of an instance
  are about the variables the instance lends it, and the other parts leave them alone. What is
  not there already is shown beside it: that a bundle made of rows is a bundle (`PoliciesTyped`),
  that a sum over the rows of the ledger is a number (`SumsAgree`, `SumsExist`).
- **Held calls.** The cap: `CapInv` counts entries together with the streams between test and
  insertion, `OwnInv` the same for one stream. The promise: a held approval is held by one
  stream (`HoldingInv`), its entry sends there (`EntriesInv`), the channel holds only decisions
  that were answered (`QueueInv`), an approval answered in time is in it (`HeardInv`), and the
  stream empties it before it looks at a deadline.
- **Frames.** A client that is between two events, and reads a text, is between two events again
  and has read the frames that were meant by it (`Passes`). That is so of a line or a blank line
  by itself (`RestReads`), of one frame (`ReadsFrame`, `ReadsLine`), and by induction over the
  frames of whatever is written of several (`ReadsWritten`); texts are read one after the other
  (`ReadsBoth`). A line of another field leaves
  a client at rest unless it is data to it, and then the stream has slipped. So the client rests
  between chunks, and will rest when it has read what the chunk has produced so far
  (`ClientRests`), which a limit may still throw away. What is seen of
  a text is what it speaks of (`ReadsSeen`, `Only`). Together `FramesInv`. What is written and
  read are recursive functions over sequences; their values are pinned down step by step
  (`RunsExist`, `RunsEnd`, `RowsInSteps`) in the way described under Policies.

## 5. What is not proved, not run, not modelled

*Only model-checked*: liveness (`Converges` of both modules, `EndedSessionsLoseStreams`,
`RequestsEnd`, `NothingWaitsForever`, `ChangesAreReported`, and in `LifeIsOrderly`), which is
outside TLAPS. Every invariant and every action property a passing run checks is proved; of the
properties that join safety and liveness, the parts about safety.

*Only proved*: type invariants where they are theorems by themselves, `NeverOlder` (with a fence
the code has two defences, and no single mistake breaks it), `NotAheadOfEpoch`,
`CursorIsWatermark`, `ToldIsStored`, `WaitingEnds`, `NoStampede`, `ReleasedOncePerAction` (two
effects make the run of the rest too large), the authority's behaviour over a source restored
under the same incarnation, and routes when the database does not override the file.
`WaitingEnds` and `NoStampede` were checked on the instances of `Config` and `Trust` before they
were proved.

*Stated and neither run nor proved*, because the code does not keep them: `OwnFrames`,
`PassedAsIs` and `OnlyJudged` (`StreamFrames`), `PreviousKeyResolves`, `LiveIsActive` and
`OneActiveKey` (`SigningKeys`), `DisabledIsNotServed` (`RouteTable`), `AgentsStopAtLimit`
(`UsageLimits`), `RevokedIsDeniedAnyway` (`Requests`). Each stands under the
sentence of a comment or document it takes its claim from; the next section says what happens
instead. On the instances of `Trust` and `Streams` TLC finds a counterexample to each of the
first seven within seconds.

*Not modelled* (see `components` in `PROJECT.json`):

- Pure functions of one value, for which tests are the better tool: the Cedar language and the
  mapping of a request to its attributes, header rewriting, templates, URL policies, the parsing
  of one credential, the compilation of patterns, the classification of bodies by guardrails.
- Listings, previews, simulations, audit rows, usage reports and metrics, which no decision
  reads.
- The contents of the calls to ASO and the validation of their answers: the hooks are steps that
  may refuse, be late or pass.
- The WebSocket processor, which the proxy does not call yet; the governor of one process
  (`tower_governor`, a library).
- Clients, the admin console and deployment files.
- The loss of the connection that holds the advisory lock in mid-publication; clocks that
  differ.
- Smaller things a model fixes: a provider of sessions that does not tell when one ends (then a
  token lives for its default, and `Until` in `TokenExchange` has no meaning); two rotations of
  one and the same signing key id at once; a TLS address that cannot be bound, which is the end
  of a server and not a refusal (`ServerEnds`); a request to the versioned cache before the first
  publication, which `main` does not allow.

Hazards of the code that the list in `PROJECT.json` leaves out, to keep it to those that matter
most: a restarted replica on a Redis that lost the fence over a restored source
(authority/consumer.rs:40); the connection that holds the advisory lock dying in mid-publication
(cache/mod.rs:619); an admin request dropped between the epoch and the swaps (admin/mod.rs:746);
a revision behind the applied one accepted by forgetting the applied one (cache/mod.rs:486);
policies published between the last comparison and the commit of a release
(governed_effect/channel.rs:567); a caller that asks again under a new effect id, which is
released once per action (channel.rs:593, proved: `OncePerAction`); a tag of a shared session
entry that two processes count for themselves (cache/session.rs:160); unspaced fetches while the
authorization server is down (auth/jwks.rs:165); one of several windowed budgets charged and the
next not (middleware/pipeline.rs:1393); a client that does not read, behind whose full channel
the stream looks neither at the watchdog nor at a deadline (pipeline.rs:119).

## What the code does not promise

Read while modelling, and worth knowing before a property is stated. The findings of section 3
are not repeated.

*Sessions and caches*

- **Without a fence** an entry in Redis is tagged with a number each process counts for itself
  (cache/session.rs:160). Two processes that share Redis, or two lives of one, may meet at the
  same number, and then an entry that was stored late is served by the other. "The shared epoch
  already makes older entries unusable" (cache/mod.rs:285) is true of the versioned cache only.
  `RefillsAreFenced` therefore assumes that this does not happen (`TagsAgree`), or no Redis.
- **The watchdog of a stream** asks the cache, not the provider (middleware/pipeline.rs:1322):
  when the entry's time to live ends, the stream of an open session is cut.
- **Flushes.** `POST /cache/invalidate` "flushes all caches immediately"
  (docs/docs/admin-api.md:64) and answers "invalidated" even if Redis failed
  (admin/mod.rs:371-373); another replica that is inside its own flush may keep what it stores
  under the epoch it then adopts. `FlushesAllCaches` is about the requests of the process that
  answers.
- **API keys.** A revoked key is accepted from the authenticator's cache for up to 300 s and the
  duration of a lookup (auth/api_key.rs:75): `EndedKeysStop`.

*Approvals and streams*

- **Cap of approvals.** "Maximum concurrent pending approvals" (approval/mod.rs:128) is tested
  before the insertion and exceeded by one per other stream at most (`PendingIsBounded`).
- **Two deciders.** The comment at approval/mod.rs:220-226 says that both see `Ok`; the second
  gets `NotFound`, which is better.
- **A late Ok.** `decide` answers `Ok` when the deadline has just denied the call or the stream
  is gone (`late approve` in `HumanApproval`).
- **Denials.** "emit its deny event … Never a silent drop" (middleware/pipeline.rs:174-177): a
  denied A2UI intent is dropped silently. README.md:876 says the stream ends after a denial; it
  goes on, and events of the same chunk that follow a held call are forwarded while it is held.
  An intent that is dropped while another is held repeats the request for that one.
- **Framing.** The processor ends a line at LF alone (stream/processor.rs:225, 284) and knows
  data by `data:`; to a client of SSE a lone CR ends a line too, a line `data` is data, and a
  byte order mark at the start is none of its text. So a comment, an `id:` or the name of an
  event (processor.rs:321, 328, 331) may hold data, and events, which no filter has judged
  (`OnlyJudged`); and data that is passed as it came (processor.rs:449) may end its event and
  begin another (`PassedAsIs`). An approval releases the frames of an AG-UI call joined without
  a final blank line (stream/processor.rs:519), so a client reads the next frame as a part of
  the last one, and without their metadata; data of two lines is passed on as one line of data
  and a second one without a field, which a client ignores, or takes for what it says; an `id:`
  or `retry:` line of a withheld event joins the next one; the limit of events is tested where a
  chunk begins, and a termination loses what that chunk has produced; a last NDJSON line without
  its end is lost; NDJSON does not filter listings of tools.

*Requests, budgets, identities*

- **Revocation.** "once revoked, the identity is denied on its next authorize" (README.md:915):
  not if it comes with a token the gateway minted, through a verifier of federated tokens, which
  strips its kind (`RevokedIsDeniedAnyway`).
- **Budgets.** "an agent budget … must never be silently bypassed by a Redis/DB blip"
  (middleware/pipeline.rs:1560): with Redis down it is compared with the ledger, where nothing
  is logged unless the route says so (`AgentsStopAtLimit`). Buffered responses are never
  charged. A charge of nothing on a new counter gives it an expiry that the next charge renews.
  Two hooks of one scope, window and id charge twice. The ledger is read by user id for a team
  budget too.
- **A failing mint** is only logged, and the caller's own Authorization header goes upstream.
- **Exchanges.** A subject token can be exchanged for one of a full lifetime again and again; a
  change of the list of public clients makes earlier session tokens exchangeable.
- **Signing keys.** "Every non-expired key is published" (auth/jwks_publish.rs:22): all keys of
  the table but HMAC secrets are (jwks_publish.rs:92-102), deactivated ones too, the key of the
  configuration never (jwt_mint.rs:93-94 says otherwise), and none if one of these cannot be
  read. A key that is inserted under an id that is there replaces the one it had
  (db/mod.rs:948), whether an administrator names the id or the seed of a database does, which
  has a fixed one (main.rs:354-365): then what the previous key signed, and what running
  processes sign with it, can no longer be verified (`PreviousKeyResolves`), though a verifier
  "must still be able to resolve it" (jwks_publish.rs:23). Nothing compares the public key with
  the private one. A process mints with the key it read at its start, and introspects with the
  configured one, so a token signed with a key of the database is not active to it
  (`LiveIsActive`). Two rotations at once leave two keys active (`OneActiveKey`).

*Configuration, start and stop*

- **Policies.** A rollback enables a disabled policy, and one that races a deletion brings the
  policy back; rows that are valid one by one but bring different schemas do not compose, and
  the later one is skipped although the answer is "reloaded".
- **Routes.** "A disabled DB row removes the same-id YAML route" (proxy/router.rs:192-194, and the
  test `db_route_disabled_removes_yaml_route`, router.rs:494; docs/docs/configuration.md:270,
  docs/docs/admin-api.md:108-158): a route stored with `enabled: false` is served
  (`DisabledIsNotServed`). The upsert (db/mod.rs:370) never writes the column `enabled`, which
  keeps its default, and `merge_routes` overwrites what the body says with the column; the test
  sets the column itself. One that cannot be decoded
  falls back to the route of the file; routes that tie are in the order of a hash map, which two
  replicas need not share; a site's domains are compared with the host and its port, a route's
  hosts without.
- **Hot reload.** README.md:17 and README.md:86 of the repository list hot reload by a file
  watcher; the watcher warns that a restart is required
  (crates/flint-gate/src/main.rs:1344-1353). What is hot is Postgres. A change between the parse
  and the watch, a link changed in a directory nobody watches, and two swaps that return within
  the debounce go unreported; so does a write to a file while the path leads elsewhere and
  nobody watches its directory, even when the path is swapped back to it.
- **Start.** A degraded start ("DB features recover on their own", main.rs:296-309) still
  refuses later if Postgres is down when it publishes. The proxy opens before the admin server
  is checked, so a start that refuses then cuts requests already accepted.
- **Stop.** A signal before the last step kills without a drain. If a server's task ends by
  itself, main asks for its result a second time while draining and panics (main.rs:1356-1369).
  The end of the watch task stops the whole gateway.

## 6. Plan

What would come next, in the order of importance:

1. A fleet of two processes with flushes and faults in the run of `Identities`, which is proved
   and too large to check.
2. The calls to ASO with what their answers are compared with, as a module beside `Requests`.
