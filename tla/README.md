# Janus Gate in TLA+

Janus Gate is a gateway that speaks one Cardano API (the *public face*: Blockfrost
or Koios) and answers from another source (the *backend*: Blockfrost, Koios, or a
cardano-db-sync database). This directory holds TLA+ models of the parts of it
that are hard to test, the TLC configurations that check them on small instances,
and TLAPS proofs of what matters most for instances of every size. Paths below are
relative to `src/janus_gate/` unless they start with another directory.

## 1. The system

| Component | Code | State it keeps | Operations |
| --- | --- | --- | --- |
| Audit store | `audit.py` `AuditStore` | a dict: bind key → session (start, deadline, events, truncated) | `start`, `get`, `record_for_keys`; each purges first |
| Access filter | `access.py` `AccessMiddleware` | none | `dispatch`: 403 or pass on |
| Audit middleware | `audit.py` `AuditMiddleware` | none of its own; the store | `dispatch`: pass on, then log and record |
| Key mapping | `auth.py` `ApiKeyMappingMiddleware` | a context variable per task, a global fallback | `dispatch`: set, pass on, reset |
| Audit pages | `audit.py` `audit_start_response`, `audit_report_response` | the store | start, report |
| Face routers and errors | `faces/` | none | a handler per route; exception handlers |
| Mapping registry | `mappers/registry.py`, `mapping/adapt.py` | a table (face, source, concept) → adapter | `fetch_*_as`, `adapt_to_face` |
| Field mappers | `mappers/*.py` | none | pure functions |
| HTTP providers | `providers/base.py`, `koios.py`, `blockfrost.py` | an httpx client with a 60 s timeout | one method per backend operation; some make several calls |
| dbsync provider | `providers/dbsync.py` | `_pool`, `_tunnel` | `connect`, `aclose`, queries with lazy connect |
| SSH tunnel | `providers/ssh_tunnel.py` | a forwarder thread | `start_ssh_tunnel`, `stop_ssh_tunnel` |
| Application | `app.py` | the store, the backend | `lifespan`: connect at startup, `aclose` at shutdown |
| Configuration | `config.py` | none after loading | defaults, environment, validators |
| Catalog, pages, CLI | `catalog.py`, `pages.py`, `cli.py` | none | tables and HTML |
| Live comparison | `scripts/compare_face.py` | the epoch and fixtures it resolved, the results so far | `main`, `run_case` with 47 cases |

How they interact. One event loop runs every request as a task. A request passes
the three middlewares from the outside in (`app.py` adds them in reverse),

    AccessMiddleware > AuditMiddleware > ApiKeyMappingMiddleware > router > handler

and its answer goes the same way back. Handlers await backend calls, so requests
interleave there and at every `await call_next`. They share three things: the
audit store, the context variable's mechanism (each middleware runs the next one
in a task with a *copy* of its context), and the backend. The audit pages are
requests themselves, and read and replace the sessions other requests are
recorded in. The live comparison is a program of its own: it asks a face's native API
and a deployed Janus the same questions, one after the other. Time is `time.time()`, a wall clock that an operator or NTP may set
back.

What is hard, and where. The hazards are listed, each at its line, in
`PROJECT.json`; in short:

- *Audit store*: deadlines on a wall clock that goes back; the cap and its mark at
  the boundary; replacing a session under the feet of requests in flight; one
  request recorded under two keys, which may be the same string.
- *Pipeline*: the record is made on the way back, after an await that may raise;
  two middlewares may see two different client addresses; the backend key is read
  by a task that is not the one that set it; a backend may never answer.
- *Providers*: calls that need several upstream calls see several states of the
  chain; offsets and pages are converted into each other; `connect` and `aclose`
  have several steps, each of which may fail; a timeout of a submit says nothing
  about whether the transaction was accepted.
- *Lists and walks*: rows are added and disappear between two pages; the chain
  grows and rolls back between the calls of one request.
- *dbsync*: five connections for every request, and no timeout on waiting for one.
- *Live comparison*: every verdict is about two answers given at two moments by two
  sides of which one may lag; a false alarm and an empty comparison look like results.
- *Configuration*: the order of defaults, environment and validators; three keys
  that compete for the fallback; a tunnel section that environment variables make.

## 2. Modules

| Module | What it is |
| --- | --- |
| `AuditStore` | the store: one action per method, the wall clock |
| `AuditPromise` | the abstract specification: what the audit pages promise, with an unbounded log and no purging |
| `AuditLedger` | `AuditStore` with three history variables (`matched`, `gone`, `back`) and the refinement mapping to `AuditPromise` |
| `Gateway` | the request pipeline over `AuditStore`: three middlewares, router, handler, upstream calls, way back |
| `Chain` | external: the chain as a backend's database shows it, growing and rolling back |
| `ChainWalk` | over `Chain`: the lists of adjacent blocks and epochs, one lookup per row, page after page; the refinement mapping to `WalkPromise` |
| `WalkPromise` | the abstract specification of such a list, over `Chain`: each row read from the chain in one step, no calls, no hashes, no tip |
| `ChainLookup` | over `Chain`: lookups that take Koios two calls or three (the latest block, its transactions, the latest epoch, a block by slot, a block's transactions) and those that take db-sync two queries (an address's balance, its outputs) |
| `Paging` | count and page, limit and offset, over a list that changes between the pages |
| `DbSyncProvider` | `connect`, its cleanup, `aclose`, and the pool under the requests' queries |
| `Config` | from file and environment to the backend object and the fallback key |
| `Service` | `Config` and `DbSyncProvider` together: the configuration is loaded, and the server it describes starts, serves and stops |
| `Compare` | over `Chain`: the live comparison, case by case |
| `AuditLedger_proofs`, `Gateway_proofs`, `Chain_proofs`, `ChainWalk_proofs`, `ChainLookup_proofs`, `Compare_proofs`, `Paging_proofs`, `Service_proofs` | theorems and proofs, see section 4 |
| `MCAuditLedger`, `MCGateway`, `MCChainWalk`, `MCChainLookup`, `MCPaging`, `MCConfig`, `MCService`, `MCCompare` | small instances for TLC |

`AuditLedger` extends `AuditStore`; `Gateway` instantiates it; `ChainWalk`,
`WalkPromise`, `ChainLookup` and `Compare` extend `Chain`; `Service` extends `Config` and
`DbSyncProvider`. `Paging` stands alone.
Mutants, definitions marked `Mutant:` in a comment, are plausible bugs: each
property is violated when one of them takes the place of the definition it is a
mutant of.

### AuditStore

`sessions` is the dict `_sessions`; its DOMAIN is the set of keys present, so that
"expired but not yet purged" and "absent" are different states, as in the code.
Client addresses and public API keys are plain strings in one dict, hence one set
`Keys`. Each method takes the lock and does not yield, so `Start`, `Get` and
`RecordForKeys` are one action each; each starts from `Purged`
(`_purge_locked`). `reply` is the session as the report showed it: the page is
rendered before the handler yields. `Tick` is the clock; `Monotonic = FALSE` lets
it be set back. `bind_kind`, which only the page's wording uses, is left out.

The tests for expiry inside `get` and `record_for_keys` repeat what the purge just
did with the same `now`; they add no state and are not modelled separately.
`record_for_keys` stamps the event before it reads its own `now`; both are one
reading here.

### AuditPromise and AuditLedger

The promise has no sessions dict and no cap on what is logged: a log per key, the
deadlines of the running audits, and reports that show the log's first `MaxEvents`
entries. An overdue audit may end at any step, and a report ends all overdue ones;
this is what makes an audit that was once reported as over stay over. The ledger
adds to the store what the store forgets: every event that matched (`matched`),
the keys whose last report found nothing (`gone`), and whether the clock was ever
set back (`back`). `running` maps to the deadlines of the sessions in the dict,
`log` to `matched`, `shown` to `reply`.

### Gateway

A request is at one of the program points of `Stages`; what the code does between
two awaits is one action. `ctx[r].auth` is the context variable in the task of the
auth middleware, `ctx[r].app` its copy in the task of the route: `reset` in the
former does not reach the latter, and the handler reads the latter. `wire` keeps
every upstream call with the key it carried. A handler is abstracted to what the
middlewares can tell: how many upstream calls it makes (at most `MaxCalls`) and
the status class and the kind of body of its answer; it may give up at any point,
with a face-shaped error or with an exception nothing handles. A *submit* is modelled
in full: one call, which the backend decides on (`BackendDecides`) before or after
the handler has stopped waiting for it; what it has taken once it refuses another
time. A call's `tx` is what became of the transaction. A redirect of the
router for a trailing slash is left out. `since` and `before` are history: which
requests arrived since a key's last start, and which had been answered before it.

### Chain, ChainWalk, ChainLookup

`chain[h + 1]` is the fork that forged the block at height `h`, so a block is a
height and a fork: a hash. Every slot of the model has a block, so that a slot, an
epoch's slot and a height are the same number; what an empty slot answers, 404, is
what a slot beyond the tip answers. Koios and db-sync delete rolled-back blocks. An
epoch's row is the state of the epoch's last block, as its counts grow until it is
over; the epoch stands for its parameters too, which are asked for in the same way
(`get_epoch`, `get_epoch_parameters`).

A *walk* (`_blocks_adjacent`, `_epochs_adjacent` of both providers) looks up its
anchor, reads the tip, and asks for one number after the other, until a page is
full, the tip as it was read is passed, or a number is not there. With Koios a
block by number is two calls (`Resolve`, then `FetchAnchor` or `FetchItem`); with
db-sync (`Source = "dbsync"`) each lookup is one query. The client goes on to the
next page after a full one. `low` and `seen` are history: the lowest tip, and the
blocks on the chain, since the page was asked for. A page may hold blocks of two
forks when a rollback falls into the walk; no document promises otherwise, and the
properties say what remains true of each row.

`WalkPromise` is what a client can count on. It has no program counter but whether a
page is open, answered or refused: a row is told in one step, from the chain as it is then
and for the number that anchor, direction, page and earlier rows give; a page may be
answered when it is full, or its next number is negative or beyond `low`; an anchor may
be refused only while the chain has no such block. `told` is `out`, `state` is
`status` once `pc = "done"`, and the lookups between two rows are stutters.

A *lookup* (`ChainLookup`) finds a block in its first call and uses its hash, height
or epoch in the next. For the latest block an enrichment that fails is swallowed
(`except Exception`); for the others a failing call fails the request. `tips` is
history: the chain's tips since the request came in. On db-sync a balance is two sums
(`ReadSum`, `ReadAssetSums`), and a page of outputs is one query and then one more for
each output's assets (`ReadOutputs`, `ReadOutputAssets`, for any one row of the page);
every query has its own connection and sees its own state. A balance may therefore
hold the lovelace of one state and the assets of another: what remains true of it,
`BalanceWasTrue`, is that each part was so at some moment of the request.

### Paging

A row is the number of its adding; rows are added at the end and may disappear
anywhere. A page is read from the list at one moment. `PaginationParams` and
`KoiosPage` are the faces' conversions, `PageToOffset` the providers' one; `Answer`
is what each kind of list gives: lists that Blockfrost cuts (`ByCount`), that Koios
cuts (`ByLimit`), that Janus fetches whole and cuts (`Paginate`), and the lists that
are asked for without the page or the order (`Native`, `OwnOrder`, `Nested`). Left
out: Koios's own cap of 1000 rows on a list fetched whole, orders by another column,
and the history of an asset from Blockfrost on the Koios face.

### DbSyncProvider

`server` is where `lifespan`, `connect` and `aclose` stand; `_pool` and `_tunnel`
are `None` exactly in the states of `pool` and `tunnel` named beside the variables.
Every awaited step may fail, and the tunnel may be lost at any time. A request
acquires a connection for each query and gives it back before the next. The lazy
connect of `_pool_or_raise` (and the race of two requests in it) is not an action: `ConnectedWhileServing` shows that no
request ever finds `_pool` empty, so it cannot be reached while the service runs as
a server. A second interrupt that makes uvicorn skip `aclose`, and the
cancellation of a handler, are not modelled. When `pool.close()` raises, `aclose` leaves
the tunnel, against `docs/backends/dbsync.md:20`; the model does so too, and
`NothingLeftOpen` names it as the only exception.

### Config

The steps of `load_config` in their order: default URL, environment, required
settings, validators; then `create_backend` and `configure_auth_fallback`. `Unset`
is absent, null or empty, `Blank` is white space, which `not x` takes for a value
and `x.strip()` does not. A YAML section that is there is a mapping, but for
`ssh_tunnel`, which may be null. The listening address, the base path and the limits in the audit and access sections are left
out: they are checked field by field and do not influence the others.

The tunnel's twelve variables do not follow the rule that an empty variable is none,
so each of them, and each field of the section, is absent, `Empty`, `Blank` or `Filled`
by itself. `Touched` is the test at `config.py:320`: `JANUS_SSH_TUNNEL` by being there,
or any other variable that is not empty. An untouched section stays the file's. A touched
one is made if need be, and then *every* variable that is there overwrites its field, an
empty one too (`EnvTunnel`, line 333); a null section, or a port variable without a
number, raises (`EnvRaises`, lines 323 and 336), and the service is refused before the
other checks. `host` and `user` must be there even if the tunnel is off, and be more
than white space if it is on (`TunnelValid`). A port that is given is a legal one, and a
file's value has a type its field takes: other values are refused field by field.

### Service

`create_app` makes the backend of the loaded configuration inside the lifespan, so
`DbSyncProvider` takes its first step only when `Config` is `ready` with a db-sync
backend, and its `Tunnelled` is what the loaded tunnel section says. `Served` bounds the
configurations that are followed further.

### Compare

`main` resolves the epoch to compare (`ResolveEpoch`) and missing fixtures
(`ResolveFixtures`) once; then each case runs (`StartCase`), reads the tip and picks a
sample if it needs one (`ReadHeight`, `FindSample`), asks the native API, asks Janus,
judges (`AskNative`, `AskJanus`), and the next follows. An answer is the sequence of its
rows; of a row the model keeps what identifies it (an epoch's number, a block) and the
block its contents are as of, as `Chain` does for the rows of the backends. The
verdicts are the distinct ones of the 47 cases: equal but for fields that are known to
differ, equal epoch by epoch, the same set or order of hashes, the same length, the
same identity, something on both sides, always. A case is what it needs, what it asks
for, and one verdict per face. Janus answers from a backend that may lack up to
`MaxLag` blocks (`Lagging`), and tells contents right or wrong (`Told`). The chain
moves while a call is under way.

What the model shows of the cases, beyond the properties:

- On the Blockfrost face `pool_history` fetches the first page of 100, the *oldest*
  epochs, and cuts it to the recent epoch: both lists are empty and the case passes
  without comparing anything for a pool older than 100 epochs. `PassHasCompared` has
  this as its only exception among finished epochs.
- On the Koios face the native history is asked for the one epoch and Janus's for the
  newest 100: an epoch more than a page back is reported missing (`Outgrown`); the
  default epoch never is.
- `block_info` on the Blockfrost face looks at the shape only. `tx_info` there compares
  `hash` under a rule that ignores `hash`, so its verdict is always positive. On the
  Koios face `tx_info`, `address_info` and `account_info` compare identities as far as
  both lists go, and an empty list from Janus passes.
- `block_info` on the Koios face takes the tip itself when the block below it is not
  found; that sample is not settled.
- The branches for an epoch that is still unresolved after `_resolve_compare_epoch` are
  dead: it returns a number or raises.

## 3. Runs

| Run | Instance | Distinct states | Shows |
| --- | --- | --- | --- |
| `audit_ledger` | 2 keys, cap 2, histories of 2, 3 instants, the clock may be set back | 358,938 | `SessionFaithful`, `EventsWithinLifetime`, `GoneStaysGone`, and that the store implements `AuditPromise` (`ImplementsPromise`) |
| `gateway_audit` | 3 requests of 5 kinds | 661,822 | `ReportSound`, `AnsweredIsReported`: a report is true, and complete for what clients have seen answered |
| `gateway_keys` | 2 requests of 9 kinds, a submit among them, 2 calls each | 169,018 | `OwnKeyUpstream`, `DeniedLeavesNoTrace`, with access and audit trusting different numbers of proxies; `SubmitAnswerIsTrue`; `RequestsAreAnswered` |
| `walks` | up to 6 blocks, 3 epochs, one rollback of up to 2; anchors before, at and beyond the ends, by number and by hash; counts 1 and 2, beginning at the first page or the second | 152,189 | `RowsAreTrue`, `NothingIsMissing`, `PagesTile`, `WalksEnd`, and that a walk implements `WalkPromise` (`ImplementsPromise`) |
| `chain_lookup` | up to 5 blocks, 3 epochs, two rollbacks of up to 3 | 401,869 | `AnswerIsOneBlock`, `LatestWasLatest`, `LatestEpochExists`, `LookupFits`, `EmptyPageHasReason`, `BalanceWasTrue` |
| `paging` | up to 5 rows, 2 disappearing, sizes 1 to 3, both faces, all orders, the three kinds of lists that have pages | 690,090 | `PageIsTheWindow`, `UpwardsInOrder`, `RepeatsAtMostAdded`, `MissesAtMostGone` |
| `service` | every combination of faces, providers, URLs and DSNs; of the three keys; of host and user from either layer, of credentials and a port from either, and of each tunnel variable alone; then 3 requests of up to 3 queries over 2 connections, with a tunnel | 86,211 | `EnvironmentOverFile`, `DefaultUrlOfAnother`, `FallbackKey`, `RefusedForAReason`; `ConnectedWhileServing`, `NothingLeftOpen`, `NoHoldAndWait`, `RequestsEnd`, `ShutdownEnds` |
| `compare` | each of the 47 cases by itself, an unknown one, none, and three in a row; both faces; three sets of fixtures; up to 9 blocks, 5 epochs, one rollback, a lag of one block | 2,341,347 | `AlarmHasReason`, `ComparedEpochIsOver`, `PassHasCompared` |
| `gateway_every_answer` | as `gateway_audit` | | `EveryAnswerIsReported` violated |
| `gateway_errors` | one request of every kind | | `ErrorsAreNotFastApis` violated |
| `paging_unpaged` | as `paging`, the lists asked for without page or order | | `PageIsTheWindow` violated |
| `config_tunnel` | the tunnel's settings | | `TunnelOffTakesNothing` violated |

Where the code and what is said of it differ (the four violated properties):

- *A request that ends in an unhandled exception is in no report.* The exception
  passes through `await call_next` of the audit middleware, and what logs and
  records comes after it. The page says "Janus records the requests that match your
  chosen bind key".
- *A path no route matches gets FastAPI's `{"detail": ...}`.* The handler is
  registered for FastAPI's `HTTPException`, the router raises Starlette's.
  `docs/api-comparison/fidelity.md` says that public errors are face-shaped.
- *Some lists do not page.* A Blockfrost backend is asked for an account's rewards,
  history and addresses without parameters; Koios's `asset_history` is one row with
  the mints nested in it; the order of `asset_addresses` is not forwarded.
- *A tunnel that is off may keep the service from starting.* `JANUS_SSH_TUNNEL=0`
  makes a section with `enabled: false` and nothing else, and `host` and `user` have
  no defaults; the validator's message says they are required when enabled. The model
  shows more of the section that no document speaks of: with `JANUS_SSH_TUNNEL=1` an
  empty `JANUS_SSH_HOST` takes away the file's host, and an empty `JANUS_SSH_PORT` keeps
  the service from starting, while both mean nothing as long as no variable touches the
  section (`RefusedForAReason` states it field by field).

Bounds. Two keys are enough to exchange one for the other and to record under
both; a third behaves like the second, as no operation relates more than the two
of one request. `Ttl = 2` with three instants lets a session begin, expire, and be
looked at before, at and after its deadline, with the clock going back in
between. A request whose address is its key records twice, so a cap of 2 is
reached with one event short of it, at it and above it. Three requests are what the
pipeline's properties need to go wrong: one to start the audit, one that is
audited, one that interferes (a second start, or another client's key). A chain of
five or six blocks has three epochs, an epoch that is over, one that runs and one
a rollback takes away, and room for two pages of two rows on each side of an
anchor. Five rows and pages of up to three give a full, a short and an empty page
in every order, with two rows gone and some added in between. Three requests over
two connections make one wait, and three queries let it wait again while others do.
In `compare` the depths of samples, pages and neighbours are scaled down to a chain of
nine blocks (`Deep = 2` for 20 to 2000, `HistoryPage = 2` for 100, epochs of two blocks)
so that a sample lies in or below what one rollback and the lag take away, the page of a
history both holds and has lost the compared epoch, and the clamps at zero, one and
`Floor` are reached as well as not.

Fairness. `Gateway!FairSpec` assumes weak fairness of each request's own steps: the
event loop runs every ready task, and `httpx.Timeout(60.0)` ends a wait for a silent
backend, so `UpstreamTimeout` is fair and `BackendAnswers` is not. The httpx
timeout is per operation (connect, read, write, pool), so a backend that trickles
bytes could hold a request longer; this is not modelled. `ChainWalk!FairSpec`
assumes that each call of a walk is answered, by the same timeout if by nothing
else; nothing is assumed of the chain. `DbSyncProvider!FairSpec` assumes that a
query ends: PostgreSQL answers or the connection breaks. The pool has no timeout of
its own, and a database that does neither would hold the request, and with it the
shutdown, for ever. Nothing is assumed of clients, and nobody has to stop the server.

`CHECK_DEADLOCK FALSE` stands where a behaviour may end: every request of the
bound is answered, a client has read to the end of a list or a walk, the server is
down, the configuration is loaded or refused.

`walks` runs with `Source = "koios"`, which has every step that `"dbsync"` has; the
theorems about `ChainWalk` cover both.

## 4. Proofs

What is proved holds for every value of the constants that the modules' `ASSUME`s
allow: any sets of keys, payloads, requests and connections, any cap and time to
live, any chain, epoch length and depth of rollback, any page size and number.

**Audit store** (`AuditLedger_proofs`).
- `TypeCorrect`, `SessionsAreFaithful`, `GoneAuditsStayGone` come from one inductive
  invariant, `IInv`. `GoneStaysGone` speaks of the *live* sessions and is not
  inductive: a clock set back would make an expired session live. `IInv` says that a
  gone key is not in the dict at all, which is so because `get` removes what it does
  not return. `SessionFaithful` is inductive with the types: recording appends the
  same event to the session and to the history, once or twice, so the proof is about
  `Logged` and the first `MaxEvents` of a sequence that grows at its end.
- `EventsLieWithinLifetime`: unless the clock was set back. The invariant adds that
  no event and no start lies in the future.
- `StoreImplementsPromise` maps each step: `StartAudit` to `Begin`, `RecordRequest`
  to `Note`, `ReportAudit` to `Show`, the clock to `Pass`, the ended audits being
  those the step purged.

**Chain** (`Chain_proofs`: lemmas on units, rows and what a chain's step leaves).
- `ChainWalk_proofs`: `TypeCorrect` and `WalksTellTheTruth` (`RowsAreTrue`) from
  `IInv`; `NothingGoesMissing` (`NothingIsMissing`) from `MInv`, which adds what is
  known of a lookup under way: the hash a number was resolved to is still on the chain
  unless a rollback came below it, and the tip that was read lies at or above `low`.
  `PagesLieSideBySide` (`PagesTile`) from `TileInv`, which says of the page under way what
  the property says of those that are read: the rows so far count on from the page's
  first number (`StartFits`), and every page but the last is full (`PagesFull`).
  `WalksKeepPromise` (`ImplementsPromise`) maps each step under `TileInv`: a resolved hash, the
  anchor found and the tip read to stutters; `FetchItem` to `Tell`, because a hash still
  on the chain is the row of its number (`FoundIsRow`) and the loop's index is the promise's
  next number (`FollowingIsWanted`); the end of a page to `Answer`, for which
  `NothingIsMissing` gives the reason. `EveryCallAdvances` counts the calls a page has
  left (`Left`): each call lowers the count, and the chain cannot raise it.
- `ChainLookup_proofs`: `LatestIsSound`, `AnswersAreOfOneBlock`, `LatestEpochIsThere`,
  `BalancesWereTrue`, `LookupIsSound`, `EmptyPagesAreExplained`. The invariant needs two facts about the time between two calls. `FoundHolds`: the
  block found is on the chain unless a rollback has gone past it. `FromTipOn`: every
  block at or above the height of the tip that was read has itself been the tip since,
  so whatever the next call finds there was the latest at some moment.

**Paging** (`Paging_proofs`). `PagesAreWindows`, `UpwardsNothingTwice`, `RepeatsAreAdded`
and `MissesAreGone`, for clients whose lists have pages (`PagedAsks`; for the others the
first property is false, as run `paging_unpaged` shows). The first rests on the arithmetic: an aligned offset
divided by the limit and multiplied again is the offset, and page numbers and
offsets that start a page apart stay so. The second on `RowsBehind`: every row the
client has is smaller than every row of the list from its next page's start on, which
adding keeps because new rows are the largest, and disappearing because what is
behind the start can only move towards it. The two that count are not inductive, as
they speak of what a client *has* read; `PInv` counts what is bound to happen as well.
Of the rows due, those that have moved behind the next page's start unread are at most
as many as are gone (`MissedSoFar`): a row that disappears moves one other across the
start. The rows told twice, and those read that lie ahead of the next page again
(`Repeating`), are together at most as many as were added (`RepeatsSoFar`): a row that is
added puts at most one there.

**Request pipeline** (`Gateway_proofs`). `TypeCorrect`, `UpstreamKeysAreOwn`,
`DenialsLeaveNoTrace`, `SubmitsAreTrue`, `ReportsAreSound`, `ReportsAreComplete`, for
any number of requests, traffic, networks, key maps, caps and clocks. Two invariants:
- `RequestsFit` is about each request by itself: where it stands says whether it has an
  answer, was admitted, and has its own key in the route's context (`Placed`), and its
  upstream calls carry its key, a submit's answer being about its only call
  (`CallsFit`). `OneMoves` shows once that a step of one request leaves the others'
  facts alone, so that each action is checked for its own request only.
- `StoreFits` is about the store under the interleaving: every event of a session is
  about a request that has answered, was not answered before the session's start, is
  bound to its key and has the label of its answer (`EntryFits`); and every request
  since the start that is past its record is in the session or the session is
  truncated (`Complete`). The properties speak of live sessions and of answers the
  client has seen; the invariant has to speak of every session in the dict and of every
  request that is past its record, as those are what the next step finds.
- `ReportsAreSound` assumes that no API key reads like a client's address.
  `record_for_keys` logs under both keys of a request, one after the other, and when
  the two are the same string it logs twice, so that the report shows the request twice.
  The run's constants keep the two apart as well. The other theorems do not need this.
- `PipelineUsesStore`: seen from the store, the pipeline is a behaviour of `AuditStore`
  (`StoreSpec`), so that what the ledger shows of a store used in any order is about the
  store Janus uses.

**db-sync** (`Service_proofs`). `TypeCorrect`, `ServesConnected`,
`NothingIsLeftOpen`, `NoRequestHoldsAndWaits`. The invariant adds to the types in
which states of the server pool and tunnel are what (`Lifecycle`), that only a
serving or draining server has requests under way (`RequestsWithinLife`), that
a request that is not answered has a query left (`QueriesLeft`), and `NoHoldAndWait`.
From the same invariant, `RequestsAdvance` (each step of a request lowers what it has left,
`StepsLeft`, and no other step raises it) and `PoolNeverDeadlocks` (while one waits, a
connection is free or every connection is with a running query).

**Configuration and service** (`Service_proofs`). `EnvironmentWins`, `DefaultsAreOwn`,
`FallbackKeyIsMeant`, `RefusalsAreJustified`, for every set of files and environments.
The invariant `ConfigIInv` says at each stage which layers the settings hold so far
(`ReadFromFile`, then `Layered` and `KeysLayered`) and which checks they have passed
(`Complete`, `Sound`), and that a refusal before them is the environment's doing
(`Unreadable`); the properties follow from the last stage of each, once
`RefusalsAreJustified` has shown that the checks on the settings as they stand are
conditions on the file and the environment: of the tunnel, that the section made of them
is what is meant, field by field (`SectionIsMeant`, `TunnelChecks`). `DefaultsAreOwn` assumes that nobody gives
a default URL by hand: who gives another mirror's default is taken at his word.
`ServiceIsBoth` shows that a behaviour of `Service` is one of `Config` and one of
`DbSyncProvider`, so that `ServiceIsSound` collects the theorems about both for the
specification that run `service` checks.

**Live comparison** (`Compare_proofs`), for every list of cases, chain, length of epochs,
size of pages, depth of rollbacks and lag.
- `ComparedEpochsAreOver` (`ComparedEpochIsOver`). The property is not
  inductive, as it says nothing once rollbacks have taken too much; `EpochInv` says that
  the lowest tip and what rollbacks took since (`Taken`) together always reach beyond
  the epoch after the one compared.
- `ComparisonsTypeOK`, `AlarmsHaveReasons`, `PassesHaveCompared` from `CoreInv`. Between the
  two answers the chain moves, so what the native one was has to be said of the chain as
  it is now: `NativeFits` says that, unless a rollback came below `Settled`, it is the
  answer of *every* view of the chain that reaches `Settled` and agrees with the chain up to it,
  the view of a lagging backend among them. `SubjectFits` says that a sample
  is of its kind, and is on the chain unless a rollback came below it (`Holds`).
- The lemmas are about answers: two views that agree up to `Settled` give the same one
  (`RowsSame`, `NativeSame`); native API and Janus agree on it (`SidesAgree`, with a pool's
  history by `HistoryTells`); a settled answer has rows (`RowsThere`) and is no 404
  (`NotThereUnsettled`); a verdict on two equal answers is positive (`VerdictOfSame`) and
  one on wrong contents is not (`GarbledFails`). `CasesAreFair` reads the table of the 47 cases:
  lists that may be empty are never judged by a verdict that calls for rows.

Every safety property that a passing run checks is stated by a theorem, and so are both
refinements. (`ChainWalk`'s `TypeOK` is proved, and checked by no run.)
Out of the prover's reach and left to TLC: liveness under fairness
(`RequestsAreAnswered`, `WalksEnd`, `RequestsEnd`, `ShutdownEnds`), and what a recursive
definition computes for every input. Of `WalksEnd` and `RequestsEnd` the safety half is proved
(`EveryCallAdvances`, `RequestsAdvance`, `PoolNeverDeadlocks`): what is left is that a call
that is made is answered, which is the fairness assumed, and the induction that a number
which only falls reaches zero.

## 5. Plan

In this order, the most important first. The project is kept to a dozen runs: a new
question joins the run of its module.

1. Lookups that merge lists: a pool's relays and metadata from several calls.
2. An abstract specification of a lookup, told in one step, as `WalkPromise` is of a walk,
   with the conditions under which `ChainLookup` implements it.

## 6. Not modelled

- HTML pages, path anonymisation and logging: formatting without state.
- The field mappers (`mappers/*.py` but `_paginate` and the merging of the tip): pure
  renaming and formatting, field by field, which unit tests reach.
- The dispatch of `mapping/adapt.py`: a constant table looked up once per request.
  Reading it shows that every operation the registry calls exists on each provider, and
  nothing about it depends on an order of steps.
- The provider methods of one call with nothing to convert, and the rows of the db-sync
  queries: each is one read of one state of the backend.
- `cli.py`, and `scripts/dump_endpoints.py`, which extracts a list from two files.
