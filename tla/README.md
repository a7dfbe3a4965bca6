# A model of graphann-client-python

This directory models the Python client of the GraphANN server in TLA+, checks
it with TLC on small instances and proves the main results with TLAPS for every
instance. The reference is the code under `src/graphann/`; paths and line numbers
below are of that directory unless they say otherwise.

## The system

The package is a library: threads (or asyncio tasks) of an application share one
`Client` (or `AsyncClient`), whose endpoint methods all go through `_request`.

| Part | State it keeps | Operations | Talks to |
| --- | --- | --- | --- |
| Sync client, `client.py` | none of its own beyond the parts below; locals of each call: plan, generation, cache key, attempt | about 60 endpoint methods, `_request`, `_send` | cache, gate, httpx |
| Async client, `async_client.py` | the same | the same, as coroutines | cache, async gate, httpx |
| Sync gate, `Singleflight` | `_inflight`: key -> event, value, exception | `call` | runs `_send` in the first caller's thread |
| Async gate, `AsyncSingleflight` | `_inflight`: key -> future; an `asyncio.Lock` | `call` | awaits `_send` in the first caller's task |
| Response cache, `_cache.py` | ordered dict of entries with an expiry, a generation | `get`, `set`, `invalidate`, `clear`, `generation` | the clock |
| Retry policy, `_retry.py` | constants | `compute_delay` | `_send` |
| HTTP helpers, `_http.py` | none | building a request, classifying an answer | httpx |
| Pagination, `pagination.py` | cursor, exhausted, first | `__next__`, `__anext__` | a fetcher: an endpoint method |
| Errors, models | none | tables and pydantic declarations | |

A call of an endpoint goes: read the cache's generation; look into the cache
(cacheable calls); enter the gate (coalescing calls) or go straight on; send,
retrying; leave the gate; then clear the cache (a write) or fill it (a cacheable
read), and return.

What is hard about it, and makes the properties:

* several threads are at different points of that path while a write settles, so
  an answer computed before the write can arrive, be shared or be stored after it;
* the gate hands one thread's outcome to others, a late caller's included;
* a request may be applied by the server although the client sees a failure;
* the cache reads its clock outside its lock;
* an asyncio task can be cancelled at every `await`, and the async gate shares a
  future and holds its lock across one;
* retries, waits chosen by the server and timeouts add up;
* an iterator over pages may be shared, and its fetches fail or end out of order.

Correct means, per part:

* clients: a read never returns data older than a write this client had completed
  when the read began; the cache never holds such data; every call returns;
* gates: at most one run of `fn` per key; every caller returns with the outcome of
  a run that was current when it called; nobody waits without a leader; the lock
  is always given back; keys do not disturb each other;
* cache: the cap, eviction by recency, no value past its time, nothing stored
  under an old generation;
* `_send`: what is transient is retried until the policy leaves no attempt, and
  nothing else is; no attempt comes before the wait the server asked for; the whole
  takes a bounded time;
* pagination: no page is lost, one consumer gets each page once and in order, the
  iteration ends.

## Modules

| Module | Models |
| --- | --- |
| `Singleflight` | the sync gate: `inflight` is `_inflight` with its `_SyncCall`s; `Lead`, `Follow`, `Publish`, `Pop`, `Leave` are the steps of `call` between its lock and event operations. Constants: what keys and outcomes are. |
| `SingleflightRuns` | the gate on its own, with its runs numbered so that an outcome tells which run it is of. It implements `Coalescing` (`KeepsPromise`). |
| `Coalescing` | what either gate promises its callers, without lock, event, future or leader: a key has at most one open run, a caller joins it or starts it, and returns with its outcome once it has ended |
| `AsyncSingleflight` | the asyncio gate on one event loop, with `asyncio.Lock` and cancellation: the steps of the gate only |
| `AsyncSingleflightRuns` | that gate on its own, with numbered runs, calls and `task.cancel()`. For each key that no cancellation has touched it implements `Coalescing` (`KeepsPromise`). |
| `FreshClient` | what either client promises its callers, without cache, gate, retries or generations: a call ends in an exception, or in a version the server had at some time since the newest write acknowledged before the call began; a write ends in a newer one than that. `Client` and `AsyncClient` implement it (`KeepsPromise`). |
| `GenerationCache` | what the cache promises: a value enters only under the present generation, `Clear` forgets all and opens a new one, anything may be forgotten at any time |
| `ResponseCache` | the cache as written: order of the `OrderedDict`, expiry, cap; `get` and `set` are two steps each, the clock read and the locked section. It implements `GenerationCache` (`KeepsPromise`). |
| `Client` | threads through `_request` and `_send`, composed of `Singleflight` and `GenerationCache`, against a server |
| `AsyncClient` | tasks through the async `_request` and `_send`, composed of `AsyncSingleflight` and `GenerationCache`, against a server, cancelled anywhere |
| `Calls`, `Endpoints`, `AsyncEndpoints` | the verb and flags with which every endpoint method of either client calls `_request` |
| `Transport` | `_send` with its time: attempts, `compute_delay`, `Retry-After`, which answers are retried and what the others become |
| `Pagination` | consumers of one iterator, each fetch a `_send` of `Transport` |
| `MCClient`, `MCSingleflight`, `MCAsyncClient`, `MCAsyncSingleflight`, `MCResponseCache`, `MCPagination` | instances for TLC |
| `ClientProofs`, `SingleflightRunsProofs`, `AsyncClientProofs`, `AsyncSingleflightRunsProofs`, `ResponseCacheProofs`, `PaginationProofs` | theorems |
| `AsyncSingleflightProofs`, `TransportProofs` | lemmas about the steps of a module that others are composed of |

Operators whose comment begins with `BUG:` are variants of the definition that
follows them, with a mistake such code could have. No specification uses them;
substituting one for its original must make TLC report the property it is for.

### Client

`pc[t]` says where thread `t` is in `_request`: `begun` (line 256), `sampled`
(generation read, 257), `missed` (267), `sending` and `served` (in `_send`, before
and after the server handled the attempt), `gate` (in the gate, not running `fn`),
`settling` (275). Between two of these the thread touches shared state at most
once, so every interleaving the program has is one of the model.

The server's data is one version number `db`. A write makes the next version and
answers with it; a read answers with the present one. The model's `path` stands
for everything `make_cache_key` tells apart: method, path, body, tenant.
An attempt ends in a usable 2xx (`Answer`), in a retriable status or transport
error with attempts left (`Retry`), or in an exception (`GiveUp`); the last two may
come before the server handled the attempt or after, so a write may be applied by
an attempt that failed, and several times. A server that applies a timed-out write
only after its caller has gone on does to the model what another client's write
does (`ExternalWrite`): nobody is told of the version it makes.

`acked` is the newest version a write of this client has returned with, `floor[t]`
its value when the thread's present call began. These are history variables. A
write that the server applied but whose call raised counts for neither, and leaves
the cache as it was: CHANGELOG.md:13 promises invalidation "after successful
mutations", and `tests/test_compatibility.py:242` asserts that a failed one keeps
the cache.

`writes` in `Endpoints` is the one thing the code does not say: whether the server
changes data for a request. It is read off names and docstrings. The assumption
`WritesAreDeclared` (an endpoint that writes uses a mutating verb and is not
`read_only`) is what the freshness results rest on; `MCClient` and `MCAsyncClient`
have TLC evaluate it for every endpoint method. They do so, too, for
`WritesGoUpstream` (no endpoint that writes is cached or coalesced, so that a write
that returns has been at the server itself), for the rule that no cached or
coalesced endpoint has query parameters, which the cache key leaves out, and that
both clients have the same endpoints.

To its callers a client is `FreshClient`. Its `call` is what a thread asked for and
the floor it began with, its `result` what the latest call ended with; the server's
version and the acknowledged writes are the client's own `db` and `acked`. Every
step inside a call, a retry, a hand-over in the gate or an expiry, is a stutter; a
served write is the server's step; the step that returns is `End`. A hit of the
async client begins and ends its call in one step, whence `AtOnce`.

`StepsLeft(t)` bounds how many steps of its own a call still takes; `CallsRunOut`
says that each of them lowers it and that nothing anyone else does raises it.

### AsyncClient and its gate

A step is what a task does between two suspension points. Acquiring a free lock
and awaiting a finished future do not suspend, so they do not end a step: a call
goes from `_request`'s first line to the wire, to a wait for the lock, to a
follower's wait, or, when the cache or a finished future has its answer, to its
end. That is `Begin`. `Section` is what the gate does with its lock in hand,
`Settles` what `_request` does with the outcome it is given.

The lock is first come, first served: `holder` and `queue`. A release hands it to
the first waiter, which resumes later and can be cancelled in between. `fut` is
`_inflight`. A task cancelled in `await fut` cancels the future itself, as asyncio
does, and the leader that then calls `set_result` gets `InvalidStateError` and
leaves its key registered (`CompletePoisoned`); one cancelled while it waits for
the lock to pop leaves it registered with a finished future (`CancelAcquire`).
Both are defects (see Findings). What `AsyncClient` shows is how far they reach: a
key left behind is met only by calls of its own generation, so that no write is
ever hidden by it.

Request and sleep are one await as far as a cancellation is concerned, so
`Cancel` in a retry's sleep is the cancellation in `sending`.

### Transport and Pagination

`stage[c]` is `sending` or `sleeping` inside `_send`; `timer[c]` is what is left of
the attempt's timeout or of the sleep, in ticks. Each caller has its own time:
nothing depends on a common clock. The time a caller spends is counted in `spent`,
`asked` is what is left of the wait that the server asked for, and `retried` is the
status or failure that a sleeping caller is about to repeat its request after:
history variables, which no step depends on.
`Sleep`, `Delays`, `Honoured` and `Overflows` are `compute_delay`: a `Retry-After`
is cut to `max_delay`; else any part of the exponential backoff, cut to it, is
possible; `float(2**attempt)` exists up to the exponent `MaxExponent`, beyond
which `_send` raises `OverflowError`. `ProcessResponse` and `ErrorFor` are the
classification of what is not retried. `Abort` is a cancelled task.

`Pagination` models the iterator's three attributes and the steps of `__next__`
between which another thread may run: the check of `_exhausted` (`Check`), the
read of the cursor (`Look`), the fetch, the assignments to `_first` and
`_exhausted` (`Mark`), and that to `_cursor` (`Store`). Tasks interleave at the
fetch only, so `__anext__`'s behaviours are among these. `_first` turns out to be
redundant: while it is true, `_cursor` is `None`.

What the model shows of shared iterators is no more than what holds: a consumer
whose fetch was slow rewinds the cursor, so others are given pages again.
No page is lost by it.

## Runs

| Run | Question | Bounds |
| --- | --- | --- |
| `ClientSearch` | does every call end as one that went to the server by itself could have; do cache entries stay as new as completed writes; does the gate send each request once, keep a key no longer than its leader's call, and hand late joiners nothing too old for them | 3 threads, 4 calls, no retry, 1 write by another client |
| `ClientRetries` | the same freshness for every kind of request that cache and gate tell apart, when attempts fail and are repeated; does every step of a call bring it nearer to its end, and does every call return | 2 threads, 3 calls, 1 retry |
| `AsyncSearch` | are reads and cache entries as fresh in the async client when a task is cancelled anywhere, and does every call end as one that went to the server by itself could have; is a request upstream once; does every step of a call bring it nearer to its end; does whoever awaits have a request upstream | 3 tasks, 4 calls, or 3 and 1 write by another client, 1 retry, 1 cancellation |
| `Gate` | does the sync gate, alone, implement `Coalescing`, run one `fn` per key, never give an outcome that outlived its leader, and let everybody return | 3 threads, 2 keys, 4 runs |
| `AsyncGate` | the asyncio gate under cancellation: one run per key, lock returned, every call returns, and keys without a cancelled call have right outcomes and see the gate as `Coalescing` | 3 tasks, 2 keys, 4 calls, 2 cancellations |
| `Cache` | does the cache implement `GenerationCache`, keep its cap and its order, and serve nothing past its time | 2 threads, 3 keys, 2 values, cap 2, TTL 1, 3 uses |
| `Pages` | is no page lost, does the iteration end, do retries keep to the policy | 2 consumers, 3 pages, 3 attempts gone wrong, 2 retries, delays up to 2 ticks, a timeout of 1 |
| `ClientNoCache`, `AsyncPoisoned`, `AsyncStale`, `AsyncHanging` | see Findings | as the run above of the same module, with fewer faults |
| `PagesOverflow` | see Findings | 1 consumer, 1 page, 2 retries, and 0 for the last exponent that exists |

`ReadYourWrites` has no place of its own in `ClientSearch`, nor the gates' types in
`Gate` and `AsyncGate`: `KeepsPromise` says the first of every call that ends, and
`ClientRetries` checks it as well; `TypeOK` of either client contains its gate's
types, and `TypeCorrect` proves them of the gates alone.

Why the bounds are enough. The hazards of the clients need a reader that is late, a
writer that completes meanwhile, and a third call that meets what the reader left:
three threads and four calls, or two threads and three calls when one thread makes
two of them. A second leader of a key needs no more. In the async gate a lost or
wrong outcome needs a leader, a follower that holds the lock and a task queued
behind it; the fourth call meets what they leave. Two cancellations are a follower
and its leader. In the cache, three keys exceed a cap of two, and three uses tell
recency from insertion; with a TTL of one tick an entry is fresh, at its boundary,
and dead. In `Pages` three pages have a first, a middle and a last one; two
consumers and three faults let one of them lag through a whole listing; two
retries use the exponents 0 and 1, of which 1 is the last that exists there
(1023 in Python, where the default policy uses 0 to 2), so that no delay
overflows; headers ask for nothing, for a past date and for more than
`max_delay`.

Symmetry is declared for threads, tasks, keys and values in runs that check no
liveness; no module orders them or picks one.

`AllDone` marks the states in which stopping is right, and any other deadlock is an
error. `CHECK_DEADLOCK FALSE` stands in `Cache`, which stops when its clock, its
generations and its uses have reached their bounds, and in `Gate`, where a thread
that is stuck is for `EveryCallerReturns` to report.

### Fairness

* `Client!FairSpec` has weak fairness for each thread's steps inside a call: the OS
  schedules the thread, and an attempt ends because connect, read, write and pool
  timeouts bound it (`client.py:119-133`). Nothing makes a thread begin a call.
* `SingleflightRuns!FairSpec` is the same for the gate alone: `fn`, being `_send`,
  ends.
* `AsyncSingleflightRuns!FairSpec` has it for every resumption the event loop owes,
  and for the end of `fn` except for keys declared `Hanging`. Nothing makes a task
  be cancelled, and nothing is assumed of the lock: it is a queue.
* `Pagination!FairSpec`: a consumer that was not told to stop asks again, as a `for`
  loop does, time passes, and an attempt that does not go wrong is answered. Faults
  are bounded, for a server that fails for ever ends no listing.

`Timeout` is an assumption about one attempt. httpx's read timeout is per chunk, so
a server that drips its body can hold an attempt for longer; `TimeIsBounded` counts
attempts and delays, it says nothing of such a server.

## Findings

Each is a run whose one property quotes a document or test and is violated.

* `AsyncPoisoned` (`_singleflight.py:104, 120`): cancelling a follower cancels the
  future it shares with the leader. The leader's `set_result` then raises
  `InvalidStateError`, which no `GraphANNError` wraps (README.md:99 says every
  error derives from it), and the key is never removed: later calls with it fail
  at once.
* `AsyncStale` (`_singleflight.py:121`): a leader cancelled while it waits for the
  lock leaves its finished future registered, so all later calls with the key get
  that old result (`tests/test_singleflight.py:86` wants a new run).
* `AsyncHanging` (`_singleflight.py:104`): the follower awaits with the lock held,
  so a call for another key waits for an unrelated request
  (`tests/test_singleflight.py:119`, "distinct keys run independently").
* `ClientNoCache` (`client.py:257`): without `cache_ttl` the generation is
  always 0, so a search that begins after a write has returned joins one sent
  before it. CHANGELOG.md:13-14 says older in-flight reads do not serve
  post-mutation callers.
* `PagesOverflow` (`_retry.py:62`): `float(2**attempt)` does not exist from attempt
  1024 on, and the minimum with `max_delay` is taken only after it. Nothing bounds
  `max_retries`; with more than 1024, the retry after the 1025th failed attempt
  raises `OverflowError`, unless the server sent a `Retry-After`. README.md:99 says
  every error derives from `GraphANNError`. The default is 3 retries: this is a
  limit of the policy, met only by who asks for retries without end.

Seen while reading, with no run of its own: `Retry-After` is cut to `max_delay`
(`_retry.py:61`) though the module's docstring says "at least that long"
(`WaitsAsAsked` states what the code does keep); README.md:122 says 5xx are
retried, the code retries 429, 502, 503 and 504, as `_send`'s own docstring says
(`OnlyTransientIsRepeated` holds of the latter); on Pythons whose `gzip.compress` writes the time into its header, a compressed body
makes the cache key unstable.

## Proofs

Every theorem is about a specification `Init /\ [][Next]_vars` and holds for any
values of the constants that satisfy the module's named assumptions. TLC evaluates
those assumptions in every run.

| Module | Theorem | Says |
| --- | --- | --- |
| `ClientProofs` | `TypeCorrect`, `OneUpstream` | `TypeOK`, `OneUpstreamPerKey` always hold |
| | `ReadsAreFresh`, `CacheIsFresh`, `LateJoiners` | with the cache enabled, so do `ReadYourWrites`, `CacheNotOlderThanAcked`, `LateJoinersAreServed` |
| | `ClientKeepsPromise` | with the cache enabled, `KeepsPromise`: `Client` implements `FreshClient` |
| | `CallsEnd` | the action property `CallsRunOut` |
| `AsyncClientProofs` | `TypeCorrect`, `OneUpstream`, `NobodyIsLeftWaiting` | `TypeOK`, `OneUpstreamPerKey`, `FollowersAreServed` |
| | `ReadsAreFresh`, `CacheIsFresh` | with the cache enabled, `ReadYourWrites`, `CacheNotOlderThanAcked` |
| | `ClientKeepsPromise`, `CallsEnd` | the same two for `AsyncClient`, under any cancellations |
| `SingleflightRunsProofs` | `TypeCorrect`, `OneRun`, `NoRetiredOutcome` | `GateTypeOK`, `RunsDoNotOverlap`, `FreshAfterLeader` |
| | `GateKeepsPromise` | `KeepsPromise`: `SingleflightRuns` implements `Coalescing` |
| `AsyncSingleflightRunsProofs` | `TypeCorrect`, `OneRun`, `NobodyIsLeftWaiting`, `LockGoesOn` | `TypeOK`, `OneRunPerKey`, `FollowersHaveLeaders`, `LockIsReturned` |
| | `NoStaleOutcome`, `CancellationContained` | `StaleOnlyIfCancelled`, `CancellationStaysWithItsKey` |
| | `GateKeepsPromise` | `KeepsPromise`: for every untouched key, `AsyncSingleflightRuns` implements `Coalescing` |
| `ResponseCacheProofs` | `TypeCorrect`, `CapAndOrder`, `EvictsLeastRecent` | `TypeOK`, `BoundedAndOrdered`, `OrderIsRecency` |
| | `HitsYoung`, `Refinement` | the action property `HitsAreYoung`; `KeepsPromise`, the refinement of `GenerationCache` |
| `PaginationProofs` | `TypeCorrect`, `NothingIsSkipped`, `AloneInOrder` | `TypeOK`, `NoPageSkipped`, `OnceInOrderAlone` |
| | `RetriedToTheLast`, `RetriedOnlyIfTransient`, `RetryAfterHonoured`, `SendIsBounded` | `TransientOnlyAtLast`, `OnlyTransientIsRepeated`, `WaitsAsAsked`, `TimeIsBounded` |

### The clients

Both have two inductive invariants, `ControlInv` and `FreshInv`.

`ControlInv` is the type invariant with `Control`: a caller's stage in the gate and
its place in the call determine each other, its gate key is its own call's key, a
registered call and its leader name each other. `OneUpstreamPerKey` alone is not
inductive: that a second caller cannot lead follows only because each leader is
registered under its own key. In `Client` the gate's part is proved there, action by
action. In `AsyncClient` it is `GateInv`, taken through `INSTANCE` from
`AsyncSingleflightProofs` once the instance's constants are shown to satisfy the
gate's assumption (`GateConstantsHold`).

`FreshInv` rests on `FreshFor(g, v)`: version `v`, obtained by a call of generation
`g`, is at least `acked` as long as `g` is the present generation, and in any case
at least the floor of every call of generation `g`. Every version a client holds
(an answer under way, an outcome in the gate, a result about to settle) is
`FreshFor` the generation of its holder. A settled write raises `acked` and opens a
new generation in one step, so the first clause becomes void exactly when it would
fail, and no later call can have the old generation, so the second is safe
(`FreshnessKept` and `StepAdvances` in `ClientProofs`, `FreshKept` in
`AsyncClientProofs`). A late follower takes an outcome of its own generation,
because the generation is part of the key, and the key's leader, being still in its
call, holds that outcome: this is `LateJoiners`; a put stores only under the present one.
In `AsyncClient` `FuturesFresh` says it of the futures themselves, whether or not
their leader is still there: a key that a cancelled leader left behind holds a
version that is old enough to be wrong only for calls that can no longer ask for
it. This is also why `CacheEnabled` is assumed: without the cache there are no
generations, and `ClientNoCache` shows the property false.

`ClientKeepsPromise` needs, besides, that what is handed out was once the server's:
`ServedInv` says that every version in the cache, in a future or in a result is at
most `db`, and that a write about to return holds a version newer than any
acknowledged when its call began (`WritesMake`). The last is inductive because a write neither coalesces nor
is cached (`WritesGoUpstream`). Then every step that ends a call satisfies
`FreshClient!End`: the floor comes from `FreshInv`, the ceiling from `ServedInv`; the
steps inside a call leave the views `Calls` and `Results` as they are.

`CallsEnd` follows from `ControlInv` with one lemma for the steps of the call itself
(`OwnStep`), one for those of all others (`OthersStep`) and, in `AsyncClient`, one for
its cancellation. With `WaitsForLeader` of `ControlInv` or with
`NobodyIsLeftWaiting`, by which a call that cannot step waits for one that is
upstream, it is the safe half of "every call returns"; the rest is fairness, and
stays with TLC.

### The gates

Sync: `RunsInv` says that leaders and registered calls name each other, that whoever
waits does so on a call without outcome, that the run of a registered call is newer
than every run of its key whose leader has returned, and that nobody inside `call`
has seen a newer one retire (`Newer`). The last is what makes the late join between
`event.set` and the pop safe: its outcome is old, but not older than the call.

`GateKeepsPromise` maps the open run of a key to that of its registered leader, and a
caller's run, while it waits, to that of the leader of its key. `Numbered` is what
this needs beyond `RunsInv`: two leaders never lead the same run, and the outcome a
follower woke up with is of a run that has ended. Publishing ends the run and leaves
it open: the late join is `Join` of a run that is over, which `Coalescing` allows
until the leader's return closes it.

Async: `GateInv` has two parts. `LockInv`: holder and queue are distinct tasks, they
need the lock, and every task that needs it is one of them; a follower that awaits
is the holder. `FutInv`: every pending future has a running leader of its key. The
steps' lemmas are in `AsyncSingleflightProofs`. `RunsInv` adds that each run is
counted by a call (`RunsCounted`, with the cardinality of the tasks that may yet
lead, whence the assumption that there are finitely many), that an untouched future
is still its leader's (`FutureOfRun`), and where a call stands with its key
(`CallInv`). `spoiled` is the set of keys a call for which was cancelled:
the theorems say that the defects above stay with these keys.

`KeepsPromise` says so of whole calls. `PromiseOf(k)` is `Coalescing` with `k` as its
only key, and every step of the gate is a step of it as long as no call for `k` has
been cancelled. Queueing for the lock is `Arrive`, awaiting the future `Join`; a
finished future is taken in one step (`JoinLate`); a leader that finds the lock free
ends its run and returns in one step, which is `EndAlone`: nobody awaits, for who
awaits has the lock. Whatever a task does for another key, a cancellation included,
is `Elsewhere`. The proof needs no more than `RunsInv`: it makes the run of the key's
leader the only one that is open, and a finished future's outcome that run
(`KeyState`).

### The cache

`CacheInv`: `order` is a sequence of the entries' keys that is strictly increasing
in the time of latest use (`Orders`) and has at most `MaxEntries` elements; an entry,
stored or about to be, expires no later than a TTL after it was stored (`Young`).
The lemmas say what removing, appending and evicting do to such a sequence.
`Refinement` follows: a `get` that finds an expired entry forgets it, the locked part
of `set` is a `Put`, its evictions included, `clear` is `Clear`, and what happens
outside the lock stutters.
This is what entitles the two clients to be composed with `GenerationCache`.

### Transport and pagination

`OnSchedule` bounds what an attempt or a sleep may still take by a budget that
grows with each (`Budget`), and keeps what is left of the server's wait below what
is left of the sleep. `EndsRightly` says with how many attempts and in which way a
`_send` may have ended, and after what it may be repeated; that it may also end in
`OverflowError` is part of it, so nothing is assumed of `max_retries`. `PageInv`
adds, per consumer, how its place in `__next__` and its `_send` correspond
(`InStep`); that all pages before the cursor and before every
cursor anyone has read have been returned or are about to be (`NothingSkipped`),
which survives the rewinding of the cursor; and where a lone consumer stands
(`Alone`).

### Only model-checked

* All liveness, which TLAPS does not reach: `EveryCallReturns` of `Client` and of
  `AsyncSingleflightRuns`, `EveryCallerReturns`, `IterationEnds`. `AsyncClient` has no
  liveness property of its own: TLC finds no deadlock in it, its calls run out of
  steps (`CallsEnd`), and its gate is covered by `AsyncGate`.
* The violations under Findings.
* The endpoint tables: TLC evaluates what the clients assume of requests on each of
  them.

## Not modelled

* `models.py`, `_generated.py`: pydantic declarations, no state and no control. The
  package surface.
* Validation by pydantic, which follows `_request` and changes no state. A malformed
  2xx is cached before it is validated, and so raises again on every hit until it
  expires; the model does not tell it from a good one. In `Pagination` it is one of
  the ways a fetch goes wrong.
* Assigning `tenant_id` while calls run. The models have the tenant in a request's
  `path`, fixed when the call begins. For the async client this is exact: no `await`
  separates the plan from the keys. In the sync client another thread can assign it
  between `client.py:173`, 261 and 269, which each read it, and one tenant's data is
  then cached under the other's key; `_cache.py:37` promises that a swap does not
  return another tenant's payload.
* `close`, `aclose`, and what a closed client raises (`RuntimeError`);
  `httpx.InvalidURL`.
* The age of an entry in `GenerationCache`: within a generation, a key left behind in
  the async gate can refill the cache with a value older than `cache_ttl`.
* Headers, encodings, messages and details of errors, metrics.
* A cached `None` (a 204 answer), which the code treats as a miss: cacheable
  endpoints answer with a body.
* Use of one async gate from two event loops.
* A server whose cursors do not advance: the iterator has no guard and goes on for
  ever.

## Plan

Done: the clients, gates, cache, transport and pagination, each with its proofs.

Left, in the order in which it would add most:

1. Ages in `GenerationCache`, to state how old a value the async client can serve
   after a cancellation.
2. `tenant_id` as a variable of `Client`, with a thread that assigns it, and the
   claim of `_cache.py:37` as its property.
