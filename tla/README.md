# OmniGateway: a TLA+ verification project

OmniGateway is a self-hosted gateway in front of AI providers: one or many
processes that share a database (SQLite or Postgres) and a coordinator (memory
or Redis), admit requests by API key, route them over a pool of provider
credentials, and account for what they used. This directory models the parts
of it that share state between processes, checks them with TLC on small
instances, and proves the safety properties with TLAPS for instances of any
size.

## The system: inventory

| Component | State | Operations | Interacts with |
|---|---|---|---|
| API-key admission (`auth/rateLimit.ts`, `@omni/ratelimit`) | none of its own; claims live in the coordinator, a timer per held request | `admit`, `consume`, `renew`, `release` | coordinator `window` and `gauge`; long windows |
| Long windows (`rateLimit.ts`, `logging.ts`) | buckets in the coordinator | `longCounts`, `seed`, `debit` | coordinator `buckets` and `mutex`; usage rows |
| Coordinator (`packages/coord`, `coord/redis.ts`) | rings, gauges, buckets, leases, locks, pub/sub | one command each, atomic (a Lua script in Redis), memory fallback on a fault | everyone |
| OAuth refresh (`control/oauth/refresh.ts`, `connect.ts`, scheduler) | credential row with `tokenVersion`; an in-flight map per process | `refresh`, reconnect, disable | coordinator `mutex`; provider; store |
| Usage ledger (`store/*/usage.ts`, `rollup.ts`) | `request_logs`, `usage_rollup`, `usage_daily`, `nodes` | `begin`, `append`, `sweepPending`, `prune`, `pruneDaily`, `heartbeat` | maintenance loop, request path |
| Maintenance (`gateway/maintenance.ts`, `lease.ts`) | a lease | hourly sweep and prune, 10 s heartbeat | ledger, coordinator `lease` |
| Dispatch and failover (`dispatch/`) | attempts of a request; load and probe slots | attempt, retry, commit, failover | breaker, snapshot, refresh |
| Breaker and router (`packages/router`) | health row per credential and model | `recordSuccess`, `recordFailure`, eligibility | dispatch, snapshot cache |
| Snapshot cache (`dispatch/snapshotCache.ts`) | snapshot, generation, version, build in flight | `get`, `apply`, `invalidate` | store events, Postgres notifications |
| Quiesce latch and restore (`quiesce.ts`, `control/database.ts`) | admitting flag, in-flight count | `enter`, `close`, `open`, file swap | request path, store |
| Push stream (`stream/`) | sequence per topic, ring, subscriptions | publish, replay, coalesce | pub/sub |
| Body capture, quota poller, plugins, guardrails, admin API, codecs, CLI, dashboard | see PROJECT.json | | |

What is hard in it: admissions of several processes interleave between any two
coordinator commands; a process may die holding slots, locks, leases or pending
rows; a coordinator command may be lost to the memory fallback; a lock's TTL
may run out under its holder; a provider may rotate a token and its answer get
lost; a row may be completed by its owner and by several sweeps. What makes
each part correct is stated as the properties below; `hazards` in PROJECT.json
lists the places where it could go wrong, the ones no property covers yet
included.

## Modules

| Module | Models | Proofs |
|---|---|---|
| `Admission` | admission over `window` and `gauge` | `AdmissionProofs` |
| `LongWindow` | one long window's buckets, seeds and debits | `LongWindowProofs` |
| `OAuthRefresh` | refresh and reconnect of one rotating credential | `OAuthRefreshProofs` |
| `UsageLedger` | request log, rollups, heartbeats, sweeps, retention | `UsageLedgerProofs` |
| `Breaker` | penalties, health rows, cooldown, probe admission: operators | |
| `Dispatch` | dispatch over a pool, EXTENDS `Breaker` | `DispatchProofs` |
| `SnapshotCache` | the routing snapshot cache over a SQLite store | `SnapshotCacheProofs` |
| `RoutingRegister` | abstract specification: what `snapshots.get` promises | |
| `Restore` | latch, restore route and file swap, EXTENDS `SnapshotCache` | `RestoreProofs` |
| `PushStream` | one `stream:*` topic from its source to a console | `PushStreamProofs` |

`MC*` modules give the constants their values. An operator that is a mutated
form of the definition after it (a dropped guard, a missing reset) is used by
`mutants` in PROJECT.json and by nothing else.

### Admission

One API key, its key-wide subject and the overridden models' subjects. `pc[r]`
follows a request through `admit` (or `consume`, for the requests in
`CountTokens`): `Begin` reads the clock and finds the subjects, `ClaimWindow` and
`ClaimGauge` are the two commands of `claim`, repeated per subject, `Admit` and
`Refuse` are `judge`, `RollbackWindow`/`RollbackGauge` are `rollback`,
`TimerFires`/`RenewSlot` the renewal timer, `Release` the end of the request,
after which each claim's un-awaited `gauge.release` arrives in a step of its own
(`ReleaseSlot`).
The coordinator is `ring[s][r]` (the stamp of r in the 1m ring of s) and
`slot[s][r]` (the expiry of r's slot). Stamps of one instant are
interchangeable, so the stamp a rollback removes is taken to be the caller's;
an anonymous slot (a subject without a concurrency ceiling) is not addressable,
and a release may drop somebody else's, as in the code. The verdict of the long
windows is arbitrary here.

Faults, `MaxFaults` of them: a crash, a gauge command that throws
(`ClaimFails`), and a rollback or release that is answered by the process's
memory fallback, so that the shared stamp or slot stays. A renewal may be lost
`MaxMissed` times in a row. `ClaimMax` bounds the time from the clock reading to
the end of judging. The assumption `RenewalMargin` is what the code's constants
(TTL of three renewal intervals, a day of renewal) give for one lost renewal: a
judging slower than the rest of the TTL, which only a stalled store can cause,
is outside the model. A claim made while the coordinator is unreachable goes to
the process's own memory and is enforced per process; that mode is not modelled.

Properties: `ConcurrencyCeiling` (never more running requests of a subject than
its ceiling, up to the age at which renewal stops by design), `RequestCeiling`
(the minute that ends now never holds more admissions than the limit, and of a
minute that has passed its last `Window - ClaimMax` do not), `SettledHoldsNothing`
(nothing is left behind, in either subject, except by a fault), `LeakHeals`
(what a fault left behind is gone within the TTL).

The proviso about minutes that have passed is the code's. A claim prunes the ring
by the clock reading it took at `Begin`. If r1 reads 2, r2 reads 3 and claims
first, r1's claim comes to a ring whose oldest stamps r2 has pruned although r1's
own minute still holds them, and may be admitted as one too many of it. How far
readings lie apart is bounded by `ClaimMax`, so only the first `ClaimMax` of a
minute are in doubt (`LatestReading`).

### LongWindow

The picture in the coordinator is abstracted to how often each request is
counted in it. A request asks for the window, seeds it under the lock if there
is none (`Ask` ... `Install`), runs, commits its row (`Append`) and debits
(`Debit`). Faults: the picture is evicted, the lock is unavailable or lapses, the
store read or the row write fails. `LowOnlyByRace` says precisely when a count
can be low, `CountedAtMostTwice` how high it can be. The trailing edge of the
window, which over-counts by at most one grain, is left out.

### OAuthRefresh

Tokens are numbered in the order the provider minted them; the provider honours
the newest and repudiates the others (`Exchange`, external). A caller's view is
lazy (routing views open the token current at the time of opening, with the
version of the time of reading) or not. The lock may fail or lapse
(`MaxLockFaults`), an answer may be lost, a write of a reconnect fail or the
process die (`MaxLost`), and the account may be reconnected in a browser by any of
`Flows`. A process runs one refresh of the credential at a time, which is the
in-flight map.

`complete` in `connect.ts` takes no lock and writes without a version, so flows
overlap: exchange A, exchange B, store B, store A leaves the older token, which the
provider has repudiated. `RotationNeverUndone` and `StoredIsHonoured` state that as
their only exception (`OlderReconnectStored`): no refresh ever does it.

### UsageLedger

Rows, rollups and heartbeats of a fleet; a node is one process with its own
random id, so a restart is another node. Completing a row is one transaction
guarded by the claim `state = 'pending'`. Sweeps select rows and then complete
them one by one, so several sweeps and the owner interleave. Rollup counters are
kept per request, since they are sums. Each transaction is atomic; on Postgres
that leaves out the read-committed interleavings of a prune with completions of
the same boundary hour, which retention puts days in the past. Time is in ticks,
with `Hour`, `Day` and both retentions small enough that hours, days and
horizons are crossed.

### Breaker and Dispatch

`Breaker` is the pure part of the router: what an error says about a credential
(`Hard`, `Soft`, neither), the transitions of a health row, and the health arm of
`eligible`. Codes that the source gives the same penalty and the same
retryability are one code. `Dispatch` is `dispatch()` and `run()`: a request
takes its snapshot (`Begin`), ranks on it and claims a load slot in the same turn
(`Rank`), walks its candidates (`NextCandidate`), claims the one probe of a pair
that is recovering (`AcquireProbe`, `MarkHalfOpen`), and is then at the mercy of
its upstream (`Fails`, `Commit`, `End`, `ErrorEvent`, `Refreshed`), its client
(`Abort`, `Abandon`, `CloseUnstarted`, `Stall`) and its deadline (`Cancelled`).
`RouteFails` is a throw outside the attempt's catch: a failing `onRoute`, a provider
without an adapter. Every
`await` is a step boundary, so others write health rows and take slots between
a snapshot and what is decided on it. What scoring and the filters other than
the health row make of the pairs is an arbitrary subset in an arbitrary order.

Faults: a health write or `onRoute` that throws, a probe release the coordinator
does not hear, a client that leaves or stops reading. Properties: `LoadIsInFlight` (each load slot is freed
once, by whichever of its three owners comes first), `ProbesBounded` and
`ProbeSlotsAccounted` (the probe slot has no name: a release frees the oldest one,
which is harmless unless a slot ran out under its holder), `HealedStaysClosed`,
`OneAnswer`, `LogTellsTheAnswer`, `RequestsEnd`.

`void releaseProbe?.()` is not awaited; here the release (or its loss) belongs to
`Finally`, as a later arrival is a later `Finally` to everybody else. The wait for
the consumer to take the one event of a request none of whose candidates answered
is left out: nothing follows it but the end.

Some provisos are the code's. `RequestsEnd` speaks of configured deadlines:
`requestDeadlineMs` is 0 by default, and then a hung upstream is ended by nobody but
its client. It excuses a request whose client has stalled: the generator stays
suspended at a `yield`, where no deadline reaches it, until the client reads on or
closes. `LogTellsTheAnswer` excuses a consumer that closes at the very `end` event:
the status is set only after the event was taken. `late` in `ProbesBounded` counts releases by
requests that outlived `PROBE_TTL_MS`: each may let one more prober in.
`unsaved` in `OneAnswer` marks an answer that ended and whose success could not
be written: the catch then treats it as a failed attempt, and the client of a
stream that was complete is sent an error event after `end`.

### SnapshotCache and RoutingRegister

The cache holds a snapshot with three ways to learn that it is old: its own
store's announcements (`SaveHealth` patches, `SaveConfig` marks stale), the
connection's `data_version` (`ExternalCommit`) and `Invalidate` after the file
was replaced. A build notes generation and version, reads in several queries
(`ReadConfig`, `ReadHealth`) and is installed only if neither moved; otherwise it
calls `get` again. Callers share the build in flight, and the `finally` of a
build clears `inFlight` whoever's it is by then.

`RoutingRegister` is the promise: a call returns what was live at some instant
of the call, or an answer that was being handed out when the call was made.
`ReadsAreLive` is the refinement, with `Asking`, `Shared` and the history
variables `valid` and `loose` as the mapping. The second clause of the promise
is needed: between a build's `then` and its `finally`, two promise turns later, a
new caller is given the installed answer even if a change was announced in
between. Calls that overlap a replacement of the file before it is invalidated
are excused (`loose`); `Restore` says when there are any.

### Restore

The composition of the cache with the quiesce latch, the `swap` of the restore
and import routes, the one-at-a-time lock and `swapIn`. A swap call shuts the
latch (`Close`), waits for the last release or its deadline, runs the operation
(`Prepare`, `SwapIn` or `SwapFails`) and opens the latch again unless the file
was left half replaced. After the replacement two more things may fail: reading
the password hashes back (`ReadBackFails`), and, once the latch is open again,
ending the sessions (`Settle`). Calls may overlap, and snapshots, vacuums and
previews take the same lock (`OtherBegins`). A client request enters, reads the routing
snapshot, and releases.

`LatchStaysShut`, which the comments of `routes/database.ts` (69-77, 98-113) ask
for, holds only in the form `ShutUnlessContended`. The latch has one `onIdle`
slot. If a call s1 waits for requests and s2 closes too, s2 takes the slot; the
last release wakes s2, which operates; s1 comes back at its deadline, finds the
lock taken, and opens the latch that it shut, over the operation of s2 (or after
it failed half way). Conversely, if s1 succeeds it opens the latch while s2 still
waits, and s2 swaps with the latch open. `contended` marks exactly those
overlaps; without them the comments hold, also for a second call that finds the
latch shut with nothing in flight. `contended` also marks a `Settle` that fails
after another call has shut the latch: the catch opens it, since the failed call
was once the one that closed it.

The comment at `routes/database.ts:86-89` says that every failure but a
`SwapFailedError` "failed before anything was touched". A failed read back
contradicts it: the catch opens the latch on the new file and nobody calls
`invalidate()`, so the old routing is served until a restore completes.
`unannounced` marks that. `LooseOnlyIfUndrained` says which requests can
meet a replaced file (those that outlast the deadline, and those after a failed
read back), `ShutOnlyIfBroken` and `LatchReopens` that the gateway is
never left refusing traffic because two calls crossed.

### PushStream

The owner of a log declares its topic and publishes frames that the coordinator
numbers; every process keeps a ring; a console subscribes on some process,
resumes with the last number it saw, and treats a jump as a gap. A frame is its
number. Faults: a process's channel drops (what was on its way is lost), a
publish is answered by the owner's own fallback, which has a counter of its own,
and a process restarts, whose hello may be lost. The console's queue is one per
connection: it overflows with this topic's frames, and frames of other topics push
this topic's out (`Crowd`). Its socket closes, and it
comes back elsewhere. `ring.since` filters the retained frames by number; the
numbers rise along a ring, which the type invariant says and the proofs show, so
`After` states the filter as the end of the ring it leaves.

The topic has one source here. In the code `stream:console`, the one the dashboard
resumes with `sinceSeq`, is declared and published by every process that captures
its log; topics of one process are subscribed without a number, as the model's
console does when it has seen nothing. A second source adds publishers whose
numbers come from the same counter, and declarations that are made anyway.

`NoSilentSkip`: the panel never holds a hole. `CaughtUp`: a resumed console with
nothing on its way is at the head of its ring, so a replay that claims to be
complete is; unless other topics pushed the newest frame out (`crowded`): then it
is behind, and not told, until the topic's next frame. `DeclarationKnown`: everybody learns of a declared stream.

The provisos are the code's again. The fallback's numbers are not the fleet's:
two frames may share a number, and a ring whose head came from the fallback drops
the fleet's lower numbers while the registry still delivers them live, out of
order. `mixed` excuses a panel that may rest on such a number until its next gap.
`unheard` marks a declaration or hello that was not published, or an owner that
was deaf: an owner that declares while it cannot publish does not repeat it when
it is back (it says hello, which asks others), so consoles elsewhere are refused
until another process says hello. The reset after a rotation empties the owner's
ring only, before the frame just published has come back over the channel: the
comment in `stream/console.ts` (191-201) says everything goes, that frame
included.

A coordinator counter that starts over (a Redis that lost its data) is not
modelled. The rings would drop every number below their head, and a console would
take the fleet's low numbers as they come: `NoSilentSkip` is not claimed for it.

## Runs

| Run | Shows |
|---|---|
| `admission_burst` | three requests, a key and an override, two processes, one fault: both ceilings, clean-up |
| `admission_renewal` | requests that outlive TTL and renewal cap, one lost renewal in a row, one fault: ceiling and healing |
| `long_window` | four requests, two faults: when counts can be low, how high they can be |
| `long_window_low` (violation) | counts can be low: a debit between a seed's read and its install |
| `oauth_refresh` | two processes, four tokens, one fault of each kind, two reconnects that may overlap |
| `oauth_refused_write` (violation) | a refused write can drop the rotation the provider honours |
| `usage_ledger` | two nodes, one request each (one without a key), one fault; also liveness |
| `usage_own_sweep` (violation) | the hourly sweep retires its own node's running requests |
| `dispatch` | two requests of two models that share a recovering pair, one fault; also liveness |
| `snapshot_cache` | two callers, two builds, changes of every kind, one replacement; the refinement |
| `restore` | two overlapping swap calls that may fail at any stage, one client request, one build; also liveness |
| `push_stream` | an owner and another process, three frames, a ring of two, a queue of two, two faults |

Bounds. Two processes are the fewest that interleave; three requests put a
burst of two over one ceiling and a third call through the key alone.
`admission_burst` has a window of two ticks in three instants and a claim may take
one, so stamps expire, and are pruned by other readings, while claims are in
progress; `admission_renewal` has `MaxRenewed` longer
than `GaugeTtl`, so that a slot that is not renewed lapses under a running
request, and enough ticks for the cap and the TTL after it to pass. One fault at
a time is enough for the properties to need every recovery path; the proofs
cover any number. In `oauth_refresh` four tokens are one for each of the two
flows and two rotations, before, between or after them. In `usage_ledger` `Hour` is two
ticks and the retention one, so the retention horizon falls inside an hour and on
its boundary. In `dispatch` deadline, probe TTL and cooldown are one tick of two,
so each passes while the other request is under way; one pair starts with an
open breaker whose cooldown ends, and only the other's credential can be
refreshed. In `snapshot_cache` the counter of a reopened handle may start at the
value the old one had, which is the case that needs `invalidate`. `restore` gives
each of two callers one call: with both of them overlapping the third party is
the lock's other holder. In `push_stream` three frames are the fewest that
overflow the ring and leave a hole in the middle, and a queue of two is the least
in which another topic's frame takes the oldest of several or the last.
Deadlock is not checked where it would only say that requests, and with the
bounds the clock, come to an end.

Fairness is assumed in three runs. In `dispatch`: the clock and a request that
can proceed on its own do not stop for ever. A client that has not stalled takes
the events it is given; one may stall at any event, for ever. Nothing is assumed
of the upstream or of faults, so an upstream may hang and only the deadline ends it.
The instance configures a deadline of one tick; without one (`Deadline` 0, the
default) `RequestsEnd` claims nothing, and the theorems, all safety, hold for both.
In `restore`: a timer
fires, a resumed call runs on and every operation of a swap ends, well or not
(`Settle` apart, which the latch does not wait for); requests may run for ever, which is what the deadline is for. In
`usage_ledger`: processes are started, a process that is up takes its hourly tick and finishes it (timers fire, statements
return), and the heartbeat and the lease of a dead process run out, which are
TTLs. Nothing is assumed about requests, heartbeats of live nodes, or faults.
With one fault one of the two nodes survives, which is what retires the rows.

## What is proved

Every invariant that a run checks, and the refinement. For any number of
requests, processes, nodes, subjects, pairs and frames, any limits and any
number of faults:

* `AdmissionTyped`, `ConcurrencyCeilingHolds`, `RequestCeilingHolds`,
  `SettledHoldsNothingHolds`, `LeakHealsHolds`;
* `LongWindowTyped`, `LowOnlyByRaceHolds`, `CountedAtMostTwiceHolds`;
* `UsageLedgerTyped`, `RollupAgreesHolds`, `BilledOnceHolds`, `HeartbeatProtectsHolds`;
* `OAuthRefreshTyped`, `RotationNeverUndoneHolds`, `StoredIsHonouredHolds`,
  `NeverDisabledByRaceHolds`;
* `SnapshotCacheTyped`, `FreshIsCurrentHolds`, and `ReadsAreLiveHolds`: the cache
  implements `RoutingRegister`;
* `RestoreTyped`, `ShutOnlyIfBrokenHolds`, `ShutUnlessContendedHolds`,
  `LooseOnlyIfUndrainedHolds`, and the cache's promises under restores:
  `RestoreFreshIsCurrent`, `RestoreReadsAreLive`;
* `DispatchTypeCorrect`, `LoadIsInFlightHolds`, `ProbesBoundedHolds`,
  `ProbeSlotsAccountedHolds`, `HealedStaysClosedHolds`, `OneAnswerHolds`,
  `LogTellsTheAnswerHolds`;
* `PushStreamTyped`, `NoSilentSkipHolds`, `CaughtUpHolds`, `DeclarationKnownHolds`.

Assumptions: the sets of requests and, in `Dispatch`, of pairs are finite,
constants have their types, and `RenewalMargin`.

The ceiling of `Admission` is not inductive. The proof adds where a request can
be and what it has claimed there (`PlaceInv`); how far ahead of the clock a slot's
expiry is, given the lost renewals, so that a request that counts still has its
slot (`TimeInv`); and that the requests that hold a slot and were not beyond the
ceiling when they took it are at most the ceiling (`HoldersBounded`): the last one
to acquire counted all others in the same atomic command. The requests ceiling
is the same argument over stamps (`StampInv`, `StampedBounded`), one bound for each
minute: pruning removes only stamps that are a window old by the clock, and a claim
that counts for the minute ending at t arrives before t + `ClaimMax`, so it still
finds every other stamp that counts for it. `LeftInv` accounts
for every slot: it is claimed by its request, or orphaned, and ends in time.

`LowInv` of `LongWindowProofs` says that what a seed has read but not installed
covers every finished request whose debit did not race it. `LedgerInv` of
`UsageLedgerProofs` ties each rollup counter to the state of the row and the
lists of the sweeps in progress.

`OrderInv` of `OAuthRefreshProofs` is about numbers: nobody knows of a token or a
version that is still to come, no two flows were given the same token, an exchanged
one is honoured unless another flow's was exchanged later, and a rotation whose compare-and-swap would succeed is not older
than what is stored. It needs no lock, so `RotationNeverUndone` holds under every
fault. `LockInv` adds, while the lock works and no answer is lost, that whoever is
inside holds the lock and presents what is stored (or what a reconnect has
replaced since), and that the honoured token is stored or held by a process whose
write will be accepted.

`CacheInv` of `SnapshotCacheProofs` says of every build that would still be
installed what `FreshIsCurrent` says of the snapshot (`BuildsCurrent`); it is kept
because generation and version never come back to a value a build has noted
since the file was last replaced (`Monotone`). The refinement adds `CallsInv`,
which every step of the register keeps: a call that does not overlap a
replacement may be given what is live and whatever is being handed out. Then hits
are `Read`, joins and builds are `Ask`, a build that decides is `Share`, `Finally`
is the `Answer` of everyone who waits for it.

`Restore` is, to the cache, the cache's own next-state relation
(`RestoreIsCacheNext`), so the cache's theorems carry over. Of the latch,
`ForCause` says that whenever it is shut, or a replacement is not announced yet,
a call is under way that will undo that, unless a replacement failed half way or,
for the announcement, its read back failed: this gives `ShutOnlyIfBroken`. `Undisturbed` says what calls that do not contend
have: one at a time, under a latch that it shut itself, with nobody being served
once it has drained. It is the invariant only while `contended` is false, which
is why the comments' claim holds only in that form.

What a request of `Dispatch` holds and has told its client at each `await`
(`RequestInv`: `Walk` over its candidates, `Answer` to its client) does not depend
on the others, and gives `OneAnswer` and `LogTellsTheAnswer`. The load registry is
compared with the set of requests that hold a claim, one step changing each by
the same member. The probe gauge needs more: a release frees the oldest slot,
whoever's it is, so `ProbesBounded` is not inductive about the slots live now.
`ClaimsCovered` says it of every time from now on: at time t, no more requests
count on a slot that is to be live at t than there are such slots, but for what
late releases took. Freeing the oldest slot keeps that at every t, and the clock
only moves the bound.

`PushInv` follows what a console will be given: what is on its wire, in its queue,
and what the channel still has for its process. The fleet's numbers rise along
this pipe (`PipeInv`, with `ProcInv` for the part before the console), whatever was
lost from it. A panel that rests on the fleet's numbers has seen something below
all of it, unless a gap comes first (`PanelInv`), so an event without a jump is the
next number. `HeadInv` says that, while no number is a fallback's, the last frame
of the pipe up to the queue is the head of the ring, unless the last of the queue
was crowded out. `DeclareInv` says that whoever
does not know of a declared stream has a declaration in its inbox or a hello in
the owner's; it needs that an owner never finds a declaration of its own from
before a restart, which would make it believe it had declared again.

Only model-checked: the liveness properties `DeadRowsRetired`, `RequestsEnd` and
`LatchReopens` (liveness is out of the prover's reach).

## Disagreements between code and documentation

See `findings` in PROJECT.json; each is a run that TLC refutes. In addition
ARCHITECTURE.md describes the re-read of the refresher as comparing `expiresAt`,
while the code compares `tokenVersion`; nothing depends on it.

Observations made while modelling that are not findings, because no text says
which behaviour is wanted or because what they touch is outside the models:

* a hard failure of a request already in flight closes a breaker that AUTH
  opened, if the failures are still below the threshold (`breaker.ts:143`);
* the restore of a serving gateway passes no `reapplyPluginSchema` to `swapIn`,
  which then skips that step;
* the console's panel drops lines that were pushed between the moment its REST
  read was served and the moment it arrived (`ConsoleBoard.tsx:202`).

## Not modelled, and the plan

Not modelled: wire codecs, prompt transforms, guardrails, plugins, admin API,
sessions, CLI and dashboard views (data translation, user interface or code
outside the repository); the coordinator's per-process memory fallback as a mode
of enforcement; figures in headers; the Postgres fan-out of routing changes;
`res:*` invalidations. These are by far most of the repository's lines: seven
provider dialects, their ingress and egress, the dashboard's views and the admin
CRUD keep no state between steps that a model checker could find wrong, and a
model of them would be a transliteration. The map therefore covers the concurrent
core and a small share of the whole.

Next, in this order:

1. The Postgres side of the snapshot cache: a version read behind and patches of
   other processes that may arrive out of order.
2. The memory fallback of the coordinator as a mode: what admission still
   promises per process during an outage.
