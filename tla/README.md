# TLA+ models of the Latchway JavaScript client

The SDK lets a browser (or Node) application call a gateway with short-lived,
DPoP-bound access tokens. Its hard part is not any one function but what several
calls, several tabs and one gateway do to the same persisted key, session and nonce.
These modules model that part, what the SDK reads from a gateway it does not trust, and the scripts that
publish the SDK (the npm names, the packages, the GitHub release). TLC checks them on small instances, and
TLAPS proves the main properties for every instance. Paths below are relative to the
repository's root, as are the line numbers in comments.

## 1. The system

| Part | Source | State | Operations |
| --- | --- | --- | --- |
| Mutation lease | `src/session/manager.ts` `withMutationLease`; `tryAcquireMutationLease`, `releaseMutationLease` of the stores | one record `{owner, expiresAt}` per scope; per call a heartbeat timer and a request in flight | acquire (poll every 75 ms), renew before each write, heartbeat, release |
| Session manager | `src/session/manager.ts` | stored key and session; per client `keyPromise`, `sessionPromise`, `nonce`, `clockOffsetMilliseconds` | `key`, `session`, `refresh`, `clearSession`, `clearInstallation`, `proof`, `recordNonce` |
| Protected fetch client | `src/client/client.ts` | locals of each request: attempt, two retry flags, replayability | `fetch`, `authorize`, `quota`, `provisionComponent`, `revoke*`, `diagnostics` |
| State stores | `src/storage/*.ts` | IndexedDB stores for installations, sessions and leases; a cached database promise; memory maps; the choice between them | get, put, delete, lease transactions, fallback |
| Data-plane contract | `src/contract.ts` | none | which method and path may be signed |
| Wire parsing | `src/session/wire.ts` | none | challenge, grant, component parsers |
| JSON reader | `src/json.ts`; its twin for files in `scripts/npm-release-evidence.mjs` | a scanner over bounded bytes | size, depth and duplicate-member bounds |
| Errors | `src/errors.ts` | none | problem document to `LatchwayError` |
| DPoP, encoding | `src/dpop/*.ts`, `src/encoding.ts` | none | key generation, proof, thumbprint, base64url |
| Configuration, entry points, attestation, framework packages | `src/client/config.ts`, `src/index.ts`, `packages/*` … | none that changes | validation, thin wrappers |
| Release reconciliation | `scripts/reconcile-github-release.py` | one GitHub release, its tag, the repository's setting; per run what its last lookup showed | prepare, create, verify, upload, publish, verify again |
| npm namespace bootstrap | `scripts/npm-namespace-bootstrap.mjs` | the output directory, the registry, the checkout; per run its survey | build inert archives, publish each once, remove the `latest` tag, record |
| Package publication | `scripts/verify-pack.mjs`, `verify-release-artifact.mjs`, `check-registry-state.mjs`, `verify-published.mjs`, `npm-release-evidence.mjs` | `.artifacts`, the registry, the outputs of the npm job, the records | pack, check, preflight, publish, verify what is served, write adoption and fixed records |
| Other release tooling | other `scripts/*` | none that outlives a run | linters, drivers, tests |

(`src/…` in this table is the SDK's own `src/` directory.)

How they interact. `fetch` and the control requests await `session()`, sign with
`proof()`, send, and on two particular answers record a nonce or await `refresh()`
and go round once more. `session`, `refresh`, `key` and the clearing methods run under the
mutation lease, which tabs share through IndexedDB; within one client concurrent calls of
`session` and `key` join one promise. Under the lease the manager awaits the store, the
server and the application's adapters, and every await is a point where another tab, the
heartbeat, the server or a crash gets its turn. `proof()` calls `key()` again, sometimes
while the lease is held.

What makes them correct, and what is hard about it:

* **Lease**: at most one operation at a time; a write commits under an unexpired
  lease; nothing is left after release; a crashed owner does not block the others.
  Hard: the timer fires late, the request computes its validity before it waits for its
  transaction, renewal and write are two transactions, the heartbeat may be in flight
  when the operation ends.
* **Session manager**: first-use state is not overwritten, no stale refresh token is
  submitted, what is returned is what is stored and bound to the stored key, a joined
  promise settles, no call waits for the lease it holds. Hard: the observation that precedes
  the lease, two deletes in either order, lost replies and crashes between rotation and save, a
  tab that caches a key another tab has revoked.
* **Protected fetch**: a call is dispatched at most once, retries are bounded, a retry
  carries a fresh token, a body that cannot be sent again is not, local keys go only
  after the gateway has revoked them. Hard: two retry reasons share three attempts, requests
  share one nonce and one session, answers are lost.
* **Requests under the lease**: a request is not refused for the client's clock in the end, a nonce is asked for
  once, an expired session is not returned. Hard: the offset is learnt from a `Date` header, stored with the session
  and restored from it later, possibly by a tab whose clock has been set since.
* **Stores**: persistence that is required is kept, a fallback to memory breaks only the calls it interrupts and those beside them, every
  call settles. Hard: one failure switches a tab's store for good, between two operations of a call that holds the
  lease; a cached connection may be closed by another page.
* **Documents**: exactly the strict JSON within the limits is read; what is accepted of a grant stays acceptable once
  stored; only a canonical refusal makes the client retry or drop anything. Hard: two scanners and two validators
  written apart, chunk and depth boundaries, intermediaries.
* **npm bootstrap**: `completed.json` is true of the registry, somebody's release is left alone, a broken run is
  completed by the next. Hard: a registry that lags, a checkout that changes between two reads, a look and a removal that are two requests.
* **Package publication**: what is published has passed every check, nothing is published into a set that cannot be
  completed, the records are true, and what the fixed ones state is the same whichever attempt writes them. Hard: jobs are run again from the
  middle with the outputs of an earlier attempt, publications that report failure, strangers and slow registries.
* **Release reconciliation**: a run that reports success is right about every asset, record, the commit and
  immutability; nothing is uploaded next to unverified bytes; what a broken run left is completed by the next. Hard:
  publication cannot be undone and GitHub offers no compare-and-finalize, so every check may be stale when the
  next command runs, and runs may overlap or break off anywhere.

`PROJECT.json` lists the components with their status and each hazard at its line with the
properties that address it.

## 2. Modules

| Module | What it is |
| --- | --- |
| `SingleFlight` | abstract specification: calls enter a section that holds one at a time, and end in it or before it |
| `MutationLease` | the lease in detail; `Section` refines it to `SingleFlight` |
| `MutationLease_proofs`, `MCMutationLease` | its theorems; its TLC instances |
| `SessionManager` | the clients of one scope, the shared store, the rotating server; its calls are operations of `SingleFlight` too |
| `SessionManager_proofs`, `MCSessionManager` | likewise |
| `ProtectedFetch` | concurrent authenticated requests of one client and their gateway |
| `ProtectedFetch_proofs`, `MCProtectedFetch` | likewise |
| `ReleaseReconcile` | runs of the release script over one GitHub release |
| `ReleaseReconcile_proofs`, `MCReleaseReconcile` | likewise |
| `SessionRequest`, `SessionRequest_proofs`, `MCSessionRequest` | the requests the manager sends under the lease: clock, nonce, expiry |
| `StateStores`, `MCStateStores` | IndexedDB connections, the fallback to memory, and the calls that run over them |
| `StrictJSON`, `WireDocuments`, `ProblemDocuments` | the three readers of documents; `MCDocuments` instantiates them together |
| `DocumentsAndStores_proofs` | theorems of the three document modules, then of `StateStores` |
| `NpmBootstrap`, `NpmBootstrap_proofs`, `MCNpmBootstrap` | runs of the namespace bootstrap |
| `PackagePublication`, `PackagePublication_proofs`, `MCPackagePublication` | the publication of the package set over attempts and runs |

The modules compose by promise: `SessionManager` takes the lease as the section that
`MutationLease` is shown to implement (one holder; with `MayLapse`, a holder that can lose it
without noticing), and `ProtectedFetch` takes `session()` and `refresh()` as steps, as
`SessionManager` shows that calls under the lease do not interleave. `SessionRequest` opens the single step in which
`SessionManager` sends a request, `StateStores` the store operations that both take for granted, and the document modules the
answers that `ProtectedFetch` and `SessionRequest` take as inputs.

### MutationLease

A member of `Ops` is one call of `withMutationLease` with its own random owner, whichever
tab it runs in. `owner` and `ttl` are the lease record; `pc` is where the call stands,
`ask` what is left of the `expiresAt` its outstanding request carries (the code computes it from
`Date.now()` before the transaction runs, `Request`), `beat`/`beatTime` the heartbeat
timer or its request. `WriteLease` and `Grantable` are the store's transaction, `Acquire`,
`Busy`, `Poll` the loop, `BeginMutation`–`Renew`–`Mutate` the pattern "`await lease.renew()`,
then write", `BeatFires`, `BeatRenews`, `BeatFails` the `scheduleRenewal` callback and its `finally`,
`BeginRelease` the wait for a heartbeat in flight, `Release` the conditional delete. `Tick` lets time
pass for everything at once; unless `MayPause`, not while a timer or request is later than
`Latency`. `Crash` closes a tab at any await; a request that would still commit after the crash is one
that committed just before it.

### SessionManager

A member of `Calls` is a slot of its tab (`TabOf`) running one public method at a time. `storedKey`,
`storedSession` and `age` are the store, `keyPromise` and `sessionPromise` each tab's memory (a settled
key, a call whose promise is pending, or `None`), `key`, `cur`, `got`, `obs` the locals, `holder` the
lease, `dead` the refresh tokens the server no longer takes. One action stands for the code from one
await to the next: `Start*`, `Acquire`, `RestoreKey` or `MissKey`–`GenerateKey`–`SaveKey`, `LoadSession`,
`SendRefresh`–`Rotate`–`PersistGrant`–`SaveSession`, `RefuseStepUp` and `RefuseDead` with their drops,
`Challenge`–`Exchange`, `DeleteRecord` (the two deletes of a `Promise.all`, either first), `Throw` (any
await rejects), `Settle` (last renewal, release, the promise and those who joined it), `Crash`.
A session is the grant it came from and the key it is bound to: tokens, generation and expiry times
identify the grant, and only the age of the stored one matters. Keys and grants that nothing refers to
any more are used again in place of fresh ones. Left out here: what happens inside `sendDPoPJSON` and the clock
offset (`SessionRequest`), and a nested `key()` that finds the promise cleared after a lapse (the
call then waits, as the code does, behind the lease it lost, and the model leaves it there).

### ProtectedFetch

A member of `Requests` is a slot in which one call of `fetch` or `sendControl` runs at a time. `pc`
follows the loop: `session` (await `session()`), `authorizing` (sign, send), `sent`, `judging` (read the
problem document), `observing` and `refreshing` (the two halves of `refresh()`: the read before the lease
and the work under it), `clearing`. `Receive` is the `response.ok` branch and `expectNoContent`;
`ProveAgain`, `RefreshThenAgain`, `ReturnProblem` the three ways a problem ends; `Fail` a rejected
`config.fetch`, an abort or a foreign response, before or after the gateway has acted; `GiveUp` a rejected or
aborted await. The two loops differ in what they do with a final error (`fetch` returns the response,
`sendControl` throws), which ends the call alike, and in that a control request can always be sent again.
The gateway is external: it refuses a missing or old nonce, an expired token and a revoked
installation before dispatch (`docs/architecture.md` states this of the two retried answers), else it
executes the request; intermediaries may answer instead of it and spoil the nonce header; answers may be lost.
Access tokens are numbered as they are issued and expire in that order. Each critical section is one step; other
tabs, and a `refresh()` whose caller has aborted, replace the session at any time (`ReplacedElsewhere`). A call
that ends resets its slot, so calls follow one another without end.

### ReleaseReconcile

A member of `Runs` is one attempt of the release workflow, beginning with `--prepare-draft` (`prepares`) or with the
assets; every action is one command to GitHub, so others act between any two. `release` is GitHub's state, an asset's
bytes reduced to what the script can tell apart: `exact` (the run's own), `valid` (another record that
`validate_adoption_record` and the attestation accept), `other`, and `partial` for an upload that has begun. `seen` and `draft`
are the latest lookup, `todo` what is left of the loop over assets at `pc`, `policy` whether the run has time-limited
evidence of the immutability setting. `CheckRecord` is `verify_adoption_asset`, `CheckBytes` `verify_remote_asset`, each
serving the loops before upload, before publication and after it; `After` says which loop follows which. `Refused` collects what makes
a step raise; `BreakOff` is a failing or timed-out command or a cancelled job. All runs bring the same fixed
assets (tarballs, manifest) and the run's own adoption record is taken to be attested, as an earlier job of the
workflow does. GitHub, external, is modelled as the script and its tests use it: a lookup by tag shows drafts, a second draft
for the tag is refused, an upload without `--clobber` refuses an existing name, a release published while the setting is enforced is
frozen and attested with its commit, its tag included. `EditRelease`, `MoveTag` and `ChangeSetting` are everybody else. `fresh` and
`published` are history variables that only the properties read.

### SessionRequest

One client calls again and again. All times are differences to the gateway's clock: `skew` is how far that clock is
ahead of the local one, `offset` is `clockOffsetMilliseconds`, so `now()` is wrong by `Error`. `ReturnStored`,
`BeginRefresh` and `BeginEstablish` are `loadOrCreateSessionUnderLease` and `refresh`, each with what the stored
session does to the offset (`Restored`); `Send` to `ThrowRefused` are `sendDPoPJSON` with its two attempts, `Observed` the
estimate of `observeServerDate` with half of the round trip, `AcceptChallenge`, `RejectChallenge`, `PersistGrant` what
is done with the answer. `AnswerOtherwise`, `Fail`, `SetClock` and `NonceGoesOld` are the disturbances that
`MaxDisturbances` bounds: a date that is missing or false, another error, a lost request, a clock set by hand, a nonce rotated or replaced by
the late answer of another request. A unit stands for the coarsest rounding in the code (whole seconds).

### StateStores

A call is `session`/`refresh` (`"grant"`) or `clearInstallation` (`"clear"`) as its sequence of store operations, chosen
in `Init` where the instance leaves it open (`kind`); an
operation of tab `t` reaches the store `s` with `ServedBy(t, s)`: the database while the connection `handle[t]` can be
used, or the tab's memory once `AdaptiveStore` has fallen back, which the failing operation itself triggers and which is
for good (`primary`). `Rejects` is the other outcome, where `persistence.mode` is `required`. `DeleteDatabase` closes every connection
(`onversionchange`), `Reload` gives a tab a new client. The lease is the single record of each store; it expires when
nobody renews it, and a tab that moved to memory no longer renews the one in the database. The memory's own lease has no
heartbeat (`supportsSharedLease` is false); it is taken to outlast its call, except one that waits for this very lease
in a nested `key()` (`WaitsForKey`), which goes on when it expires.

### StrictJSON, WireDocuments, ProblemDocuments

`StrictJSON` holds both scanners (`StrictJSONScanner` of `src/json.ts`, `scanStrictJSON` of `scripts/npm-release-evidence.mjs`) and the
two readers that feed them: a response in chunks with a declared length that may lie, a file measured, read and probed
for growth while somebody may change it. The recursive descent is a machine that takes one token per step: `cursor` is
the offset reached, `frames` the calls of `scanObject` and `scanArray` it is inside, each with the position of its bracket and the names met
so far, `awaits` the place in the code (`ScanValue`, `ScanFirst` where a bracket may close at once, `ScanName`, `ScanColon`,
`ScanEnd` after a value, `ScanEndOfText`). The two scanners differ in where they skip white space (`reader = "file"` does it
in `ScanValue`, the other where it comes from) and in the numbers the second refuses (`"big"`). `Strict`
is the reference, without a scan: matching brackets, a rule for neighbours, distinct names, depth. A token counts as one byte; what makes a string or number
malformed is abstracted to the token `"broken"`, and an escaped spelling of a name is a token of its own.
`WireDocuments` follows one grant from the wire (`ParsesGrant`) over `BoundToClient` and `StoredSession` to the next
call's `IsValidStoredSession` and `IsValidStoredKey`; lengths, lifetimes and identifiers are classes on either side of each limit.
`ProblemDocuments` validates an answer (`IsProblemDocument`, `ErrorCode`) and lets `fetch`, the control requests, the session requests and the
refresh react to it. `MCDocuments` runs one of the three machines per behaviour and parks the others.

### NpmBootstrap

A member of `Runs` is one run of the script, with `--dry-run` or `--publish`. The world is the checkout (`tree`, what
the LICENSE in it says), the output directory (`out`), what the registry holds of each package (`reg`) and what it shows (`shown`, never
newer). Contents are told apart by the LICENSE they were made from, since everything else in an archive is part of the program. A
run checks the checkout twice (`round`), reading LICENSE three times; packs and writes or compares each file (`comparing`, `creating`),
surveys the registry, publishes what is absent, waits until it shows, looks (`preflight`) and removes an unexpected `latest` tag,
verifies everything again (`closing`) and writes `completed.json`. `BreakOff` may cut a file short. Others edit the checkout (at most
`MaxChanges` times) and release packages. `calm` and `aware` are history variables: nothing has disturbed the run;
its last look showed the registry as it still is.

### PackagePublication

One attempt of the release workflow runs at a time (`now` holds its run and attempt number); `pc` is the script, `i` the package its loop is at.
`Pack`, `PackEvidence` and `CheckArtifact` are the verify job, `Preflight`, `NpmPublish`, `SkipPublish`, `Export` the npm
job, `Look` to `Record` the evidence job. `RerunFailed` starts the failed job again with the outputs of the earlier
ones (`state`, `producer`), `RerunAll` and `Dispatch` build everything afresh. The registry is external: a version once there
stays, becomes visible and gets its provenance later (`Propagate`), a stranger may publish the version
(`PublishedElsewhere`), one of npm's answers about a version changes (`DocumentChanges`). An attempt retains four raw answers per package
(`Outputs`: the version document, `npm view`, the attestations, the audit of the signatures), each where the script reads it
(`Retain`); `Manifest` holds them next to what the fixed assets state themselves. Provenance is reduced to who published; bytes are told apart by what a build gave.
The workflow file itself is not in the repository's sources; the order of the jobs is the one that `scripts/verify-workflows.mjs:505-577`
requires and `scripts/test-npm-release-evidence.mjs` exercises. `SHA256SUMS` is part of `evidence`; that `.artifacts`
survives from one attempt to the next allows more than a fresh runner does. The time-limited policy evidence is left out.

## 3. Runs

| Run | Shows | Instance |
| --- | --- | --- |
| `lease_safety` | inductive invariant, exclusion, writes under the lease, nothing left behind after release, refinement of `SingleFlight` | 3 calls, duration 6, period 2, latency 1 (the proportions of the code's defaults are laxer), crashes |
| `lease_liveness` | every call settles | 2 calls, suspension, rejections and crashes |
| `sessions_safety` | inductive invariant, tokens submitted are stored, stored token lives, first use kept, committed session returned | 2 tabs, every method, repeated calls, 2 keys, 3 grants |
| `sessions_liveness` | no wait for oneself, every call settles, joined ones included | 3 calls, two of them in one tab, each slot used once |
| `sessions_lapse` | binding of the returned session while leases lapse | 1 tab, 2 calls, 3 keys, 3 grants |
| `fetch_safety` | inductive invariant, one dispatch, fresh token, clearing after revocation | 2 requests repeated, 3 tokens, 2 nonces |
| `request` | no refusal for the clock in the end, returned sessions are live, a client that goes on gets its session | 1 client, clock right or 5 units behind, 3 disturbances, latency 1 |
| `stores` | inductive invariant (who owns a store and what it holds), bound sessions are returned, required persistence is kept, every call settles | 3 calls: a grant beside a grant or clearing in one tab, which may fall back or must persist, and a clearing in a tab that must persist; 6 keys |
| `documents` | both readers read exactly strict JSON, what is stored is kept, only canonical refusals are acted on | texts, grants and refusals two deviations from a base document; depth 2, 9 bytes |
| `release` | inductive invariant, reported success is right, publication rests on verified bytes, a later run completes what a broken one left | 2 overlapping runs, one may break off, 1 fixed asset, 1 package, 1 step of others |
| `bootstrap` | inductive invariant, `completed.json` is right, only an alias of this script's own is removed, an undisturbed run does not fail | 2 runs, 2 packages, 2 polls, 3 changes of the checkout |
| `publication` | inductive invariant, true records, refusals only for cause, preflight before publication | 2 runs of 2 attempts, 2 packages, 4 builds, 1 change of one of npm's answers |

Why the bounds are enough. Lease: every hazard takes an owner, an overtaker and at most a third
caller; the instance has duration > period + 3·latency with the slack exactly 1, so an argument off by one
fails (the mutants that delay or drop a heartbeat are found). Sessions: two tabs are enough for a loser and a
winner; with two call slots no more than a stored, a cached and a fresh key, and a loaded, a granted and an observed
session are alive at once, and names are recycled, so histories are unbounded in length. Where calls
overlap without a lease, three keys are needed and given. Fetch: a request uses at most a first, a rejected and
a fresh token, and the second request or `ReplacedElsewhere` spends the others; two nonces
give a current and an old one. `MaxTokens` is the one counter that is capped: when it is used up no further
session is issued, which only removes behaviours after the third token, and the theorems have no such limit.
Release: two runs give an overlapping or a broken predecessor and its successor; one fixed asset and one record per run
make a partial draft possible, and one foreign step (`MaxWrites`) between any two commands is the race the script's comments
describe. Requests: `Window`, `Grace` and `Leeway` sit exactly at the margins their assumption demands, so a clock that is off by one unit more is refused;
three disturbances are enough to learn a wrong offset, store it and meet it again. Stores: two calls of one tab can both be
interrupted by one fallback, and either the second or the one of the other tab deletes what the first needs; six keys suffice because a key nobody refers to is used again (`FreshKey` takes the first such name; a call that finds none stops, which the instance never meets). Documents: the shortest text that
exceeds each limit is two edits from a sample, and each pair of checks that must agree is two fields apart. Bootstrap: publishing
foreign bytes takes three changes of the checkout (`PublishedIsReviewed`), two runs give a broken predecessor or an overlapping one. Publication: two
packages make a half-published set, two attempts a rerun, two runs a fresh build over an older attempt's versions; one answer that changes once (`NDocs`) is enough for two
attempts to retain different ones.
The safety theorems bound none of these. `release`, `bootstrap`, `publication` and `documents` switch deadlock checking off because their runs end,
`request` and `stores` because a state where nobody calls may rest.
`sessions_liveness` switches deadlock checking off because each slot is used once: the system stops when all have settled.

Fairness. Lease: time passes, requests settle, timers fire, and an operation
(straight-line code over bounded requests) is eventually completed; nothing forces a call or a failure.
`SF` on `BeginCompletion` says that the operation does not mutate for ever, which no operation in the
manager does. Acquisition is only weakly fair: with each slot calling once, a poll eventually meets a free
record. A stream of endless new calls could starve one, which the code allows (no queue) and the hazard list notes.
Sessions: weak fairness of every step of a call (an await settles), and of the expiry of a crashed tab's
lease. Starting, throwing, crashing, ageing and revoking are never forced.
Release: weak fairness of each run's next step or refusal, as every command has a time limit (`MAXIMUM_API_COMMAND_SECONDS`,
`MAXIMUM_TRANSFER_COMMAND_SECONDS`); breaks, expiry and other people are never forced. `ResumesAfterFailure` promises success only to a
run that nobody disturbs, whose evidence lasts, and that finds no upload cut short: such an asset is refused until it is removed by hand.
Requests: the application calls again and the gateway answers. Stores: an operation settles and fails only if its store cannot be used; a lease nobody
renews expires. In both, failures and reloads are never forced. In `bootstrap` and `publication` `ResumesAfterFailure` and
`RefusesOnlyForCause` are safety properties (what a run may not end with), so they need no fairness.

## 4. Proofs

All by TLAPS, without further axioms than the modules' named assumptions (constants are distinct, durations are
natural numbers).

* **Lease.** `TypeCorrect` for all timings. `LeaseInvariant`, `Exclusive`, `WritesHoldTheLease` and
  `LeaseImplementsSection` assume `Timely`: a shared lease, no suspension, no rejected request, and
  `Duration > Period + 3 * Latency`. Exclusion alone is not inductive: what carries it is `HeartbeatSlack`, which
  says how much validity is left in terms of the time to the timer or of the age of the request, and
  `BoundedDelays`. `NothingLeftBehind` needs only `~MayReject` and uses `QuietInv` (the record names a call that
  has not settled, and only a call inside or stopping has a heartbeat).
* **Sessions.** `TypeCorrect` even under lapses. `ManagerInvariant` and what follows from it assume `~MayLapse`,
  that is, the exclusion proved of the lease. The invariant says that the lease's holder is the one call under it
  (`SoleHolder`) and what that call knows of the store, of its tab's memory and of the server at each of its awaits
  (`KnowsStore`), for instance that between loading and submitting the refresh token the stored session is the loaded
  one. From it: `SubmitsStoredToken`, `StoredTokenSurvives`, `NeverSelfWaits`, `FirstUseIsKept`, `ReturnedIsCommitted`.
  `ManagerTakesTurns` closes the circle with the lease: the calls of the manager are operations of the same `SingleFlight` that the
  lease implements, entering it one at a time, once each, and ending in it or before it, together where a tab closes.
  Two theorems need no exclusion at all: `ReturnedIsBound` (`BoundToLoadedKey`), whose invariant `Compares` follows the
  binding through the locals of a call alone, since the store may change under it at every await; and `JoinedPromisesPend`
  (`PromisesPend`), whose invariant adds that a promise is its own tab's, so that a crash takes it along with its call.
* **Fetch.** `FetchInvariant` holds without further assumptions. `Budget` counts the attempts by the retry flags (so the bound
  on attempts is not needed for `TypeOK` alone but makes it inductive), `NotYetDispatched` says that whatever may be sent again
  has not been dispatched, `NotYetSent` the same of bodies that cannot be replayed, `RefusedIsGone` follows the refused
  token from the answer through the observation to the refresh while the stored session changes hands, `OneConfirms` says
  that at most one call is about to clear and that the gateway has revoked. From it: `DispatchedOnce`, `SentOnce`,
  `ThreeAttemptsSuffice`, `RetryIsFresh`, `ClearedWhenRevoked`.
* **Requests.** `RequestInvariant` holds for all latencies, tolerances and lifetimes within `RequestAssumption` and any number of disturbances. `StoredInv`
  relates what a stored session promises by the client's clock to what is left of it at the gateway: both are off by the same
  offset, but for the time the grant was under way. `PhaseInv` says which answers can follow which requests, and `ClockInv` how
  far the clock can be off in each phase: after a first attempt at most by the latency, which the gateway's window tolerates. From it: `ReturnedLives`, `ClockIsSettled`.
* **Stores.** `StoresInvariant` holds for any tabs, calls and modes. That an undisturbed call finds one key everywhere (`PairKept`) rests
  on the lease of its own store (`LeaseKept`), and this on a call that holds a lease in the database having had a connection (`Opened`), on no
  call counting as untouched beside an interrupted one (`Untouched`) and on each call doing its own kind of work (`HasWork`). A step of one
  call is shown to leave the leases and records that the invariant promises to the others alone (`ActsIn`, `TakesFairly`, `MayWrite`). From it:
  `ReturnsBound`, `RequiredIsPersisted`.
* **Documents.** `DocumentsReadStrictly`, for texts of any length, any limits and any number of changes under the reader: both
  scanners accept a text if and only if it is `Strict`, which is stated without a scan. The invariant `ReaderInv` says of a scan in progress (`ScanStands`)
  that everything before the cursor fits (`Fit`), that the frames are the brackets open there, innermost last, at the depth their number
  says (`Nested`), that each holds the names of its object so far (`Named`), and what the place in the code says of the token before
  (`Due`); and of a finished one that it is right (`AnswerRead`, `FileRead`). The step from one token to the next rests on one lemma per place,
  `ValueFits` to `EndFits`, each saying that the tokens the scanner takes there are exactly those that fit; whatever it refuses ends every continuation
  (`NotStrict`). Depth and innermost bracket are defined by counting and by a maximum; that they step from token to token
  (`DepthNext`, `InnermostAround`) needs the greatest element of a bounded set, which `LargestOf` derives from the well-foundedness of `<`. The invariant was
  model-checked too. From it: `DescentIsBounded` (no more calls than `MaxDepth`, on any input) and `ScansAdvance` (every step advances
  the cursor or settles what is awaited there, so the scan is linear and never leaves the text).
  `KeptIfStored`: `ChecksAgree` shows for grants of any values, not only the classes of `FieldValues`, that what `ParsesGrant` and
  `BoundToClient` accept, `IsValidStoredSession` takes for this client's and nobody else's. `OnlyCanonicalRefusals`: an answer
  that passes `IsProblemDocument` is `Canonical` but for the members that are free (`CanonicalIfRead`), and `PolicyOf` says what the policy
  table holds for the codes that are acted on. Both hold for any number of deviations.
* **Release.** `ReleaseInvariant` holds without further assumptions. `Frozen` says what a run has verified of a release that
  changes no more, `Known` what it has verified before, true while `fresh` (nobody else has acted since its lookup), and the last
  conjunct carries both over the publication. From it: `VerifiedMeansRight`, `PublishedKnowingly`, `UploadsAreGuarded`.
* **Bootstrap.** `BootInvariant` holds without further assumptions. `Drift` counts how often the checkout must have changed for what a run has read,
  written or published, `Archives` says which files a run can rely on, `Closure` that the registry shows an older state at worst and that a package found
  closed stays closed, `Calm` what an undisturbed run finds of its own and of others. `CompletedIsRight` needs `Closure`, because the run verifies
  packages one after the other while others go on; `ResumesAfterFailure` needs `Calm`, which is stronger by far than the property. From it:
  `CompletedRight`, `AliasOnly`, `ReviewedPublished` (`PublishedIsReviewed`, a part of what `bootstrap` checks as `BootInv`) and `Resumes`.
* **Publication.** `PublicationInvariant`: `Handoff` follows the archives from script to script, whichever is broken off and run again, and
  `OwnVersions` says that a version of the present attempt is one its preflight found missing and its outputs say it published. The
  records need more (`JobInv`): what the preflight asked still holds because versions never change (`Asked`), what was found missing has
  been published by this attempt once the job is over (`DidPublish`), and what verify-published has found of a package remains true (`Findings`); `History` carries the
  written records along. From them: `AsksFirst`, `TrueRecords`, `StableFacts`, `CausedRefusals`.

Theorems without a run of their own: `NonReplayableSentOnce`, `NeverExhausted`, `UploadsToVerifiedDraft`, `PublishedIsReviewed`, `FixedFactsStable`, `PromisesPend`, `SectionSpec` of the sessions and
the type invariants are stated in their modules and proved; TLC sees them through the inductive invariants, but for
`FixedFactsStable`, which holds on the instance of `publication`, and `PromisesPend` and `SectionSpec`, which hold on those of the `sessions` runs (`SectionSpec` on those without lapses). `RequestInv`, `ReaderInv`, `DescentBounded` and `ScanAdvances` are stated with their proofs.

Only model-checked: all liveness (`EveryCallSettles` of lease, sessions and stores, `GetsSession`, `ResumesAfterFailure` of the release, and with
them every use of fairness), since it needs `ENABLED`. Every invariant and action property of the runs has a theorem.

## 5. Where code and documentation part

Each of these is a property of a module that the code does not have. It is in no configuration; the change to one that makes TLC show it is given.

1. `renew()` reports a lost lease only while the other call still holds the record; after its release the loser
   silently acquires it afresh (`session/manager.ts:361`). `LostLeaseIsDetected` under `lease_liveness.cfg`.
2. A store without a shared lease has no heartbeat, so an operation longer than the lease is not single-flight in
   its client (`session/manager.ts:373`, against `docs/architecture.md:52`). `MutualExclusion` under `lease_liveness.cfg`
   with `SharedLease = FALSE`, `MayPause = FALSE`, `MayReject = FALSE`.
3. A tab suspended while it generates a key overwrites the key another tab has committed (`session/manager.ts:133`,
   against `docs/architecture.md:54`). `FirstUseKept` under `sessions_safety.cfg` with `MayLapse = TRUE`.
4. A tab suspended between load and submission submits a token that another has rotated (`session/manager.ts:287`, same
   sentence). `NoConsumedToken`, with the same change.
5. A nonce is taken from any successful response too (`client/client.ts:91`, against `docs/architecture.md:102`).
   `NonceOnlyFromProblem` under `fetch_safety.cfg`.
6. A gateway that judges the clock before it asks for its nonce (`NonceFirst = FALSE` in `request.cfg`) spends the
   one retry twice: a client without a nonce and with a wrong clock can fail for ever (`GetsSession`). The code relies on
   the order, which the documents do not state.
7. "This keeps every fixed asset byte-stable across a valid retry" (`docs/releasing.md:486-487`), but four raw answers of npm per package are
   fixed assets too (`scripts/verify-published.mjs:191-203`), fetched anew by every attempt and hashed into the registry manifest and the
   post-publish evidence. When one has changed, a later attempt's assets differ from those of the earlier one, and a draft that holds some of
   these is refused, as their bytes differ (`scripts/reconcile-github-release.py:912-925`). `FixedAssetsByteStable` under
   `publication.cfg`. What does hold is `FixedFactsStable`: bytes, provenance and mode of every package are stated alike by all attempts, and bytes and provenance as in every adoption record.

1, 3 and 4 need a tab to be suspended for longer than the lease while timers and requests of others run; the
safety theorems hold exactly where this is excluded (`Timely`, `~MayLapse`).

What the models show and no document denies:

* Two calls of one tab that a fallback to memory catches at different points are no longer single-flight: one holds the
  lease of the database, the other gets the one in memory. `BoundReturn` excuses the calls that hold the lease at the fallback and those that wait or
  begin while such a call is still at work, and no other.
* A `clearInstallation()` that a fallback has interrupted drops the key promise of a call beside it, whose proof then waits
  in a nested `key()` for the lease its own call holds in memory, until this one expires after ten seconds.
* The preflight accepts an existing version by its bytes alone; its provenance is asked for only after the other
  packages have been published. A stranger's version of the same bytes leaves a set no later attempt completes
  (`RefusesOnlyForCause` allows it as a cause).
* A file that is changed in place while it is read may be parsed as a mixture of both contents; what is parsed is still a strict document.

## 6. Not modelled

* `session/wire.ts:60-127`, the challenge parsers; in `client/client.ts` header sanitising, target checks, quota and
  diagnostics parsing, and the provisioning of components beyond its being a control request: shape checks of one document each.
* `src/contract.ts`, `src/encoding.ts`, `src/dpop`: checks and encodings character by character, without state; cryptography is external.
* Configuration, option validation, attestation adapters and the framework packages: thin wrappers without protocol state.
* The other scripts (`verify-workflows.mjs`, `live-conformance.mjs`, bundler and contract checks, the tests): sequential, without state
  that outlives a run. The attestations and certificates of `verify-published.mjs` are reduced to who published.
* Hazards without a property: the memory store's missing heartbeat (5.2), a lease renewed after it was lost (5.1, 5.3) and the fixed assets that retain
  changing answers (5.7): the code does not have the property to check, and `lease_safety` and `sessions_safety` assume the first two away. The race between the
  look at a `latest` tag and its removal in the bootstrap (`scripts/npm-namespace-bootstrap.mjs:812`), which npm offers no way to exclude, is excused by
  `RemovesOnlyAlias`. Polling every 75 ms is not a
  queue either: one call can lose every race against others that keep coming; `lease_liveness` lets each slot call once.

What would come next: `MutationLease` composed with `SessionManager`, so that the session properties are proved under `Timely` instead of
`~MayLapse`; a proof that `PromisesPend` and the exclusion of calls survive a fallback of the stores, which `SessionManager` takes for one
store; that a scan ends, which `ScansAdvance` leaves to fairness.
