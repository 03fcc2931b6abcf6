# OptiSec Recon Pro: a verification project

This directory specifies the parts of OptiSec Recon Pro whose correctness
depends on what happens at the same time, in which order, and on what is lost
on the way. The modules are TLA+; TLC checks them on small instances, and TLAPS
proves the theorems of the `*_proofs` modules for instances of any size. Every
definition is translated from the source, and `PROJECT.json` ("map") names the
lines it stands for.

Contents: [the system](#the-system) ·
[the modules and the code](#the-modules-and-the-code) ·
[the runs](#the-runs) · [fairness](#fairness) · [the proofs](#the-proofs) ·
[findings](#findings) · [what is not modelled](#what-is-not-modelled) ·
[the plan](#the-plan) · [running it](#running-it)

## The system

OptiSec Recon Pro is a FastAPI application over one SQL database (PostgreSQL in
production, SQLite elsewhere), served by **two worker processes**. Each process
has an event loop of its own, background tasks that live in its memory only,
and three timers. What the processes share is the database, a `data/` directory
of JSON files, and nothing else. The ORM sessions are opened with
`expire_on_commit=False`, and write back only the columns whose value differs
from what the session had read: a row that another process has changed in
between is neither re-read nor noticed. Most of what can go wrong follows from
that, from the awaits between a read and the write that depends on it, and from
processes that are killed or redeployed.

### Components

| Component | Where | State | Operations | Talks to |
|---|---|---|---|---|
| Scheduler locks | `modules/scan_watchdog/scheduler.py`, copies in `modules/ioc/` and `modules/darkweb/` | one `scheduler_locks` row per job | acquire, release, start, stop | every process's timer |
| Scan lifecycle | `web/app.py` (`run_scan`, `_run_scan_task`) | `scans`, `findings` rows; a task's dictionaries | start, push a step, save, fail, delete | authorization gate, scan modules, AI triage, WebSockets |
| Scan watchdog | `modules/scan_watchdog/` | none of its own | sweep | the lock, the `scans` rows |
| Automated checkout | `web/routers/payment_routes.py`, `web/services/nowpayments_client.py` | `pending_payments`, `license_keys` rows | create invoice, webhook, expire | NOWPayments, delivery |
| License-key delivery | `web/services/email_delivery.py`, `email_client.py`, `resend_pending_deliveries.py` | one JSON file per order in the outbox | write, mail, mark, resend | the mail server |
| Domain verification, scan authorization | `web/domain_verification.py`, `web/scan_authz.py`, `modules/scan_scope.py`, `web/routers/domain_verification.py` | `domain_verifications` rows | create, check, delete, authorize, confine | DNS, HTTP, every route that scans |
| License redemption | `web/routers/license_routes.py` | `license_keys.redeemed_by`, `users.subscription_tier` | redeem | accounts |
| Offline license engine | `web/license.py` | `data/license.json`, a cache per process | activate, deactivate, load | feature gates |
| Accounts and sessions | `web/auth.py`, `web/app.py` | `users` rows, login attempts in memory | login, refresh, logout, register, administer, first admin | everything |
| Request rate limiting | `web/rate_limit.py` | timestamps in memory, per process | admit | routes |
| AI call budget and triage | `modules/ai/` | two windows of events, a lock | acquire, seed, triage with a fallback | Groq |
| WebSocket progress | `web/websocket_manager.py` | sockets per scan and per user | connect, disconnect, broadcast | the scan task |
| Dark-web monitor | `modules/darkweb/`, `web/routers/darkweb_monitor.py` | `dark_web_monitors`, `dark_web_alerts` | check, create, delete | the lock, feeds |
| IOC store, correlation | `modules/ioc/`, `modules/ioc_correlation.py` | `iocs`, correlations | upsert, sync, correlate | the lock, feeds, the scan task |
| Federated scanning | `modules/federation/` | `data/federation.json` | register, ping, dispatch, collect | peers |
| Bug-bounty submissions | `web/routers/bug_bounty.py` | `bug_bounty_submissions` | quota, confirm, submit | HackerOne, Bugcrowd |
| VPN manager | `modules/vpn/wireguard.py` | `peers.json` | add, remove peers | `wg` |
| Honeypot, firewalls | `modules/honeypot/`, `modules/firewall/` | events, counters, block lists | listen, inspect, block, expire | |
| Autonomous red team | `modules/ai_advanced/autonomous_redteam.py` | sessions in a JSON file | run, list | the gate |
| Eternal API | `app/` | `recon_artifacts`, objects in MinIO | save, archive weekly, timeline | |
| Policies | `auth/dependencies.py`, `abac/` | a JSON policy | evaluate | |
| Scanners, OSINT lookups, reports, CLI, scripts, migrations | the rest | none that outlives a call | | the network |

`PROJECT.json` ("components") lists each with its sources, its modules and its
status.

### How they interact, and what is hard

* **A scan** is requested over HTTP. The gate looks up, there and then, whether
  the user still proves control of the target; the request inserts a `pending`
  row and leaves a background task behind. The task pushes its progress into
  the row step by step, each time in a session of its own, and closes the row
  in one last transaction. If its process dies, nobody but the **watchdog** can
  close the row: a periodic job, run under a **database lock** by whichever of
  the processes gets it. The timers that sweep are those of the processes that
  run scans: one crash loses tasks and leaves a lock behind at once. An
  administrator may delete the user, and the scan with it, at any moment.
* **A purchase** is an invoice with the payment provider, which reports to the
  webhook as often as it likes, in any order, to either process. The
  notification that finds the payment finished must produce exactly one key,
  and the buyer must get it although the mail server fails, the process dies
  between any two steps, or a file is torn.
* **An account** is read when a request is authenticated, and the copy serves
  the request to its end: for what it may do, for the columns it writes, and for
  the token that its answer re-mints. Logins, logouts, redemptions and
  administrators change the row in between, and no token can be taken back.
* **A domain record** is checked by requests that load it, wait for the network
  and write a verdict derived from what they had loaded, while others check it
  as well, its owner withdraws the token, or it is deleted and made again.

What makes each component correct:

* *Lock*: a job runs once at a time except when a run outlasts the lease; a
  late release harms nobody; a dead holder does not wedge the job.
* *Scan*: a closed scan stays closed; findings are there exactly when the scan
  is done; a failed scan says why; an accepted scan is closed in the end.
* *Checkout*: one key per paid order, none for an unpaid one; the key delivered
  is the order's; what is marked delivered was mailed.
* *Authorization*: an active check touches only hosts that its own user proved
  control of during this request, or that the training list permits.
* *Accounts*: a revoked session stays revoked; a key is redeemed once, and the
  tier of an account is one it has redeemed; the first account administers, and
  some administrator remains.
* *Services with a store*: a batch is stored whole or not at all; an archived row
  is never nowhere; a save forgets only what another's overtook; no two VPN
  peers share an address; a limit is overshot by no more than what is in flight.
* *Intelligence*: a scanner sends nothing outside its scope and reports only what
  an answer justifies; what is shown, shared or audited is real; more evidence
  never lowers a conclusion.
* *Decisions*: a batch, a search, a honeypot session come to an end whatever
  hangs or fails; what they answer is true of what happened; a policy's decision
  does not depend on the order of its rules.

`PROJECT.json` ("hazards") lists what can go wrong at its line, with the
properties that would catch it; a note says what they do not catch, and why.

## The modules and the code

Definitions whose comment begins with *Mutant* are plausible bugs: each replaces
one definition of the model to confirm that a property would notice. They are
not part of any specification.

### `LeasedJob`, `SchedulerLease`

`SchedulerLease` is one periodic job: the lock row (`rowExists`, `lockedBy`,
`lockAge`) and, per process, where its firing is (`pc`) and how old its clock
reading is (`since`). A firing is `SelectRow`, maybe `InsertRow` or
`InsertConflict` (the primary key), then the conditional UPDATE (`ClaimLock` or
`LockHeld`), the job's work (`FinishBody` ends it) and `ReleaseLock`; `DbError`
is a call that raises outside the `try`, `LostAck` one whose COMMIT took effect although
its acknowledgement was lost, `LogCrash` the wrapper that logs it,
`Crash` the death of the process. Each step is one round trip, so anything can
happen between two of them. Time is relative and capped at `Horizon`: an age
beyond lease + lag + 1 compares like any larger one. `MaxLag` bounds how stale
the `now` of an UPDATE may be; the code has no such bound, but a statement that
takes longer than the database's own timeout has failed.

`LeasedJob` is what the job's users are promised, with no row in sight: a run
may begin only if every run under way is older than the lease.
`ImplementsLeasedJob` states that the lock keeps it (the runners are the
workers between claim and release, dated by their clock reading).

The watchdog's scheduler is the one translated; the `ioc` and `darkweb`
schedulers are copies of it with another job name.

### `ScanLifecycle`, `ScanWatchdog`

`ScanLifecycle` keeps the `scans` row (`status`, `progress`, `started`,
`error`, `completed`, `results`, `findings`, `age`, `authorized`) and the
background task (`proc`, `stage`, `step`, `how`, `seen`, `gathered`). The task
opens a session, *reads* the row, and later *commits*: `BeginTask`/`CommitStart`,
`FinishStep`/`CommitPush` for each authorized step, `BeginSave`/`CommitSave` in
the end, `RaiseInTask`/`CommitFail` for the `except` clause. `WriteStatus`
captures the ORM's rule (an assignment that equals the value read writes
nothing); `Skip...` are the `if scan:` tests that fail, `LoseTask` a request
that fails after its INSERT, `CrashTasks` the loss of a process with its tasks,
`Reap` the watchdog's UPDATE, `DeleteScan` the administrator. `results` and
`gathered` keep, per step, only whether there is data, a timeout, or nothing:
that is what the properties tell apart. The thirteen steps are `1..NSteps`, with
`VulnSteps` the vulnerability scanners, whose timeouts the code treats
differently. `ActiveBound` is the sum of the `wait_for` timeouts (740 s) in
ticks, which is what keeps `TickScans` from running away under a task that is
still pushing: the code's own guarantee, not an assumption about the network.
AI triage has no such timeout, and the model leaves it unbounded.

`ScanWatchdog` composes it with an instance of `SchedulerLease` whose workers
are the processes that run the scans: a sweep is the lock's work, a crash takes
tasks and timer at once, and there is one clock. Every step of the composition
takes a step of `ScanLifecycle` or leaves the scans alone, by the way it is written, so
what the scans' properties say holds here too; what the composition can get wrong
is whether a sweep runs under the lock, and that is `OnlyLeasedSweepsClose`.

### `OrderLedger`, `Payments`

`Payments` keeps the `pending_payments` rows (`invoice`, `status`, `keyHash`,
`old`), the `license_keys` rows (`licenseKeys`, of which `bulk` were generated
for sale elsewhere), the provider's notifications (`notices`, a set from which
nothing is removed: so they are repeated and reordered for free), the webhook's
handlers (`stage`, `about`, `news`, `seen`, `hookKey`), the outbox files
(`outbox`, `outKey`), the resend script (`queue`, `marking`) and the mail that
was sent (`mailed`). `Receive` is the webhook's read; `Claim`, `LoseRace` and
`Record` its three ways on; `WriteOutbox`, `SendMail`, `MarkDelivered` and their
failures the delivery, of which `OutboxFails` and `MarkFails` may leave a torn file and a
process that goes on (`Tear`); `CrashHook` and `ResendDies` a process that dies between
two steps or *within* the write of a file, which truncates it first (`torn`);
`Redeploy` the deployment's ephemeral disk.

`OrderLedger` is the buyer's view: paid, issued, taken, mailed.
`ImplementsLedger` states that the checkout implements it.

### `ScanAuthz`, `DomainAuthorization`

`ScanAuthz` has no state: it is the policy of `web/scan_authz.py` as operators
(`Expand`, `Covers`, `Granted`, `Decide`) and the network scope that
`modules/scan_scope.py` rebuilds from a decision (`ScopeHosts`, `ScopeSuffixes`,
`NamesAllowed`, `ScopeAddresses`, `Reachable`). Names are model values; `Under`
is the subdomain relation and `Resolve` the DNS as the scope sees it when it is
built.

`DomainAuthorization` keeps the rows (`status`, `token`), what the owners have
`published`, and the requests under way (`stage`, `slot`, `asks`, `held`,
`heldToken`, `result`, `basis`). `LookForRecord` then `InsertRecord` or
`InsertDuplicate` create a record; `BeginCheck`, `LookUp`, `CommitCheck` check
it; `BeginGate`, `LookUp`, `Accept` or `Deny` are the gate that every scanning
route calls; `DeleteRecord`, `Publish`, `Withdraw` come in between. A row is
identified by its token: tokens are drawn anew for each row, as row ids are, and
a token that nothing refers to any more stands for one that was never drawn,
which keeps `Tokens` finite. `witnessed` is history: the loaded tokens that were
published at some time since they were loaded. The scope is confined to what the
code itself resolves; a name that resolves differently later is outside the
code's control, and outside the model.

### `Accounts`

`Accounts` keeps the `users` rows (`exists`, `deleted`, `row`), the keys'
`redeemedBy`, the `tokens` in somebody's hands, and the requests: `stage`, `who`
(the account), `saw` (the copy of its row that the request works with),
`cookie` (the token its answer will re-mint), `target` and `found` (the account
it administers, as read). `BeginRegister`/`CommitRegister` and
`BeginSeed`/`CommitSeed` make accounts, on a count that was read earlier;
`BeginLogin`/`IssueToken` are the login routes; `Authenticate` and
`AuthenticateByKey` are `get_current_user`, and every answer `Slide`s the
session. `BeginLogout`/`CommitLogout` read the version and store it plus one;
`BeginUpdate`/`CommitUpdate` and `BeginDelete`/`CommitDelete` are the
administrator's routes; `Redeem` is one transaction with a conditional UPDATE.
`Written` is the ORM's rule again: a column is written if its new value differs
from the copy. Where a request needs only part of a row, `saw` keeps only that
part (`VersionOf`, `RightsOf`). A user is a row id, so an account that is deleted
and registered again is another user. A deletion is refused while a redeemed key
refers to the row, as PostgreSQL does; SQLite, which does not look at foreign
keys, would leave the key with a dangling owner. `born`, `logouts`, `overlapped`
and `dropped` are history.

The modules that follow are each a component with a specification of its own
(`IocSpec`, `VulnSpec`, ...); `MCServices`, `MCIntelligence` and `MCDecisions`
put them side by side for TLC.

### `IocStore`, `DarkWatch`

`IocStore` is the table of indicators (`iocRow`, and in history `iocMaker`) and
the batches that fill it: a feed sync, run by its timer under the lock of its job
(`iocLock`) or by an administrator, and the mining of a scan's findings. A batch
is one session: `GetByValue`, then `UpdateLastSeen` or `CreateIoc`, for one
indicator after the other, and one `CommitBatch`. The database is PostgreSQL's: a
written row is locked until its transaction ends, an insert of a key that another
transaction has inserted waits and then fails, and of two that wait for each
other one is aborted (`FlushError`). After that the session is broken and every
later statement, and the commit, raises (`CommitRaises`).

`DarkWatch` is one user's watchlist: the rows (`watch`, `due`), the stored alerts
as counts per monitor and fingerprint (nothing makes them unique), the requests
that add, delete and check, and the sweep under its lock, which another sweep may
take once the lease has lapsed (`LapseSweepLock`). A check is `BeginCheck`,
`AskSources` (the network), `ReadKnown`, `StoreAlerts`.

### `Federation`, `JsonStores`, `TrafficLog`, `VpnPeers`

All four keep JSON files that are rewritten whole, truncated first. `Federation`
has the operations that load the file, await the network, and save the copy they
loaded before: `PingNode`/`PingAnswered`, `DispatchScan`/`SendToNodes`,
`CollectResults`/`ResultsArrive`, and those that do not await. `Torn` is the
truncated file, `fedStale` remembers whose copy a write has overtaken. The
assignment of a task's work to nodes (round-robin over the peers that are online)
is taken as any subset of them.

`JsonStores` is one module for the nine features that share one shape: do the
work, load, change, trim, save. `jsonKind` says which store a behaviour is about:
whether it is capped, at which end it is trimmed, whether an unreadable file
raises or counts as empty. Each feature's operations are actions of their own.

`TrafficLog` is the firewall's log under requests to inspect and under simulated
bursts; `VpnPeers` the list of WireGuard peers, the `.conf` files, and the two
files of the server's key pair, step by file operation, with two workers that may
die at any of them.

### `Quotas`, `SlidingWindow`, `ProgressSockets`

`Quotas` is the four limits that check first and count later: a plan's targets, a
user's bug-bounty submissions, an address's failed logins, a process's daily
tokens. A meter counts (`used`); a request that has passed the check is in flight
(`passed`) until it is recorded, cleared or abandoned. Submissions also pass the
confirmation of their preview. `SlidingWindow` is the limiter of `web/rate_limit.py`, a
plain function that the framework runs in a thread pool: `CopyTimestamps` and
`WriteTimestamps` are separate steps. `ProgressSockets` is the WebSocket of a
scan: `Handshake` checks the capacity, `Connect` follows the awaited accept,
broadcasts send to a copy of the list while peers leave.

### `InstanceLicense`, `EternalArchive`

`InstanceLicense` is `data/license.json` and each worker's `_current_license`
(`licenseCache`, `Unset` before the first use). A save truncates and writes, and
may fail in between (`SaveFails`); days pass; a worker may restart. Keys are
strings of which some were signed here.

`EternalArchive` is the Eternal API's hybrid store: rows (`hot`), objects and
summaries in MinIO, and the weekly job, `ReadOldRows`, `PutArchive`, `PutSummary`,
`DeleteArchived`, any of which may be its last; readers read the rows and then
the object. An artifact stands for its target, because `run_scan` makes a target
for each scan: the archive of a target is therefore never written twice by the
code as it is, although its object's name would allow it.

### `VulnScan`

One vulnerability scan: `CrawlPage` and its neighbours are the crawl, with its
queue, its limits and `robots.txt`; `NextStage`, `StartTest`, `TryPayload`,
`PayloadFails`, `TryBlindPair`, `BlindPairFails`, `ProbeGraphql` are the tests of
the six scanners; `Classify`, `ClassifyBlind` and `IsEvidence` are the classifier; `Allows`,
`Contacts` and `Blocked` are the scope guard, which every request and every hop
of a redirect passes. The target answers as it likes: with any status, with or
without a recognisable firewall, showing the payload raw, encoded or not at all.
The scanners' thread pools run tests concurrently; each has its own state, so the
model takes one test at a time, in any order. The names that a scanner guesses
when an address has no parameter are one name; the baseline request of the SSRF
test is part of its first probe. `proven` is history: the tests to which some
answer was evidence.

### `ThreatSharing`, `ThreatFeed`, `ThreatMap`, `IocCorrelation`

`ThreatSharing`: what may be offered (`LocalIocs`), the explicit share (`ShareIoc`,
then `OtxCreates` or `OtxRefuses`, whose answer may be lost, then `RecordShare`,
which the table may refuse, or `ShareFails`, a commit that fails for any value) and the audit trail. `ThreatFeed`: the cached fetch of
OTX, page by page while the feed moves on to another `edition`, the merge with
the local indicators and the status the page shows. `ThreatMap`: the addresses, the
geolocation cache file that overlapping requests overwrite and tear, the points.
`IocCorrelation`: the three clustering strategies, a cluster's score, level and actors,
relations and patterns, the cache file and the threads that write and read it.
A cluster's `members` are positions in the list of indicators, in place of the sublists
that the code filters out (what a cluster does is a sum, a set or a first match over
them), and its score is counted in thousandths. That an indicator scores between 0 and
100, to which `otx_feed.py` clamps it, is assumed of the `Feeds`. The order in which
Python lists a set of names depends on the process (`hashOrder`).

### `OsintSearch`, `OsintEntities`, `RiskScores`

`OsintSearch` is `search_unified`: the sources of the target's type run together,
each with its own guard, timeout and treatment of failures (one entry operator for
each of them; a 200 answer without the expected body, `blank`, is read as nothing found), are gathered, enriched and answered; `StatusAvailable` is the page that
says beforehand which of them will run. `OsintEntities` is what becomes of the findings:
`MergeFinding` is one iteration of the merge, `CalculateConfidence` and `ClassifySeverity` are the
two scores. `RiskScores` has the additive scores of the program, nineteen subjects,
each a function of how often which fact was reported; a behaviour reports one
fact after the other.

### `TriageBatch`, `Honeypot`, `AccessPolicy`

`TriageBatch` is one batch of AI triage: a task per finding, the semaphore, the
limiter's lock with its queue, the two windows, the model's refusals and the
re-seeding from what the provider reports. The lock is held while a task sleeps
for the minute to pass, as in the code. `Honeypot` is the listeners of two workers that
compete for the ports, the sessions of the three services, the enrichment (which may
raise: the row then says `UNKNOWN`), the rows and the statistics. `AccessPolicy` is `evaluate`, rule by rule, on the rules of
`abac/abac_rules.json` in both orders.

## The runs

Each passing run checks one module and asks one question. `PROJECT.json`
("mutants") gives, for every property, a changed definition under which the run
fails.

| Run | Module, configuration | Question |
|---|---|---|
| `lease` | `SchedulerLease` | Does the lock keep the leased-job promise, and is it never wedged? |
| `scan` | `MCScanLifecycle` | Is every scan row closed consistently, whatever interferes? |
| `watchdog` | `ScanWatchdog` | Does the sweep, under the lock and with crashes, close every scan and nothing else? |
| `payments` | `MCPayments` | One key per paid order, delivered to its buyer? |
| `domains` | `MCDomainAuthorization` | Do active scans stay where their user has just proved control? |
| `accounts` | `MCAccounts` | Do sessions, tiers, keys and administrators stay consistent under requests that work with old copies? |
| `services` | `MCServices` | Do the eleven services that keep rows, files or memory hold what they were given, and their limits? |
| `intelligence` | `MCIntelligence` | Is what the scanners, feeds, correlation and scores report justified? |
| `decisions` | `MCDecisions` | Do triage, searches, honeypot sessions and policy decisions end, with a true answer? |
| `payments_lost` | `MCPayments`, `MCPaymentsLost.cfg` | violation of `KeyNeverLost` |
| `last_admin` | `MCAccounts`, `MCLastAdmin.cfg` | violation of `AdminRemains` |
| `real_traffic_tagged` | `TrafficLog`, `MCTrafficTagged.cfg` | violation of `RealTrafficStaysUntagged` |

The last three passing runs check several components each. A behaviour of such a
run is one of a single component, chosen in the initial state (`part`); the
others rest in one of their initial states. The components of a run share no
variable, so a property of one component holds of all interleavings exactly if
it holds of its own behaviours: nothing is lost, and the state spaces add up
instead of multiplying. The properties of a composed run are conjunctions over
its parts, each part's conjunct being defined, with its comment, in the part's
module.

What the properties say, and why the bounds are enough:

* **lease**: two workers, as deployed; a lease of 2 ticks and a lag of 1, so that
  a claim can be late by less than, and a run can outlast, the lease; every
  database call may fail. `OnlyLapsedLosesLock` and `NoOverlapWithinLease`: two
  workers are at it together only if one has overstayed. `ImplementsLeasedJob`:
  the abstract promise. `NeverWedged`: a lock whose holder died is taken again or nobody is
  left.
* **scan**: two scans in two processes, so that one process's crash or one sweep
  meets a scan it must not touch; two steps, one of each kind; staleness of 2
  ticks against 1 for the bounded steps, the smallest numbers with
  `ActiveBound < ScanStale`. `OpenWhileActive` and `StatusMovesForward`: although
  a push writes `running` blindly, no closed scan ever runs again, because the
  watchdog's patience exceeds the sum of the timeouts. `ScanTypeOK` is the types and
  that no task is in, or reports, a step its scan was not authorized for. `DoneIsComplete`
  and `FindingsIffDone`: the row is whole.
* **watchdog**: one scan, two processes, either of which may die at any point,
  also while it sweeps; a lease of one tick, so that a sweep can overstay it.
  `EveryScanCloses` is the point of the watchdog; `OnlyLeasedSweepsClose`: only the
  holder of the lock, or one that has overstayed its lease, closes a scan. Failing
  calls about the lock are left to `lease` (`DbMayFail = FALSE`), failing sweeps are
  not.
* **payments**: one order is enough, for orders interact only through keys
  (covered by a key sold elsewhere, and by the proofs for any number); two
  handlers at a time; two keys, one of them possibly sold in bulk; a disk that
  may be lost. `KeysMatchOrders`, `OnlyTheKeyIsDelivered`, `DeliveredWasMailed`,
  `ImplementsLedger`, and the two liveness properties
  `PaidGetsKey`, `FiledGetsMailed`.
* **domains**: three records of one user (a domain by DNS and by file, a
  subdomain by file) and none of the other; a training host that permits one
  active check; a list of checks that is empty, one with an unknown check, and
  ones with an active check; two requests at a time; three tokens, so that
  a row can be deleted and made again under both; a limit of one record, which
  two requests that race exceed by one.
  `ActiveOnlyWhereProved` ties the hosts an accepted scan may reach to what was
  seen during this very request; `AcceptedChecksPermitted` ties its checks to
  the training list; `VerdictsComeFromLookups` ties each verdict to a lookup of
  that very row. Symmetry is used for requests and tokens, whose members are
  interchangeable in the specification and in every property; all of the
  properties are about safety.
* **accounts**: two accounts, two requests at a time, two keys of different
  tiers, so that one account can redeem both with a copy that is older than the
  first; a logout of each account, or two that overlap; a login is answered when
  no other token is valid (`MaxTokens`), while older ones come back as cookies
  that slide. `OneConcern` ends a behaviour that has both a logout and a
  redemption, which write different columns; the proofs need no such bound.
  `LiveSessionsAreFresh` is what a logout promises, for accounts whose logouts
  do not overlap; `TierPaidFor` and `RedemptionsStand` tie tiers, keys and rows
  together; `FirstIsAdmin` is about counts read too early. No liveness: nothing
  here has to happen. The run stops without a successor only when both accounts
  are deleted.
* **services**: two workers (as deployed) or two to three requests per service, and
  two of everything else, so that any two operations can overlap and a third can
  come late. Files that tear: every service whose code truncates. Bounds of the
  models only: `MaxTasks`, `FedInFlight`, `FedItems` (peers in the file and tasks
  dispatched, together), one operation of a kind per peer or task at a time,
  `JsonCap` (stands for 30 to 1000), `LogCap`, `MaxHost`, `MaxAdmissions`,
  `MaxHandshakes`, `LastDay`. `StoresAreExact` is `BatchesAreWhole` (nothing of a
  failed batch stays, everything of a reported one is there), `AlertsBounded`,
  `ArchiveKeepsAll`, `MarksAreExact`, `PeersAreConsistent`, `StoredAloneStays`:
  what an operation without overlap stored is not lost by later overlaps.
  `LimitsHold`: limits are overshot only by what is in flight; two threads that
  overwrite each other's windows admit at most limit * (limit + 3) / 2.
  `LicenseIsHonest`: no worker grants more than the free features but for a signed
  key that has not expired, and a copy differs from the file only for reasons
  that are named. `OnlyStaleSavesForget`: a save whose copy nobody overtook takes
  away and brings back nothing but what its operation is about, and moves no
  task's status back. Federation peers are interchangeable (`SYMMETRY`). The `VIEW`
  takes VPN states for one when they differ, after an overlap or a death
  (`vpnMet`), only in configurations, in whose keys are there or in whose were
  read: from then on `PeersAreConsistent` is about the list of peers alone, and
  the steps of the list ask only whether the key files exist.
* **intelligence**: four small sites that have, between them, a link out of scope, a
  redirect out of scope, a form that posts elsewhere, a page `robots.txt` forbids, a
  telling parameter and a repeated link; two overlapping sharers, feeders, mappers
  and correlators; three editions of a feed, of which one has no page; six sets
  of indicators that make each clustering strategy succeed and fail; nine findings
  of seven sources, any subset in the order of the blocks; facts up to the number
  at which each score's cap or level can change. `ReportsAreHonest` is
  `TrafficStaysInScope`, `EntriesAreJustified`, `AuditIsTruthful`, `FeedIsHonest` and
  `PointsAreLocated`; `ClustersAreHonest` is about what a correlation computes from them, and
  `MoreEvidenceNeverLowers` about every score and about the confidence in an entity.
* **decisions**: four findings of sizes 1, 2, 3 and 1 against a minute's budget of 2 and
  a day's of 5, so that a finding can be too large for a minute, the day can run
  out locally or at the provider, and two tasks are inside the semaphore; six
  sources, one of each way to run; two workers that compete for three services, and one
  connection, to any of them; the eight rules of the file that is shipped, forwards and backwards, and
  every combination of the attribute values they tell apart, missing and
  incomparable ones included. `AnswersAreTrue` (`BatchAccounted`, `SpentDayStops`,
  `StatusIsTheTruth`, `FailuresAreTold`, `HitsAreRecordedOnce`, `DecisionIsDeclarative`,
  `MissingNeverAllows`) and `EverythingEnds` (`BatchEnds`, `SearchAnswers`,
  `SessionsEnd`).

`CHECK_DEADLOCK FALSE` is set where a system comes to rest by itself: a scan that is
finished, a batch that has ended, a bound that is reached.

## Fairness

Liveness is stated under the fairness that the code's scheduling gives, and
under nothing else:

* *lease*: the clock runs; a timer keeps firing (APScheduler's interval jobs); a
  database call that is tried again and again does not fail every time (strong
  fairness on the calls that `DbError` may pre-empt); the job's work ends, for
  each of its network calls has a timeout. No fairness makes a process start,
  and none prevents a crash: `NeverWedged` allows for nobody being left.
* *watchdog*: the same, and a task's steps and transactions end (the
  `wait_for`s), **except triage**, which is not bounded in the code and may wait
  for ever: such a scan is closed by the sweep.
* *payments*: the provider repeats a notification until it is answered; a
  handler that runs goes on; a process does not die at every claim of the same
  order; the operator runs the resend script again while records are pending,
  and the mail server takes the mail one day. No fairness is asked of the
  invoice, of payment, or of the disk.
* *decisions*: every task of a batch is scheduled and its calls end (their retries
  are bounded), and minutes pass, but nothing makes the day pass; each source and
  the enrichment of a search is cut off by its timeout, while no source has to
  answer; a handler of the honeypot goes on when it can, for its reads and its
  lookup have time limits, while the peer need not do anything.

`services` and `intelligence` are about safety and ask for no fairness.

## The proofs

The theorems hold for any number of workers, scans, steps, orders, keys, handlers,
users, records, accounts, requests, entries, peers, findings, sources, sites and
connections, and for any policy, quota, limit, cap, lease and budget, under the named
assumptions on the constants (each module's `...Assumption`), which TLC evaluates on
every run of the module. The one theorem about a fixed number is `AdmittedInWindow`,
for two threads of one limiter, which is what the bound is about.

| Module | Theorems | Inductive invariant |
|---|---|---|
| `SchedulerLease_proofs` | `LeaseTypeCorrect`, `LapsedOnly`, `AloneWithinLease`, `ReleasedOrStale`, `LeaseRefinement` | `LeaseInv` |
| `ScanLifecycle_proofs` | `ScanTypeCorrect`, `NoCloseUnderTask`, `DoneComplete`, `FindingsWithDone`, `FailureExplained`, `MovesForward`, `TasksRunDown`; `WatchdogUsesTheLease`, `ScansStaySound`, `SweepsAreLeased` | `ScanInv`, with `LeaseInv` for the composition |
| `Payments_proofs` | `PayTypeCorrect`, `OneKeyPerOrder`, `OnlyTheKey`, `DeliveredHonest`, `KeyKeptOnFile`, `LedgerRefinement` | `PayInv` |
| `DomainAuthorization_proofs` | `DomTypeCorrect`, `ActiveProved`, `ChecksPermitted`, `Verdicts`, `Bounded` | `DomInv`, `CountInv` |
| `Accounts_proofs` | `AcctTypeCorrect`, `SessionsFresh`, `TiersPaid`, `RedeemedOnce`, `FirstAdministers` | `SessionInv`, `RedeemInv`, `FirstInv` |
| `Services_proofs` | `OvershootBounded`; `SocketsStayDead`, `SocketsCounted`; `LicensesAreSigned`, `LicenseHonest`; `CopiesStaySound`, `SavesKeepTheRest`; `BatchesStoredWhole`; `ArchiveKeepsEverything`; `AlertsStayBounded`; `VpnStaysConsistent`; `MarksStayExact`; `StoredAloneIsKept`; `LimiterStaysWithin`; and of the composition `ServicesTypeCorrect`, `StoresStayExact`, `LimitsAlwaysHold` | `OvershootIsInFlight` with the types, `SocketInv`, `LicenseInv`, `FedInv`, `IocInv`, `ArchiveInv`, `DarkInv`, `VpnInv`, `TrafficInv`, `JsonInv`, `WindowInv` |
| `Decisions_proofs` | `DecidedByTheSet`, `MissingAllowsNothing`; `SpentDayEndsTheBatch`, `BatchRunsOut`; `SearchesTellTheTruth`, `SearchesRunDown`; `RowsAreTheSessions`, `SessionsRunDown`; and `DecisionsTypeCorrect`, `AnswersStayTrue`, `AnswersRunDown` | `PolicyInv`, `TriageInv`, `SearchInv`, `PotInv` with `StatsInv` |
| `Intelligence_proofs` | `FeedStaysHonest`, `MapStaysLocated`, `AuditStaysTruthful`, `AnswersAreWhole`, `ClustersStayHonest`, `CorroborationCounts`, `FindingsAreJustified`, `EvidenceCounts`; and `IntelligenceTypeCorrect`, `ReportsStayHonest`, `CorrelationsStayHonest`, `EvidenceOnlyRaises` | `FeedInv`, `MapInv`, `SharingInv`, `CorrInv`, `EntitiesInv`, `ScanInv`, `RiskInv` |

The safety properties are not inductive as they stand; what the invariants add:

* `LeaseInv`: a worker that works under the lock either is its holder, and the
  lock is exactly as old as its run, or it has overstayed. The equality of ages
  is the key: it turns "the lock is stale" into "that run is old". A claim under
  way is at most `MaxLag` old, which is what the refinement needs.
* `ScanInv`: for each stage of the task, which statuses the row can have, what
  the open session can have read, and that the row is younger than
  `ActiveBound` while the steps are bounded; and which steps have left their
  outcome in the task's memory. `ActiveBound <= ScanStale` then keeps `Reap`
  away from an active task. The step lemmas treat one scan and a frame lemma
  the others.
* `PayInv`: a handler beyond the claim holds the key of its order; it has mailed
  it before it marks the file; a pending record holds a key, and the script
  marks only what it has mailed.
* `DomInv`: a looking request has loaded only its own user's covering records,
  and whatever it found it has witnessed; an accepted scan was decided on a
  scope that it proved, or on none. `CountInv`: a user's records and the
  requests about to insert one are together fewer than the limit plus the
  number of requests.
* `SessionInv`: an account whose logouts have not overlapped has as many logouts
  as its version says, at most one logout under way, and that one has read the
  current version; a request about to issue or slide a token holds a version
  that was current at the login the token belongs to. `RedeemInv`: whoever has
  read a paid tier has redeemed a key, which it will keep; so a tier that is not
  written, because it equals the copy, is nevertheless one that was paid for.
  `FirstInv`: who has counted no account, while the table is still empty, is
  about to make an administrator. Each is inductive by itself, given the types.
* The composition of `ScanWatchdog` needs no invariant of its own: each of its steps is
  a step or a stutter of `ScanLifecycle`, and of `SchedulerLease`. From the two
  invariants together, `SweepsAreLeased`: a scan is closed as orphaned only past
  the watchdog's patience, under no bounded step of its task, by a process the lock
  names or that has overstayed its lease.

In `Services_proofs`:

* *Quotas*: the requests in flight on a meter are a finite set, and passing, recording
  and abandoning move one request in or out of it. *ProgressSockets*: `SocketInv`
  relates the two lists, the stages and the broadcast under way; connections and
  accepting handshakes together are bounded, since a handshake begins below the limit
  only. *InstanceLicense*, `LicenseInv`: every copy and the file hold a signed key or a
  free plan, and a fresh copy equals the file up to expiry.
* *Federation*, `FedInv`: the file is torn or what was last written; every copy that is
  not stale keeps the rest of that (`KeepsTheRest`), and lists each task once.
* *IocStore*, `IocInv`: an open batch has written or has still to write everything it was
  given; what it has written or believes to be there is there, or is its own
  uncommitted row; every row comes from a batch that is done.
  *EternalArchive*, `ArchiveInv`: the job deletes only what it has read and put; a
  reader that knows an artifact without a row of it finds its object.
* *DarkWatch*, `DarkInv`: alerts are bounded only together with what the checks that
  have not seen a leak may still add (`Unaware`): a check that stores moves one share
  from the second to the first.
* *VpnPeers*, `VpnInv`: whoever met or died, no list in a file or in memory names an
  address or a name twice; and while no two operations have met, the one under way has
  everything but its own peer in order (`AloneInOrder`).
* *TrafficLog*, `TrafficInv`: the log is as long as its count says, an uninterrupted
  burst's entries are in front of it, and only a burst that is done has marks.
* *JsonStores*, `JsonInv`: the file **and every copy about to be written** keep what
  was stored alone, not too far back for the cap (`Kept`); so whichever copy is written
  last, it does. That `jsonNewer` counts what was stored after each entry is what makes
  the positions comparable.
* *SlidingWindow*, `WindowInv`: from each young entry on, what has been admitted and
  what may still be (`Rest` for the one list, `RestOf` for two that diverged) is no more
  than what an empty list admits. The bound limit * (limit + 3) / 2 is that sum, and
  holds for every limit.

In `Decisions_proofs`:

* *AccessPolicy*, `PolicyInv`: the walk so far has found no applicable deny, and
  `allowHit` says whether it has found an allow; so the decision is that of the whole set
  of rules, in whatever order; and leaving an attribute out can only turn an allow into
  a denial.
* *TriageBatch*, `TriageInv`: the calls made since the day was found spent, and the tasks
  already past that event, are together fewer than the semaphore admits. The one
  that found out is inside the semaphore and is neither.
* *OsintSearch*, `SearchInv`: whoever runs was promised to. *Honeypot*, `PotInv`: a row
  belongs to one session, emitted once, with what it had seen then; `StatsInv`: the
  groups read later can only have grown.

In `Intelligence_proofs`:

* *VulnScan*, `ScanInv`: the test under way was taken from the untested ones for good and
  finds an entry with its key only where another test left it, or its own first pair did
  (`TrialInv`); what was answered does not wait again, and the blind tests of an address,
  whose keys its other tests may share, come after those (`OrderInv`); every entry comes
  from an answered test (`JustInv`).
* *ThreatFeed*, `FeedInv`: what a request or the cache holds was at OTX since the request
  asked, or since the cache was stamped (`ReadSince`), however fetches overlap.
  *ThreatSharing*, `SharingInv`: each attempt has a number of its own, and each pulse an
  attempt that is recording or over. *ThreatMap*, `MapInv`: what is held was located
  less than its lifetime before it was asked for. *IocCorrelation*, `CorrInv`: a report
  in memory or in the file is a whole result, or a cluster of one, and what was
  submitted is remembered with what it was computed from; so it is enough that each
  result of the engine is honest (`ReportIsHonest`). That is about data, not steps. No name
  an author made up matters because a feed and the same feed with those names erased
  give equal answers to every question a cluster asks (`Alike`), hence the same clusters
  (`ClustersOfAlike`). A score lies between its lowest member and 100 because it is a sum
  of scores times positive weights over the sum of the weights (`WeightedIsAbove`,
  `Quotient`). Both sums are recursive functions (`Total`), which `SumExists` shows to exist
  and `TotalByPart` to add part by part, by induction over the positions.
* *OsintEntities*, `EntitiesInv`: the merged entity of a key counts the findings taken
  so far with that key, and its sources are finite and not none; with a
  new source the highest worth stays or rises, and so does the bonus for their number. *RiskScores*, `RiskInv`: facts are
  counted within what they are counted out of (`Counted`); each of the nineteen scores
  rises with each count, and each level with its score (`Rises`, `ScoreRises`,
  `LevelRises`): one lemma per score, by the arithmetic of its terms.

The three composed runs choose one part and let it run alone; `EachServiceRuns` and
`EachPartRuns` say that in their specifications every part behaves as in its own, and the theorems of the parts
carry over.

Each proof has the shape `Init => Inv`, `Inv /\ [Next]_vars => Inv'` (one step
per action), `Inv => P`, joined by a temporal step. The refinement theorems
(`LeaseRefinement`, `LedgerRefinement`) map every step to a step or a stutter of the
abstract module.

Some theorems (`ReleasedOrStale`, `FailureExplained`, `KeyKeptOnFile`, `Bounded`,
`AnswersAreWhole`) are about properties that no run repeats;
being proved, they hold on every instance.

The library's induction theorems take a predicate as a parameter, which the provers
cannot instantiate. Where induction is needed (`CorrInv`) it is done with sets instead:
a set of numbers that is not empty has a least one (`LeastOf`), so a set that has 0
and, with each number, the next one has them all (`UpTo`).

**Only model-checked**: the liveness properties (`NeverWedged`, `EveryScanCloses`,
`PaidGetsKey`, `FiledGetsMailed`, `EverythingEnds`), since neither fairness nor
ENABLED is in the prover's reach. Every invariant and action property of the passing
runs, and every refinement, is proved.

**What liveness rests on**, where it is a count that runs down, is proved as safety. A
task of a scan has at most `TaskLeft` steps before it (`TasksRunDown`), a batch `Work`
(`BatchRunsOut`), a search `SearchLeft`, a honeypot session `HandlerLeft`
(`AnswersRunDown` has the three of them in the composition). Each of its steps leaves
less, and nothing else that happens leaves more; the batch, where tasks wait for each
other with a lock in hand, is moreover shown never to be stuck (`BatchCanGoOn`). What is
left to TLC there is that the steps which can be taken are taken. For `Work` each
station counts three, since the grant of a call adds an entry to each of the two windows and a
seed replaces what it finds. `NeverWedged`, `PaidGetsKey` and `FiledGetsMailed` rest on
repeated attempts, which no such count bounds.

## Findings

Each is a run that TLC ends with a counterexample; `PROJECT.json` ("findings")
quotes the text that disagrees.

* `payments_lost`: the key's hash is committed before the raw key is written
  anywhere, and a crash in between loses it for good.
* `last_admin`: the only administrator may demote itself; the description of the
  route says that the last one cannot be demoted.
* `real_traffic_tagged`: a burst marks the newest entries of the shared log; a real
  request inspected meanwhile is among them.

The following disagreements are stated as properties in the modules, each next to
the text it quotes, and TLC finds each of them violated; they are kept out of the
runs, which are limited to the three that matter most.

| Property | Module | What happens |
|---|---|---|
| `NeverRaises` | `SchedulerLease` | two first firings both INSERT the lock row; the loser's exception leaves a function that says it never raises |
| `TimeoutsReported` | `ScanLifecycle` | a scanner's timeout is recorded by a push, and lost when the final results overwrite the row |
| `ClaimedIsCompleted` | `Payments` | a notification that read the row before another claimed it stores its in-flight status over `completed` |
| `TransientKeepsVerified` | `DomainAuthorization` | a check that times out writes `failed` over the `verified` of a concurrent check |
| `ActivatedGlobally` | `InstanceLicense` | an activation reaches the worker that served it; the other keeps its copy |
| `MiningNeverBlocks` | `IocStore` | one conflict breaks the session that was to commit the scan's findings |
| `SeenStaysSeen` | `Federation` | pings that run together write their stale copies over each other's results |
| `ResyncsToLastStep` | `ProgressSockets` | a socket that connects while a broadcast is under way misses that step |
| `EveryPulseIsAudited` | `ThreatSharing` | a value longer than the column is posted and cannot be recorded |
| `NotConfiguredMeansNothingSynced` | `ThreatFeed` | without a key the status says nothing was synced, while rows of an earlier key are shown |
| `SummaryNamesTheWorst` | `OsintEntities` | the graph keeps one entity per value, so the summary may not name the worst finding |
| `SessionsAreRecorded` | `Honeypot` | a session whose peer resets at the wrong moment ends without its callback |
| `MatchingRuleNeedsItsAttributes` | `AccessPolicy` | a rule that lacks an attribute denies only if nothing else allows |

Observed while modelling, and not the subject of a run: two logouts of one
account that overlap count as one, for the version is incremented in Python
(`web/app.py:1278`), which is why `LiveSessionsAreFresh` excepts them; several
accounts that register at once in an empty table all administer, although
`web/app.py:1348` speaks of the first registered user; an account that has
redeemed a key cannot be deleted (`web/models.py:77` has no `ondelete`); the lock is a lease that
nothing renews, so a sweep that outlasts it is joined by another, although
`web/models.py:421` speaks of one process at a time; a scan that the watchdog
failed during triage and that then completes is `done` with the watchdog's
message still in `error` (`web/app.py:2333`); a notification of a status that
`payment_routes.py:73` calls terminal without a key does not keep a later
`finished` from claiming one (`:258`); and the resend script, which promises to
skip what was delivered, may mail a record that was delivered after it made its
list (`resend_pending_deliveries.py:6`, `:43`).

In the services: the same target can be added twice by requests that race, and the
same leak stored twice, although `web/models.py:284` says it never is; a batch that mines an
indicator overwrites the source of the feed's row; a store that takes an unreadable
file for an empty one, and loads it between another worker's truncation and write,
wipes the list; two engagements created in one second share an id; ping asks a path
that a peer answers with 404, which makes it "degraded"; sockets of one worker never
hear the other's broadcasts; a worker that first reads `license.json` in the middle of a save
stays on the free plan; a failing read of MinIO silently leaves archived rows out;
`max_scans_day` is never enforced; no endpoint uses `require_abac` yet. In the intelligence: OTX's
cache ignores the limit it was filled with, and a failing page loses the earlier
ones; adding a low-scored indicator lowers a cluster's score; the "domain from URL"
strategy builds no cluster; overlapping saves of the correlation may leave an
unreadable file; the map's total counts addresses it could not locate; a lone critical
signature only alerts in one firewall and blocks in the other; a blind pair answered 200
and 429 without a known vendor is confirmed; the crawler takes forms whose action is elsewhere (the
scope then blocks their test). In the decisions: `dns_full` reports SPF as missing when
the lookup failed; provider failures inside `network_intel` and `darkweb_intel` are not
told; a failed enrichment of a honeypot event counts as low risk; the second worker never retries a port.

## What is not modelled

* Within the modelled components: wording and formatting; timestamps beyond
  their order; the details of DNS and HTTP lookups (a lookup yields a match, a
  mismatch or nothing); the refusal of internal addresses; the per-IP limiters in
  front of each route (they are `SlidingWindow`, and change no record); what a scan
  step finds, within the life of a scan (it is `VulnScan`); the provider's signature
  check and prices; passwords, the demo account (an ordinary account with a login of
  its own) and the replacement of an API key.
* Within the modelled components, too fine for what their properties tell apart: two
  ids made in the same second (`red_team.py:77`, `autonomous_redteam.py:247`; the model
  draws a new one); the three lists of `intelligence.py`, capped one by one, are one
  list; every IOC row is active, for nothing in the program makes one inactive; the federation's file
  is written in one step; the traffic log has one event loop, and the truncation before
  a write is left out there and for the VPN's server keys; what `wg0.conf` holds is not
  said (`WriteWg0`); a limiter's entry is stamped when it is written, not when it was
  compared; a license file holds nothing but what `save_license` wrote, so the tier,
  features and expiry that `load_license` takes from the file are those of its key; the
  OSINT keys are read once, while the code reads some at import and some on request; the
  `last_seen` of a finding, which no source sets; in triage, the fallback for a
  `to_thread` that itself raises, and a daily limit that the provider reports anew; the
  crawler's request for `robots.txt`, the caps on forms and parameters, and which
  names a scanner guesses. `AccessPolicy`'s `GatheringFails` also stands for a request time
  without a zone, which `evaluate` refuses.
* Text: which signatures a request matches in the two firewalls (regular
  expressions; the scores and actions that follow are `RiskScores`), the phases of the
  simulated red team, threat narratives, the MITRE tables, reports, drafts of CVEs.
* Pure input and output: most OSINT lookups and reconnaissance modules, the clients
  of HackerOne and Bugcrowd, reports, the command line, operator scripts, migrations,
  templates. They are sequences of network calls and parsing, and keep nothing that
  two of them could disagree about.
* Cryptography (`modules/quantum`, key signatures): primitives over byte strings.
* Behaviour analytics and predictors: floating-point scores of one request each; their
  files are `JsonStores`.
* The handling of the CVE pipeline's drafts: one request writes one draft at a time.

`PROJECT.json` gives each component its status and the reason.

## The plan

Done, in this order: `LeasedJob`, `SchedulerLease`; `ScanLifecycle`;
`ScanWatchdog`; `OrderLedger`, `Payments`; `ScanAuthz`, `DomainAuthorization`;
`Accounts`; their proofs; then the stores and limits (`services`), the intelligence,
the decisions, and the proofs of all of their parts. What is left:

1. **Compositions** that share state: `IocStore`'s mining inside `ScanLifecycle`'s last
   transaction; `DarkWatch`'s sweep over `SchedulerLease`, whose lapse it now takes as
   a step of its own; `ProgressSockets` over the pushes of `ScanLifecycle`.
2. **Refinement**: an abstract store (a set of entries with atomic operations) for the
   JSON files, and the condition on overlaps under which each of them implements it.

## Running it

In this directory: `tlc -config MCSchedulerLease.cfg SchedulerLease` (and so
on for each row of the table of runs) checks a model; each of them ends within
minutes on two cores. `tlapm Payments_proofs.tla` checks the proofs of a module.
