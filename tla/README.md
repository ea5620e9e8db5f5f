# Verification of the SaaS template

A verification development for this repository: a modular Rust application (`crates/app`,
`crates/platform`) whose HTTP API (`apps/api`) and worker process (`apps/worker`) share one PostgreSQL
database, a Redis cache and an S3 object store; a web client (`packages/views`, `apps/web`) with a
desktop shell (`apps/desktop`); and the scripts that run, back up, test and copy all of it
(`scripts`, `tools`). TLA+ modules model the parts that carry the system's own logic, TLC checks
small instances, and TLAPS proves the most important safety properties for every value of the
constants.

What makes this system hard is not any single request. Every backend module is written as short
READ COMMITTED transactions with hand-placed row locks; jobs are leased, and a lease can run out
under a handler that is still working; object-store and SMTP calls happen outside every
transaction and may take effect after their caller gave up. The client keeps what it has read in one
cache that outlives pages and accounts, and asks again when an answer is lost. The scripts build
things in many steps, each of which may fail. The models keep exactly that: lock by lock, statement
by statement where another actor can come between, and with late effects.

## 1. Inventory

`crates/...`, `apps/...` and `migrations/...` are paths of the repository. "Hard" names what tests
hardly reach; "Correct" what has to hold.

### Job queue (`crates/app/src/modules/jobs`)
* State: `saas_core.jobs` (status, attempts, lease token and expiry, due time, batch), the history
  tables `job_batches` and `job_attempts`, the notification intent `job_notifications`; in memory one
  lease per executing worker slot.
* Operations: `enqueue` (inside the caller's business transaction), `claim` (sweeps exhausted jobs,
  then leases one, `FOR UPDATE SKIP LOCKED`), `Lease::heartbeat`, `Lease::lock_current` (fence of a
  handler transaction), `Lease::succeed`, `Lease::fail`, `Worker::execute`, `Worker::run_until` (poll,
  drain), administrator `retry`.
* Interactions: every module that enqueues work and every `Handler`; publishes `notifications`;
  uses `idempotency` for the retry.
* Hard: expiry of a lease while a handler's transaction is open, a stale worker that finishes late,
  a crash on the last attempt, a COMMIT on the wire when the handler is dropped, retries; and, apart
  from that, whether the periods `worker.rs` accepts make the handler stop before its lease ends.
* Correct: one owner per committing transaction, history and queue agree, every accepted job ends and
  its requester is told.

### Files and object storage (`crates/app/src/modules/files`, `crates/platform/src/object_storage.rs`)
* State: `saas_core.files`, `file_candidates`, `object_cleanup`; the S3 bucket; cleanup and rescan jobs.
* Operations: start an upload, signed PUT by the client, complete (plan, copy, verify, publish or
  abandon), mark deleting, cleanup job, rescan job, maintenance; `prepare_generated` /
  `write_generated` for exports.
* Hard: copies, deletes and PUTs that land after a timeout, competing completions of one upload,
  stale workers that still delete, batches of at most 100 keys.
* Correct: the object of a ready file is intact; what may be deleted is dead for good; nothing is
  stored for ever without need.

### Identity, organization, API keys (`identity`, `organization`, `api_keys`)
* State: users, memberships (role, active, version), credentials, sessions, password resets, API
  keys, the singleton organization.
* Operations: register, login, logout, `require_session`, `background_credential`, request and complete
  a password reset, member administration, create/revoke/use an API key.
* Interactions: every other module starts with `organization::active_role_in`, the shared lock on
  the caller's membership; exports keep a reference to the requesting session.
* Hard: what was read before the locks (a verified password, a usable link, a signed-in session) is
  stale when it is used; owners administer each other at once.
* Correct: authorization still holds at commit; no session or link survives a password change or a
  deactivation; the organization keeps an owner and has one founder.

### Password-reset mail (`identity/password_reset/worker.rs`, `maintenance.rs`, `mail`)
* State: `saas_core.password_reset_mail` (sealed material), its job, the SMTP server.
* Operations: issue, revoke, consume, the mail handler, expiry maintenance.
* Hard: a crash between delivery and its record; a stale worker that removes the material.
* Correct: the material is there as long as it is needed and gone in the end.

### Knowledge (`knowledge`, `crates/platform/src/cache.rs`)
* State: `knowledge_bases`, `grants`, `documents` (version, deleted_at), `attachments`, `exports`
  (snapshot, credential, file, expiry), cleanup jobs; Redis bodies keyed by document and version.
* Operations: create, update, delete bases and documents, grant and revoke, read through the cache,
  upload, complete and remove attachments, request, build, publish and expire exports.
* Hard: the cached body is read between two authorized reads; exports run from a snapshot while
  documents, sessions and grants change; deletion of a base proceeds a batch at a time while
  documents are created, attachments complete and exports run.
* Correct: a reader sees the body of a version it was allowed to read during the read; no file is
  lost or left over; an archive leaves only while everything in it may be read; deletion ends.

### Rate limits (`rate_limit`, `crates/platform/src/rate_limit.rs`)
* State: Redis counters per window, the local table (entries, overflow, last pruned window).
* Hard: the clock is read before the mutex; falling back and returning to Redis in mid-window; full
  table. Correct: per source of truth a bounded number of requests per client and window.

### Monitoring alerts (`system/monitoring_alerts`)
* State: `monitoring_alert_rule` (state, breach start, last sample, incident). Operations: `evaluate_at`,
  change of the rule. Hard: gaps, stale and repeated samples, two evaluators. Correct: an incident is
  open exactly after an uninterrupted breach.

### Notifications, audit, idempotency (`notifications`, `audit`, `idempotency`)
Append-only rows written in the transaction of the operation they describe. The job-outcome
notification and the idempotent retry are part of `Jobs`; keys as a client meets them of `Editor`
and `Intents`.

### Web client (`packages/views`, `apps/web`)
* Session and documents (`identity/session.ts`, `knowledge/documents-view.tsx`): the session a tab has
  cached, its documents, an uncontrolled form with a baseline of its own. Hard: background refreshes,
  saves that outlive their form or their account, lost answers, other tabs. Correct: the cache is of
  the account shown; a save is over what its author saw; a lost answer creates nothing twice.
* Lists (`jobs-view.tsx` and eleven more): pages kept in the cache, read again from the first cursor,
  polled. Hard: a bounded number of pages, rows that come and go, filters, errors. Correct: pages fit
  together, and a list that polls shows the end of what is under way.
* Requests of pages (exports, retries, uploads, bases, keys, members, rules, deletions). Hard: answers
  that come late, to another page or account, or not at all. Correct: a decision has one effect, over
  the version shown, and its answer shows only to whom it is for.
* Login, registration, logout and reset links. Correct: a session that ended is not shown again; a
  fresh link keeps its token.
* Language, theme, graphics, sidebar (`shell`). State: `localStorage` and what each tab keeps. Hard:
  refused writes, events of other tabs, drags that are cut off. Correct: what was chosen holds.

### Desktop shell (`apps/desktop/src/main.ts`)
One window: loads, deep links, reconnects, the error page, crashes of the renderer. Correct: it is
never left blank and knows what to load again.

### Assembly and examples (`shell/app-contract.ts`, `scripts/example-*.mjs`)
The app is assembled from registered examples, and tools take an example out of a working copy or
put it in. Correct: an example can go without the others.

### Scripts
* Backup and restore of a deployment (`production-backup.mjs`, `production-restore.mjs`). Hard: services
  that crash, restart and write while dump, rows and bucket are read one after the other.
* Rigs of tests, measurements, smokes and drills (`e2e.mjs`, `production-smoke.mjs`, `perf`, ...). Hard: any
  line or release fails. Correct: nothing stays, and nothing loses its ground.
* `just dev` (`dev.mjs`). Hard: ports others take, changes and signals during a restart.
* Course copies (`tutorial-course.mjs`) and the project creator (`tools/create-axum-saas`). Hard: a tool
  that dies between two writes, users who write meanwhile, several at once.

### Not core logic
Monitoring queries and system status (read-only), HTTP layer, pagination and OpenAPI (parsing and
mapping), configuration, telemetry and start-up, stateless components and messages of the client,
generated contracts and SDK, checks and generators, docs, example modules and checkpoints.

## 2. Modules

| Module | Models | State |
| --- | --- | --- |
| `Jobs` | `jobs/mod.rs`, `worker.rs`, `administration.rs` | job, batch and attempt rows, leases, worker phases, open transactions |
| `JobContract` | what enqueueing modules rely on | phase, notification, number of results per job |
| `FileContract` | what the owners of files rely on | life of a file, files that can be read |
| `LeaseClock` | the timing of `worker.rs` | clock, policy, expiry, handler and heartbeat of one attempt |
| `Files` | `files/mod.rs`, `cleanup.rs`, completion in `knowledge/attachments.rs` | file, candidate and cleanup rows, the store, requests, jobs, workers |
| `Accounts` | `identity`, `organization`, `api_keys` | memberships, credentials, sessions, links, keys, requests in flight |
| `ResetMail` | `identity/password_reset` mail job and maintenance | links, material, jobs, workers, deliveries |
| `Reads` | a read in `knowledge/application.rs` with `cache.rs` | version and grant, cached bodies, writes on their way, reads in rounds |
| `Documents` | `application.rs`, `attachments.rs`, `deletion.rs`, `exports` | base, documents, files, links, exports, cleanup jobs |
| `Knowledge` | composes `Reads` and `Documents` | |
| `RateLimit` | `rate_limit/mod.rs`, platform `rate_limit.rs` | window, local table, Redis counters, requests |
| `Alerts` | `system/monitoring_alerts` | clock, newest sample, the rule, evaluations in flight |
| `Browser` | `identity/session.ts` | cookie, sessions, the tab's session and its request |
| `Editor` | `documents-view.tsx` on top of `Browser` | stored document, cache per user, form, saves, late reads |
| `Entry` | login, registration, home and reset pages on top of `Browser` | page, request in flight, reset links |
| `Lists` | every paged or polled view | rows of the server, pages per filter, one request |
| `Intents` | every page that asks for something | page, calls in flight, effects, keys, versions |
| `Looks` | `preferences.tsx`, `graphic-*.ts`, `app-shell.tsx` | storage, what each tab keeps, events under way |
| `Desktop` | `apps/desktop/src/main.ts` | document, load, rejected loads, target |
| `Console` | composes `Lists`, `Intents`, `Entry`, `Looks`, `Desktop` | |
| `Production` | `production-backup.mjs`, `production-restore.mjs` | rows, objects and services of two deployments, scripts, archive |
| `Rigs` | 18 scripts and the libraries they share | script, line, failure, what is held |
| `Dev` | `dev.mjs`, `development-services.mjs` | ports, containers, processes, restarts |
| `Course` | `tutorial-course.mjs` | files, migrations and receipt of a copy |
| `Creator` | `tools/create-axum-saas` | lock, registry, projects, creators |
| `Examples` | `example-remove.mjs`, `example-add.mjs` | working copy, its last commit, writes to do |
| `Assembly` | `app-contract.ts` | what the registered examples contribute |
| `Operations` | composes `Production` to `Assembly` with `Alerts`, `RateLimit` and `LeaseClock` | |
| `*Proofs` | theorems about `Jobs`, `Files`, `Accounts`, `ResetMail`, `Knowledge`, `Editor`, `Console`, `Operations` and the modules they compose | |
| `MC*` | instances for TLC | |

How they relate. `JobContract` is the interface between the queue and the modules with handlers:
`Files`, `ResetMail` and `Documents` contain their jobs in that reduced form (open, succeeded, failed,
and where it matters the worker that leased the job last), which is what `Jobs` is shown to provide:
`ImplementsContract` for the phases, `FenceHolds` and `FencedInOrder` for "only the last lessee commits".
`ResetMail` and `Knowledge` are shown to do nothing to their jobs that the contract does not have
(`JobsKeepContract`). `Files` reuses the slot of a settled job for the next one, so its slots are not
jobs of the contract. `FileContract` is the same between `Files` and the modules that own files: `Files` is
shown to provide it from rows, candidates and the store, `Knowledge` to use files only as it says
(both `FilesKeepContract`). The contracts are what licenses a module to see another from far.
`LeaseClock` has the clock that `Jobs` leaves open. `Accounts` takes the transactions apart that
`ResetMail` treats as atomic. In `Documents` a file is seen from far; `Files` has its objects, and
`Production` sees both from further still. `Knowledge`, `Console` and `Operations` put modules side by
side that share no state in the code: a behaviour is one of the part chosen at its start, which says
what the composition of independent parts would say without multiplying their states.

### Jobs
A job row is one entry of `status`, `attempts`, `limit`, `token`, `ttl`, `due`; a lease token is the index of
its attempt in `attemptLog`, so "newer" is "greater". `ttl` is the time left until `lease_expires_at`:
`LeaseTick` lowers it at any moment (heartbeats race the clock, so every timing of heartbeats
and handlers is included), `Heartbeat` restores it. `ClaimJob` and `ClaimNothing` are the whole of
`claim`: the sweep of exhausted expired jobs (any `SweepLimit` of them when there are more; the code prefers the oldest; each with
its notification), then at most one lease.
`tx` is the open transaction that holds a job's row lock: `LockCurrent` and `Seal` (the two uses of the
fence) open it, `CommitStep`, `CommitSuccess`, `RollbackSealed` end it; claims skip locked rows. A handler
that is dropped while its COMMIT is on the wire leaves its sealed transaction behind, which the
server then commits or rolls back. `Abandon` is a worker crash or the end of the drain period.
`published` and `fenced` are history variables.

`LeaseClock` is one attempt in ticks, for every policy `from_env` accepts: the lease is granted inside
the claiming transaction, `Start` is when its answer arrives, `SendHeartbeat`, `Renew`, `HeartbeatDone` the
heartbeat, `Over` the end or the drop of the handler, which a due tick or timeout does not wait for.

### Files
A file is its staging key, a completion request is the candidate it copies to; object contents are
`"absent"`, `"good"` (what was declared) or `"bad"`. `SendCopy` and `CopyLands` split the conditional copy, so
it may land after the caller gave up; `LateDelete` and `Put` do the same for deletes and uploads.
`MarkDeleting`, `ScheduleCleanup` (expiry, registration of at most `BatchLimit` keys, new cleanup job) and
`ScheduleRescan` are the transactions of `cleanup.rs`; `CleanupPlan`, `DeleteObject`, `RecordDeleted`,
`RescanPlan`, `RescanFinish` the steps of its handlers; `Exhaust` is the sweep of `claim`, which fails a job
whose last attempt lost its lease while the worker that had it goes on. Waiting times that only throttle
(`next_cleanup_check_at`, `next_probe_at`) may be over at any moment.

### Accounts
A request is a record in `tx[t]` that first has only what it read without locks ("ready"), then
shares its membership ("member"), then holds all its locks ("granted"), then commits; `Rollback` covers
failed checks, timeouts and lost clients. Locks are derived from `tx`: `OrganizationFree`,
`MembershipFree`, `CredentialFree`, `SessionFree` and `KeyFree` say when a lock is free, and each `Grant...`
action takes the lock together with the statement that re-reads the row, since PostgreSQL
re-evaluates a `WHERE` clause after it waited for a row. Password hashes are numbers that grow with
each change (salted hashes never repeat); sessions and links remember the number they were issued
under, which the code does not store: it is what the properties compare.

### ResetMail
One account's links with their material and jobs. The handler's first transaction is split in two
(`FindActive`, `ReadMaterial`) because `clock_timestamp()` can pass the expiry in between and
maintenance may delete the material then; delivery (`Send`) is outside any transaction and its answer
may be lost. `Exhaust` fails a job under a worker that still delivers.

### Knowledge
`Reads`: the body of version v is v itself. `ReadHeader`, `LookUp`, `Reread`, `ReadFresh` are the statements of
a read, in at most two rounds; a cache that does not answer in time is not asked again; `WriteArrives`
is a cache write that may be later than its request. `seen` is a history of the versions that were readable at some
instant of the read. `Documents`: every action that touches a document is one transaction, which holds
membership, base and document; `CleanupBase` and `CleanupDocument` take `Batch` rows at a time;
`BeginExport`, `PrepareArchive` and `PublishExport` are the three authorizations of an export, between which
anything may happen.

### Rate limits and alerts
A request of `RateLimit` reads the clock (`Arrive`), takes the mutex (`CountLocally`), then asks Redis
(`RedisAnswers`) or falls back (`FallBack`); `LoseCounters` is a Redis that restarts. `jumps` and `late` count
the overtakings that the limits have to allow for. `Alerts` counts time in evaluation intervals; the
disjuncts of `evaluate_at` are the actions `Evaluate...`, and `seen` is the sequence of observations that
an ideal observer would judge.

### The client
`Browser` holds the cookie all tabs share, the session of this tab, and the request that refreshes
it; `Editor` and `Entry` extend it. A save of `Editor` is sent, served and finished in steps, and runs on
when its form is unmounted; `Elsewhere` and `WriteElsewhere` are other tabs, writers and administrators.
A save that is denied reads the document again (`RefreshPermission`) through the page it was submitted
on, also after that page was left: `left` keeps the user whose document that page read last, and `late`
what such reads bring of users the tab does not show (`LateServed`, `LateEnds`).
`Lists` has one record per view that says whether and how it polls, how many pages it keeps and how
its rows may change; `Poll`, `Refresh`, `Further`, `Reload`, `Choose` start a request, whose pages arrive one
at a time. `Intents` has one record per operation that says when its key is renewed, what leaves with
the page and what names a version. In `Looks` the storage refuses writes and events arrive late. In
`Desktop` the promise of a replaced load is rejected later (`HandleRejection`).

### The scripts
`Production` follows both scripts statement by statement while services `Crash`, `Restart`, store and
remove. In `Rigs` a script is a sequence of lines, assembled from the operators that stand for the
functions of `scripts/lib`; any line and any release may throw. `Dev` has the restart of `dev.mjs` between
two awaits. `Course`, `Creator` and `Examples` may die between any two writes. In `Examples` one path
lies in a directory that is claimed (`Within`). `Assembly` enumerates what up to two examples can
contribute.

## 3. Runs

| Run | Instance | Question |
| --- | --- | --- |
| `jobs_races` | 1 job, 2 workers, 1..2 attempts, 2 batches, lease of 2 ticks, `FairSpec` | Does every interleaving of two workers, expiring leases, commits in flight, crashes and an administrator keep the safety properties and the contract, and does every job settle? |
| `files` | 1 file; 2 completions, or 1 and 2 workers; batches of 1 | Do competing completions, expiry, deletion, maintenance, stolen leases and retries ever damage, resurrect or forget a file? |
| `files_live` | 1 file, 1 completion, 1 worker, `FairSpec` | Is every object removed that no ready file serves? |
| `accounts_resets` | 1 member, 3 requests, 2 links, 1 session, 1 key | Sign-in, reset and key management of one member against each other. |
| `accounts_members` | 2 members, 2 requests, 1 link, 1 session | Registration and administration of members against each other and against sign-in and reset. |
| `accounts_docs` | 2 members, 2 requests | Expected violation: see Findings. |
| `resetmail` | 2 links, 2 workers, maintenance batches of 1, `FairSpec` | Is the material there as long as it is needed, and gone in the end? |
| `knowledge` | 2 reads of 2 versions; 2 documents, 2 files, 1 export, batches of 1 | What does a read answer; what becomes of files and exports while documents and their base are deleted? |
| `editor` | 2 accounts, 2 roles, 3 versions, 2 saves | What does a tab keep, save and create while accounts, roles and the document change? |
| `console` | lists of 3 rows read one at a time; 2 accounts, 2 links, 3 submissions; 2 tabs; 1 window with 2 pages | Do lists, requests, entry pages, looks and the desktop window stay right whatever comes late? |
| `desktop_docs` | 1 window, 2 pages | Expected violation: see Findings. |
| `operations` | one of ten parts, bounds in `MCOperations.cfg` | Do backups, alerts, limits, leases, rigs and tools keep what they promise? |

Why the bounds suffice: each hazard needs at most one victim and two or three competitors. One job
(or file) with two workers gives every pair of an old and a new lease; a second batch makes an
attempt of a superseded batch possible; two attempts make "not the last" and "the last" differ; two
lease ticks let a heartbeat come in time or too late. Two completions allow one winner and a loser
that verified good bytes or found bad ones (`PublicationCorrect` covers any number). Batches and pages of one row make every
limit bite. Two members are enough for "the other owner" and three requests for two that conflict
and a third that profits. Two versions and two rounds are what a read can be overtaken by; three
rows give a first, a middle and a last page where two are kept. Two windows and three requests let
one overtake another and a third profit; leases up to five seconds include odd and even halves; four
intervals hold a breach, a gap and a recovery. Theorems remove these bounds where they are proved
(section 5). A sweep that gives up one job while it leases another, or that its limit cuts short, needs
more jobs than one, which no run has: the proof of `ImplementsCorrect` covers both.

Every bound is a constant of its module (`Max...`) or a constraint of an `MC` module.
* `RequestsOrWorkers` (`MCFiles`): completion requests race while no job runs, or there is one, whose
  object is good, and workers. Workers only meet keys that are listed, and listed keys are deleted
  at any time by late deletes in the first half too. `OneAtWork`: when a job is exhausted, at most one
  worker is still at work; `NoneOnIt` (`files_live`): none is at work on that job.
* `Bounds` (`MCEditor`): three events in one session, or two over two (`FewEvents`), and one story of
  four events over three sessions (`RefusedLate`): a save refused after its page was left and another
  user has logged in, what it reads then, and the return of the first user.
* `OneAtItsMaximum` (`MCAccounts`, for `accounts_members`): one password or one membership is changed
  as often as its maximum allows, the others less often.
* `Bounds` (`MCOperations`): once the backup has ended, production bears on a restore only by what is
  sent to it astray and by being up or down. A restore that sent objects astray fails, because
  nothing is promised of it (section 4), and the deployment of a failed restore rests, because the
  next one throws it away. An app that is refused is not looked at.

`MCOperations` looks at a state through the `VIEW` `LookedAt`: the nine parts that a behaviour did not
choose stay at their initial values, and production is out of reach once the backup has ended and
the origin leads to the restored deployment. No future differs in what the view leaves out.

Symmetry is declared for interchangeable workers, candidates, users, sessions, links, requests and
files where no liveness is checked. Deadlock is checked but for `console`, `operations` and `knowledge`,
which have parts that end: a script finishes, a bounded window or list has no step left, all
documents are deleted. Elsewhere a request may always begin, expire or roll back.

### Properties
* `Jobs`: `FenceHolds` (an open fenced transaction owns the current attempt); `RecordsAgree` (rows,
  batches, attempts and notifications tell one story: `HistoryAgrees`, `AttemptsAccounted`,
  `OutcomeNotified`); action properties `HistoryIsFinal`, `FencedInOrder`; refinement
  `ImplementsContract`; liveness `EveryJobSettles`. `LeaseClock`: `DroppedInTime`. The contracts that other
  modules keep (`JobsKeepContract`, `FilesKeepContract`) are proved and stand in no run.
* `Files`: `PublicationIsSound` (`ReadyObjectIntact`, `OnePublication`, `DeletableIsDead`),
  `DeletedIsScrubbed`, action property `VerdictsAreFinal`, liveness `NoOrphans`.
* `Accounts`: `AuthorizationHolds`, `SessionsAreCurrent`, `LinksAreCurrent`, `ResetsAreOnce`
  (`OneRecentLink`, `OneChangePerLink`), `OwnerRemains`. `ResetMail`: `MaterialUntilSent`, liveness
  `MaterialVanishes`.
* `Reads`: `BodyOfVersion`. `Documents`: `FilesAreAccounted` (`LinksAlive`, `NothingLeft`), action property
  `ExportIsCurrent`, liveness `DeletionEnds`.
* `Editor`: `CacheIsOfSession`, `CreatedOnce`, action properties `SavesWhatWasSeen` and `NeverOlder`.
  `CacheIsOfSession` does not say that the tab holds nothing of another user, because it may: a save of
  a page that was left, refused after another user logged in, reads the document again under the former
  user's key with the present cookie (`documents-view.tsx:521-524`, 1166-1169). `docs/tutorials/03-sessions.en.md:45`
  and `apps/web/src/knowledge.test.tsx:681` say that late responses do not populate a cache after an
  identity change; the test covers the save that succeeds. The property says what is left of that: the
  entry is of a user the tab does not show, and is gone before it shows that user again.
* `Lists`: `PagesContiguous`, liveness `EndIsShown`. `Intents`: `OneEffectPerIntent`, action property
  `ActsOnWhatWasShown`. `Console`: `ShowsOnlyOwn` (`ShowsOwn` of `Intents`, `EntryIsCurrent` of `Entry`).
  `Looks`: `LooksHold` (`PicksWin`, `LatestShown`, `WidthIsStored`). `Desktop`: `WindowIsUsable`.
* `Production`: `BackupsHold` (`ArchiveComplete`, `RestoredIntact`). `Alerts`: `IncidentIsSustained`.
  `RateLimit`: `WithinBudget`. `Rigs`: `RigsAreSound`. `Dev`: `DevKeepsToItself`. `Course`: `CourseIsKept`.
  `Operations`: `ProductsAreApart` (`PortsAreApart`, `ExamplesAreApart`, `AssemblyHolds`).

Each property is stated in words above its definition. Where it holds under a condition only, the
condition is part of it and section 4 says why. Definitions whose name starts with `Faulty` are
plausible mistakes (a dropped guard, a missing reset, a wrong order) that no action uses; put in the
place of the definition that follows them they break the property they are meant for.

### Fairness
* `Jobs!Fairness`: workers poll for ever (`run_until` sleeps and polls again); a handler is bounded by its
  timeouts, so it ends with an error or a lost lease; a failure that is to be recorded is recorded or
  the process dies; the server resolves every transaction; clocks advance. Claims are strongly fair
  per job, because claimability comes and goes with row locks and the order of `claim`
  (`scheduled_at, id`) prefers the job that waited longest. Nothing is assumed about success.
* `Files!Fairness`: uploads expire, maintenance runs every period, cleanup and rescan jobs are claimed,
  handlers make progress, faults (`Exhaust` is one) do not recur for ever. It also assumes that an administrator
  retries a failed cleanup job: maintenance enqueues a new one only when the file has none or its last
  one succeeded (`cleanup.rs:174-179`), so a cleanup job that used up its attempts stays failed until then.
  Clients, requests and late effects owe nothing.
* `ResetMail!Fairness`: links expire and maintenance runs. No worker and no administrator is needed.
* `Knowledge!Spec`: a cleanup that can go on does (an open job is claimed, and again after a lost
  attempt). A cleanup that is given up is an outcome of `DeletionEnds`.
* `Console!Spec`: the interval of a polling list fires, and a request is answered or fails in time,
  which the transport's timeout makes it.

## 4. Findings and conditions

`accounts_docs`: `docs/index.en.md:73` (and `docs/index.md`) says that role changes and deactivation revoke
sessions immediately. `organization/management.rs:310` revokes sessions only on deactivation; a role
change leaves them alive. The run shows a member whose role changes while a session stays. The
tutorial `docs/tutorials/08-members.en.md:41` promises revocation for deactivation only, and every
request reads the role anew, so the page is what should change.

`desktop_docs`: `apps/desktop/src/main.ts:151` says that in-app navigation is tracked so that a retry
returns to the page the user was on. The next lines do it on `did-navigate`, which is for documents:
the router moves within one, so after a crash of the renderer the window returns to the document it
was last loaded with.

Conditions that modelling brought to light, and that the properties name where they matter:
* Lease timing: when the heartbeat period is exactly half the lease, the handler may outlive its lease
  by what the claim took to answer, until the first renewal (`DroppedInTime`). Commits are safe: they
  need the fence.
* Rate limits: a request that read the clock in an older window prunes the table of the newer one,
  which lets the process start its count again (`jumps` in `WithinBudget`). A counter Redis loses allows
  its limit again.
* Backup: the worker is looked for once; one that Docker is about to restart at that moment is not
  stopped (`production-backup.mjs:127`; `blind`). Restore: objects go through the public origin, and
  while it still leads to another deployment they go there (`production-restore.mjs:150`; `astray`). That
  is the one listed hazard no property covers: the script has no other way to the bucket, so what it
  writes elsewhere depends on what the operator has pointed the origin at. A failed restore leaves
  the report of an earlier one in place. Restore compares names and sizes, never a digest
  (`production-restore.mjs:146-150`, 203), although the manifest holds them: archived bytes exchanged for
  others of the same size get through. `RestoredIntact` says that no other damage does (`swapped`).
* Rigs: what a failure leaves behind although nothing refused to go is `Strays`: `e2e.mjs` launches its
  api before the `try` that would stop it, `e2e-docs.mjs` builds before it, `startStack` fails before its
  caller knows the processes, `scaffold-smoke.mjs` keeps its logs, two checks of the course read
  files between making their directory and its `try`, and `production-restore-drill.mjs` reads its
  secrets back (79) between writing them (54) and the `try` (130) that removes them, although its
  comment (467) says that they never outlive the drill.
* Course: a copy whose upgrade died is refused from then on, so the learner needs a new one. The
  learner is taken not to write while the script does.
* Creator: one killed between the rename of its directory and the save of the registry leaves a
  project without a reservation (it was never reported as created); a project that is moved loses its
  own.
* Examples: ownership is compared string by string (`lib/example-remove.mjs:156-160`) and paths are deleted
  recursively (346), so one example may claim a path inside a directory another owns, and loses it when
  that one is removed, although the comments at 146-150 and 231-234 call exclusive ownership a hard
  constraint that keeps a removal from deleting what another example still needs. `OthersUntouched`
  says that nothing but this goes (`Swept`). Core is taken to lie in nobody's directory. As shipped, `notes` has to be added before it can be removed.
* Assembly: `validatedExample` lets an item of navigation lead to a route of an example registered
  earlier, which then cannot be removed alone (the condition of `AssemblyHolds`).
* Looks: a refused graphic is kept by its tab until a later event or choice (`LatestShown`).
* Desktop: a replaced load also ends in the handler of failures, which shows the error page although
  the comment above it speaks of real failures; the window stays usable.
* Reset mail: it may leave after its link was ended, or twice. Its receiver then finds a link that
  does not work.

## 5. Proofs

The modules named `...Proofs` are checked by TLAPS with no assumption but those on the constants that
each module names (`JobsAssumption`, `FilesAssumption`, ...): finite sets where cardinalities are taken,
model values that differ, bounds that are natural numbers, batches, pages, windows and groups of ports
of at least one. TLC evaluates them in the run of their module.

`JobsProofs`: `TypeCorrect`; `FenceCorrect`, by an inductive invariant `FenceInv` that adds to `FenceHolds` how
tokens, logs and the fenced history relate (a token is never newer than the attempt log, a lease a
worker remembers is one it was given, the last fenced commit is not newer than the log);
`PublishedOnceCorrect`, from `FenceInv`, because only the transaction that holds the row lock of a running
job publishes; `FencedInOrderCorrect`; `HistoryIsFinalCorrect`, whose steps rest on lemmas on what the log
operators leave alone; `RecordsCorrect`, by the invariant `StoryInv`: a job that was never enqueued has
no records, the latest batch repeats the job row, the attempts of each batch are numbered without a
gap up to its count, at most the attempt of the current token runs, no attempt belongs to a batch to
come, and what was notified was the outcome of a batch; `ImplementsCorrect`, the refinement: initial
states map to initial states and each action to one action of `JobContract` or to a stutter (a poll maps
to `GiveUp` of the jobs it sweeps, which are exhausted ones: `SweepsExhausted`).

`FilesProofs`: `PublicationCorrect`, `ScrubbedCorrect`, `VerdictsCorrect`. The invariant adds `Candidacy` (a
candidate has a file from the first transaction of its request on, and a file takes its object from
one of its candidates once), `HeldIsListed` (what a worker may delete is on the list, however old its
lease) and `VerifiedIsStored` (the copy a request has verified is in the store as long as it may be
published, although other copies and deletes land late). `ContractKept` is the refinement of
`FileContract`: each step begins one file, publishes one, or discards some (`LifeSteps`), and what can be
read is what is ready, because `PublicationIsSound` has the object of a ready file in the store.

`AccountsProofs`: the invariant `IInv` has three layers, since none of the properties is inductive
alone. `LocksExclude`: which granted requests exclude each other. `RequestFacts` and
`AuthorizationHolds`: what a request knows while it holds its locks. Row facts: members, versions and
passwords exist together, plus the properties themselves. Locks are kept because a grant finds them
free (`LockLocks`); knowledge is kept because a commit changes only rows that no other granted request
relies on (`CommitKnown`); rows are kept because a commit writes what its request knows (`RegisterRows` to
`UpdateRows`). `MaxHash` and `MaxVersion` only limit which requests begin; no theorem depends on them.

`ResetMailProofs`: `MaterialCorrect` and `DeliveryCorrect`, from an invariant that adds to them only that a
worker about to record a delivery has seen it accepted; the fence supplies the rest, since whoever
removes the material is either the last lessee that ends the job or finds the link ended.
`ContractKept` is the refinement of `JobContract`: a step moves one job along `Moves` or none (`OneMoves`),
and a link that was never issued has no job (`EnqueuedWithLink`), so none is enqueued twice.

`KnowledgeProofs`: `ReadCorrect` from `CacheIsTrue` (an entry holds the body of its key, and so does a write
on its way) and `ReadOK` (a running read has seen the key it looks up, and the version of this moment).
`AccountedCorrect` from `FilesInv`: what is attached was uploaded to the document it was made for, the
archive of an export is no upload and in no snapshot, no file is the archive of two exports, links
and ready files match in both directions, and a document that is gone is bare. `CurrentCorrect`: the
publication holds the locks under which it looks at the attachments again. `FilesContractKept`: what a
removal, an expiry or a batch takes is linked, hence was made (`LinkedWereMade`), and an upload that
ended before stays dead when a cleanup meets it. `JobsContractKept`: nothing is queued for what is not
deleted (`JobsBegin`), so that a batch of the base cleanup enqueues jobs for documents that have none;
a step enqueues or gives up several, and completes or reopens one (`JobsMove`). Notifications are not
part of either mapping: they are written by the queue, where `ImplementsCorrect` accounts for them.

`EditorProofs`: `TypeCorrect`, `SessionCorrect`, `CreatedCorrect`, `SavesCorrect`, `NeverOlderCorrect`, all
from one invariant. A session's number names one user, and a request for the document and a form
are of the user that the tab shows (`RequestIsOwn`, `FormIsOfSession`), which is why no page shows an answer of
the account before; `LateMove` says that what is read late is of a user the tab does not show, until a
session change empties it. `OnNew` and `OffNew` keep the page of a new document apart from the others: version
0 is there and nowhere else. `BaseIsSeen` carries "was on the screen" from the form to its save.
`AnswerIsNotOlder` is what makes an action property provable: an answer on its way is not older than what
it replaces, nor than what a save that waits for it will have put there. Keys belong to one user
and are as many as the texts they were drawn for, and the documents are as many as the keys the
server completed (`KeysAreOwned`, `KeysAreTexts`, `CopiesAreClaimed`).

`ConsoleProofs`: a step of `Console` is a step of one part and leaves the others alone (`PartSteps`), so that the
invariant is the conjunction of one for each part.
* `Intents` (`OncePerDecision`, `AcceptedAsShown`): a key stands for one decision, and a decision that carries a
  key has one that is not dead, the page's unless it is done (`KeyIsOfDecision`, `DecisionHasOneKey`,
  `DeadKeys`); a request that is not orphaned is the one its page waits for (`WaitedFor`). A second effect
  would need a second living key.
* `Entry` (`OnlyOwnIsShown`, with `Shows` of `Intents`): nothing that a cookie, a tab or an answer under way
  holds was ended (`NothingEndedIsLeft`), which needs what a logout knew when it was asked for
  (`LogoutKnows`); a reset page holds the token of its own link or none (`TokenIsOfLink`).
* `Lists` (`PagesAreContiguous`): the pages of a list form a `Chain`, each read from the cursor at which the one
  before it ended, and so do the pages of a request that reads them again (`RequestFollows`). What is
  missing on a page came later than all of it (`ComeLater`); rows are born in turn (`BirthsInTurn`), so it
  belongs before or after everything that was read and not in between. For two rows with a third between
  them the proof takes the first page that ends after the third: it would have to be on that page.
  Page sizes, numbers of rows and of pages that are kept are arbitrary; `Rank` and `Nth` say without
  recursion which rows a page has.
* `Looks` (`LooksAreKept`): a tab that has heard of everything and had nothing refused shows what is stored
  (`ShowsStored`, `SettledIsStored`). `Desktop` (`WindowCorrect`): the window shows its goal (`ShowsItsGoal`).

`OperationsProofs` has the same shape.
* `Production` (`BackupsCorrect`): from the dump to the manifest no row changes, because the services stopped for
  it stay stopped (`ServicesStopped`, `ArchiveAgrees`), hence every ready row of the dump is listed; a restore
  works on an archive that no script writes to any more, in a deployment whose services have not run
  before all was sent (`RestoreKnows`, `RestoredObjects`).
* `Alerts` (`IncidentsCorrect`): the property judges a whole sequence of observations, the rule keeps one instant
  of it. `RowKnowsRun` says that this instant is the start of the longest run of breaches at the end of
  the sequence, and `SeenInOrder` that observations never go back in time, however evaluators overtake
  each other. Only the last two entries of the sequence matter to a step; no induction is needed.
* `LeaseClock` (`DroppedCorrect`): a handler at work has a period left after its next heartbeat, and the timeout of
  one that was sent ends with the lease (`RoomIsLeft`).
* `RateLimit` (`BudgetCorrect`): `RedisKeepsCount` accounts for what Redis let through in each window by its counter,
  its losses and late counts; `ProcessKeepsCount` counts, besides what the process let through, the requests
  that it has counted and may still let through (`Granted`), in the entry of the client or, once the
  table is full, in the overflow.
* `Dev` (`DevCorrect`): what was brought up has its own port or runs bare (`PortsAreOwn`); only the latest
  processes are alive, and close waits for all of them (`OnlyLatestLive`).
* `Course` (`CourseCorrect`): nobody looks at a copy while a setup works on it, so the invariant speaks of what
  the copy is to become: every file but those still to write is as the receipt to come says, as long as
  no setup died (`PromiseIsKept`). One that did shows: migrations it wrote that the receipt does not know
  come with a module of its checkpoint that the receipt does not know either (`DeathShows`), at which every
  later upgrade stops. That is why a migration is installed once although a dead setup is not undone.
* `Creator` (`PortsCorrect`): only the creator under the lock works on the registry (`LockIsHeld`), and what it has
  read there covers every project that was reported (`RegistryKnows`), whoever died before it.
* `Examples` (`ExamplesCorrect`): the working copy and its last commit satisfy the same condition (`CopyHolds`), so
  that a checkout may happen at any time; a removal at work has taken what it has written so far, and
  only what its example alone claims (`RemovalIsExact`) and what lies in its directories (`Swept`), where a
  removal that begins finds every claimed path in place, so that nothing swept before is claimed.
* `Assembly` (`AssemblyCorrect`): a fact about any sequence of contributions; an example that is taken out moves the
  later ones up, and the first entry that remains is the same unless it was its own.
* `ProductsCorrect` joins the last three in the property that the run checks.

Only model-checked are the liveness properties (`EveryJobSettles`, `NoOrphans`, `MaterialVanishes`, `DeletionEnds`,
`EndIsShown`), which rest on fairness and `ENABLED`, and `RigsAreSound`: `Rigs` has no parameter and only runs
straight through its scripts, so TLC visits all of its states and a proof would say no more.

## 6. What the models leave out
* Backend: payloads, error texts, correlation and trace identifiers, audit rows, job kinds and schema
  versions; expiry of sessions and API keys, scopes, cookies and CSRF on the server, password hashing
  and sealing; the objects of generated archives and how an archive is built; presigned URLs and
  downloads; expiry of idempotency keys; the inbox of notifications.
* Row-lock cycles between modules: PostgreSQL aborts one of the transactions, which every model
  already allows as a rollback or a failed attempt.
* One clock is assumed where the code compares API host time with database time
  (`files/mod.rs:377`): publication checks again with the database's.
* The classification of paths by the rate limiter, the percentage of the alert rule.
* Client: layout and wording, titles and texts, the collection of cached queries nobody reads after five
  minutes, the cooldown after a refused request, renaming and grants (one request without a key
  each), downloads; of the desktop shell, permissions, external links, the language and theme it mirrors for the error page, and a replaced load that commits late.
* Scripts: a script killed by a signal unwinds nothing and is left out of `Rigs`; what a journey looks
  at inside a page; the text that tools rename, trim or regenerate; the default entry that a
  deployment pins in the assembly.
* Not modelled at all, because it keeps no state of its own: HTTP mapping, pagination and OpenAPI,
  configuration and telemetry, read-only monitoring queries, stateless components, generated code,
  checks and generators, documentation.

## 7. What could come next
1. The archive of an export as an object in `Files`, with `write_generated` landing late.
2. The inbox, whose read marker is written with `COALESCE`, with `Lists` as its reader.
3. `Files` with a job per cleanup instead of reused slots, so that its jobs refine `JobContract` too.
